# up-update in TLA+

up-update is a Go service that polls Bilibili for the new videos of the creators
its users follow and pushes a notification for each through Bark. It keeps
everything in one SQLite database. This directory models the parts of it in
which several things happen at once or in which an order of events matters,
checks them with TLC, and proves the central ones with TLAPS.

Its web interface is a Vue application with one page per view. Paths below are
relative to `internal/app/`, those of `.vue` and `.ts` files to `web/src/`.

## 1. The system

| Component | State | Operations | What is hard |
|---|---|---|---|
| Poll goroutine (`workers.go` 11-155) | `poll_states`, `creators`, `videos`; `lastPeriod` | every 2 s: notice a change of period, poll the first due creator, record videos, enqueue deliveries, back off | several statements per poll, requests in between; FK on a deleted creator |
| Poll schedule (`schedule.go`) | `app_settings.poll_schedule` | sleep, work and free periods with an interval each; recalculation of `poll_states` | midnight, touching windows, stale intervals |
| Delivery goroutine (`workers.go` 157-212, `bark.go`) | `deliveries` | every 3 s: first due row, defer or push, record, retry (1 m, 5 m, 15 m, 1 h, 6 h), give up at the 6th failure | crash between push and record, cancelling, deferral against retry |
| Subscriptions (`subscriptions.go`) | `subscriptions`, `creators`, `videos`, `poll_states` | subscribe by UID, import followed accounts, pause, remove, cancel a notification | a fetch, then a transaction, then more transactions |
| Accounts (`auth.go`, `admin.go`) | `users`, `sessions`, the login limiter | log in and out, create, disable, delete, reset | deletion cascades to what others use |
| QR login (`bilibili_qr.go`) | `App.qrSessions` under `qrMu`, one mutex per session | open, poll, cancel, close all of a user | two kinds of locks, calls to Bilibili with one held |
| Credentials (`settings.go`, `workers.go` 214-322) | `integrations.bili_*`, `bili_refresh_tokens` | save, delete, check, renew, mark as refused | a renewal crosses a save or a deletion; crash before confirmation |
| Clients, helpers (`bilibili.go`, `bilibili_auth.go`, `crypto.go`, `config.go`, `http.go`, `password.go`) | none | requests, signing, encryption | conversions only |
| Tabs of a browser (`api.ts`, `state.ts`, `main.ts`, `router.ts`, `App.vue`, `views/LoginView.vue`, `views/PasswordView.vue`) | the cookie, shared; per tab the user shown, the CSRF token, the page | load, navigate, log in and out, change the password, send a request | tabs know nothing of each other; answers change the cookie late |
| Settings page (`views/SettingsView.vue`) | the QR dialog, its timer, requests under way | open, poll every 1.5 s, close, regenerate, leave | an answer runs the rest of its function whatever has happened since |
| Subscriptions page (`views/SubscriptionsView.vue`) | the list, the refresh timer, the import dialog | load, switch, remove, add, choose and import followed accounts | optimistic switches against loads; overlapping loads |
| Notifications page (`views/HistoryView.vue`) | the page shown, the address | load, turn, back and forward, cancel | address and page follow each other |
| Administration page (`views/AdminView.vue`) | three dialogs, one password field, the schedule form | add, reset, remove, switch a user, save the schedule | late answers close dialogs, loads write over edits |
| Home page (`views/HomeView.vue`) | none | | |

**Interaction.** Three goroutines and the HTTP handlers share the database, whose
pool has one connection (`db.go:26`): a statement, or a transaction from its
first statement to its commit, excludes every other one. Nothing spans two of
them except `App.deliveryMu` (`deliverOneAt` and `deletePendingDeliveryHandler`
hold it for the whole call), `App.qrMu`, and the mutexes of the QR sessions. So
the interleavings that matter are those between statements: what is read in one
and used in another, and what happens during a call to Bilibili or Bark.
Errors of many single `UPDATE`s are dropped, so they are failures that the next
step does not notice. The process may stop at any point; it repairs
`poll_states` when it starts (`schema.sql` 116-123).

In the browser a function runs alone until it awaits; between two awaits
everything else may happen: other answers, timers, the user, another tab. A
page that is left does not cancel its requests. The pages share only the
session, and of them `RouterView` shows one at a time.

**What makes each part correct**

* Delivery: nothing is pushed twice unless a crash, a failed write or a lost
  answer makes it unavoidable; cancelled means not pushed; attempts are bounded;
  a deferral is justified by the windows in force; a retry delay is kept; every
  notification is settled.
* Feed: no notification for a video from before the subscription, none lost,
  none repeated; deletion of a user spares the others; rows refer to rows.
* Poll queue: backoff is kept; a schedule reaches every row; nobody starves.
* QR login: one code per user; one poll at a time; a removal ends and no poll
  puts the credential back.
* Credential: a token belongs to its cookie; the stored credential is the last
  one chosen; the program never ends the cookie it stores; a wrong mark heals.
* Sessions: a write is done for the user whose page asked for it; a reset ends
  what the old password had opened; no tab shows a page its user may not see.
* Pages: a confirmed QR login is noticed and polling ends; switches, addresses
  and selections agree with the server, the page shown and the page chosen
  from; refreshing ends, but not before what it waits for is shown; a password
  goes to the user it was typed for.

## 2. Modules

| Module | Contents |
|---|---|
| `Schedule` | windows, validation, periods, transitions, deferral instants, as pure operators over a day of `Day` minutes |
| `MCSchedule` | walks the day minute by minute under every schedule and quiet window, with reference definitions |
| `ScheduleProofs` | theorems about the window arithmetic and the next transition |
| `MCScheduleProofs` | the two properties of `MCSchedule` for a day of any length |
| `Delivery` (extends `Schedule`) | the delivery goroutine and the handlers that touch its rows |
| `DeliveryProofs` | inductive invariant; theorems about the queue, its refinement of `Notification`, and deferral |
| `Notification` | the abstract specification: what becomes of a notification, and how often the phone is reached |
| `Feed` | from a published video to the rows of `deliveries`; each tab of a user has one request that adds subscriptions |
| `FeedProofs` | theorems about references, history, loss, repetition and deletion |
| `PollQueue` (extends `Schedule`) | `poll_states` over time |
| `PollQueueProofs` | theorems about backoff and about schedules that reach every row |
| `QRLogin` | the sessions of one user, with both kinds of locks |
| `QRLoginProofs` | theorems about codes, locks and removals |
| `Credential` | the stored credentials and the maintenance goroutine |
| `CredentialProofs` | theorems about pairing, the last choice and confirmation |
| `WebSession` | the tabs of one browser, and the accounts and sessions of the server |
| `SettingsPage` | the QR dialog and its polls, with the server's codes in short |
| `SubscriptionsPage` | the list of subscriptions and its timer |
| `FollowingsDialog` | choosing followed accounts |
| `HistoryPage` | the notifications page and its address, also after it was left |
| `AdminPage` | the dialogs and the form of the administration |
| `WebProofs` | theorems about sessions and about the subscriptions, followed accounts, notifications and administration pages |
| `MCWeb` | composes the six of the web interface |
| `MC...` | instances for TLC |

How they fit: `Delivery` and `PollQueue` use the operators of `Schedule`, so that
the deferral and the interval in their steps are the ones `MCSchedule` checks.
`Feed` enqueues what `Delivery` delivers (`EnqueueDeliveries` there is the effect
of `RecordVideos` here); it lets any creator worth polling come next, and
`PollQueue` shows which one does and that each one does. `QRLogin` ends in the
save that is `SaveBiliCredential` in `Credential`. `Delivery` implements
`Notification` under the refinement mapping `Fate`, `pushes`, `unrecorded`.

`WebSession` has both sides of a session: `LoginCheck`, `LoginInsert`,
`ServeOther` and the rest are `auth.go` and the sessions of `admin.go`.
`SettingsPage` has of `QRLogin` what a page can tell apart. `MCWeb` puts the
pages together: `focus` names the one that a behaviour is about, the others
rest, since only one is mounted and they share nothing but the session, whose
end reloads the page and drops what it had in memory.

### State and actions against the code

* A **statement or transaction is one action.** A handler that does several of
  them is several actions with a record of where it is (`pc`, `req[h]`,
  `poll[h]`, `removal`, `m`); its locals are variables or fields. What a handler does
  in memory between two statements belongs to the next action. Early returns
  without effect are missing guards: the action is not enabled.
* **Dropped errors** are actions of their own (`WriteFails`, `CommitFails`,
  `AdminRequeueFails`, `ImportRecordFails`), bounded by `MaxFaults` where they would never end.
* **Calls to Bark and Bilibili** end in any of the outcomes the client tells
  apart. An answer that is lost after the other side has acted is an outcome
  (`BarkAnswerLost`, `Confirm`).
* **Time.** `Delivery` and `PollQueue` keep instants relative to the present, in
  minutes; `Tick` lowers them and `-LongAgo` stands for everything at least that
  old, so time itself is unbounded. `Feed` counts seconds up to `MaxTime`, and the
  last second lasts: what it needs of time is whether two events share a second.
  `Credential` keeps ages.
* **Data.** A video, a user, a creator is a number or a model value; a
  credential is a number for the cookie and the token issued with it. Names,
  titles, messages and encodings are left out. Encryption appears as the fact
  that no two ciphertexts are equal, on which the compare-and-set of a renewal
  rests.
* **History variables** (`cancelled`, `pushes`, `owed`, `wait`, `late`,
  `chosen`, ...) record what a property needs to remember. No action of the code reads them.
* Operators named `Faulty...` are wrong versions of the operator that follows
  them, each a bug somebody could make there; each property fails for one of them.

Actions follow the code's names: `SelectDelivery`, `DecideDeferral`,
`RecordDeliveryFailure` in `Delivery` are the parts of `deliverOneAt`;
`PollSelect`, `PollFetch`, `PollRecord` in `Feed` those of `pollOne`;
`RemovalCollect`, `RemovalUnlock`, `RemovalWait` in `QRLogin` those of
`cancelBilibiliQRSessionsForUser`. In the browser an `async` function is two
actions, `CloseQR` up to its request and `CloseAnswered` for the rest; a request
is a record that is sent, served and answered, or fails on the way. `PROJECT.json` has the lines of each definition.

## 3. What TLC checks

| Run | Instance | Shows | States |
|---|---|---|---|
| `schedule` | day of 5 minutes, up to 3 work windows, every quiet window | deferral ends and transitions agree with definitions that walk the day | 67 200 |
| `delivery_row` | 1 row, 3 attempts, 2 changes, 2 faults, overlapping windows over midnight | all safety properties of the queue, and that it implements `Notification` | 527 484 |
| `delivery_live` | 1 row, every window, change and fault | every notification is settled | 56 683 |
| `feed_import` | 2 users import 1 creator, deletion | nothing lost or repeated, and everyone is notified in the end | 376 086 |
| `feed_add` | 1 user adds 1 creator from 2 tabs, by UID and by import, with 2 videos, a change and a restart | nothing is lost and no history notified, whichever request comes first | 2.1 million |
| `poll` | 2 creators, 2 schedules, 3 periods a day | backoff, schedule, fairness of the queue | 536 989 |
| `qr_login` | 2 openings, 2 polls, 1 removal, 1 restart | locks and waiting | 494 654 |
| `credential` | 1 user, every interleaving of a renewal | pairing, last choice, confirmation, recovery | 94 480 |
| `web` | 2 tabs, 2 users, 2 sessions; each page with 2 or 3 requests under way, 2 subscriptions | sessions and pages, see below | 563 634 |
| `delivery_stale` | violation | finding 1 below | |
| `feed_shared` | violation | finding 2 below | |
| `qr_logout` | violation | finding 3 below | |

`DeliveryProofs` is about any number of rows and users, so `delivery_row` has one of each. `TypeOK` is an invariant of that
run; in the other modules it, `SessionTypeOK`, `ListTypeOK` and their like say what
the variables hold and are not among the properties of a run.

### Bounds and why they are enough

* `Day` of 4 or 5 minutes: the window arithmetic compares minutes and adds a day
  once; 5 minutes hold three disjoint windows, one over midnight. The theorems
  of `ScheduleProofs` are about every `Day`.
* `MaxAttempts` 2 or 3 instead of 6: first, middle and last failure are
  distinct. `DeliveryProofs` covers every number.
* `MaxLag`: a call may take a minute, so that everything read at its start can
  be out of date. `Prompt = TRUE` (liveness only) says the worker, which ticks every
  three seconds, is not left idle for a whole minute beside a due row.
* `MaxChanges`, `MaxFaults`, `MaxCrashes` of one or two: each property involves
  one change in one interval between two steps, and the second lets a change
  undo the first. Several small changes in a row go through the same steps.
* `Feed`: two videos of one creator for a user with two tabs, or one video for two
  users. The import takes its stamp inside the transaction, the UID path before it,
  so both ways run, and over each other: two requests for the same creator, each
  between its fetch, its stamp and its transaction, of which the second is refused
  (by UID) or leaves the first one's row alone (import). Several creators in
  one import are alike but for the order of their transactions, which the theorems cover,
  and so is a creator that goes with its last user and is added again, which takes three changes. `feed_import` has no restarts because liveness over them adds nothing to
  `ImportRecordFails` and `EndRequest`, which leave the same state behind.
* `PollQueue`: intervals (1 to 4 minutes) are as long as the periods (1 or 2)
  or longer, so periods change between polls. The two schedules have their work
  window at different times, so that saving one changes the period, also back to
  the one the goroutine remembers. Backoff `<<1, 2>>` has a first and
  a last delay; further failures use the last one as in the code.
* `QRLogin`: two openings race for the second look; two polls race for one
  session; a removal can meet polls in each step.
* `Credential`: `Cap` only has to exceed the number of credentials something
  refers to at once, which is two for each user and two of the renewal under way
  (`IssuedIsNew` proves that one is left then). Numbers are reused, so saves and renewals are unbounded. With
  one user, "oldest first" among several users is not exercised.
* `WebSession`: two tabs, a user and an administrator, two sessions: one login in
  each tab, or one after the other. A tab has one request under way, three
  requests in all, so that each tab can log in and one then writes. One event
  (a reset, a session that ends, a lost answer): each property
  is about one. `Addresses` is the page with the strictest rule.
* `SettingsPage`: two codes, two requests at a time (a poll beside a close or a
  form), one form submitted, failure or restart of the server: a form takes `busy` away
  from a start under way, so that a second one can be pressed. Of the four forms
  two differ from one alone in what `busy` is called. The user opens and
  closes without bound.
* `SubscriptionsPage`: two requests at a time, two things the user does, one attempt
  instead of 12, one failure. One subscription has been there for long; the other is new,
  or is added, so that a switch is turned while another subscription changes and a
  timer brings a list in between.
* `FollowingsDialog`: three pages (so that there is a next and a previous one), two
  selected accounts instead of 20, three requests. `HistoryPage`: three pages,
  two loads, three clicks, changes of the server or failures, among them leaving the page
  with requests under way and coming back. `AdminPage`: two users whose
  dialogs can be confused, four things the administrator does; typing and
  closing are free.

### Properties that need a word

* `NoDuplicatePush` allows one more push for each time the record of an accepted
  push was lost; without such a fault it is at-most-once.
* `DeferralIsJustified` leaves out rows in `stale`, whose deferral was decided
  before a change and written after it: that is finding 1.
  `ScheduleReachesEveryRow` leaves out, also in `stale`, rows written with an interval
  read before a change, those whose recalculation failed, and those of a period that
  passed unnoticed (section 5). `docs/CONFIGURATION.md:94` promises that saving recalculates the
  rows; a `pollOne` under way may overwrite the recalculated instant with the old
  interval, until its next poll.
* `BackoffKept` lets an import bring a creator forward: the import fetches the
  creator at once and says so in its `ON CONFLICT`.
* `HistoryIsNotNotified` is about what was published before the request;
  `NoNotificationLost` about what was published in a later second than the
  subscription's. A video of the same second is neither owed nor forbidden. What the user
  waits for includes what came out between the stamp of a request by UID and its transaction
  (`Missing`): the stamp entitles to it. Both hold in `feed_add` while another
  request of the same user adds the same creator; `HistoryIsNotNotified` is checked there
  only, where a stamp is taken outside the transaction too.
* `NotGivenTwice` is checked for imports. It relies on a recorded video staying
  recorded until its creator goes with the last user who knows it.
* `WritesAreOnesOwn` does not follow from the token being compared: the cookie
  of a request is the newest of the browser, the token the one its tab got at its own
  login.
* `ResetEndsOldAccess` leaves out the users in `missed`: a login or a change
  of password had read the old hash and wrote after the reset, or the `DELETE`
  of their sessions failed and its error was dropped. See section 5.
* `SwitchShowsServer` is about refusals, lost answers and lists that are replaced while a
  switch is under way: a refusal must not be written over what a load has brought
  (`held`: the object the function captured is no longer in the list). It leaves out `doubt`:
  subscriptions asked about twice at a time, just added, changed by the server between
  a load and its arrival or by a request older than the list shown, or
  changed without the page hearing of it. There the list is wrong until the next load that the server
  serves after its last change, and the exemption ends with it.
  `SelectionIsOnPage` leaves
  out pages asked for while another was under way (`crossed`): the later answer
  need not be the one of the later request.
* `AddressShowsPage` holds through overlapping loads of the pager, removals, back and forward
  during a load, and answers for a page that was left. While a load goes after
  the address (the watcher's) the two may differ. Left out (`astray`) is
  what follows when such a load has lost the address: it changed once more
  before the load arrived, or its page was gone or could not be loaded; until a
  load sets the address.
* `ClosedDialogFallsSilent` leaves out a page left while a poll or a start is
  under way (`leftBusy`). See section 5.
* `ConfirmedLoginIsNoticed` allows the dialog to say that asking failed, that
  the code is gone or has expired: then the user knows.
* `StatusRecovers` is a liveness property because a late refusal of an old
  cookie does mark a newer one (`recordBiliAuthError` looks at the user only).

### Fairness

* Goroutines: their tickers fire for as long as the process runs, and clients
  have timeouts, so weak fairness of the goroutine's steps (`Deliver`, `Poll`,
  `Maintain`). In `Delivery` and `Feed` selecting is strongly fair where a
  request may take the lock, or make another creator come first, again and
  again: the mutex of Go hands over to a waiter after a millisecond, and
  `next_poll_at` orders creators, which `PollQueue` shows with weak fairness.
* `Feed` asks for strong fairness of `PollFetch` and `PollRecord`: Bilibili
  answers, and the database takes the answer, again and again. Without it no
  notification can be promised.
* Requests under way end (`CancelStatus`, `Answer`, `End`): the HTTP server
  has a write timeout and the calls have timeouts of their own.
* Pages: a timer that is set runs out, and a request is answered or fails: the
  routes have a timeout of 35 seconds (`app.go:52`) and connections break. So
  `TimerFires`, `RefreshFires`, the serving and the answering are weakly fair;
  what Bilibili or the phone does about a code, or about a new creator, is not.
* Time passes. No fairness for what users, administrators or Bilibili's
  creators do, for faults or for crashes.

`qr_login` and `qr_logout` switch the deadlock check off: once the
user is deleted and nothing is under way, the sessions of that user rest. `RemovalEnds` rules
deadlocks of the two locks out. So does `web`: users may stop at any point, and its
liveness properties say what must still happen then. `WebFairness` is `SettingsFairness` and `ListFairness`,
each with the page in focus named: where it is not, the page rests and nothing is asked of it.

## 4. What is proved

`tlapm` checks every leaf of the eight modules named `...Proofs`. Every safety
property that a run checks, invariant or action property, is a theorem. The assumptions are those the modules
state about their constants: positive bounds, proper windows, at least one
attempt (`DayAssumption`, `DeliveryAssumption`), valid schedules and a delay after
each failure (`PollQueueAssumption`), enough credentials to tell
apart what is referred to at once (in `Credential`), at least one page of
followed accounts and of notifications, administrators among the users,
addresses among the routes. Two theorems of `Feed` have a hypothesis of their own, `Lone`:
all subscriptions are imported, or there is one user; it is what finding 2 takes
away, see below. Nothing else is assumed: the theorems hold for any
number of users, creators, videos, tabs, sessions, requests, polls, openings and
restarts.

| Theorem | Statement |
|---|---|
| `WindowEndIsFirstInstantOutside` | `clockWindowEnd` is the first instant outside the window, within a day, for every day length and window |
| `DeferralIsLaterEnd` | the deferral instant is the latest end of the open windows |
| `TransitionIsNextChange` | `nextScheduleTransition` finds the next change of period, for every valid schedule and every minute |
| `DeferralEnds`, `NextTransitionFound` | the two invariants of `MCSchedule` |
| `Invariance` | `Spec => []IInv` |
| `TypeCorrect`, `ItemStaysCurrent`, `CancellationHolds`, `PushedOnce`, `PushesBounded` | the invariants of the same name in `Delivery` |
| `BackoffKept` | `Spec => BackoffNeverShortened`, an action property |
| `Implements` | `Spec => ImplementsNotification`, the refinement |
| `DeferralInvariance` | `Spec => [](IInv /\ DeferralInv)` |
| `QuietIsKept` | `Spec => []NoPushInsideWindow` |
| `DeferralJustified` | `Spec => []DeferralIsJustified` |
| `RowsReferToRows` | `Spec => []ReferencesHold` in `Feed` |
| `HistoryStaysUnnotified` | `Spec => []HistoryIsNotNotified` |
| `DeletionSpares` | `Spec => DeletionSparesOthers`, an action property |
| `NothingLost` | `Spec => []NoNotificationLost`, if `Lone` |
| `GivenOnce` | `Spec => NotGivenTwice`, an action property, if `Lone` |
| `FailuresAreLeftAlone`, `ScheduleReaches` | the two invariants of `PollQueue` |
| `OneCode`, `RemovalWaits` | `Spec => []OneOpenSession`, `Spec => []RemovalWaitsForPolls` in `QRLogin` |
| `OnlyLatePolls` | `Spec => OnlyLatePollsRestore`, an action property: how finding 3 comes about is the only way |
| `TokensPaired`, `LastChoiceIsStored`, `StoredIsNeverEnded` | the three invariants of `Credential` |
| `PagesAllowed`, `WritesOwn`, `ResetEndsAccess` | the three invariants of `WebSession` |
| `SwitchesFollow` | `ListSpec => []SwitchShowsServer` |
| `ChosenIsOnPage` | `FollowSpec => []SelectionIsOnPage` |
| `AddressNamesPage` | `HistorySpec => []AddressShowsPage` |
| `TypedForUser` | `AdminSpec => []TypedForItsUser` |

**The inductive invariant.** The properties are not inductive: that a
cancelled row is not pushed depends on why the worker's item cannot be
cancelled. `IInv` adds

* `LockInv`: the worker is in the middle of a call exactly while it holds
  `deliveryMu`;
* `ItemInv`: what it works on was handed out, is not cancelled, and is in the
  table as it was read, unless it went with its user;
* `RowInv`: a pending row has attempts left, a failed one has none, ids above
  the counter are fresh;
* `CountInv`: accepted pushes exceed unrecorded ones by one exactly while a push
  is in flight or its row is sent;
* `BoundInv`: accepted pushes are at most the attempts and the faults.

Each has a lemma that a step preserves it, with one case per action.
`BackoffKept` needs one more fact, `PastInv`: the instant the worker has read lies in the
past and so does the `next_attempt_at` of its item.

**The refinement.** `Notification` says what somebody with a phone may expect:
it is reached again only when the record of the last time was lost; a
notification is sent, failed, cancelled or gone once and for good; a settled
one is not pushed. `Fate` reads this off the tables. Each action of `Delivery`
maps to one of `Notification` or to no step: `BarkAccepts` to `Reach`,
`RecordSent` to `Settle` if its row is still there and to no step if it was
deleted, losing an answer or a record to `Miss`, `EnqueueDeliveries` and
`DeleteUser` to `Announce` and `Forget` of all the rows at once, everything
about windows, retries and settings to nothing. The steps need `IInv`: that
the item in hand is pending, not cancelled, and counted as `Notification`
counts it.

**The windows.** The two invariants on deferral say something about the present,
and the present goes round a day of `Day` minutes. `DeferralInv` says it for every
moment between: while the worker decides, that what it has computed holds for the
windows it has read at the minute it read the clock (`CapturedMinute`); for each row,
that as long as a deferral lasts a window is open that ends no earlier.
That needs the clock's arithmetic (`RoundTheClock`, `CapturedStays`,
`EndStays`: a minute later the same end is a minute nearer), and that a change
of the windows ends the deferrals or marks them as stale.

**The clock of the day.** `nextScheduleTransition` looks at the boundaries of the
windows of three days only. A window opens or closes at one of its boundaries
(`ChangesAtBoundary`), over midnight too, so every change of period is at one of them;
and there is one within a day, since sleep begins once a day (`SleepBegins`). The
least of them is then the next change (`LeastInstant`), and the fallback to the next midnight
is never taken. The reference definition of the first instant outside a window has
one solution, and `clockWindowEnd` is it (`FirstIsWindowEnd`).

**The feed.** A subscription is as old as its stamp says: `SinceInv` has it no
older than what was published when the user asked, `RequestOK` the same of the stamp of every
request under way, of every tab, which it takes after the answer of Bilibili. A request that
finds the subscription there has no effect on it, whatever its stamp. So what a
transaction records and enqueues is nothing of the history, and whoever waits for a
video is entitled to its notification by the stamp of the subscription (`OwedInv`):
the transaction that records it enqueues it for all who wait. That nobody is given a
notification twice needs `GivenInv`: what was given is still recorded, or no subscription
there is now is older than it.

`Lone` is needed by both, and TLC shows why with two users and the UID path. A second user's
`POST` records the newest videos for nobody, which is finding 2. And a user who has asked twice
can be given a notification again: the second request is between its stamp and
its transaction, the user is notified and unsubscribes, the other user is deleted and the creator
with it; then the transaction subscribes with the old stamp, and the next poll finds
a new video.

**The poll queue.** `BackoffKept` speaks of the row being polled, the invariant of all of them:
no row is due before the end of the delay its last failure asked for, and a row
without a failure asks for none (`RowInv`). `ScheduleReachesEveryRow` speaks of the goroutine
at rest. `TimelyInv` says the same of any moment at which nobody has yet to recalculate
the table (`Settled`). A minute keeps it while the period stays; when the period changes nothing is
claimed until the goroutine has looked. The attempt to prove it found the case that no run had: a period that
comes and goes between two looks, for which the model now marks the rows.

**QR login.** That there is one code at a time rests on the second look of
`startBilibiliQRHandler`, under `qrMu`. `MutexInv` says who has the mutex of a
session: a poll that is past its lock, and so one at most. `RemovalInv` says that no
poll finds what a removal has closed, and that of the sessions it has waited for only a
late poll still has something to save; `EndedInv` carries the same past the
removal's answer. `OnlyLatePolls` follows: every other step that stores a credential
stores one of a session no answered removal has closed.

**Credentials.** A number stands for a cookie and is used again when nothing refers
to it, so the proof first has to know that there always is one
(`IssuedIsNew`, by counting), that two users never store the same one (`DistinctInv`)
and that the history speaks of credentials something refers to (`ReferredInv`).
`RenewalInv` says what a renewal has in hand: until its transaction a new credential
that nobody stores, the choice of whoever chose the old one, so that the
compare-and-set keeps the last choice; after it, an old cookie that nobody stores, so
that it may be ended.

**Sessions of the browser.** `WritesAreOnesOwn` needs to know of every tab and
every request under way that its token is of a session of the user the tab
showed (`TabOK`, `CallOK`), and that a session keeps its user. `PagesAreAllowed`
is about the router's guard applied three times (`GuardAllows`) to whatever an
answer or a timer makes of a tab. For `ResetEndsOldAccess`, `FreshInv` says of
every password in force, and of every one that a login or a change under way has checked,
that it is not older than the last reset of its user, unless the reset
has missed it.

**Pages.** Each invariant has its exemption as a hypothesis: unless loads have crossed,
there is at most one and nothing is chosen meanwhile (`FetchInv`); unless the address
went astray, every load that goes after it is for the page in it (`FollowingInv`), and without one the page
shown is the one in the address (`AddressInv`). In the administration a password
in the field of a reset is its user's, or none is (`FieldInv`). On the subscriptions page `Fits` says of each subscription without doubt what
becomes of it, for any number of requests: the list shows what the server has, unless a
switch of the list shown is under way (`Turned`), or a removal the page has yet to hear of
(`Deleted`); such a switch is the only request about it, shows what it has asked for, and
the server has it before or after as the request was served or not (`Follows`). Ids of subscriptions are not used
again (`AUTOINCREMENT`, `schema.sql:57`), so what was deleted stays deleted. `CleanInv` says it of the answers on their way:
what a served load brings is what the server has, but for what the server
has changed since.

What the proofs changed in the models, and in the runs with them: a
credential that is issued is one that nothing refers to (`Issued`), and a removal
unlocks `qrMu` in an action that says so, so that they could be reasoned about. Two were wrong:
`WebSession` had no failing `DELETE` after a reset, whose error the code drops
(`admin.go:247`), and `PollQueue` no failing recalculation after a schedule is saved, whose
error is dropped too (`schedule.go:231`).

**Only model-checked:** liveness (`DeliveryIsSettled`, `NotifiedEventually`,
`PolledAgainAndAgain`, `RemovalEnds`, `StatusRecovers` and the four of the pages), which with
fairness and `ENABLED` is beyond the prover.

## 5. Where code and documents part

1. `delivery_stale`. `docs/CONFIGURATION.md:129` says waiting notifications are
   judged anew after a change of configuration. `deliverOneAt` decides to defer on
   what it has read and writes `deferred_until` in a later statement
   (`workers.go:190-191`); a change between the two resets the deferrals first, and the
   old one stands.
2. `feed_shared`. `docs/USAGE.md:130` says a detected video is enqueued for every
   subscriber. `createSubscriptionHandler` writes the newest videos to `videos` without
   deliveries (`subscriptions.go:161-163`), so a video first seen that way is never
   notified to those who already follow the creator.
3. `qr_logout`. The comment at `bilibili_qr.go:188` says in-flight polls are waited
   for. A poll that has found its session but not locked it yet (lines 104-106) is
   not, and saves the credential after the removal was answered.

Met while modelling, without a run: `runPollWorker` compares the period with the one of its last
look (`workers.go:24`), so a period that comes and goes between two looks, in a minute that one poll
takes or by saving a schedule just before its window ends, is not noticed, and the rows
that were recalculated meanwhile keep its interval until their next poll. With the UID path and two users a
notification can be given again (section 4, `Lone`). `recordVideos` enqueues for users without
Bark too (`workers.go:142`, against the second half of `docs/USAGE.md:130`); their
rows fail after six attempts. After a QR login whose validation
failed, a poll within a second is answered 'success' although nothing was saved
(`bilibili_qr.go:108-119`). A check that ends after the credential was deleted sets
the status of the empty row. A login that has checked the old password
before a reset inserts its session after it (`auth.go:170-184`,
`admin.go:237-247`), and a change of password under way overwrites the temporary
one; `docs/USAGE.md:148` says the sessions end. The overwritten password is
the worse case: the temporary one no longer works, the user is not asked for another, and
whoever had the old password has one that is good. Nor do the sessions end when the `DELETE`
fails, whose error is dropped while the answer says that the reset is done. The settings page, left while a
poll or a start is under way, sets its timer again and polls on other pages
(`views/SettingsView.vue:40` looks at `qrOpen`, which leaving does not change).
A request of the notifications page that arrives after the page was left still calls
`router.replace({query})` (`views/HistoryView.vue:11`), which writes `?page=N` onto
whatever page is there by then (`LateLoad`); none of them reads it. A video that came out
between the stamp of a request by UID and its transaction, and that a poll for another
subscriber records first, is not notified to the new one: the stamp entitles to it, but
nobody looks again. `NoNotificationLost` counts from the transaction on.
Pages of followed accounts asked for one over the other may leave
the selection of one beside the number of another, which the server refuses
with 409. `DeliveryIsSettled` has `HasGap` as a hypothesis:
a sleep and a quiet window that together cover the day hold notifications back for
ever.

## 6. Not modelled

* **Login limiter** and the creation of users: next on the plan.
* The home page (text and links), `web/scripts/capture-home-assets.mjs` and styles;
  what the forms of the settings page hold; the server's limit of one poll a
  second per session in `SettingsPage` (`QRLogin` has it no more than that: a poll
  within the second has no effect); drawing the QR code, which is taken to work;
  dates and numbers as they are shown.
* **More than one page between two polls**: an answer has 30 videos; a creator
  that publishes more between two polls has the oldest never recorded. The
  instances keep as many videos as a page holds, or fewer.
* Pushes outstanding when a user is disabled go out (`Delivery` has the case);
  a session closed by an earlier cancel is not waited for by a removal (`QRLogin`
  has it too: such a poll may save, and no document says otherwise).
* In `Feed` a tab has one request that adds subscriptions at a time, as `saving` has it
  (`views/SubscriptionsView.vue`); a user has any number of tabs. In `WebSession` a tab has one request under way.
* Reads that change nothing, the clients' encodings and signatures, encryption,
  configuration, migrations that run once before anything else, and deployment.
* The database as such: cascades, unique keys and foreign keys are taken as
  SQLite documents them, with the pragma in force.

## 7. Plan

Order of building, most important first:

1. `Schedule`, `Delivery` and their proofs (done), with `Notification` and the
   theorems on refinement and deferral (done).
2. `Feed`, `PollQueue`, `QRLogin`, `Credential` and their proofs (done).
3. `WebSession` and the pages (done), with proofs for all but `SettingsPage`, whose
   properties are liveness.
4. An abstract specification of the feed, of who is to be notified of what, that
   `Feed` implements under `Lone`, as `Delivery` implements `Notification`.
5. Types and references of `SettingsPage`: that a timer belongs to an open dialog
   unless the page was left busy, as an invariant behind `ClosedDialogFallsSilent`.
6. The login limiter, creating users, and an account's first login.
7. Several users in `Credential`, with rows that cannot be decrypted.
