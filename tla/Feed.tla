-------------------------------- MODULE Feed --------------------------------
(***************************************************************************)
(* From a video published on Bilibili to the notifications it is owed: the *)
(* tables creators, subscriptions, videos and deliveries, the goroutine    *)
(* that polls one creator at a time (pollOne and recordVideos of           *)
(* workers.go), the requests that add subscriptions, by UID                *)
(* (createSubscriptionHandler) or from the list of followed accounts       *)
(* (importFollowingsHandler), and those that pause, resume and remove      *)
(* subscriptions, disable users and delete them.                           *)
(*                                                                         *)
(* A transaction is one step (the database pool has one connection), and   *)
(* so is one answer of Bilibili; between two of them every other goroutine *)
(* may run.  Which creator is due, and when, is the matter of PollQueue:   *)
(* here any creator worth polling may come next.  What becomes of a        *)
(* delivery once it is enqueued is the matter of Delivery.                 *)
(*                                                                         *)
(* Videos are numbered in the order in which they are published.           *)
(*                                                                         *)
(* Operators named Faulty... are wrong versions of the operator that       *)
(* follows them, substituted for it to see that a property notices.        *)
(***************************************************************************)
EXTENDS Integers, Sequences, FiniteSets

CONSTANTS
    Users,
    Creators,
    NoCreator,
    Tabs,         \* tabs of a user: `saving` gives each one request that adds
    Methods,      \* the ways subscriptions are added: "add", "import"
    PageSize,     \* videos in an answer of Bilibili (30)
    MaxPosts,     \* bound: videos published
    MaxTime,      \* bound: seconds
    MaxChanges,   \* bound: requests that change a subscription or an account
    MaxCrashes    \* bound: restarts of the process

ASSUME FeedAssumption ==
    /\ IsFiniteSet(Users) /\ IsFiniteSet(Creators) /\ NoCreator \notin Creators
    /\ Methods \subseteq {"add", "import"}
    /\ PageSize \in Nat \ {0}
    /\ {MaxPosts, MaxTime, MaxChanges, MaxCrashes} \subseteq Nat

Pairs == Users \X Creators

\* Where requests that add subscriptions run
Handlers == Users \X Tabs

Videos == 1 .. MaxPosts
NoVideo == 0

VARIABLES
    posts,       \* posts[v]: creator and second of publication of video v
    clock,
    \* the database
    account,     \* account[u]: users.enabled, or no row
    known,       \* rows of creators, and of poll_states with them
    latest,      \* latest[c]: creators.latest_bvid
    sub,         \* sub[<<u, c>>]: subscriptions.enabled, or no row
    since,       \* since[<<u, c>>]: subscriptions.subscribed_at
    recorded,    \* rows of videos
    deliveries,  \* rows of deliveries, as pairs <<user, video>>
    \* the poll goroutine: where it is, the creator, the answer
    poll,
    req,         \* req[<<u, t>>]: the request of user u, from tab t, that adds
                 \* subscriptions
    changes,
    crashes,
    \* history, read by no action of the code
    before,      \* before[<<u, c>>]: videos published when u asked for c
    owed,        \* pairs <<user, video>> of videos the user waits for
    given        \* pairs ever enqueued

tables  == <<account, known, latest, sub, since, recorded, deliveries>>
bounds  == <<changes, crashes>>
history == <<before, owed, given>>
vars    == <<posts, clock, tables, poll, req, bounds, history>>

Post == [mid : Creators, at : Nat]

\* A poll: Scan of the creator, the answer of Bilibili, the transaction
Poll == [pc : {"idle", "fetch", "record"}, mid : Creators \union {NoCreator},
         page : SUBSET Videos]

NoPoll == [pc |-> "idle", mid |-> NoCreator, page |-> {}]

\* A request: the creators it adds, those still to be fetched or recorded, the
\* answers, the creators without one, the instant it stamps subscriptions with
\* (until then the one at which it began)
Request == [step : {"none", "fetch", "commit", "record"}, kind : {"add", "import"},
            want : SUBSET Creators, left : SUBSET Creators, failed : SUBSET Creators,
            page : [Creators -> SUBSET Videos], now : Nat, before : Nat]

NoRequest == [step |-> "none", kind |-> "add", want |-> {}, left |-> {}, failed |-> {},
              page |-> [c \in Creators |-> {}], now |-> 0, before |-> 0]

TypeOK ==
    /\ posts \in Seq(Post)
    /\ Len(posts) <= MaxPosts
    /\ clock \in Nat
    /\ account \in [Users -> {"enabled", "disabled", "deleted"}]
    /\ known \subseteq Creators
    /\ latest \in [Creators -> Videos \union {NoVideo}]
    /\ sub \in [Pairs -> {"none", "on", "off"}]
    /\ since \in [Pairs -> Nat]
    /\ recorded \subseteq Videos
    /\ deliveries \subseteq Users \X Videos
    /\ poll \in Poll
    /\ req \in [Handlers -> Request]
    /\ changes \in Nat
    /\ crashes \in Nat
    /\ before \in [Pairs -> Nat]
    /\ owed \subseteq Users \X Videos
    /\ given \subseteq Users \X Videos

-----------------------------------------------------------------------------
Published == 1 .. Len(posts)

PostsOf(c) == {v \in Published : posts[v].mid = c}

\* GetLatestVideos: the PageSize newest videos of c
Page(c) == {v \in PostsOf(c) : Cardinality({w \in PostsOf(c) : w > v}) < PageSize}

\* The last of an answer sorted by publication: sort.Slice leaves the order of
\* videos of the same second open.
Newest(page) ==
    IF page = {} THEN {NoVideo}
    ELSE {v \in page : \A w \in page : posts[w].at <= posts[v].at}

Active(u, c) == sub[<<u, c>>] = "on" /\ account[u] = "enabled"

\* WHERE clause of the INSERT into deliveries
FaultyEntitledSameSecond(u, v) ==
    Active(u, posts[v].mid) /\ since[<<u, posts[v].mid>>] <= posts[v].at

FaultyEntitledNextSecond(u, v) ==
    Active(u, posts[v].mid) /\ since[<<u, posts[v].mid>>] + 1 < posts[v].at

Entitled(u, v) ==
    Active(u, posts[v].mid) /\ since[<<u, posts[v].mid>>] < posts[v].at

\* The foreign key of videos: rows of videos need their creator.
FaultyRecordableUnchecked(c, page) == TRUE

Recordable(c, page) == c \in known \/ page = {}

\* recordVideos, one transaction
FaultyFresh(page) == page

Fresh(page) == page \ recorded

RecordVideos(c, page) ==
    LET new == {p \in Users \X Fresh(page) : Entitled(p[1], p[2])}
    IN  /\ Recordable(c, page)
        /\ recorded' = recorded \union page
        /\ deliveries' = deliveries \union new
        /\ given' = given \union new
        /\ IF page = {} THEN UNCHANGED latest
           ELSE \E v \in Newest(page) : latest' = [latest EXCEPT ![c] = v]

-----------------------------------------------------------------------------
(* The poll goroutine: pollOne                                             *)

FaultyWorthPollingAll(c) ==
    c \in known /\ \A u \in Users : sub[<<u, c>>] # "none" => Active(u, c)

WorthPolling(c) == c \in known /\ \E u \in Users : Active(u, c)

PollSelect(c) ==
    /\ poll.pc = "idle"
    /\ WorthPolling(c)
    /\ poll' = [pc |-> "fetch", mid |-> c, page |-> {}]
    /\ UNCHANGED <<posts, clock, tables, req, bounds, history>>

PollFetch ==
    /\ poll.pc = "fetch"
    /\ poll' = [pc |-> "record", mid |-> poll.mid, page |-> Page(poll.mid)]
    /\ UNCHANGED <<posts, clock, tables, req, bounds, history>>

PollRecord ==
    /\ poll.pc = "record"
    /\ RecordVideos(poll.mid, poll.page)
    /\ poll' = NoPoll
    /\ UNCHANGED <<posts, clock, account, known, sub, since, req, bounds, before, owed>>

\* recordPollFailure: Bilibili gave no answer, or the transaction failed, as it
\* does when the creator was deleted meanwhile.
PollFails ==
    /\ poll.pc \in {"fetch", "record"}
    /\ poll' = NoPoll
    /\ UNCHANGED <<posts, clock, tables, req, bounds, history>>

-----------------------------------------------------------------------------
(* Requests that add subscriptions                                         *)

Started(kind, want) ==
    [NoRequest EXCEPT !.step = "fetch", !.kind = kind, !.want = want, !.left = want,
                      !.before = Len(posts)]

\* createSubscriptionHandler, for one creator
StartAdd(h, c) ==
    /\ "add" \in Methods
    /\ req[h].step = "none"
    /\ account[h[1]] = "enabled"
    /\ req' = [req EXCEPT ![h] = [Started("add", {c}) EXCEPT !.now = clock]]
    /\ UNCHANGED <<posts, clock, tables, poll, bounds, history>>

\* importFollowingsHandler, for the chosen creators the user has not yet
StartImport(h, chosen) ==
    LET want == {c \in chosen : sub[<<h[1], c>>] = "none"}
    IN  /\ "import" \in Methods
        /\ req[h].step = "none"
        /\ account[h[1]] = "enabled"
        /\ want # {}
        /\ req' = [req EXCEPT ![h] = Started("import", want)]
        /\ UNCHANGED <<posts, clock, tables, poll, bounds, history>>

\* One answer, and one creator without an answer in time
Fetch(h, c) ==
    /\ req[h].step = "fetch"
    /\ c \in req[h].left
    /\ req' = [req EXCEPT ![h].left = @ \ {c}, ![h].page[c] = Page(c)]
    /\ UNCHANGED <<posts, clock, tables, poll, bounds, history>>

FetchFails(h, c) ==
    /\ req[h].step = "fetch"
    /\ req[h].kind = "import"
    /\ c \in req[h].left
    /\ req' = [req EXCEPT ![h].left = @ \ {c}, ![h].failed = @ \union {c}]
    /\ UNCHANGED <<posts, clock, tables, poll, bounds, history>>

\* The clock is read after the answer and before the transaction.
FaultyStamp(h) == req[h].now

Stamp(h) == clock

AddStamp(h) ==
    /\ req[h].step = "fetch"
    /\ req[h].kind = "add"
    /\ req[h].left = {}
    /\ req' = [req EXCEPT ![h].step = "commit", ![h].now = Stamp(h)]
    /\ UNCHANGED <<posts, clock, tables, poll, bounds, history>>

\* New rows of subscriptions
Subscribe(h, cs, now) ==
    LET new(p) == p[1] = h[1] /\ p[2] \in cs
    IN  /\ sub' = [p \in Pairs |-> IF new(p) THEN "on" ELSE sub[p]]
        /\ since' = [p \in Pairs |-> IF new(p) THEN now ELSE since[p]]
        /\ before' = [p \in Pairs |-> IF new(p) THEN req[h].before ELSE before[p]]

\* Videos that came after the stamp and before its transaction
Missing(u, c, now) ==
    {<<u, v>> : v \in {w \in PostsOf(c) \ recorded :
                          account[u] = "enabled" /\ now < posts[w].at}}

\* The transaction of createSubscriptionHandler.  A second subscription is
\* rolled back, and so is one of a user who was deleted meanwhile.
AddCommit(h) ==
    LET u == h[1]
        now == req[h].now
    IN  /\ req[h].step = "commit"
        /\ account[u] # "deleted"
        /\ \E c \in req[h].want :
              /\ sub[<<u, c>>] = "none"
              /\ known' = known \union {c}
              /\ \E v \in Newest(req[h].page[c]) : latest' = [latest EXCEPT ![c] = v]
              /\ recorded' = recorded \union req[h].page[c]
              /\ Subscribe(h, {c}, now)
              /\ owed' = owed \union Missing(u, c, now)
        /\ req' = [req EXCEPT ![h] = NoRequest]
        /\ UNCHANGED <<posts, clock, account, deliveries, poll, bounds, given>>

\* INSERT OR IGNORE: those another request of the user has added meanwhile stay.
FaultyImported(u, cs) == cs

Imported(u, cs) == {c \in cs : sub[<<u, c>>] = "none"}

\* The transaction of importFollowingsHandler: every creator is saved, with its
\* newest video if there was an answer; rows already there are left alone.
ImportCommit(h) ==
    /\ req[h].step = "fetch"
    /\ req[h].kind = "import"
    /\ req[h].left = {}
    /\ account[h[1]] # "deleted"
    /\ LET answered == req[h].want \ req[h].failed
           new == Imported(h[1], req[h].want)
       IN  /\ known' = known \union req[h].want
           /\ \E top \in [answered -> Videos \union {NoVideo}] :
                 /\ \A c \in answered : top[c] \in Newest(req[h].page[c])
                 /\ latest' = [c \in Creators |-> IF c \in answered THEN top[c] ELSE latest[c]]
           /\ Subscribe(h, new, clock)
           /\ req' = [req EXCEPT ![h].step = "record", ![h].left = new \intersect answered]
    /\ UNCHANGED <<posts, clock, account, recorded, deliveries, poll, bounds, owed, given>>

\* After it, the answer for each creator that was new goes through
\* recordVideos, in a transaction of its own ...
ImportRecord(h, c) ==
    /\ req[h].step = "record"
    /\ c \in req[h].left
    /\ RecordVideos(c, req[h].page[c])
    /\ req' = [req EXCEPT ![h].left = @ \ {c}]
    /\ UNCHANGED <<posts, clock, account, known, sub, since, poll, bounds, before, owed>>

\* ... which may fail: the poll goroutine is left to do it.
ImportRecordFails(h, c) ==
    /\ req[h].step = "record"
    /\ c \in req[h].left
    /\ req' = [req EXCEPT ![h].left = @ \ {c}]
    /\ UNCHANGED <<posts, clock, tables, poll, bounds, history>>

\* A request ends: answered, refused by the database, without an answer of
\* Bilibili, or abandoned by the browser.
EndRequest(h) ==
    /\ req[h].step # "none"
    /\ req' = [req EXCEPT ![h] = NoRequest]
    /\ UNCHANGED <<posts, clock, tables, poll, bounds, history>>

-----------------------------------------------------------------------------
(* Requests that change subscriptions and accounts                         *)

Change == changes < MaxChanges /\ changes' = changes + 1

\* The user no longer waits for the videos of cs.
Waive(u, cs) == owed' = {p \in owed : p[1] # u \/ posts[p[2]].mid \notin cs}

\* updateSubscriptionHandler: pause and resume
UpdateSubscription(u, c) ==
    /\ Change
    /\ account[u] # "deleted"
    /\ sub[<<u, c>>] # "none"
    /\ sub' = [sub EXCEPT ![<<u, c>>] = IF @ = "on" THEN "off" ELSE "on"]
    /\ Waive(u, {c})
    /\ UNCHANGED <<posts, clock, account, known, latest, since, recorded, deliveries, poll,
                   req, crashes, before, given>>

\* deleteSubscriptionHandler: the creator, its videos and the deliveries stay.
DeleteSubscription(u, c) ==
    /\ Change
    /\ sub[<<u, c>>] # "none"
    /\ sub' = [sub EXCEPT ![<<u, c>>] = "none"]
    /\ since' = [since EXCEPT ![<<u, c>>] = 0]
    /\ before' = [before EXCEPT ![<<u, c>>] = 0]
    /\ Waive(u, {c})
    /\ UNCHANGED <<posts, clock, account, known, latest, recorded, deliveries, poll, req,
                   crashes, given>>

\* deletePendingDeliveryHandler, of a row that is still pending
CancelDelivery(u, v) ==
    /\ Change
    /\ <<u, v>> \in deliveries
    /\ deliveries' = deliveries \ {<<u, v>>}
    /\ UNCHANGED <<posts, clock, account, known, latest, sub, since, recorded, poll, req,
                   crashes, history>>

\* updateUserHandler
SetEnabled(u) ==
    /\ Change
    /\ account[u] # "deleted"
    /\ account' = [account EXCEPT ![u] = IF @ = "enabled" THEN "disabled" ELSE "enabled"]
    /\ Waive(u, Creators)
    /\ UNCHANGED <<posts, clock, known, latest, sub, since, recorded, deliveries, poll, req,
                   crashes, before, given>>

\* Nobody but u subscribes to c, or has a notification of one of its videos.
FaultyOrphanIgnoringHistory(u, c) ==
    /\ sub[<<u, c>>] # "none"
    /\ \A w \in Users \ {u} : sub[<<w, c>>] = "none"

Orphan(u, c) ==
    /\ sub[<<u, c>>] # "none"
    /\ \A w \in Users \ {u} : sub[<<w, c>>] = "none"
    /\ \A p \in deliveries : p[1] # u => posts[p[2]].mid # c

\* deleteUserHandler: one transaction deletes the user, and with the user the
\* subscriptions and the deliveries; then the creators nobody needs any more,
\* and with them their videos, subscriptions and deliveries.
DeleteUser(u) ==
    LET gone == {c \in Creators : Orphan(u, c)}
        lost(p) == p[1] = u \/ p[2] \in gone
    IN  /\ Change
        /\ account[u] # "deleted"
        /\ account' = [account EXCEPT ![u] = "deleted"]
        /\ known' = known \ gone
        /\ latest' = [c \in Creators |-> IF c \in gone THEN NoVideo ELSE latest[c]]
        /\ recorded' = {v \in recorded : posts[v].mid \notin gone}
        /\ sub' = [p \in Pairs |-> IF lost(p) THEN "none" ELSE sub[p]]
        /\ since' = [p \in Pairs |-> IF lost(p) THEN 0 ELSE since[p]]
        /\ before' = [p \in Pairs |-> IF lost(p) THEN 0 ELSE before[p]]
        /\ deliveries' = {p \in deliveries : p[1] # u /\ posts[p[2]].mid \notin gone}
        /\ Waive(u, Creators)
        /\ UNCHANGED <<posts, clock, poll, req, crashes, given>>

-----------------------------------------------------------------------------
(* The environment                                                         *)

\* A creator publishes a video.  Those who follow it since an earlier second
\* wait for the notification.
Publish(c) ==
    /\ Len(posts) < MaxPosts
    /\ posts' = Append(posts, [mid |-> c, at |-> clock])
    /\ owed' = owed \union {<<u, Len(posts) + 1>> :
                               u \in {w \in Users : Active(w, c) /\ since[<<w, c>>] < clock}}
    /\ UNCHANGED <<clock, tables, poll, req, bounds, before, given>>

\* The process stops and starts again.
Crash ==
    /\ crashes < MaxCrashes
    /\ crashes' = crashes + 1
    /\ poll' = NoPoll
    /\ req' = [h \in Handlers |-> NoRequest]
    /\ UNCHANGED <<posts, clock, tables, changes, history>>

\* A second passes, and the last one lasts.
Tick ==
    /\ clock' = IF clock < MaxTime THEN clock + 1 ELSE clock
    /\ UNCHANGED <<posts, tables, poll, req, bounds, history>>

Init ==
    /\ posts = <<>>
    /\ clock = 0
    /\ account = [u \in Users |-> "enabled"]
    /\ known = {}
    /\ latest = [c \in Creators |-> NoVideo]
    /\ sub = [p \in Pairs |-> "none"]
    /\ since = [p \in Pairs |-> 0]
    /\ recorded = {}
    /\ deliveries = {}
    /\ poll = NoPoll
    /\ req = [h \in Handlers |-> NoRequest]
    /\ changes = 0
    /\ crashes = 0
    /\ before = [p \in Pairs |-> 0]
    /\ owed = {}
    /\ given = {}

Adding ==
    \E h \in Handlers :
        \/ \E c \in Creators : StartAdd(h, c) \/ Fetch(h, c) \/ FetchFails(h, c)
        \/ \E chosen \in SUBSET Creators : StartImport(h, chosen)
        \/ AddStamp(h) \/ AddCommit(h) \/ ImportCommit(h)
        \/ \E c \in Creators : ImportRecord(h, c) \/ ImportRecordFails(h, c)
        \/ EndRequest(h)

Changing ==
    \E u \in Users :
        \/ \E c \in Creators : UpdateSubscription(u, c) \/ DeleteSubscription(u, c)
        \/ \E v \in Published : CancelDelivery(u, v)
        \/ SetEnabled(u) \/ DeleteUser(u)

Polling == (\E c \in Creators : PollSelect(c)) \/ PollFetch \/ PollRecord \/ PollFails

Next == Polling \/ Adding \/ Changing \/ Crash \/ Tick \/ \E c \in Creators : Publish(c)

Spec == Init /\ [][Next]_vars

\* The ticker keeps firing and every creator worth polling comes round (the
\* order of next_poll_at sees to that); Bilibili answers, and the database
\* takes the answer, again and again.
Fairness ==
    /\ \A c \in Creators : SF_vars(PollSelect(c))
    /\ SF_vars(PollFetch)
    /\ SF_vars(PollRecord)

LiveSpec == Spec /\ Fairness

-----------------------------------------------------------------------------
(* Correctness                                                             *)

(* A new subscription never sends old videos (README.md:48): whatever was  *)
(* published before the user asked for it is not notified, whichever       *)
(* goroutine records it first and whether or not the first fetch worked.   *)
HistoryIsNotNotified ==
    [][\A p \in deliveries' \ deliveries :
          p[2] > before'[<<p[1], posts[p[2]].mid>>]]_vars

(* A video that is recorded can no longer be detected, so by then everyone *)
(* who waits for it has been given the notification, whoever recorded it:  *)
(* those who follow its creator, and those whose subscription was stamped  *)
(* before it and is stored after it; also while another request of theirs  *)
(* adds the same creator.                                                  *)
NoNotificationLost ==
    \A p \in owed : p[2] \in recorded => p \in given

(* Nobody is given the same notification again, above all not one they     *)
(* have cancelled, however often the video is polled, imported or its      *)
(* creator deleted and added again.                                        *)
NotGivenTwice == [][(deliveries' \ deliveries) \intersect given = {}]_vars

(* Deleting a user takes nothing from the others: neither a subscription   *)
(* nor a notification of a creator they have unsubscribed from (the two    *)
(* NOT EXISTS of deleteUserHandler against ON DELETE CASCADE).             *)
DeletionSparesOthers ==
    [][\A u \in Users : account'[u] = account[u] /\ account' # account =>
          /\ \A c \in Creators : sub'[<<u, c>>] = sub[<<u, c>>]
          /\ \A v \in Published : <<u, v>> \in deliveries => <<u, v>> \in deliveries']_vars

(* Whatever order the transactions come in, rows refer to rows: every      *)
(* subscription to its creator and its account, every recorded video to    *)
(* its creator, every delivery to its video and its account.               *)
ReferencesHold ==
    /\ \A p \in Pairs : sub[p] # "none" => p[2] \in known /\ account[p[1]] # "deleted"
    /\ \A v \in recorded : posts[v].mid \in known
    /\ \A p \in deliveries : p[2] \in recorded /\ account[p[1]] # "deleted"

(* Every video that is worth a notification gets one: who waits for it is  *)
(* given it, or stops waiting by pausing, unsubscribing or being disabled. *)
NotifiedEventually ==
    \A u \in Users, v \in Videos : <<u, v>> \in owed ~> (<<u, v>> \in given \/ <<u, v>> \notin owed)

(* docs/USAGE.md:130: a detected video is enqueued for all users with an   *)
(* enabled subscription to its creator.                                    *)
DetectedForEverySubscriber ==
    [][\A v \in recorded' \ recorded, u \in Users :
          Entitled(u, v) => <<u, v>> \in given']_vars

=============================================================================
