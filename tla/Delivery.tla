------------------------------ MODULE Delivery ------------------------------
(***************************************************************************)
(* The delivery queue: the deliveries table, the goroutine that pushes one *)
(* due row at a time to the Bark server of its owner (runDeliveryWorker,   *)
(* deliverOneAt, recordDeliveryFailure of workers.go), and the request     *)
(* handlers that change what it reads: cancelling a row, saving the Bark   *)
(* settings, saving the poll schedule, disabling and deleting a user, and  *)
(* the enqueueing done by recordVideos.                                    *)
(*                                                                         *)
(* The database pool has a single connection (db.go:26), so one SQL        *)
(* statement or transaction is one step; two statements of one handler are *)
(* two steps, between which any other handler may run, unless both hold    *)
(* deliveryMu.                                                             *)
(*                                                                         *)
(* The deliveries table is kept by columns: status[id] is the status of    *)
(* row id.  Instants are relative to the present: next and deferred are    *)
(* next_attempt_at and deferred_until minus time.Now(), so the passing of  *)
(* time lowers them.  -LongAgo stands for every instant at least that long *)
(* ago, the 0 that resets deferred_until among them.                       *)
(*                                                                         *)
(* Operators named Faulty... are wrong versions of the operator that       *)
(* follows them, substituted for it to see that a property notices.        *)
(***************************************************************************)
EXTENDS Schedule

CONSTANTS
    Users,          \* user accounts
    NoUser,         \* owner of a row that is not in the table
    MaxDeliveries,  \* bound: ids the table hands out
    MaxAttempts,    \* attempts before a delivery fails for good (6)
    RetryDelay,     \* minutes to wait after the k-th failed attempt
    LongAgo,        \* bound: how far back the age of an instant is told apart
    MaxLag,         \* bound: minutes one call of deliverOneAt may take
    MaxChanges,     \* bound: configuration and account changes
    MaxFaults,      \* bound: crashes and failed database writes
    Windows,        \* the sleep and quiet windows that may be configured
    Prompt          \* TRUE: no due row is left waiting while a minute passes

ASSUME DeliveryAssumption ==
    /\ IsFiniteSet(Users) /\ NoUser \notin Users
    /\ MaxDeliveries \in Nat
    /\ MaxAttempts \in Nat \ {0}
    /\ RetryDelay \in [1 .. MaxAttempts - 1 -> Nat \ {0}]
    /\ LongAgo \in Nat \ {0}
    /\ MaxLag \in 0 .. LongAgo
    /\ MaxChanges \in Nat
    /\ MaxFaults \in Nat
    /\ Windows \subseteq ProperWindow
    /\ Prompt \in BOOLEAN

Ids == 1 .. MaxDeliveries

VARIABLES
    users,       \* users[u]: account state (users.enabled, or no row)
    bark,        \* bark[u]: Bark part of the integrations row
    sleep,       \* sleep window of the stored poll schedule
    clock,       \* minute of the day
    \* table deliveries
    owner, status, attempts, next, deferred,
    lastId,      \* its AUTOINCREMENT counter
    \* the delivery goroutine: where it is, and the locals of deliverOneAt
    pc,
    now,         \* the instant read at the start of the call
    item,        \* queuedDelivery
    usable,      \* loadBark returned no error
    windows,     \* the quiet window and then the sleep window it has read
    until,       \* end of the deferral, counted from now
    mu,          \* holder of App.deliveryMu
    changes,     \* changes made so far
    faults,      \* faults so far
    \* history, read by no action of the code
    pushes,      \* pushes[id]: pushes the Bark server has accepted
    unrecorded,  \* unrecorded[id]: accepted pushes not recorded as sent
    cancelled,   \* rows whose cancellation was answered with 204
    stale        \* rows deferred by a configuration replaced meanwhile

config  == <<users, bark, sleep>>
table   == <<owner, status, attempts, next, deferred, lastId>>
call    == <<now, item, usable, windows, until>>
bounds  == <<changes, faults>>
history == <<pushes, unrecorded, cancelled, stale>>
vars    == <<config, clock, table, pc, call, mu, bounds, history>>

QuietChoice == AtMostOne(Windows)

\* "broken": a stored key that no longer decrypts
Settings == [key : {"none", "saved", "broken"}, quiet : AtMostOne(ProperWindow)]

Item == [id : Ids \union {0}, user : Users \union {NoUser}, attempts : 0 .. MaxAttempts]

NoItem == [id |-> 0, user |-> NoUser, attempts |-> 0]

\* Between the SELECT and the end of the call
BusyPcs == {"bark", "schedule", "defer", "send", "accepted", "sent", "failed"}

Busy == pc \in BusyPcs

(* Every variable holds a value of its kind; in particular no row counts   *)
(* more attempts than the limit, and no delay of the list is out of range. *)
TypeOK ==
    /\ users \in [Users -> {"enabled", "disabled", "deleted"}]
    /\ bark \in [Users -> Settings]
    /\ sleep \in ProperWindow
    /\ clock \in Minute
    /\ owner \in [Ids -> Users \union {NoUser}]
    /\ status \in [Ids -> {"none", "pending", "sent", "failed"}]
    /\ attempts \in [Ids -> 0 .. MaxAttempts]
    /\ next \in [Ids -> Int]
    /\ deferred \in [Ids -> Int]
    /\ lastId \in 0 .. MaxDeliveries
    /\ pc \in {"idle", "lock"} \union BusyPcs
    /\ now \in Int
    /\ item \in Item
    /\ usable \in BOOLEAN
    /\ windows \in SUBSET ProperWindow
    /\ until \in Int
    /\ mu \in {"free", "worker", "cancel"}
    /\ changes \in Nat
    /\ faults \in Nat
    /\ pushes \in [Ids -> Nat]
    /\ unrecorded \in [Ids -> Nat]
    /\ cancelled \subseteq Ids
    /\ stale \subseteq Ids

-----------------------------------------------------------------------------
\* One minute later; what is LongAgo stays there.
Aged(t) == IF t > -LongAgo THEN t - 1 ELSE t

\* The minute of the day at which the worker read the clock
CapturedMinute == (clock + now) % Day

\* The quiet window loadBark returns: none without a key, or without a user
QuietOf(u) == IF users[u] = "deleted" \/ bark[u].key = "none" THEN {} ELSE bark[u].quiet

\* The windows that hold back a notification of u
WindowsOf(u) == {sleep} \union QuietOf(u)

InTable(id) == status[id] # "none"
Pending(id) == status[id] = "pending"
PendingOf(u, id) == Pending(id) /\ owner[id] = u

\* DELETE of the rows in ids
DeleteRows(ids) ==
    /\ owner'    = [id \in Ids |-> IF id \in ids THEN NoUser ELSE owner[id]]
    /\ status'   = [id \in Ids |-> IF id \in ids THEN "none" ELSE status[id]]
    /\ attempts' = [id \in Ids |-> IF id \in ids THEN 0 ELSE attempts[id]]
    /\ next'     = [id \in Ids |-> IF id \in ids THEN -LongAgo ELSE next[id]]
    /\ deferred' = [id \in Ids |-> IF id \in ids THEN -LongAgo ELSE deferred[id]]
    /\ stale'    = stale \ ids

\* WHERE clause of deliverOneAt, for the instant t relative to the present
FaultyDueAnyStatus(id, t) ==
    InTable(id) /\ next[id] <= t /\ deferred[id] <= t /\ users[owner[id]] = "enabled"

Due(id, t) ==
    Pending(id) /\ next[id] <= t /\ deferred[id] <= t /\ users[owner[id]] = "enabled"

DueAt(id) == IF next[id] > deferred[id] THEN next[id] ELSE deferred[id]

\* ORDER BY MAX(next_attempt_at, deferred_until), id.  Among rows due since
\* long ago the order is not told apart, and any of them may come first.
FirstDue(id, t) ==
    /\ Due(id, t)
    /\ \A j \in Ids :
          Due(j, t) => \/ DueAt(id) < DueAt(j)
                       \/ DueAt(id) = DueAt(j) /\ (id <= j \/ DueAt(id) = -LongAgo)

-----------------------------------------------------------------------------
(* The delivery worker: one call of deliverOneAt                           *)

\* The end of the call: the deferred Unlock, on every path
ForgetCall ==
    /\ pc' = "idle"
    /\ now' = 0
    /\ item' = NoItem
    /\ usable' = FALSE
    /\ windows' = {}
    /\ until' = 0

FaultyReturnLocked == mu' = mu /\ ForgetCall

Return == mu' = "free" /\ ForgetCall

\* deliverOne: the ticker fires and the clock is read before deliveryMu is
\* asked for.
DeliverOne ==
    /\ pc = "idle"
    /\ pc' = "lock"
    /\ UNCHANGED <<config, clock, table, call, mu, bounds, history>>

\* deliveryMu is taken and the first due row of an enabled user is read ...
SelectDelivery(id) ==
    /\ pc = "lock"
    /\ mu = "free"
    /\ FirstDue(id, now)
    /\ pc' = "bark"
    /\ mu' = "worker"
    /\ item' = [id |-> id, user |-> owner[id], attempts |-> attempts[id]]
    /\ UNCHANGED <<config, clock, table, now, usable, windows, until, bounds, history>>

\* ... or there is none.
SelectNothing ==
    /\ pc = "lock"
    /\ mu = "free"
    /\ \A id \in Ids : ~Due(id, now)
    /\ Return
    /\ UNCHANGED <<config, clock, table, bounds, history>>

\* loadBark: without a key its error comes with empty settings, with a key
\* that does not decrypt it comes with the quiet window.
LoadBark ==
    /\ pc = "bark"
    /\ pc' = "schedule"
    /\ windows' = QuietOf(item.user)
    /\ usable' = (users[item.user] # "deleted" /\ bark[item.user].key = "saved")
    /\ UNCHANGED <<config, clock, table, now, item, until, mu, bounds, history>>

\* loadPollSchedule and deliveryDeferredUntil.  A deferral comes before the
\* error of loadBark is looked at.
DecideDeferral ==
    /\ pc = "schedule"
    /\ windows' = windows \union {sleep}
    /\ LET end == DeliveryDeferredUntil(windows', CapturedMinute)
       IN  /\ until' = IF end = 0 THEN 0 ELSE end - CapturedMinute
           /\ pc' = IF end # 0 THEN "defer" ELSE IF usable THEN "send" ELSE "failed"
    /\ UNCHANGED <<config, clock, table, now, item, usable, mu, bounds, history>>

\* The UPDATEs below find no row once the owner is deleted.
WriteDeferral ==
    /\ pc = "defer"
    /\ IF InTable(item.id)
       THEN /\ deferred' = [deferred EXCEPT ![item.id] = until + now]
            /\ stale' = IF windows # WindowsOf(item.user)
                        THEN stale \union {item.id} ELSE stale \ {item.id}
       ELSE UNCHANGED <<deferred, stale>>
    /\ Return
    /\ UNCHANGED <<config, clock, owner, status, attempts, next, lastId, bounds,
                   pushes, unrecorded, cancelled>>

\* BarkClient.Send: the server accepts the push ...
BarkAccepts ==
    /\ pc = "send"
    /\ pc' = "accepted"
    /\ pushes' = [pushes EXCEPT ![item.id] = @ + 1]
    /\ UNCHANGED <<config, clock, table, call, mu, bounds, unrecorded, cancelled, stale>>

\* ... or never gets it, or refuses it.
BarkRefuses ==
    /\ pc = "send"
    /\ pc' = "failed"
    /\ UNCHANGED <<config, clock, table, call, mu, bounds, history>>

\* The answer to an accepted push arrives ...
FaultyBarkSuccessIsError ==
    /\ pc = "accepted"
    /\ pc' = "failed"
    /\ UNCHANGED <<config, clock, table, call, mu, bounds, history>>

BarkAnswers ==
    /\ pc = "accepted"
    /\ pc' = "sent"
    /\ UNCHANGED <<config, clock, table, call, mu, bounds, history>>

\* ... or is lost: 15 seconds pass, or the context is cancelled at shutdown.
BarkAnswerLost ==
    /\ pc = "accepted"
    /\ pc' = "failed"
    /\ unrecorded' = [unrecorded EXCEPT ![item.id] = @ + 1]
    /\ UNCHANGED <<config, clock, table, call, mu, bounds, pushes, cancelled, stale>>

\* The UPDATE of a successful push; attempts is incremented in SQL.
SentRows(id) == {i \in {id} : InTable(i)}

RecordSent ==
    /\ pc = "sent"
    /\ LET rows == SentRows(item.id)
       IN  /\ status'   = [id \in Ids |-> IF id \in rows THEN "sent" ELSE status[id]]
           /\ attempts' = [id \in Ids |-> IF id \in rows THEN attempts[id] + 1
                                          ELSE attempts[id]]
           /\ deferred' = [id \in Ids |-> IF id \in rows THEN -LongAgo ELSE deferred[id]]
           /\ unrecorded' = IF rows # {} THEN unrecorded
                            ELSE [unrecorded EXCEPT ![item.id] = @ + 1]
    /\ Return
    /\ UNCHANGED <<config, clock, owner, next, lastId, bounds, pushes, cancelled, stale>>

\* recordDeliveryFailure: attempts comes from the row read at the start.
FaultyGiveUp(n) == n >= MaxAttempts - 1

GiveUp(n) == n >= MaxAttempts

RecordDeliveryFailure ==
    /\ pc = "failed"
    /\ LET n == item.attempts + 1
       IN  IF ~InTable(item.id) THEN UNCHANGED <<status, attempts, next>>
           ELSE /\ attempts' = [attempts EXCEPT ![item.id] = n]
                /\ IF GiveUp(n)
                   THEN /\ status' = [status EXCEPT ![item.id] = "failed"]
                        /\ UNCHANGED next
                   ELSE /\ next' = [next EXCEPT ![item.id] = RetryDelay[n]]
                        /\ UNCHANGED status
    /\ Return
    /\ UNCHANGED <<config, clock, owner, deferred, lastId, bounds, history>>

\* The error of each of the three UPDATEs is dropped: the call just ends.
WriteFails ==
    /\ pc \in {"defer", "sent", "failed"}
    /\ faults < MaxFaults
    /\ faults' = faults + 1
    /\ unrecorded' = IF pc = "sent"
                     THEN [unrecorded EXCEPT ![item.id] = @ + 1] ELSE unrecorded
    /\ Return
    /\ UNCHANGED <<config, clock, table, changes, pushes, cancelled, stale>>

-----------------------------------------------------------------------------
(* Other goroutines                                                        *)

\* recordVideos: one transaction adds a row for every subscriber in owners.
EnqueueDeliveries(owners) ==
    LET new == lastId + 1 .. lastId + Cardinality(owners)
    IN  /\ owners # {}
        /\ \A u \in owners : users[u] = "enabled"
        /\ new \subseteq Ids
        /\ \E of \in [new -> owners] :
              /\ \A i, j \in new : i # j => of[i] # of[j]
              /\ owner' = [id \in Ids |-> IF id \in new THEN of[id] ELSE owner[id]]
        /\ status' = [id \in Ids |-> IF id \in new THEN "pending" ELSE status[id]]
        /\ next' = [id \in Ids |-> IF id \in new THEN 0 ELSE next[id]]
        /\ lastId' = lastId + Cardinality(owners)
        /\ UNCHANGED <<config, clock, attempts, deferred, pc, call, mu, bounds, history>>

\* A request that was authenticated before the account was disabled may still
\* run.  deletePendingDeliveryHandler of user u: the DELETE, under deliveryMu.  Rows
\* deleted, it answers 204; otherwise it keeps the lock to read the status.
FaultyCancellableUnlocked(u, id) == PendingOf(u, id)

FaultyCancellableAnyStatus(u, id) == mu = "free" /\ owner[id] = u

Cancellable(u, id) == mu = "free" /\ PendingOf(u, id)

CancelPending(u, id) ==
    /\ users[u] # "deleted"
    /\ Cancellable(u, id)
    /\ DeleteRows({id})
    /\ cancelled' = cancelled \union {id}
    /\ UNCHANGED <<config, clock, lastId, pc, call, mu, bounds, pushes, unrecorded>>

CancelNothing(u, id) ==
    /\ users[u] # "deleted"
    /\ mu = "free"
    /\ ~PendingOf(u, id)
    /\ mu' = "cancel"
    /\ UNCHANGED <<config, clock, table, pc, call, bounds, history>>

\* The SELECT of the status, answered with 404 or 409
CancelStatus ==
    /\ mu = "cancel"
    /\ mu' = "free"
    /\ UNCHANGED <<config, clock, table, pc, call, bounds, history>>

Change == changes < MaxChanges /\ changes' = changes + 1

\* UPDATE deliveries SET deferred_until=0 for the pending rows of owners
FaultyResetNothing(owners) == UNCHANGED <<next, deferred, stale>>

FaultyResetRetryToo(owners) ==
    LET rows == {id \in Ids : Pending(id) /\ owner[id] \in owners}
    IN  /\ next' = [id \in Ids |-> IF id \in rows THEN 0 ELSE next[id]]
        /\ deferred' = [id \in Ids |-> IF id \in rows THEN -LongAgo ELSE deferred[id]]
        /\ stale' = stale \ rows

ResetDeferrals(owners) ==
    LET rows == {id \in Ids : Pending(id) /\ owner[id] \in owners}
    IN  /\ deferred' = [id \in Ids |-> IF id \in rows THEN -LongAgo ELSE deferred[id]]
        /\ stale' = stale \ rows
        /\ UNCHANGED next

\* saveBarkHandler: one transaction saves the settings and ends the deferrals
\* of the user.  A form without a key keeps the stored one, if there is one.
SaveBark(u, newKey, quiet) ==
    /\ Change
    /\ users[u] # "deleted"
    /\ newKey \/ bark[u].key # "none"
    /\ bark' = [bark EXCEPT ![u] = [key |-> IF newKey THEN "saved" ELSE @.key,
                                    quiet |-> quiet]]
    /\ ResetDeferrals({u})
    /\ UNCHANGED <<users, sleep, clock, owner, status, attempts, lastId, pc, call, mu,
                   faults, pushes, unrecorded, cancelled>>

\* updateSystemHandler: the schedule and every deferral, in one transaction
UpdateSystem(window) ==
    /\ Change
    /\ sleep' = window
    /\ ResetDeferrals(Users)
    /\ UNCHANGED <<users, bark, clock, owner, status, attempts, lastId, pc, call, mu,
                   faults, pushes, unrecorded, cancelled>>

\* updateUserHandler
SetEnabled(u) ==
    /\ Change
    /\ users[u] # "deleted"
    /\ users' = [users EXCEPT ![u] = IF @ = "enabled" THEN "disabled" ELSE "enabled"]
    /\ UNCHANGED <<bark, sleep, clock, table, pc, call, mu, faults, history>>

\* deleteUserHandler: the integrations row and the deliveries go with the user.
DeleteUser(u) ==
    /\ Change
    /\ users[u] # "deleted"
    /\ users' = [users EXCEPT ![u] = "deleted"]
    /\ bark' = [bark EXCEPT ![u] = [key |-> "none", quiet |-> {}]]
    /\ DeleteRows({id \in Ids : owner[id] = u})
    /\ UNCHANGED <<sleep, clock, lastId, pc, call, mu, faults,
                   pushes, unrecorded, cancelled>>

-----------------------------------------------------------------------------
(* The environment                                                         *)

\* The process stops, at any point, and starts again; main does not wait for
\* the workers.
Crash ==
    /\ faults < MaxFaults
    /\ faults' = faults + 1
    /\ Return
    /\ unrecorded' = IF pc \in {"accepted", "sent"}
                     THEN [unrecorded EXCEPT ![item.id] = @ + 1] ELSE unrecorded
    /\ UNCHANGED <<config, clock, table, changes, pushes, cancelled, stale>>

\* A minute passes, no more than MaxLag times during one call of the worker.
Tick ==
    /\ pc = "idle" \/ now > -MaxLag
    /\ Prompt => ~(pc = "idle" /\ \E id \in Ids : Due(id, 0))
    /\ clock' = (clock + 1) % Day
    /\ next' = [id \in Ids |-> Aged(next[id])]
    /\ deferred' = [id \in Ids |-> Aged(deferred[id])]
    /\ now' = IF pc = "idle" THEN 0 ELSE now - 1
    /\ UNCHANGED <<config, owner, status, attempts, lastId, pc, item, usable, windows,
                   until, mu, bounds, history>>

-----------------------------------------------------------------------------
\* Any stored configuration, an empty queue, the process just started
Init ==
    /\ users = [u \in Users |-> "enabled"]
    /\ bark \in [Users -> {b \in [key : {"none", "saved", "broken"}, quiet : QuietChoice] :
                              b.key = "none" => b.quiet = {}}]
    /\ sleep \in Windows
    /\ clock = 0
    /\ owner = [id \in Ids |-> NoUser]
    /\ status = [id \in Ids |-> "none"]
    /\ attempts = [id \in Ids |-> 0]
    /\ next = [id \in Ids |-> -LongAgo]
    /\ deferred = [id \in Ids |-> -LongAgo]
    /\ lastId = 0
    /\ pc = "idle"
    /\ now = 0
    /\ item = NoItem
    /\ usable = FALSE
    /\ windows = {}
    /\ until = 0
    /\ mu = "free"
    /\ changes = 0
    /\ faults = 0
    /\ pushes = [id \in Ids |-> 0]
    /\ unrecorded = [id \in Ids |-> 0]
    /\ cancelled = {}
    /\ stale = {}

Deliver ==
    \/ DeliverOne
    \/ \E id \in Ids : SelectDelivery(id)
    \/ SelectNothing
    \/ LoadBark
    \/ DecideDeferral
    \/ WriteDeferral
    \/ BarkAccepts
    \/ BarkRefuses
    \/ BarkAnswers
    \/ BarkAnswerLost
    \/ RecordSent
    \/ RecordDeliveryFailure

Handlers ==
    \/ \E owners \in SUBSET Users : EnqueueDeliveries(owners)
    \/ \E u \in Users, id \in Ids : CancelPending(u, id) \/ CancelNothing(u, id)
    \/ CancelStatus
    \/ \E u \in Users, newKey \in BOOLEAN, quiet \in QuietChoice :
          SaveBark(u, newKey, quiet)
    \/ \E window \in Windows : UpdateSystem(window)
    \/ \E u \in Users : SetEnabled(u) \/ DeleteUser(u)

Next == Deliver \/ WriteFails \/ Handlers \/ Crash \/ Tick

Spec == Init /\ [][Next]_vars

\* The ticker keeps firing, a step of the worker does not take forever (the
\* Bark client gives up after 15 seconds), a handler that holds deliveryMu
\* gives it back, and a sync.Mutex does not starve a waiter.  Nothing obliges
\* a user, an administrator or a fault to act.
Fairness ==
    /\ WF_vars(Deliver)
    /\ SF_vars(SelectNothing \/ \E id \in Ids : SelectDelivery(id))
    /\ WF_vars(CancelStatus)
    /\ WF_vars(Tick)

LiveSpec == Spec /\ Fairness

-----------------------------------------------------------------------------
(* Correctness                                                             *)

InFlight(id) == item.id = id /\ pc \in {"accepted", "sent"}

(* From its SELECT to its UPDATE the worker works on what it has read:     *)
(* the row is still pending, with the same number of attempts, unless the  *)
(* owner was deleted meanwhile.  Neither a cancellation nor any other      *)
(* handler slips in between (deliveryMu, workers.go:182 and                *)
(* subscriptions.go:516).                                                  *)
WorkerItemIsCurrent ==
    Busy => \/ users[item.user] = "deleted"
            \/ PendingOf(item.user, item.id) /\ attempts[item.id] = item.attempts

(* A cancellation answered with 204 means that the notification does not   *)
(* reach the phone, before or after: every push of it that Bark accepted   *)
(* is one whose answer or record was lost (deletePendingDeliveryHandler    *)
(* against deliverOneAt).                                                  *)
CancelledIsNotPushed ==
    \A id \in cancelled : pushes[id] <= unrecorded[id]

(* An accepted push is repeated only if the worker could not record it: a  *)
(* lost answer, a crash before the UPDATE, a failed UPDATE, a deleted      *)
(* user.  A row says "sent" exactly when its last push was accepted and    *)
(* recorded.                                                               *)
NoDuplicatePush ==
    \A id \in Ids :
        /\ pushes[id] <= unrecorded[id] + 1
        /\ status[id] = "sent" => pushes[id] = unrecorded[id] + 1
        /\ (status[id] \in {"pending", "failed"} /\ ~InFlight(id))
              => pushes[id] = unrecorded[id]

(* Bark is not asked for ever: every push uses up one of the attempts of   *)
(* the row, apart from at most one per crash or failed write; and a row    *)
(* fails exactly when all attempts were used (recordDeliveryFailure).      *)
PushesAreBounded ==
    \A id \in Ids :
        /\ pushes[id] <= MaxAttempts + faults
        /\ status[id] = "pending" => attempts[id] < MaxAttempts
        /\ status[id] = "failed" => attempts[id] = MaxAttempts

(* A row is held back only as long as the windows in force say: if it was  *)
(* deferred by the configuration still in force, a window is open now and  *)
(* the deferral ends no later than these windows do, whatever was saved in *)
(* between (saveBarkHandler and updateSystemHandler end the deferrals).    *)
DeferralIsJustified ==
    \A id \in Ids \ stale :
        Pending(id) /\ deferred[id] > 0 =>
            LET end == DeliveryDeferredUntil(WindowsOf(owner[id]), clock)
            IN  end # 0 /\ deferred[id] <= end - clock

(* No push is under way that the windows in force forbade when the worker  *)
(* read the clock, unless they were changed after the worker read them.    *)
NoPushInsideWindow ==
    pc \in {"send", "accepted"} /\ windows = WindowsOf(item.user)
        => ActiveWindows(WindowsOf(item.user), CapturedMinute) = {}

(* A retry never comes early: only the passing of time brings the next     *)
(* attempt of a pending row nearer, not a change of settings or a deferral *)
(* (next_attempt_at is apart from deferred_until for that reason).         *)
BackoffNeverShortened ==
    [][\A id \in Ids :
          Pending(id) /\ status'[id] = "pending"
             => \/ next'[id] >= next[id]
                \/ /\ clock' # clock
                   /\ next'[id] = next[id] - 1]_vars

\* Some minute of the day is outside the windows of u.
HasGap(u) == \E m \in Minute : ActiveWindows(WindowsOf(u), m) = {}

(* Every delivery is settled in the end: a pending row of a user who stays *)
(* enabled, and whose windows leave a gap in the day, is sent, fails for   *)
(* good or is cancelled.                                                   *)
DeliveryIsSettled ==
    \A id \in Ids, u \in Users :
        <>[](users[u] = "enabled" /\ HasGap(u))
            => [](Pending(id) /\ owner[id] = u => <>~Pending(id))

(* docs/CONFIGURATION.md:129, "after a change of the configuration the     *)
(* waiting notifications are judged anew": no pending row stays deferred   *)
(* when the windows in force are closed.                                   *)
DeferralFollowsConfiguration ==
    \A id \in Ids :
        Pending(id) /\ deferred[id] > 0
            => ActiveWindows(WindowsOf(owner[id]), clock) # {}

\* What a user may know of notification id
Fate(id) ==
    IF id \in cancelled THEN "cancelled"
    ELSE IF Pending(id) THEN "waiting"
    ELSE IF InTable(id) THEN status[id]
    ELSE IF id <= lastId THEN "gone" ELSE "none"

N == INSTANCE Notification
     WITH Notifications <- Ids, fate <- [id \in Ids |-> Fate(id)],
          heard <- pushes, missed <- unrecorded

(* The worker, the handlers, faults and restarts together keep the promise *)
(* of Notification: the phone is reached again only after an answer or a   *)
(* record was lost, a notification is settled once and truthfully, and     *)
(* nothing is pushed that was settled (deliverOneAt,                       *)
(* recordDeliveryFailure, deletePendingDeliveryHandler).                   *)
ImplementsNotification == N!Spec

=============================================================================
