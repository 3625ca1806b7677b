----------------------------- MODULE PollQueue -----------------------------
(***************************************************************************)
(* When a creator is polled: the table poll_states, the goroutine that     *)
(* polls the first due creator (runPollWorker, pollOne and                 *)
(* recordPollFailure of workers.go), the recalculation of the table after  *)
(* a change of period or of the schedule (requeueNormalPolls of            *)
(* schedule.go), and the handlers that write to the table: saving the      *)
(* schedule, subscribing by UID, importing followed accounts.  What a poll *)
(* finds is the matter of Feed.                                            *)
(*                                                                         *)
(* A statement or a transaction is one step (the database pool has one     *)
(* connection); an interval read by one statement may be old by the time   *)
(* another one writes what follows from it.                                *)
(*                                                                         *)
(* Instants are minutes relative to the present, as in Delivery: the       *)
(* passing of time lowers them, and -LongAgo stands for every instant at   *)
(* least that long ago.                                                    *)
(*                                                                         *)
(* Operators named Faulty... are wrong versions of the operator that       *)
(* follows them, substituted for it to see that a property notices.        *)
(***************************************************************************)
EXTENDS Schedule, Sequences

CONSTANTS
    Creators,
    NoCreator,
    Schedules,    \* the poll schedules an administrator may save
    Backoff,      \* Backoff[k]: minutes to wait after the k-th failure in a row
    MaxJitter,    \* minutes added to an interval at random, at most
    LongAgo,      \* bound: how far back the age of an instant is told apart
    MaxLag,       \* bound: minutes a poll or a request may take
    MaxChanges,   \* bound: requests that change something
    MaxFaults     \* bound: crashes and failed writes

ASSUME PollQueueAssumption ==
    /\ IsFiniteSet(Creators) /\ NoCreator \notin Creators
    /\ \A s \in Schedules : s \in PollSchedule /\ ValidatePollSchedule(s)
    /\ Backoff \in Seq(Nat \ {0}) /\ Backoff # <<>>
    /\ LongAgo \in Nat \ {0}
    /\ MaxLag \in 0 .. LongAgo
    /\ {MaxJitter, MaxChanges, MaxFaults} \subseteq Nat

VARIABLES
    schedule,    \* the stored poll schedule
    clock,       \* minute of the day
    active,      \* creators with an enabled subscription of an enabled user
    \* table poll_states
    queued,      \* its rows
    next,        \* next_poll_at
    polled,      \* rows whose last_polled_at is not NULL
    last,        \* last_polled_at of those
    failures,    \* failure_count; last_error is '' exactly when it is 0
    \* the poll goroutine: where it is, and its locals
    pc,
    period,      \* lastPeriod
    mid,         \* the creator it polls
    now,         \* the instant the poll or the recalculation started
    interval,    \* the interval it has read
    due,         \* the next instant it has worked out
    count,       \* the failure count it has read
    admin,       \* the request that saves the schedule, after its transaction
    import,      \* the request that imports followed accounts, for one of them
    changes,
    faults,
    \* history, read by no action of the code
    wait,        \* wait[c]: end of the delay its last failure asked for
    stale        \* rows written with an interval that was no longer in force, or
                 \* left with the one of a period that passed unnoticed

table    == <<queued, next, polled, last, failures>>
worker   == <<pc, period, mid, now, interval, due, count>>
requests == <<admin, import>>
bounds   == <<changes, faults>>
history  == <<wait, stale>>
vars     == <<schedule, clock, active, table, worker, requests, bounds, history>>

\* requeueNormalPolls, called by updateSystemHandler
Recalculation == [step : {"none", "read", "write"}, interval : Int]

NoRecalculation == [step |-> "none", interval |-> 0]

Import == [step : {"none", "commit", "record"}, mid : Creators \union {NoCreator},
           answered : BOOLEAN, interval : Int, age : Int]

NoImport == [step |-> "none", mid |-> NoCreator, answered |-> FALSE,
             interval |-> 0, age |-> 0]

WorkerPcs == {"down", "idle", "read", "requeue", "select", "fetch", "interval", "polled",
              "failed", "backoff"}

TypeOK ==
    /\ schedule \in Schedules
    /\ clock \in Minute
    /\ active \subseteq queued /\ queued \subseteq Creators
    /\ polled \subseteq queued
    /\ next \in [Creators -> Int] /\ last \in [Creators -> Int]
    /\ failures \in [Creators -> 0 .. Len(Backoff)]
    /\ pc \in WorkerPcs
    /\ period \in {"sleep", "work", "free"}
    /\ mid \in Creators \union {NoCreator}
    /\ {now, interval, due} \subseteq Int
    /\ count \in 0 .. Len(Backoff)
    /\ admin \in Recalculation /\ import \in Import
    /\ {changes, faults} \subseteq Nat
    /\ wait \in [Creators -> Int]
    /\ stale \subseteq queued

-----------------------------------------------------------------------------
Aged(t) == IF t > -LongAgo THEN t - 1 ELSE t

Later(t, u) == IF t > u THEN t ELSE u
Earlier(t, u) == IF t < u THEN t ELSE u

\* currentPollIntervalSeconds
CurrentInterval == IntervalAt(schedule, clock)

CurrentPeriod == PeriodAt(schedule, clock)

\* The rows of cs were just written with an interval read as i.
Judge(cs, i) ==
    stale' = IF i = CurrentInterval THEN stale \ cs ELSE stale \union (cs \intersect queued')

\* The UPDATE of requeueNormalPolls, with the interval i
FaultyNormalAll == queued

Normal == {c \in queued : failures[c] = 0}

FaultyRequeuedFromNow(c, i) == IF c \in polled THEN i ELSE Earlier(next[c], 0)

Requeued(c, i) == IF c \in polled THEN Later(0, last[c] + i) ELSE Earlier(next[c], 0)

Requeue(i) ==
    /\ next' = [c \in Creators |-> IF c \in Normal THEN Requeued(c, i) ELSE next[c]]
    /\ UNCHANGED <<queued, polled, last, failures, wait>>
    /\ Judge(Normal, i)

\* An UPDATE of the row of c, if it is still there
Update(c, lastPoll, nextPoll, n, delay) ==
    IF c \notin queued THEN UNCHANGED <<table, wait>>
    ELSE /\ polled' = polled \union {c}
         /\ last' = [last EXCEPT ![c] = lastPoll]
         /\ next' = [next EXCEPT ![c] = nextPoll]
         /\ failures' = [failures EXCEPT ![c] = n]
         /\ wait' = [wait EXCEPT ![c] = delay]
         /\ UNCHANGED queued

-----------------------------------------------------------------------------
(* The poll goroutine                                                      *)

Forget ==
    /\ mid' = NoCreator
    /\ now' = 0 /\ interval' = 0 /\ due' = 0 /\ count' = 0

Still(step) ==
    /\ pc' = step
    /\ UNCHANGED <<period, mid, now, interval, due, count>>

\* The process starts: openDB has set back the creators without any video that
\* were never polled (schema.sql), and runPollWorker begins.
Start ==
    /\ pc = "down"
    /\ \E blank \in SUBSET (Normal \ polled) :
          next' = [c \in Creators |-> IF c \in blank THEN -LongAgo ELSE next[c]]
    /\ pc' = "read"
    /\ period' = CurrentPeriod
    /\ UNCHANGED <<schedule, clock, active, queued, polled, last, failures, mid, now, interval,
                   due, count, requests, bounds, history>>

\* The ticker fires: is it another period by now?
PeriodPassed == CurrentPeriod # period

PeriodCheck ==
    /\ pc = "idle"
    /\ pc' = IF PeriodPassed THEN "read" ELSE "select"
    /\ period' = IF PeriodPassed THEN CurrentPeriod ELSE period
    /\ UNCHANGED <<schedule, clock, active, table, mid, now, interval, due, count, requests,
                   bounds, history>>

\* requeueNormalPolls reads the interval, and then updates the table.
ReadInterval ==
    /\ pc = "read"
    /\ pc' = "requeue"
    /\ interval' = CurrentInterval
    /\ UNCHANGED <<schedule, clock, active, table, period, mid, now, due, count, requests, bounds,
                   history>>

RequeueNormalPolls ==
    /\ pc = "requeue"
    /\ Requeue(interval)
    /\ pc' = "select"
    /\ Forget
    /\ UNCHANGED <<schedule, clock, active, period, requests, bounds>>

\* pollOne: the active creator that has been due longest ...
Due(c) == c \in active /\ next[c] <= 0

FirstDue(c) == Due(c) /\ \A d \in Creators : Due(d) => next[c] <= next[d]

PollSelect(c) ==
    /\ pc = "select"
    /\ FirstDue(c)
    /\ pc' = "fetch"
    /\ mid' = c
    /\ now' = 0
    /\ UNCHANGED <<schedule, clock, active, table, period, interval, due, count, requests,
                   bounds, history>>

\* ... or none.
PollNothing ==
    /\ pc = "select"
    /\ \A c \in Creators : ~Due(c)
    /\ pc' = "idle"
    /\ Forget
    /\ UNCHANGED <<schedule, clock, active, table, period, requests, bounds, history>>

\* Bilibili has answered and recordVideos has saved the answer, or not.
FetchEnds ==
    /\ pc = "fetch"
    /\ \E outcome \in {"interval", "failed"} : Still(outcome)
    /\ UNCHANGED <<schedule, clock, active, table, requests, bounds, history>>

\* The interval in force now and the jitter give the next instant ...
ReadNext ==
    /\ pc = "interval"
    /\ pc' = "polled"
    /\ interval' = CurrentInterval
    /\ \E jitter \in 0 .. MaxJitter : due' = CurrentInterval + jitter
    /\ UNCHANGED <<schedule, clock, active, table, period, mid, now, count, requests, bounds,
                   history>>

\* ... that the last statement of pollOne writes.
WriteNext ==
    /\ pc = "polled"
    /\ Update(mid, now, due, 0, -LongAgo)
    /\ Judge({mid}, interval)
    /\ pc' = "idle"
    /\ Forget
    /\ UNCHANGED <<schedule, clock, active, period, requests, bounds>>

\* recordPollFailure reads the count and then writes it back, one higher.  A
\* count beyond the last delay makes no difference.
ReadFailures ==
    /\ pc = "failed"
    /\ pc' = "backoff"
    /\ count' = IF mid \in queued THEN failures[mid] ELSE 0
    /\ UNCHANGED <<schedule, clock, active, table, period, mid, now, interval, due, requests,
                   bounds, history>>

WriteBackoff ==
    /\ pc = "backoff"
    /\ LET k == Earlier(count + 1, Len(Backoff))
       IN  Update(mid, 0, Backoff[k], k, Backoff[k])
    /\ stale' = stale \ {mid}
    /\ pc' = "idle"
    /\ Forget
    /\ UNCHANGED <<schedule, clock, active, period, requests, bounds>>

\* The error of each UPDATE is dropped.
WriteFails ==
    /\ pc \in {"requeue", "polled", "backoff"}
    /\ faults < MaxFaults
    /\ faults' = faults + 1
    /\ stale' = IF pc = "requeue" THEN stale \union Normal ELSE stale
    /\ pc' = IF pc = "requeue" THEN "select" ELSE "idle"
    /\ Forget
    /\ UNCHANGED <<schedule, clock, active, table, period, requests, changes, wait>>

-----------------------------------------------------------------------------
(* Requests                                                                *)

Change ==
    /\ pc # "down"
    /\ changes < MaxChanges
    /\ changes' = changes + 1

\* updateSystemHandler: the transaction, and then requeueNormalPolls
FaultyAfterSave == NoRecalculation

AfterSave == [step |-> "read", interval |-> 0]

UpdateSystem(s) ==
    /\ Change
    /\ admin.step = "none"
    /\ schedule' = s
    /\ admin' = AfterSave
    /\ UNCHANGED <<clock, active, table, worker, import, faults, history>>

AdminReadInterval ==
    /\ admin.step = "read"
    /\ admin' = [step |-> "write", interval |-> CurrentInterval]
    /\ UNCHANGED <<schedule, clock, active, table, worker, import, bounds, history>>

AdminRequeue ==
    /\ admin.step = "write"
    /\ Requeue(admin.interval)
    /\ admin' = NoRecalculation
    /\ UNCHANGED <<schedule, clock, active, worker, import, bounds>>

\* The error of its UPDATE is dropped too, after the schedule was saved.
AdminRequeueFails ==
    /\ admin.step = "write"
    /\ faults < MaxFaults
    /\ faults' = faults + 1
    /\ stale' = stale \union Normal
    /\ admin' = NoRecalculation
    /\ UNCHANGED <<schedule, clock, active, table, worker, import, changes, wait>>

\* A new row of poll_states, due at t
Insert(c, t) ==
    /\ queued' = queued \union {c}
    /\ next' = [next EXCEPT ![c] = t]
    /\ UNCHANGED <<polled, last, failures, wait>>

\* createSubscriptionHandler: a new row is due in 60 seconds, a row that is
\* there already stays.
Subscribe(c) ==
    /\ Change
    /\ active' = active \union {c}
    /\ IF c \in queued THEN UNCHANGED <<table, wait>> ELSE Insert(c, 1)
    /\ UNCHANGED <<schedule, clock, worker, requests, faults, stale>>

\* importFollowingsHandler, for one of the chosen creators: the fetch and the
\* interval ...
StartImport(c) ==
    /\ Change
    /\ import.step = "none"
    /\ \E answered \in BOOLEAN :
          import' = [step |-> "commit", mid |-> c, answered |-> answered,
                     interval |-> CurrentInterval, age |-> 0]
    /\ UNCHANGED <<schedule, clock, active, table, worker, admin, faults, history>>

\* ... the transaction: a row that is there already may come earlier ...
ImportCommit ==
    LET c == import.mid
        t == IF import.answered THEN import.interval ELSE 0
    IN  /\ import.step = "commit"
        /\ active' = active \union {c}
        /\ IF c \notin queued THEN Insert(c, t)
           ELSE /\ next' = [next EXCEPT ![c] = Earlier(next[c], t)]
                /\ wait' = [wait EXCEPT ![c] = Earlier(wait[c], t)]
                /\ UNCHANGED <<queued, polled, last, failures>>
        /\ IF c \in queued THEN UNCHANGED stale ELSE Judge({c}, import.interval)
        /\ import' = IF import.answered THEN [import EXCEPT !.step = "record"] ELSE NoImport
        /\ UNCHANGED <<schedule, clock, worker, admin, bounds>>

\* ... and after recordVideos, the row of a creator that was polled just now.
ImportRecord ==
    /\ import.step = "record"
    /\ Update(import.mid, 0, import.interval, 0, -LongAgo)
    /\ Judge({import.mid}, import.interval)
    /\ import' = NoImport
    /\ UNCHANGED <<schedule, clock, active, worker, admin, bounds>>

\* recordVideos failed: the poll goroutine shall do it at once.
ImportRecordFails ==
    /\ import.step = "record"
    /\ IF import.mid \in queued
       THEN /\ next' = [next EXCEPT ![import.mid] = 0]
            /\ wait' = [wait EXCEPT ![import.mid] = Earlier(@, 0)]
       ELSE UNCHANGED <<next, wait>>
    /\ import' = NoImport
    /\ UNCHANGED <<schedule, clock, active, queued, polled, last, failures, worker, admin,
                   bounds, stale>>

\* The last enabled subscription is paused or removed, or its user disabled;
\* a subscription is resumed, or its user enabled, which needs no bound of its own.
Deactivate(c) ==
    /\ Change
    /\ c \in active
    /\ active' = active \ {c}
    /\ UNCHANGED <<schedule, clock, table, worker, requests, faults, history>>

Reactivate(c) ==
    /\ pc # "down"
    /\ c \in queued \ active
    /\ active' = active \union {c}
    /\ UNCHANGED <<schedule, clock, table, worker, requests, bounds, history>>

\* deleteUserHandler deletes a creator that nobody needs, and its row with it.
DeleteCreator(c) ==
    /\ Change
    /\ c \in queued
    /\ active' = active \ {c}
    /\ queued' = queued \ {c}
    /\ polled' = polled \ {c}
    /\ next' = [next EXCEPT ![c] = -LongAgo]
    /\ last' = [last EXCEPT ![c] = -LongAgo]
    /\ failures' = [failures EXCEPT ![c] = 0]
    /\ wait' = [wait EXCEPT ![c] = -LongAgo]
    /\ stale' = stale \ {c}
    /\ UNCHANGED <<schedule, clock, worker, requests, faults>>

-----------------------------------------------------------------------------
(* The environment                                                         *)

\* The process stops, and the requests with it.
Crash ==
    /\ pc # "down"
    /\ faults < MaxFaults
    /\ faults' = faults + 1
    /\ pc' = "down"
    /\ Forget
    /\ admin' = NoRecalculation
    /\ import' = NoImport
    /\ UNCHANGED <<schedule, clock, active, table, period, changes, history>>

\* Statements follow one another within a minute; what takes time is Bilibili.
\* The goroutine looks at the table every two seconds: it does not sit idle for
\* a minute while there is something to do.
Waiting ==
    \/ pc = "down"
    \/ pc = "fetch" /\ now > -MaxLag
    \/ pc = "idle" /\ ~PeriodPassed /\ \A c \in Creators : ~Due(c)

\* The period is again the one the goroutine has seen last, and it has not seen
\* the one in between: what was written meanwhile is not recalculated.
PassedUnnoticed == PeriodPassed /\ PeriodAt(schedule, clock') = period

\* A minute passes; a poll and an import take MaxLag minutes at most.
Tick ==
    /\ Waiting
    /\ admin.step = "none"
    /\ import.step # "none" => import.age > -MaxLag
    /\ clock' = (clock + 1) % Day
    /\ next' = [c \in Creators |-> Aged(next[c])]
    /\ last' = [c \in Creators |-> Aged(last[c])]
    /\ wait' = [c \in Creators |-> Aged(wait[c])]
    /\ now' = IF pc = "fetch" THEN now - 1 ELSE now
    /\ import' = IF import.step = "none" THEN import ELSE [import EXCEPT !.age = @ - 1]
    /\ stale' = IF PassedUnnoticed THEN stale \union Normal ELSE stale
    /\ UNCHANGED <<schedule, active, queued, polled, failures, pc, period, mid, interval, due,
                   count, admin, bounds>>

Init ==
    /\ schedule \in Schedules
    /\ clock = 0
    /\ active = {} /\ queued = {} /\ polled = {}
    /\ next = [c \in Creators |-> -LongAgo]
    /\ last = [c \in Creators |-> -LongAgo]
    /\ failures = [c \in Creators |-> 0]
    /\ pc = "down"
    /\ period = "free"
    /\ mid = NoCreator
    /\ now = 0 /\ interval = 0 /\ due = 0 /\ count = 0
    /\ admin = NoRecalculation
    /\ import = NoImport
    /\ changes = 0 /\ faults = 0
    /\ wait = [c \in Creators |-> -LongAgo]
    /\ stale = {}

Poll ==
    \/ Start
    \/ PeriodCheck
    \/ ReadInterval \/ RequeueNormalPolls
    \/ \E c \in Creators : PollSelect(c)
    \/ PollNothing
    \/ FetchEnds
    \/ ReadNext \/ WriteNext
    \/ ReadFailures \/ WriteBackoff

Answer == AdminReadInterval \/ AdminRequeue \/ ImportCommit \/ ImportRecord \/ ImportRecordFails

Ask ==
    \/ \E s \in Schedules : UpdateSystem(s)
    \/ \E c \in Creators : \/ Subscribe(c) \/ StartImport(c)
                           \/ Deactivate(c) \/ Reactivate(c) \/ DeleteCreator(c)

Next == Poll \/ WriteFails \/ Answer \/ AdminRequeueFails \/ Ask \/ Crash \/ Tick

Spec == Init /\ [][Next]_vars

\* The process is started again, its ticker keeps firing, Bilibili answers or
\* the HTTP client gives up, a request under way comes to its end, and time goes
\* on between two looks at the table.
Fairness == WF_vars(Poll) /\ WF_vars(Answer) /\ SF_vars(Tick)

LiveSpec == Spec /\ Fairness

-----------------------------------------------------------------------------
(* Correctness                                                             *)

(* A creator whose polls fail is left alone for the whole delay of its     *)
(* last failure, whatever periods pass, schedules are saved or restarts    *)
(* happen meanwhile (docs/CONFIGURATION.md:94); only an import, which      *)
(* fetches the creator anyway, may bring the next poll forward.            *)
BackoffKept == pc = "fetch" => wait[mid] <= now

(* Once the period and the saved schedule have been noticed, the next poll *)
(* of a creator that does not fail is no later than the schedule in force  *)
(* says, counted from its last poll, unless the row was written with an    *)
(* interval read before a change (pollOne, import and requeueNormalPolls   *)
(* read the interval in one statement and use it in another), or its       *)
(* recalculation failed or never came: the goroutine compares the period   *)
(* with the one it saw last and misses one that came and went meanwhile.   *)
ScheduleReachesEveryRow ==
    pc = "idle" /\ ~PeriodPassed /\ admin.step = "none" =>
        \A c \in Normal \ stale :
            next[c] <= CurrentInterval + MaxJitter
                          + (IF c \in polled THEN Earlier(last[c] + MaxLag, 0) ELSE 0)
                \/ next[c] <= 0

(* Every creator somebody follows is polled again and again, whatever the  *)
(* others do and however its polls fail: a recalculation at every change   *)
(* of period never puts it off for ever, and no other creator starves it.  *)
PolledAgainAndAgain ==
    \A c \in Creators :
        <>[](c \in active) => []<>(pc = "fetch" /\ mid = c)

=============================================================================
