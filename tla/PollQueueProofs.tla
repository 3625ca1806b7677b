-------------------------- MODULE PollQueueProofs --------------------------
(***************************************************************************)
(* Theorems about PollQueue, for every set of creators, every set of valid *)
(* schedules, every backoff and any time a poll may take.                  *)
(***************************************************************************)
EXTENDS PollQueue, TLAPS

Polling == {"fetch", "interval", "polled", "failed", "backoff"}

\* No instant is further back than LongAgo; a row is not due before the end of
\* the delay its last failure asked for, and only a failure asks for one.
RowInv ==
    \A c \in Creators :
        /\ -LongAgo <= next[c]
        /\ -LongAgo <= last[c] /\ last[c] <= 0
        /\ wait[c] <= next[c]
        /\ c \notin queued \/ failures[c] = 0 => wait[c] <= -LongAgo

\* What the goroutine has read
WorkerInv ==
    /\ pc \in Polling => mid \in Creators
    /\ -MaxLag <= now /\ now <= 0
    /\ pc \in {"requeue", "polled"} => interval >= 0
    /\ pc = "polled" => interval <= due /\ due <= interval + MaxJitter

\* What the requests have read
RequestInv ==
    /\ admin.step = "write" => admin.interval >= 0
    /\ import.step # "none" => import.mid \in Creators /\ import.interval >= 0

\* A row that the interval i would not make earlier
Timely(c, i) ==
    \/ next[c] <= 0
    \/ next[c] <= i + MaxJitter + (IF c \in polled THEN Earlier(last[c] + MaxLag, 0) ELSE 0)

\* Whoever is to recalculate the table has done so.
Settled ==
    /\ pc \notin {"down", "read", "requeue"}
    /\ admin.step = "none"
    /\ CurrentPeriod = period

TimelyInv == Settled => \A c \in Normal \ stale : Timely(c, CurrentInterval)

IInv == TypeOK /\ RowInv /\ WorkerInv /\ RequestInv /\ BackoffKept /\ TimelyInv

-----------------------------------------------------------------------------
(* Types                                                                   *)

LEMMA IntervalType ==
    ASSUME NEW s \in Schedules, NEW m \in Minute
    PROVE  IntervalAt(s, m) \in Nat \ {0}
<1>1. {s.sleepInterval, s.workInterval, s.freeInterval} \subseteq Interval
    BY PollQueueAssumption DEF ValidatePollSchedule
<1>2. {s.sleepInterval, s.workInterval, s.freeInterval} \subseteq Nat \ {0}
    BY <1>1, IntervalAssumption DEF Interval
<1> QED
    BY <1>2 DEF IntervalAt

LEMMA PeriodType ==
    ASSUME NEW s \in Schedules, NEW m \in Minute
    PROVE  PeriodAt(s, m) \in {"sleep", "work", "free"}
BY DEF PeriodAt

LEMMA ConstantTypes ==
    /\ LongAgo \in Nat \ {0} /\ MaxLag \in 0 .. LongAgo /\ MaxJitter \in Nat
    /\ MaxChanges \in Nat /\ MaxFaults \in Nat
    /\ Len(Backoff) \in Nat \ {0}
    /\ \A k \in 1 .. Len(Backoff) : Backoff[k] \in Nat \ {0}
BY PollQueueAssumption

LEMMA NoRequestType == NoRecalculation \in Recalculation /\ NoImport \in Import
BY DEF NoRecalculation, Recalculation, NoImport, Import

LEMMA AgedType ==
    ASSUME NEW t \in Int
    PROVE  /\ Aged(t) \in Int
           /\ Aged(t) <= t
           /\ t >= -LongAgo => Aged(t) >= -LongAgo
           /\ t <= -LongAgo => Aged(t) = t
           /\ t > -LongAgo => Aged(t) = t - 1
BY ConstantTypes DEF Aged

LEMMA SetType ==
    ASSUME NEW f \in [Creators -> Int], NEW c, NEW t \in Int
    PROVE  [f EXCEPT ![c] = t] \in [Creators -> Int]
OBVIOUS

LEMMA ChangeType == TypeOK /\ Change => {changes', faults} \subseteq Nat
BY DEF TypeOK, Change

LEMMA JudgeType ==
    ASSUME stale \subseteq queued, NEW cs, NEW i, Judge(cs, i),
           \A c \in queued : c \in queued' \/ c \notin stale
    PROVE  stale' \subseteq queued'
BY DEF Judge

LEMMA RequeueType ==
    ASSUME TypeOK, NEW i \in Int, Requeue(i)
    PROVE  /\ next' \in [Creators -> Int]
           /\ stale' \subseteq queued'
<1>1. \A c \in Creators : Requeued(c, i) \in Int
    BY DEF TypeOK, Requeued, Later, Earlier
<1>2. next' \in [Creators -> Int]
    BY <1>1 DEF Requeue, TypeOK
<1>3. stale' \subseteq queued'
    BY DEF Requeue, TypeOK, Judge, Normal
<1> QED
    BY <1>2, <1>3

LEMMA UpdateType ==
    ASSUME TypeOK, NEW c, NEW t \in Int, NEW u \in Int,
           NEW n \in 0 .. Len(Backoff), NEW d \in Int, Update(c, t, u, n, d)
    PROVE  /\ queued' = queued
           /\ polled' \subseteq queued
           /\ next' \in [Creators -> Int] /\ last' \in [Creators -> Int]
           /\ failures' \in [Creators -> 0 .. Len(Backoff)]
           /\ wait' \in [Creators -> Int]
<1>1. CASE c \notin queued
    BY <1>1 DEF Update, table, TypeOK
<1>2. CASE c \in queued
    BY <1>2 DEF Update, TypeOK
<1> QED
    BY <1>1, <1>2

LEMMA InsertType ==
    ASSUME TypeOK, NEW c \in Creators, NEW t \in Int, Insert(c, t)
    PROVE  /\ queued' = queued \union {c} /\ queued' \subseteq Creators
           /\ next' \in [Creators -> Int]
           /\ UNCHANGED <<polled, last, failures, wait>>
BY DEF Insert, TypeOK

LEMMA WorkerTypes == TypeOK /\ (Poll \/ WriteFails) => TypeOK'
<1> SUFFICES ASSUME TypeOK, Poll \/ WriteFails PROVE TypeOK'
    OBVIOUS
<1> USE ConstantTypes
<1>i. CurrentInterval \in Nat \ {0} /\ CurrentPeriod \in {"sleep", "work", "free"}
    BY IntervalType, PeriodType DEF TypeOK, CurrentInterval, CurrentPeriod
<1>1. CASE Start
    BY <1>1, <1>i DEF Start, TypeOK, requests, bounds, history, WorkerPcs, Normal
<1>2. CASE PeriodCheck
    BY <1>2, <1>i DEF PeriodCheck, TypeOK, table, requests, bounds, history, WorkerPcs
<1>3. CASE ReadInterval
    BY <1>3, <1>i DEF ReadInterval, TypeOK, table, requests, bounds, history, WorkerPcs
<1>4. CASE RequeueNormalPolls
  <2>1. interval \in Int
      BY DEF TypeOK
  <2>2. next' \in [Creators -> Int] /\ stale' \subseteq queued'
      BY <1>4, <2>1, RequeueType DEF RequeueNormalPolls
  <2> QED
      BY <1>4, <2>2 DEF RequeueNormalPolls, Requeue, Forget, TypeOK, requests, bounds, WorkerPcs
<1>5. CASE \E c \in Creators : PollSelect(c)
    BY <1>5 DEF PollSelect, TypeOK, table, requests, bounds, history, WorkerPcs
<1>6. CASE PollNothing
    BY <1>6 DEF PollNothing, Forget, TypeOK, table, requests, bounds, history, WorkerPcs
<1>7. CASE FetchEnds
    BY <1>7 DEF FetchEnds, Still, TypeOK, table, requests, bounds, history, WorkerPcs
<1>8. CASE ReadNext
    BY <1>8, <1>i DEF ReadNext, TypeOK, table, requests, bounds, history, WorkerPcs
<1>9. CASE WriteNext
  <2>1. now \in Int /\ due \in Int /\ 0 \in 0 .. Len(Backoff) /\ -LongAgo \in Int
      BY DEF TypeOK
  <2>2. Update(mid, now, due, 0, -LongAgo)
      BY <1>9 DEF WriteNext
  <2>3. /\ queued' = queued /\ polled' \subseteq queued
        /\ next' \in [Creators -> Int] /\ last' \in [Creators -> Int]
        /\ failures' \in [Creators -> 0 .. Len(Backoff)] /\ wait' \in [Creators -> Int]
      BY <2>1, <2>2, UpdateType
  <2>4. stale' \subseteq queued'
      BY <1>9, <2>3, JudgeType DEF WriteNext, TypeOK
  <2> QED
      BY <1>9, <2>3, <2>4 DEF WriteNext, Forget, TypeOK, requests, bounds, WorkerPcs
<1>10. CASE ReadFailures
    BY <1>10 DEF ReadFailures, TypeOK, table, requests, bounds, history, WorkerPcs
<1>11. CASE WriteBackoff
  <2> DEFINE k == Earlier(count + 1, Len(Backoff))
  <2>1. k \in 1 .. Len(Backoff) /\ Backoff[k] \in Int /\ 0 \in Int
      BY DEF TypeOK, Earlier
  <2>2. Update(mid, 0, Backoff[k], k, Backoff[k])
      BY <1>11 DEF WriteBackoff
  <2>3. k \in 0 .. Len(Backoff)
      BY <2>1
  <2> HIDE DEF k
  <2>4. /\ queued' = queued /\ polled' \subseteq queued
        /\ next' \in [Creators -> Int] /\ last' \in [Creators -> Int]
        /\ failures' \in [Creators -> 0 .. Len(Backoff)] /\ wait' \in [Creators -> Int]
      BY <2>1, <2>2, <2>3, UpdateType
  <2>5. /\ stale' = stale \ {mid} /\ pc' = "idle" /\ Forget
        /\ UNCHANGED <<schedule, clock, active, period, admin, import, changes, faults>>
      BY <1>11 DEF WriteBackoff, requests, bounds
  <2>6. stale' \subseteq queued' /\ active' \subseteq queued' /\ queued' \subseteq Creators
      BY <2>4, <2>5 DEF TypeOK
  <2> QED
      BY <2>4, <2>5, <2>6 DEF Forget, TypeOK, WorkerPcs
<1>12. CASE WriteFails
    BY <1>12 DEF WriteFails, Forget, TypeOK, table, requests, WorkerPcs, Normal
<1> QED
    BY <1>1, <1>2, <1>3, <1>4, <1>5, <1>6, <1>7, <1>8, <1>9, <1>10, <1>11, <1>12 DEF Poll

LEMMA AnswerTypes == TypeOK /\ RequestInv /\ (Answer \/ AdminRequeueFails) => TypeOK'
<1> SUFFICES ASSUME TypeOK, RequestInv, Answer \/ AdminRequeueFails PROVE TypeOK'
    OBVIOUS
<1>i. CurrentInterval \in Nat \ {0}
    BY IntervalType DEF TypeOK, CurrentInterval
<1>1. CASE AdminReadInterval
    BY <1>1, <1>i DEF AdminReadInterval, Recalculation, TypeOK, table, worker, bounds, history
<1>2. CASE AdminRequeue
  <2>1. admin.interval \in Int
      BY DEF TypeOK, Recalculation
  <2>2. next' \in [Creators -> Int] /\ stale' \subseteq queued'
      BY <1>2, <2>1, RequeueType DEF AdminRequeue
  <2> QED
      BY <1>2, <2>2, NoRequestType DEF AdminRequeue, Requeue, TypeOK, worker, bounds
<1>3. CASE AdminRequeueFails
    BY <1>3, NoRequestType DEF AdminRequeueFails, TypeOK, table, worker, Normal
<1>4. CASE ImportCommit
  <2> DEFINE t == IF import.answered THEN import.interval ELSE 0
  <2>1. t \in Int /\ import.mid \in Creators
      BY <1>4 DEF ImportCommit, TypeOK, Import, RequestInv
  <2>2. import' \in Import
      BY <1>4, NoRequestType DEF ImportCommit, TypeOK, Import
  <2>3. CASE import.mid \notin queued
    <3>1. Insert(import.mid, t) /\ Judge({import.mid}, import.interval)
        BY <1>4, <2>3 DEF ImportCommit
    <3>2. /\ queued' = queued \union {import.mid} /\ queued' \subseteq Creators
          /\ next' \in [Creators -> Int] /\ UNCHANGED <<polled, last, failures, wait>>
        BY <2>1, <3>1, InsertType
    <3>3. stale' \subseteq queued'
        BY <3>1, <3>2, JudgeType DEF TypeOK
    <3> QED
        BY <1>4, <2>2, <3>2, <3>3 DEF ImportCommit, TypeOK, worker, bounds
  <2>4. CASE import.mid \in queued
    <3>1. /\ next' = [next EXCEPT ![import.mid] = Earlier(next[import.mid], t)]
          /\ wait' = [wait EXCEPT ![import.mid] = Earlier(wait[import.mid], t)]
          /\ UNCHANGED <<queued, polled, last, failures, stale>>
          /\ active' = active \union {import.mid}
          /\ UNCHANGED <<schedule, clock, worker, admin, bounds>>
        BY <1>4, <2>4 DEF ImportCommit
    <3>2. next' \in [Creators -> Int] /\ wait' \in [Creators -> Int]
        BY <2>1, <3>1 DEF TypeOK, Earlier
    <3>3. active' \subseteq queued'
        BY <2>4, <3>1 DEF TypeOK
    <3> QED
        BY <2>2, <3>1, <3>2, <3>3 DEF TypeOK, worker, bounds
  <2> QED
      BY <2>3, <2>4
<1>5. CASE ImportRecord
  <2>1. import.interval \in Int /\ 0 \in 0 .. Len(Backoff) /\ -LongAgo \in Int /\ 0 \in Int
      BY <1>5, ConstantTypes DEF ImportRecord, TypeOK, Import
  <2>2. Update(import.mid, 0, import.interval, 0, -LongAgo)
      BY <1>5 DEF ImportRecord
  <2>3. /\ queued' = queued /\ polled' \subseteq queued
        /\ next' \in [Creators -> Int] /\ last' \in [Creators -> Int]
        /\ failures' \in [Creators -> 0 .. Len(Backoff)] /\ wait' \in [Creators -> Int]
      BY <2>1, <2>2, UpdateType
  <2>4. stale' \subseteq queued'
      BY <1>5, <2>3, JudgeType DEF ImportRecord, TypeOK
  <2> QED
      BY <1>5, <2>3, <2>4, NoRequestType DEF ImportRecord, TypeOK, worker, bounds
<1>6. CASE ImportRecordFails
  <2>1. CASE import.mid \in queued
    <3>1. /\ next' = [next EXCEPT ![import.mid] = 0]
          /\ wait' = [wait EXCEPT ![import.mid] = Earlier(wait[import.mid], 0)]
        BY <1>6, <2>1 DEF ImportRecordFails
    <3>2. next' \in [Creators -> Int] /\ wait' \in [Creators -> Int]
      <4>1. Earlier(wait[import.mid], 0) \in Int
          BY <2>1 DEF TypeOK, Earlier
      <4>2. 0 \in Int /\ next \in [Creators -> Int] /\ wait \in [Creators -> Int]
          BY DEF TypeOK
      <4> HIDE DEF Earlier
      <4> QED
          BY <3>1, <4>1, <4>2, SetType
    <3>3. /\ import' = NoImport
          /\ UNCHANGED <<schedule, clock, active, queued, polled, last, failures, pc, period, mid,
                         now, interval, due, count, admin, changes, faults, stale>>
        BY <1>6 DEF ImportRecordFails, worker, bounds
    <3> QED
        BY <3>2, <3>3, NoRequestType DEF TypeOK
  <2>2. CASE import.mid \notin queued
      BY <1>6, <2>2, NoRequestType DEF ImportRecordFails, TypeOK, worker, bounds
  <2> QED
      BY <2>1, <2>2
<1> QED
    BY <1>1, <1>2, <1>3, <1>4, <1>5, <1>6 DEF Answer

LEMMA AskTypes == TypeOK /\ Ask => TypeOK'
<1> SUFFICES ASSUME TypeOK, Ask PROVE TypeOK'
    OBVIOUS
<1>i. CurrentInterval \in Nat \ {0}
    BY IntervalType DEF TypeOK, CurrentInterval
<1>1. ASSUME NEW s \in Schedules, UpdateSystem(s) PROVE TypeOK'
  <2>1. AfterSave \in Recalculation
      BY DEF AfterSave, Recalculation
  <2> QED
      BY <1>1, <2>1 DEF UpdateSystem, Change, TypeOK, table, worker, history
<1>2. ASSUME NEW c \in Creators, Subscribe(c) PROVE TypeOK'
  <2>1. CASE c \in queued
    <3>1. active' \subseteq queued' /\ UNCHANGED <<table, wait>>
        BY <1>2, <2>1 DEF Subscribe, TypeOK, table
    <3> QED
        BY <1>2, <3>1, ChangeType DEF Subscribe, Change, TypeOK, table, worker, requests
  <2>2. CASE c \notin queued
    <3>1. Insert(c, 1) /\ 1 \in Int
        BY <1>2, <2>2 DEF Subscribe
    <3>2. /\ queued' = queued \union {c} /\ queued' \subseteq Creators
          /\ next' \in [Creators -> Int] /\ UNCHANGED <<polled, last, failures, wait>>
        BY <3>1, InsertType
    <3>3. active' \subseteq queued' /\ stale' \subseteq queued'
        BY <1>2, <3>2 DEF Subscribe, TypeOK
    <3> QED
        BY <1>2, <3>2, <3>3, ChangeType DEF Subscribe, Change, TypeOK, worker, requests
  <2> QED
      BY <2>1, <2>2
<1>3. ASSUME NEW c \in Creators, StartImport(c) PROVE TypeOK'
  <2>1. PICK answered \in BOOLEAN :
          import' = [step |-> "commit", mid |-> c, answered |-> answered,
                     interval |-> CurrentInterval, age |-> 0]
      BY <1>3 DEF StartImport
  <2>2. import' \in Import
      BY <1>i, <2>1 DEF Import
  <2> QED
      BY <1>3, <2>2 DEF StartImport, Change, TypeOK, table, worker, history
<1>4. ASSUME NEW c \in Creators, Deactivate(c) PROVE TypeOK'
    BY <1>4 DEF Deactivate, Change, TypeOK, table, worker, requests, history
<1>5. ASSUME NEW c \in Creators, Reactivate(c) PROVE TypeOK'
    BY <1>5 DEF Reactivate, TypeOK, table, worker, requests, bounds, history
<1>6. ASSUME NEW c \in Creators, DeleteCreator(c) PROVE TypeOK'
  <2>1. -LongAgo \in Int /\ 0 \in 0 .. Len(Backoff)
      BY ConstantTypes
  <2>2. /\ next' \in [Creators -> Int] /\ last' \in [Creators -> Int]
        /\ wait' \in [Creators -> Int]
      BY <1>6, <2>1 DEF DeleteCreator, TypeOK
  <2>3. failures' \in [Creators -> 0 .. Len(Backoff)]
      BY <1>6, <2>1 DEF DeleteCreator, TypeOK
  <2>4. /\ active' \subseteq queued' /\ queued' \subseteq Creators
        /\ polled' \subseteq queued' /\ stale' \subseteq queued'
      BY <1>6 DEF DeleteCreator, TypeOK
  <2> QED
      BY <1>6, <2>2, <2>3, <2>4, ChangeType DEF DeleteCreator, Change, TypeOK, worker, requests
<1> QED
    BY <1>1, <1>2, <1>3, <1>4, <1>5, <1>6 DEF Ask

LEMMA ClockTypes == TypeOK /\ (Crash \/ Tick) => TypeOK'
<1> SUFFICES ASSUME TypeOK, Crash \/ Tick PROVE TypeOK'
    OBVIOUS
<1>1. CASE Crash
    BY <1>1, ConstantTypes, NoRequestType DEF Crash, Forget, TypeOK, table, history, WorkerPcs
<1>2. CASE Tick
  <2>1. clock' \in Minute
      BY <1>2, DayAssumption DEF Tick, TypeOK, Minute
  <2>2. /\ next' \in [Creators -> Int] /\ last' \in [Creators -> Int]
        /\ wait' \in [Creators -> Int]
      BY <1>2, AgedType DEF Tick, TypeOK
  <2>3. stale' \subseteq queued
      BY <1>2 DEF Tick, TypeOK, Normal
  <2>4. import' \in Import
    <3>1. import.age - 1 \in Int
        BY DEF TypeOK, Import
    <3>2. import' \in {import, [import EXCEPT !.age = import.age - 1]}
        BY <1>2 DEF Tick
    <3> QED
        BY <3>1, <3>2 DEF TypeOK, Import
  <2>5. now' \in Int
      BY <1>2 DEF Tick, TypeOK
  <2> QED
      BY <1>2, <2>1, <2>2, <2>3, <2>4, <2>5 DEF Tick, TypeOK, bounds
<1> QED
    BY <1>1, <1>2

LEMMA TypeStep == IInv /\ [Next]_vars => TypeOK'
<1> SUFFICES ASSUME IInv, [Next]_vars PROVE TypeOK'
    OBVIOUS
<1>1. TypeOK /\ RequestInv
    BY DEF IInv
<1>2. CASE UNCHANGED vars
    BY <1>1, <1>2 DEF TypeOK, vars, table, worker, requests, bounds, history
<1> QED
    BY <1>1, <1>2, WorkerTypes, AnswerTypes, AskTypes, ClockTypes DEF Next

-----------------------------------------------------------------------------
(* Rows                                                                    *)

LEMMA RowsKept == ASSUME RowInv, UNCHANGED <<table, wait>> PROVE RowInv'
BY DEF RowInv, table

LEMMA RowsUpdated ==
    ASSUME TypeOK, RowInv, NEW c,
           NEW t \in Int, -LongAgo <= t, t <= 0,
           NEW u \in Int, -LongAgo <= u,
           NEW n \in 0 .. Len(Backoff),
           NEW d \in Int, d <= u, n = 0 => d <= -LongAgo,
           Update(c, t, u, n, d)
    PROVE  RowInv'
<1>1. CASE c \notin queued
    BY <1>1, RowsKept DEF Update
<1>2. CASE c \in queued
  <2> SUFFICES ASSUME NEW b \in Creators
               PROVE  /\ -LongAgo <= next'[b]
                      /\ -LongAgo <= last'[b] /\ last'[b] <= 0
                      /\ wait'[b] <= next'[b]
                      /\ b \notin queued' \/ failures'[b] = 0 => wait'[b] <= -LongAgo
      BY DEF RowInv
  <2>1. CASE b = c
    <3>1. next'[b] = u /\ last'[b] = t /\ failures'[b] = n /\ wait'[b] = d /\ queued' = queued
        BY <1>2, <2>1 DEF Update, TypeOK
    <3> QED
        BY <1>2, <2>1, <3>1
  <2>2. CASE b # c
    <3>1. /\ next'[b] = next[b] /\ last'[b] = last[b] /\ failures'[b] = failures[b]
          /\ wait'[b] = wait[b] /\ queued' = queued
        BY <1>2, <2>2 DEF Update, TypeOK
    <3> QED
        BY <3>1 DEF RowInv
  <2> QED
      BY <2>1, <2>2
<1> QED
    BY <1>1, <1>2

LEMMA RowsRequeued ==
    ASSUME TypeOK, RowInv, NEW i \in Int, i >= 0, Requeue(i) PROVE RowInv'
<1> SUFFICES ASSUME NEW c \in Creators
             PROVE  -LongAgo <= next'[c] /\ wait[c] <= next'[c]
    BY DEF RowInv, Requeue
<1>1. next[c] \in Int /\ last[c] \in Int /\ wait[c] \in Int /\ LongAgo \in Nat
    BY ConstantTypes DEF TypeOK
<1>2. /\ -LongAgo <= next[c] /\ -LongAgo <= last[c] /\ wait[c] <= next[c]
      /\ failures[c] = 0 => wait[c] <= -LongAgo
    BY DEF RowInv
<1>3. next'[c] = IF c \in Normal THEN Requeued(c, i) ELSE next[c]
    BY DEF Requeue
<1>4. CASE c \notin Normal
    BY <1>2, <1>3, <1>4
<1>5. CASE c \in Normal
  <2>1. failures[c] = 0
      BY <1>5 DEF Normal
  <2>2. Requeued(c, i) >= -LongAgo /\ Requeued(c, i) \in Int
      BY <1>1, <1>2 DEF Requeued, Later, Earlier
  <2> QED
      BY <1>1, <1>2, <1>3, <1>5, <2>1, <2>2
<1> QED
    BY <1>4, <1>5

LEMMA RowsInserted ==
    ASSUME TypeOK, RowInv, NEW c \in Creators, c \notin queued,
           NEW t \in Int, t >= 0, Insert(c, t)
    PROVE  RowInv'
<1> SUFFICES ASSUME NEW b \in Creators
             PROVE  /\ -LongAgo <= next'[b] /\ wait[b] <= next'[b]
                    /\ b \notin queued' \/ failures[b] = 0 => wait[b] <= -LongAgo
    BY DEF RowInv, Insert
<1>1. next[b] \in Int /\ wait[b] \in Int /\ LongAgo \in Nat
    BY ConstantTypes DEF TypeOK
<1>2. next'[b] = IF b = c THEN t ELSE next[b]
    BY DEF Insert, TypeOK
<1>3. /\ -LongAgo <= next[b] /\ wait[b] <= next[b]
      /\ b \notin queued \/ failures[b] = 0 => wait[b] <= -LongAgo
    BY DEF RowInv
<1>4. b \notin queued' => b \notin queued
    BY DEF Insert
<1> QED
    BY <1>1, <1>2, <1>3, <1>4

LEMMA RowsEarlier ==
    ASSUME TypeOK, RowInv, NEW c \in Creators, NEW t \in Int, t >= 0,
           next' = [next EXCEPT ![c] = Earlier(next[c], t)],
           wait' = [wait EXCEPT ![c] = Earlier(wait[c], t)],
           UNCHANGED <<queued, last, failures>>
    PROVE  RowInv'
<1> SUFFICES ASSUME NEW b \in Creators
             PROVE  /\ -LongAgo <= next'[b] /\ wait'[b] <= next'[b]
                    /\ b \notin queued \/ failures[b] = 0 => wait'[b] <= -LongAgo
    BY DEF RowInv
<1>1. next[b] \in Int /\ wait[b] \in Int /\ LongAgo \in Nat
    BY ConstantTypes DEF TypeOK
<1>2. /\ next'[b] = IF b = c THEN Earlier(next[b], t) ELSE next[b]
      /\ wait'[b] = IF b = c THEN Earlier(wait[b], t) ELSE wait[b]
    BY DEF TypeOK
<1>3. /\ -LongAgo <= next[b] /\ wait[b] <= next[b]
      /\ b \notin queued \/ failures[b] = 0 => wait[b] <= -LongAgo
    BY DEF RowInv
<1> QED
    BY <1>1, <1>2, <1>3 DEF Earlier

LEMMA RowsAged == ASSUME TypeOK, RowInv, Tick PROVE RowInv'
<1> SUFFICES ASSUME NEW c \in Creators
             PROVE  /\ -LongAgo <= next'[c]
                    /\ -LongAgo <= last'[c] /\ last'[c] <= 0
                    /\ wait'[c] <= next'[c]
                    /\ c \notin queued' \/ failures'[c] = 0 => wait'[c] <= -LongAgo
    BY DEF RowInv
<1>1. next[c] \in Int /\ last[c] \in Int /\ wait[c] \in Int /\ LongAgo \in Nat
    BY ConstantTypes DEF TypeOK
<1>2. /\ next'[c] = Aged(next[c]) /\ last'[c] = Aged(last[c]) /\ wait'[c] = Aged(wait[c])
      /\ UNCHANGED <<queued, failures>>
    BY DEF Tick
<1>3. /\ -LongAgo <= next[c] /\ -LongAgo <= last[c] /\ last[c] <= 0 /\ wait[c] <= next[c]
      /\ c \notin queued \/ failures[c] = 0 => wait[c] <= -LongAgo
    BY DEF RowInv
<1> QED
    BY <1>1, <1>2, <1>3 DEF Aged

LEMMA RowStep == IInv /\ [Next]_vars => RowInv'
<1> SUFFICES ASSUME IInv, [Next]_vars PROVE RowInv'
    OBVIOUS
<1>i. TypeOK /\ RowInv /\ WorkerInv /\ RequestInv
    BY DEF IInv
<1>0. CASE UNCHANGED vars
    BY <1>i, <1>0, RowsKept DEF vars, history
<1>1. CASE Start
  <2> SUFFICES ASSUME NEW c \in Creators
               PROVE  -LongAgo <= next'[c] /\ wait[c] <= next'[c]
      BY <1>i, <1>1 DEF RowInv, Start, history
  <2>1. PICK blank \in SUBSET (Normal \ polled) :
          next' = [b \in Creators |-> IF b \in blank THEN -LongAgo ELSE next[b]]
      BY <1>1 DEF Start
  <2>2. next'[c] = IF c \in blank THEN -LongAgo ELSE next[c]
      BY <2>1
  <2>3. c \in blank => failures[c] = 0
      BY DEF Normal
  <2>4. LongAgo \in Nat /\ next[c] \in Int
      BY <1>i, ConstantTypes DEF TypeOK
  <2> QED
      BY <1>i, <2>2, <2>3, <2>4 DEF RowInv
<1>2. CASE \/ PeriodCheck \/ ReadInterval \/ \E c \in Creators : PollSelect(c)
           \/ PollNothing \/ FetchEnds \/ ReadNext \/ ReadFailures
    BY <1>i, <1>2, RowsKept DEF PeriodCheck, ReadInterval, PollSelect, PollNothing, FetchEnds,
       ReadNext, ReadFailures, history
<1>3. CASE RequeueNormalPolls
  <2>1. Requeue(interval) /\ interval \in Int /\ interval >= 0
      BY <1>i, <1>3 DEF RequeueNormalPolls, TypeOK, WorkerInv
  <2> QED
      BY <1>i, <2>1, RowsRequeued
<1>4. CASE WriteNext
  <2>1. Update(mid, now, due, 0, -LongAgo)
      BY <1>4 DEF WriteNext
  <2>2. /\ now \in Int /\ -MaxLag <= now /\ now <= 0
        /\ due \in Int /\ interval \in Int /\ 0 <= interval /\ interval <= due
      BY <1>i, <1>4 DEF WriteNext, TypeOK, WorkerInv
  <2>3. /\ LongAgo \in Nat /\ MaxLag \in Nat /\ MaxLag <= LongAgo
        /\ 0 \in 0 .. Len(Backoff)
      BY ConstantTypes
  <2>4. -LongAgo <= now /\ -LongAgo <= due /\ -LongAgo \in Int
      BY <2>2, <2>3
  <2> QED
      BY <1>i, <2>1, <2>2, <2>3, <2>4, RowsUpdated
<1>5. CASE WriteBackoff
  <2> DEFINE k == Earlier(count + 1, Len(Backoff))
  <2>1. Update(mid, 0, Backoff[k], k, Backoff[k])
      BY <1>5 DEF WriteBackoff
  <2>2. k \in 1 .. Len(Backoff)
      BY <1>i, ConstantTypes DEF TypeOK, Earlier
  <2> HIDE DEF k
  <2>3. Backoff[k] \in Nat \ {0} /\ k \in 0 .. Len(Backoff) /\ k # 0
        /\ LongAgo \in Nat
      BY <2>2, ConstantTypes
  <2>4. Backoff[k] \in Int /\ -LongAgo <= Backoff[k] /\ -LongAgo <= 0 /\ 0 \in Int
      BY <2>3
  <2> QED
      BY <1>i, <2>1, <2>3, <2>4, RowsUpdated
<1>6. CASE WriteFails \/ AdminRequeueFails \/ AdminReadInterval \/ Crash
    BY <1>i, <1>6, RowsKept DEF WriteFails, AdminRequeueFails, AdminReadInterval, Crash, history
<1>7. CASE AdminRequeue
  <2>1. Requeue(admin.interval) /\ admin.interval \in Int /\ admin.interval >= 0
      BY <1>i, <1>7 DEF AdminRequeue, TypeOK, Recalculation, RequestInv
  <2> QED
      BY <1>i, <2>1, RowsRequeued
<1>8. CASE ImportCommit
  <2> DEFINE t == IF import.answered THEN import.interval ELSE 0
  <2>1. t \in Int /\ t >= 0 /\ import.mid \in Creators
      BY <1>i, <1>8 DEF ImportCommit, TypeOK, Import, RequestInv
  <2>2. CASE import.mid \notin queued
    <3>1. Insert(import.mid, t)
        BY <1>8, <2>2 DEF ImportCommit
    <3> HIDE DEF t
    <3> QED
        BY <1>i, <2>1, <2>2, <3>1, RowsInserted
  <2>3. CASE import.mid \in queued
    <3>1. /\ next' = [next EXCEPT ![import.mid] = Earlier(next[import.mid], t)]
          /\ wait' = [wait EXCEPT ![import.mid] = Earlier(wait[import.mid], t)]
          /\ UNCHANGED <<queued, last, failures>>
        BY <1>8, <2>3 DEF ImportCommit
    <3> HIDE DEF t
    <3> QED
        BY <1>i, <2>1, <3>1, RowsEarlier
  <2> QED
      BY <2>2, <2>3
<1>9. CASE ImportRecord
  <2>1. Update(import.mid, 0, import.interval, 0, -LongAgo)
      BY <1>9 DEF ImportRecord
  <2>2. import.interval \in Int /\ import.interval >= 0
      BY <1>i, <1>9 DEF ImportRecord, TypeOK, Import, RequestInv
  <2>3. LongAgo \in Nat /\ 0 \in 0 .. Len(Backoff)
      BY ConstantTypes
  <2>4. /\ -LongAgo \in Int /\ 0 \in Int /\ -LongAgo <= 0
        /\ -LongAgo <= import.interval
      BY <2>2, <2>3
  <2> QED
      BY <1>i, <2>1, <2>2, <2>3, <2>4, RowsUpdated
<1>10. CASE ImportRecordFails
  <2>1. CASE import.mid \notin queued
      BY <1>i, <1>10, <2>1, RowsKept DEF ImportRecordFails, table
  <2>2. CASE import.mid \in queued
    <3> DEFINE c == import.mid
    <3>1. /\ next' = [next EXCEPT ![c] = 0] /\ wait' = [wait EXCEPT ![c] = Earlier(wait[c], 0)]
          /\ UNCHANGED <<queued, last, failures>>
        BY <1>10, <2>2 DEF ImportRecordFails
    <3>2. c \in Creators
        BY <1>i, <2>2 DEF TypeOK
    <3> HIDE DEF c
    <3> SUFFICES ASSUME NEW b \in Creators
                 PROVE  /\ -LongAgo <= next'[b] /\ wait'[b] <= next'[b]
                        /\ b \notin queued \/ failures[b] = 0 => wait'[b] <= -LongAgo
        BY <1>i, <3>1 DEF RowInv
    <3>3. next[b] \in Int /\ wait[b] \in Int /\ LongAgo \in Nat
        BY <1>i, ConstantTypes DEF TypeOK
    <3>4. /\ next'[b] = IF b = c THEN 0 ELSE next[b]
          /\ wait'[b] = IF b = c THEN Earlier(wait[b], 0) ELSE wait[b]
        BY <1>i, <3>1 DEF TypeOK
    <3>5. /\ -LongAgo <= next[b] /\ wait[b] <= next[b]
          /\ b \notin queued \/ failures[b] = 0 => wait[b] <= -LongAgo
        BY <1>i DEF RowInv
    <3> QED
        BY <3>3, <3>4, <3>5 DEF Earlier
  <2> QED
      BY <2>1, <2>2
<1>11. ASSUME NEW c \in Creators, Subscribe(c) PROVE RowInv'
  <2>1. CASE c \in queued
      BY <1>i, <1>11, <2>1, RowsKept DEF Subscribe
  <2>2. CASE c \notin queued
    <3>1. Insert(c, 1) /\ 1 \in Int /\ 1 >= 0
        BY <1>11, <2>2 DEF Subscribe
    <3> QED
        BY <1>i, <2>2, <3>1, RowsInserted
  <2> QED
      BY <2>1, <2>2
<1>12. CASE \/ \E s \in Schedules : UpdateSystem(s)
            \/ \E c \in Creators : StartImport(c) \/ Deactivate(c) \/ Reactivate(c)
    BY <1>i, <1>12, RowsKept DEF UpdateSystem, StartImport, Deactivate, Reactivate, history
<1>13. ASSUME NEW c \in Creators, DeleteCreator(c) PROVE RowInv'
  <2> SUFFICES ASSUME NEW b \in Creators
               PROVE  /\ -LongAgo <= next'[b]
                      /\ -LongAgo <= last'[b] /\ last'[b] <= 0
                      /\ wait'[b] <= next'[b]
                      /\ b \notin queued' \/ failures'[b] = 0 => wait'[b] <= -LongAgo
      BY DEF RowInv
  <2>1. CASE b = c
    <3>1. next'[b] = -LongAgo /\ last'[b] = -LongAgo /\ wait'[b] = -LongAgo
        BY <1>i, <1>13, <2>1 DEF DeleteCreator, TypeOK
    <3> QED
        BY <3>1, ConstantTypes
  <2>2. CASE b # c
    <3>1. /\ next'[b] = next[b] /\ last'[b] = last[b] /\ wait'[b] = wait[b]
          /\ failures'[b] = failures[b] /\ (b \in queued' <=> b \in queued)
        BY <1>i, <1>13, <2>2 DEF DeleteCreator, TypeOK
    <3> QED
        BY <1>i, <3>1 DEF RowInv
  <2> QED
      BY <2>1, <2>2
<1>14. CASE Tick
    BY <1>i, <1>14, RowsAged
<1> QED
    BY <1>0, <1>1, <1>2, <1>3, <1>4, <1>5, <1>6, <1>7, <1>8, <1>9, <1>10, <1>11, <1>12, <1>13,
       <1>14 DEF Next, Poll, Answer, Ask

-----------------------------------------------------------------------------
(* The goroutine and the requests                                          *)

LEMMA Forgotten == Forget /\ pc' \in {"down", "idle", "select"} => WorkerInv'
<1> SUFFICES ASSUME Forget, pc' \in {"down", "idle", "select"} PROVE WorkerInv'
    OBVIOUS
<1>1. now' = 0 /\ pc' \notin Polling /\ pc' \notin {"requeue", "polled"}
    BY DEF Forget, Polling
<1> QED
    BY <1>1, ConstantTypes DEF WorkerInv

LEMMA WorkerStep == IInv /\ [Next]_vars => WorkerInv'
<1> SUFFICES ASSUME IInv, [Next]_vars PROVE WorkerInv'
    OBVIOUS
<1>i. TypeOK /\ WorkerInv
    BY DEF IInv
<1>c. CurrentInterval \in Nat \ {0}
    BY <1>i, IntervalType DEF TypeOK, CurrentInterval
<1>0. CASE UNCHANGED worker
    BY <1>i, <1>0 DEF worker, WorkerInv
<1>1. CASE Start \/ PeriodCheck
  <2>1. pc' \in {"read", "select"} /\ now' = now
      BY <1>1 DEF Start, PeriodCheck
  <2> QED
      BY <1>i, <2>1 DEF WorkerInv, Polling
<1>2. CASE ReadInterval
  <2>1. pc' = "requeue" /\ now' = now /\ interval' = CurrentInterval
      BY <1>2 DEF ReadInterval
  <2> QED
      BY <1>i, <1>c, <2>1 DEF WorkerInv, Polling
<1>3. CASE RequeueNormalPolls \/ PollNothing \/ WriteNext \/ WriteBackoff \/ WriteFails \/ Crash
  <2>1. Forget /\ pc' \in {"down", "idle", "select"}
      BY <1>3 DEF RequeueNormalPolls, PollNothing, WriteNext, WriteBackoff, WriteFails, Crash
  <2> QED
      BY <2>1, Forgotten
<1>4. CASE \E c \in Creators : PollSelect(c)
  <2>1. pc' = "fetch" /\ mid' \in Creators /\ now' = 0
      BY <1>4 DEF PollSelect
  <2> QED
      BY <2>1, ConstantTypes DEF WorkerInv
<1>5. CASE FetchEnds
  <2>1. pc = "fetch" /\ pc' \in {"interval", "failed"} /\ UNCHANGED <<mid, now>>
      BY <1>5 DEF FetchEnds, Still
  <2> QED
      BY <1>i, <2>1 DEF WorkerInv, Polling
<1>6. CASE ReadNext
  <2>1. /\ pc = "interval" /\ pc' = "polled" /\ UNCHANGED <<mid, now>>
        /\ interval' = CurrentInterval
        /\ \E jitter \in 0 .. MaxJitter : due' = CurrentInterval + jitter
      BY <1>6 DEF ReadNext
  <2>2. interval' >= 0 /\ interval' <= due' /\ due' <= interval' + MaxJitter
      BY <1>c, <2>1, ConstantTypes
  <2> QED
      BY <1>i, <2>1, <2>2 DEF WorkerInv, Polling
<1>7. CASE ReadFailures
  <2>1. pc = "failed" /\ pc' = "backoff" /\ UNCHANGED <<mid, now>>
      BY <1>7 DEF ReadFailures
  <2> QED
      BY <1>i, <2>1 DEF WorkerInv, Polling
<1>8. CASE Tick
  <2>1. UNCHANGED <<pc, mid, interval, due>>
      BY <1>8 DEF Tick
  <2>2. now' = IF pc = "fetch" THEN now - 1 ELSE now
      BY <1>8 DEF Tick
  <2>3. pc = "fetch" => now > -MaxLag
      BY <1>8 DEF Tick, Waiting
  <2>4. now \in Int
      BY <1>i DEF TypeOK
  <2>5. -MaxLag <= now' /\ now' <= 0
      BY <1>i, <2>2, <2>3, <2>4, ConstantTypes DEF WorkerInv
  <2> QED
      BY <1>i, <2>1, <2>5 DEF WorkerInv
<1>9. CASE Answer \/ AdminRequeueFails \/ Ask
    BY <1>0, <1>9 DEF Answer, AdminReadInterval, AdminRequeue, AdminRequeueFails, ImportCommit,
       ImportRecord, ImportRecordFails, Ask, UpdateSystem, Subscribe, StartImport, Deactivate,
       Reactivate, DeleteCreator
<1> QED
    BY <1>0, <1>1, <1>2, <1>3, <1>4, <1>5, <1>6, <1>7, <1>8, <1>9 DEF Next, Poll, vars

LEMMA RequestStep == IInv /\ [Next]_vars => RequestInv'
<1> SUFFICES ASSUME IInv, [Next]_vars PROVE RequestInv'
    OBVIOUS
<1>i. TypeOK /\ RequestInv
    BY DEF IInv
<1>c. CurrentInterval \in Nat \ {0}
    BY <1>i, IntervalType DEF TypeOK, CurrentInterval
<1>0. CASE UNCHANGED requests
    BY <1>i, <1>0 DEF requests, RequestInv
<1>1. CASE Poll \/ WriteFails
    BY <1>0, <1>1 DEF Poll, Start, PeriodCheck, ReadInterval, RequeueNormalPolls, PollSelect,
       PollNothing, FetchEnds, ReadNext, WriteNext, ReadFailures, WriteBackoff, WriteFails,
       requests
<1>2. CASE AdminReadInterval
  <2>1. admin'.interval = CurrentInterval /\ import' = import
      BY <1>2 DEF AdminReadInterval
  <2> QED
      BY <1>i, <1>c, <2>1 DEF RequestInv
<1>3. CASE AdminRequeue \/ AdminRequeueFails \/ Crash \/ \E s \in Schedules : UpdateSystem(s)
  <2>1. admin'.step # "write" /\ (import' = import \/ import'.step = "none")
      BY <1>3 DEF AdminRequeue, AdminRequeueFails, Crash, UpdateSystem, NoRecalculation,
         AfterSave, NoImport
  <2> QED
      BY <1>i, <2>1 DEF RequestInv
<1>4. ASSUME NEW c \in Creators, StartImport(c) PROVE RequestInv'
  <2>1. import'.mid = c /\ import'.interval = CurrentInterval /\ admin' = admin
      BY <1>4 DEF StartImport
  <2> QED
      BY <1>i, <1>c, <2>1 DEF RequestInv
<1>5. CASE ImportCommit \/ ImportRecord \/ ImportRecordFails
  <2>1. admin' = admin
      BY <1>5 DEF ImportCommit, ImportRecord, ImportRecordFails
  <2>2. \/ import' = NoImport
        \/ import.step = "commit" /\ import' = [import EXCEPT !.step = "record"]
      BY <1>5 DEF ImportCommit, ImportRecord, ImportRecordFails
  <2>3. \/ import'.step = "none"
        \/ import.step # "none" /\ import'.mid = import.mid /\ import'.interval = import.interval
      BY <1>i, <2>2 DEF NoImport, TypeOK, Import
  <2> QED
      BY <1>i, <2>1, <2>3 DEF RequestInv
<1>6. CASE Tick
  <2>1. admin' = admin
      BY <1>6 DEF Tick
  <2>2. import' = IF import.step = "none" THEN import ELSE [import EXCEPT !.age = @ - 1]
      BY <1>6 DEF Tick
  <2>3. /\ import'.step = import.step /\ import'.mid = import.mid
        /\ import'.interval = import.interval
      BY <1>i, <2>2 DEF TypeOK, Import
  <2> QED
      BY <1>i, <2>1, <2>3 DEF RequestInv
<1>7. CASE \E c \in Creators : \/ Subscribe(c) \/ Deactivate(c)
                               \/ Reactivate(c) \/ DeleteCreator(c)
    BY <1>0, <1>7 DEF Subscribe, Deactivate, Reactivate, DeleteCreator
<1>8. CASE UNCHANGED vars
    BY <1>0, <1>8 DEF vars
<1> QED
    BY <1>1, <1>2, <1>3, <1>4, <1>5, <1>6, <1>7, <1>8 DEF Next, Answer, Ask

-----------------------------------------------------------------------------
(* Backoff                                                                 *)

LEMMA BackoffStep == IInv /\ [Next]_vars => BackoffKept'
<1> SUFFICES ASSUME IInv, [Next]_vars, pc' = "fetch" PROVE wait'[mid'] <= now'
    BY DEF BackoffKept
<1>i. TypeOK /\ RowInv /\ WorkerInv /\ BackoffKept /\ RequestInv
    BY DEF IInv
<1>c. LongAgo \in Nat /\ MaxLag \in Nat /\ MaxLag <= LongAgo
    BY ConstantTypes
<1>1. ASSUME NEW c \in Creators, PollSelect(c) PROVE wait'[mid'] <= now'
  <2>1. mid' = c /\ now' = 0 /\ wait' = wait /\ next[c] <= 0
      BY <1>1 DEF PollSelect, FirstDue, Due, history
  <2>2. wait[c] \in Int /\ next[c] \in Int /\ wait[c] <= next[c]
      BY <1>i DEF RowInv, TypeOK
  <2> QED
      BY <2>1, <2>2
<1>2. CASE Tick
  <2>1. /\ pc = "fetch" /\ mid' = mid /\ now' = now - 1 /\ now > -MaxLag
        /\ wait' = [c \in Creators |-> Aged(wait[c])]
      BY <1>2 DEF Tick, Waiting
  <2>2. mid \in Creators /\ wait[mid] <= now /\ now \in Int /\ wait[mid] \in Int
      BY <1>i, <2>1 DEF WorkerInv, BackoffKept, TypeOK, Polling
  <2>3. wait'[mid'] = Aged(wait[mid])
      BY <2>1, <2>2
  <2> QED
      BY <1>c, <2>1, <2>2, <2>3 DEF Aged
\* Otherwise it was fetching before, and nothing makes the delay longer.
<1>3. ASSUME pc = "fetch", mid' = mid, now' = now,
             \/ wait'[mid] = wait[mid] \/ wait'[mid] = -LongAgo
             \/ \E t : t \in Int /\ wait'[mid] = Earlier(wait[mid], t)
      PROVE  wait'[mid'] <= now'
  <2>1. mid \in Creators /\ wait[mid] <= now /\ now \in Int /\ wait[mid] \in Int /\ -MaxLag <= now
      BY <1>i, <1>3 DEF WorkerInv, BackoffKept, TypeOK, Polling
  <2>2. -LongAgo <= now
      BY <1>c, <2>1
  <2>3. \A t \in Int : Earlier(wait[mid], t) <= wait[mid] /\ Earlier(wait[mid], t) \in Int
      BY <2>1 DEF Earlier
  <2> QED
      BY <1>c, <1>3, <2>1, <2>2, <2>3
<1>4. CASE wait' = wait /\ UNCHANGED worker
    BY <1>3, <1>4 DEF worker
<1>5. CASE Poll \/ WriteFails \/ Crash
    BY <1>1, <1>5 DEF Poll, Start, PeriodCheck, ReadInterval, RequeueNormalPolls, PollNothing,
       FetchEnds, Still, ReadNext, WriteNext, ReadFailures, WriteBackoff, WriteFails, Crash
<1>6. CASE AdminReadInterval \/ AdminRequeue \/ AdminRequeueFails
    BY <1>4, <1>6 DEF AdminReadInterval, AdminRequeue, AdminRequeueFails, Requeue, history
<1>7. CASE ImportCommit
  <2> DEFINE t == IF import.answered THEN import.interval ELSE 0
  <2>1. t \in Int
      BY <1>i, <1>7 DEF ImportCommit, TypeOK, Import
  <2>2. UNCHANGED worker
      BY <1>7 DEF ImportCommit
  <2>3. CASE import.mid \notin queued
      BY <1>4, <1>7, <2>2, <2>3 DEF ImportCommit, Insert
  <2>4. CASE import.mid \in queued
    <3>1. wait' = [wait EXCEPT ![import.mid] = Earlier(wait[import.mid], t)]
        BY <1>7, <2>4 DEF ImportCommit
    <3> HIDE DEF t
    <3>2. wait'[mid] = wait[mid] \/ wait'[mid] = Earlier(wait[mid], t)
        BY <1>i, <3>1 DEF TypeOK
    <3> QED
        BY <1>3, <2>1, <2>2, <3>2 DEF worker
  <2> QED
      BY <2>3, <2>4
<1>8. CASE ImportRecord
  <2>1. Update(import.mid, 0, import.interval, 0, -LongAgo) /\ UNCHANGED worker
      BY <1>8 DEF ImportRecord
  <2>2. wait'[mid] = wait[mid] \/ wait'[mid] = -LongAgo
    <3>1. CASE import.mid \notin queued
        BY <2>1, <3>1 DEF Update
    <3>2. CASE import.mid \in queued
      <4>1. wait' = [wait EXCEPT ![import.mid] = -LongAgo]
          BY <2>1, <3>2 DEF Update
      <4>2. mid \in Creators
          BY <1>i, <2>1 DEF worker, WorkerInv, Polling
      <4> QED
          BY <1>i, <4>1, <4>2 DEF TypeOK
    <3> QED
        BY <3>1, <3>2
  <2> QED
      BY <1>3, <2>1, <2>2 DEF worker
<1>9. CASE ImportRecordFails
  <2>1. UNCHANGED worker
      BY <1>9 DEF ImportRecordFails
  <2>2. wait' = wait \/ wait' = [wait EXCEPT ![import.mid] = Earlier(wait[import.mid], 0)]
      BY <1>9 DEF ImportRecordFails
  <2>3. wait'[mid] = wait[mid] \/ wait'[mid] = Earlier(wait[mid], 0)
    <3>1. mid \in Creators /\ wait \in [Creators -> Int]
        BY <1>i, <2>1 DEF worker, WorkerInv, Polling, TypeOK
    <3> QED
        BY <2>2, <3>1
  <2> QED
      BY <1>3, <2>1, <2>3 DEF worker
<1>10. ASSUME NEW c \in Creators, Subscribe(c) PROVE wait'[mid'] <= now'
    BY <1>4, <1>10 DEF Subscribe, Insert
<1>11. CASE \/ \E s \in Schedules : UpdateSystem(s)
            \/ \E c \in Creators : StartImport(c) \/ Deactivate(c) \/ Reactivate(c)
    BY <1>4, <1>11 DEF UpdateSystem, StartImport, Deactivate, Reactivate, history
<1>12. ASSUME NEW c \in Creators, DeleteCreator(c) PROVE wait'[mid'] <= now'
  <2>1. UNCHANGED worker /\ wait' = [wait EXCEPT ![c] = -LongAgo]
      BY <1>12 DEF DeleteCreator
  <2>2. wait'[mid] = wait[mid] \/ wait'[mid] = -LongAgo
      BY <1>i, <2>1 DEF TypeOK
  <2> QED
      BY <1>3, <2>1, <2>2 DEF worker
<1>13. CASE UNCHANGED vars
    BY <1>4, <1>13 DEF vars, history
<1> QED
    BY <1>2, <1>5, <1>6, <1>7, <1>8, <1>9, <1>10, <1>11, <1>12, <1>13 DEF Next, Answer, Ask

-----------------------------------------------------------------------------
(* The schedule reaches every row                                          *)

LEMMA SameInterval ==
    ASSUME UNCHANGED <<schedule, clock>>
    PROVE  CurrentInterval' = CurrentInterval /\ CurrentPeriod' = CurrentPeriod
BY DEF CurrentInterval, CurrentPeriod

LEMMA SameNormal ==
    ASSUME UNCHANGED <<queued, failures>> PROVE Normal' = Normal
BY DEF Normal

\* A row that is left alone, or comes earlier
LEMMA KeptTimely ==
    ASSUME TypeOK, TimelyInv, Settled, UNCHANGED <<schedule, clock>>,
           NEW c \in Normal \ stale,
           next'[c] \in Int, next'[c] <= next[c], last'[c] = last[c],
           c \in polled' <=> c \in polled
    PROVE  Timely(c, CurrentInterval)'
<1>1. Timely(c, CurrentInterval)
    BY DEF TimelyInv
<1>2. CurrentInterval' = CurrentInterval /\ CurrentInterval \in Nat
    BY SameInterval, IntervalType DEF TypeOK, CurrentInterval
<1>3. next[c] \in Int /\ last[c] \in Int /\ MaxLag \in Nat /\ MaxJitter \in Nat
    BY ConstantTypes DEF TypeOK, Normal
<1> QED
    BY <1>1, <1>2, <1>3 DEF Timely, Earlier

LEMMA RequeuedTimely ==
    ASSUME TypeOK, RowInv, NEW i \in Int, i >= 0, Requeue(i), UNCHANGED <<schedule, clock>>,
           NEW c \in (Normal \ stale)'
    PROVE  Timely(c, CurrentInterval)'
<1>1. Normal' = Normal /\ c \in Normal /\ c \in Creators
    BY SameNormal DEF Requeue, Normal, TypeOK
<1>2. i = CurrentInterval
    BY <1>1 DEF Requeue, Judge, Normal
<1>3. CurrentInterval' = i
    BY <1>2, SameInterval
<1>4. next'[c] = Requeued(c, i) /\ last' = last /\ polled' = polled
    BY <1>1 DEF Requeue
<1>5. /\ next[c] \in Int /\ last[c] \in Int /\ last[c] <= 0
      /\ MaxLag \in Nat /\ MaxJitter \in Nat
    BY <1>1, ConstantTypes DEF TypeOK, RowInv
<1> QED
    BY <1>3, <1>4, <1>5 DEF Timely, Requeued, Later, Earlier

LEMMA UpdatedTimely ==
    ASSUME TypeOK, TimelyInv, Settled, UNCHANGED <<schedule, clock>>,
           NEW m, NEW t \in Int, -MaxLag <= t, NEW u \in Int, NEW d, NEW i \in Int,
           u <= i + MaxJitter, Update(m, t, u, 0, d), Judge({m}, i),
           NEW c \in (Normal \ stale)'
    PROVE  Timely(c, CurrentInterval)'
<1>1. queued' = queued /\ c \in queued /\ c \in Creators
    BY DEF Update, table, Normal, TypeOK
<1>2. CASE c = m
  <2>1. i = CurrentInterval
      BY <1>1, <1>2 DEF Judge
  <2>2. CurrentInterval' = i
      BY <2>1, SameInterval
  <2>3. next'[c] = u /\ last'[c] = t /\ c \in polled'
      BY <1>1, <1>2 DEF Update, TypeOK
  <2>4. MaxLag \in Nat /\ MaxJitter \in Nat
      BY ConstantTypes
  <2> QED
      BY <2>2, <2>3, <2>4 DEF Timely, Earlier
<1>3. CASE c # m
  <2>1. /\ next'[c] = next[c] /\ last'[c] = last[c] /\ failures'[c] = failures[c]
        /\ c \in polled' <=> c \in polled
    <3>1. CASE m \in queued
        BY <1>1, <1>3, <3>1 DEF Update, TypeOK
    <3>2. CASE m \notin queued
        BY <3>2 DEF Update, table
    <3> QED
        BY <3>1, <3>2
  <2>2. c \notin stale
      BY <1>3 DEF Judge
  <2>3. c \in Normal /\ next'[c] \in Int /\ next'[c] <= next[c]
      BY <1>1, <2>1 DEF Normal, TypeOK
  <2> QED
      BY <2>1, <2>2, <2>3, KeptTimely
<1> QED
    BY <1>2, <1>3

LEMMA InsertedTimely ==
    ASSUME TypeOK, TimelyInv, Settled, UNCHANGED <<schedule, clock>>,
           NEW m \in Creators, m \notin queued, NEW t \in Int, Insert(m, t),
           stale \ {m} \subseteq stale',
           NEW c \in (Normal \ stale)', c = m => t <= CurrentInterval
    PROVE  Timely(c, CurrentInterval)'
<1>1. c \in Creators /\ (c \in queued \/ c = m)
    BY DEF Normal, Insert, TypeOK
<1>2. CASE c = m
  <2>1. next'[c] = t /\ c \notin polled'
      BY <1>1, <1>2 DEF Insert, TypeOK
  <2>2. CurrentInterval' = CurrentInterval /\ CurrentInterval \in Nat
      BY SameInterval, IntervalType DEF TypeOK, CurrentInterval
  <2>3. MaxJitter \in Nat
      BY ConstantTypes
  <2> QED
      BY <1>2, <2>1, <2>2, <2>3 DEF Timely
<1>3. CASE c # m
  <2>1. /\ next'[c] = next[c] /\ last'[c] = last[c] /\ failures'[c] = failures[c]
        /\ c \in polled' <=> c \in polled
      BY <1>1, <1>3 DEF Insert, TypeOK
  <2>2. c \in Normal \ stale /\ next'[c] \in Int /\ next'[c] <= next[c]
      BY <1>1, <1>3, <2>1 DEF Normal, TypeOK
  <2> QED
      BY <2>1, <2>2, KeptTimely
<1> QED
    BY <1>2, <1>3

\* A minute later, while the period stays
LEMMA AgedTimely ==
    ASSUME TypeOK, RowInv, TimelyInv, Tick, Settled', NEW c \in (Normal \ stale)'
    PROVE  Timely(c, CurrentInterval)'
<1>1. /\ UNCHANGED <<schedule, queued, polled, failures, pc, period, admin>>
      /\ stale' = IF PassedUnnoticed THEN stale \union Normal ELSE stale
    BY DEF Tick
<1>2. Normal' = Normal /\ c \in Normal /\ c \in Creators
    BY <1>1, SameNormal DEF Normal, TypeOK
<1>3. CurrentPeriod = period
    BY <1>1, <1>2 DEF PassedUnnoticed, PeriodPassed, Settled, CurrentPeriod
<1>4. Settled /\ c \in Normal \ stale
    BY <1>1, <1>2, <1>3 DEF Settled, PassedUnnoticed, PeriodPassed
<1>5. Timely(c, CurrentInterval)
    BY <1>4 DEF TimelyInv
<1>6. PeriodAt(schedule', clock') = PeriodAt(schedule, clock)
    BY <1>1, <1>4 DEF Settled, CurrentPeriod
<1>7. CurrentInterval' = CurrentInterval
    BY <1>1, <1>6 DEF CurrentInterval, IntervalAt
<1>8. CurrentInterval \in Nat
    BY IntervalType DEF TypeOK, CurrentInterval
<1>9. next'[c] = Aged(next[c]) /\ last'[c] = Aged(last[c])
    BY <1>2 DEF Tick
<1>10. /\ next[c] \in Int /\ last[c] \in Int
       /\ LongAgo \in Nat \ {0} /\ MaxLag \in Nat /\ MaxLag <= LongAgo /\ MaxJitter \in Nat
    BY <1>2, ConstantTypes DEF TypeOK
<1>11. -LongAgo <= next[c] /\ -LongAgo <= last[c] /\ last[c] <= 0
    BY <1>2 DEF RowInv
<1> QED
    BY <1>1, <1>5, <1>7, <1>8, <1>9, <1>10, <1>11 DEF Timely, Aged, Earlier

\* A step that leaves the table, or makes rows earlier
LEMMA QuietStep ==
    ASSUME TypeOK, TimelyInv, UNCHANGED <<schedule, clock, period, table, stale>>,
           pc' \notin {"down", "read", "requeue"} => pc \notin {"down", "read", "requeue"},
           admin'.step = "none" => admin.step = "none"
    PROVE  TimelyInv'
<1> SUFFICES ASSUME Settled', NEW c \in (Normal \ stale)' PROVE Timely(c, CurrentInterval)'
    BY DEF TimelyInv
<1>1. Settled
    BY SameInterval DEF Settled
<1>2. Normal' = Normal /\ c \in Normal \ stale
    BY SameNormal DEF table
<1>3. next'[c] = next[c] /\ last'[c] = last[c] /\ polled' = polled
    BY DEF table
<1>4. next'[c] \in Int /\ next'[c] <= next[c]
    BY <1>2, <1>3 DEF TypeOK, Normal
<1> QED
    BY <1>1, <1>2, <1>3, <1>4, KeptTimely

LEMMA AllStale ==
    ASSUME UNCHANGED table, stale' = stale \union Normal PROVE TimelyInv'
BY SameNormal DEF TimelyInv, table

LEMMA WorkerTimely == IInv /\ (Poll \/ WriteFails) => TimelyInv'
<1> SUFFICES ASSUME IInv, Poll \/ WriteFails PROVE TimelyInv'
    OBVIOUS
<1>i. TypeOK /\ RowInv /\ WorkerInv /\ TimelyInv
    BY DEF IInv
<1>1. CASE Start \/ ReadInterval
    BY <1>1 DEF Start, ReadInterval, TimelyInv, Settled
<1>2. CASE PeriodCheck
  <2>1. CASE PeriodPassed
      BY <1>2, <2>1 DEF PeriodCheck, TimelyInv, Settled
  <2>2. CASE ~PeriodPassed
      BY <1>i, <1>2, <2>2, QuietStep DEF PeriodCheck, requests, history
  <2> QED
      BY <2>1, <2>2
<1>3. CASE RequeueNormalPolls
  <2>1. /\ Requeue(interval) /\ UNCHANGED <<schedule, clock>>
        /\ interval \in Int /\ interval >= 0
      BY <1>i, <1>3 DEF RequeueNormalPolls, TypeOK, WorkerInv
  <2> QED
      BY <1>i, <2>1, RequeuedTimely DEF TimelyInv
<1>4. CASE \/ \E c \in Creators : PollSelect(c)
           \/ PollNothing \/ FetchEnds \/ ReadNext \/ ReadFailures
  <2>1. /\ pc \notin {"down", "read", "requeue"}
        /\ UNCHANGED <<schedule, clock, period, table, admin, stale>>
      BY <1>4 DEF PollSelect, PollNothing, FetchEnds, Still, ReadNext, ReadFailures, requests,
         history
  <2> QED
      BY <1>i, <2>1, QuietStep
<1>5. CASE WriteNext
  <2> SUFFICES ASSUME Settled', NEW c \in (Normal \ stale)' PROVE Timely(c, CurrentInterval)'
      BY DEF TimelyInv
  <2>1. /\ Update(mid, now, due, 0, -LongAgo) /\ Judge({mid}, interval) /\ pc = "polled"
        /\ UNCHANGED <<schedule, clock, period, admin>>
      BY <1>5 DEF WriteNext, requests
  <2>2. Settled
      BY <2>1, SameInterval DEF Settled
  <2>3. /\ now \in Int /\ -MaxLag <= now /\ due \in Int /\ interval \in Int
        /\ due <= interval + MaxJitter
      BY <1>i, <2>1 DEF TypeOK, WorkerInv
  <2> QED
      BY <1>i, <2>1, <2>2, <2>3, UpdatedTimely
<1>6. CASE WriteBackoff
  <2> SUFFICES ASSUME Settled', NEW c \in (Normal \ stale)' PROVE Timely(c, CurrentInterval)'
      BY DEF TimelyInv
  <2> DEFINE k == Earlier(count + 1, Len(Backoff))
  <2>1. /\ Update(mid, 0, Backoff[k], k, Backoff[k]) /\ pc = "backoff"
        /\ stale' = stale \ {mid} /\ UNCHANGED <<schedule, clock, period, admin>>
      BY <1>6 DEF WriteBackoff, requests
  <2>2. k \in 1 .. Len(Backoff) /\ k # 0
      BY <1>i, ConstantTypes DEF TypeOK, Earlier
  <2> HIDE DEF k
  <2>3. Settled
      BY <2>1, SameInterval DEF Settled
  <2>4. queued' = queued /\ c \in queued /\ c \in Creators
      BY <1>i, <2>1 DEF Update, table, Normal, TypeOK
  <2>5. c # mid
    <3>1. CASE mid \in queued
      <4>1. failures'[c] = 0 /\ failures' = [failures EXCEPT ![mid] = k]
          BY <2>1, <3>1 DEF Update, Normal
      <4> QED
          BY <1>i, <2>2, <2>4, <4>1 DEF TypeOK
    <3>2. CASE mid \notin queued
        BY <2>4, <3>2
    <3> QED
        BY <3>1, <3>2
  <2>6. /\ next'[c] = next[c] /\ last'[c] = last[c] /\ failures'[c] = failures[c]
        /\ c \in polled' <=> c \in polled
    <3>1. CASE mid \in queued
        BY <1>i, <2>1, <2>4, <2>5, <3>1 DEF Update, TypeOK
    <3>2. CASE mid \notin queued
        BY <2>1, <3>2 DEF Update, table
    <3> QED
        BY <3>1, <3>2
  <2>7. c \in Normal \ stale /\ next'[c] \in Int /\ next'[c] <= next[c]
      BY <1>i, <2>1, <2>4, <2>5, <2>6 DEF Normal, TypeOK
  <2> QED
      BY <1>i, <2>1, <2>3, <2>6, <2>7, KeptTimely
<1>7. CASE WriteFails
  <2>1. CASE pc = "requeue"
    <3>1. UNCHANGED table /\ stale' = stale \union Normal
        BY <1>7, <2>1 DEF WriteFails
    <3> QED
        BY <3>1, AllStale
  <2>2. CASE pc # "requeue"
    <3>1. /\ pc \notin {"down", "read", "requeue"}
          /\ UNCHANGED <<schedule, clock, period, table, admin, stale>>
        BY <1>7, <2>2 DEF WriteFails, requests
    <3> QED
        BY <1>i, <3>1, QuietStep
  <2> QED
      BY <2>1, <2>2
<1> QED
    BY <1>1, <1>2, <1>3, <1>4, <1>5, <1>6, <1>7 DEF Poll

LEMMA RequestTimely == IInv /\ (Answer \/ AdminRequeueFails \/ Ask) => TimelyInv'
<1> SUFFICES ASSUME IInv, Answer \/ AdminRequeueFails \/ Ask PROVE TimelyInv'
    OBVIOUS
<1>i. TypeOK /\ RowInv /\ RequestInv /\ TimelyInv
    BY DEF IInv
<1>c. CurrentInterval \in Nat \ {0}
    BY <1>i, IntervalType DEF TypeOK, CurrentInterval
<1>1. CASE AdminReadInterval \/ \E s \in Schedules : UpdateSystem(s)
  <2>1. admin'.step # "none"
      BY <1>1 DEF AdminReadInterval, UpdateSystem, AfterSave
  <2> QED
      BY <2>1 DEF TimelyInv, Settled
<1>2. CASE AdminRequeue
  <2>1. /\ Requeue(admin.interval) /\ UNCHANGED <<schedule, clock>>
        /\ admin.interval \in Int /\ admin.interval >= 0
      BY <1>i, <1>2 DEF AdminRequeue, TypeOK, Recalculation, RequestInv
  <2> QED
      BY <1>i, <2>1, RequeuedTimely DEF TimelyInv
<1>3. CASE AdminRequeueFails
    BY <1>3, AllStale DEF AdminRequeueFails
<1>4. CASE ImportCommit
  <2> SUFFICES ASSUME Settled', NEW c \in (Normal \ stale)' PROVE Timely(c, CurrentInterval)'
      BY DEF TimelyInv
  <2> DEFINE t == IF import.answered THEN import.interval ELSE 0
  <2>1. t \in Int /\ import.interval \in Nat /\ import.mid \in Creators
      BY <1>i, <1>4 DEF ImportCommit, TypeOK, Import, RequestInv
  <2>2. UNCHANGED <<schedule, clock, period, pc, admin>>
      BY <1>4 DEF ImportCommit, worker
  <2>3. Settled
      BY <2>2, SameInterval DEF Settled
  <2>4. CASE import.mid \notin queued
    <3>1. Insert(import.mid, t) /\ Judge({import.mid}, import.interval)
        BY <1>4, <2>4 DEF ImportCommit
    <3>2. stale \ {import.mid} \subseteq stale'
        BY <3>1 DEF Judge
    <3>3. c = import.mid => import.interval = CurrentInterval
        BY <3>1 DEF Judge, Normal
    <3>4. c = import.mid => t <= CurrentInterval
        BY <1>c, <2>1, <3>3
    <3> HIDE DEF t
    <3> QED
        BY <1>i, <2>1, <2>2, <2>3, <2>4, <3>1, <3>2, <3>4, InsertedTimely
  <2>5. CASE import.mid \in queued
    <3>1. /\ next' = [next EXCEPT ![import.mid] = Earlier(next[import.mid], t)]
          /\ UNCHANGED <<queued, polled, last, failures, stale>>
        BY <1>4, <2>5 DEF ImportCommit
    <3>2. Normal' = Normal /\ c \in Normal \ stale /\ c \in Creators
        BY <1>i, <3>1, SameNormal DEF Normal, TypeOK
    <3> HIDE DEF t
    <3>3. next[c] \in Int /\ (next'[c] = next[c] \/ next'[c] = Earlier(next[c], t))
        BY <1>i, <3>1, <3>2 DEF TypeOK
    <3>4. next'[c] \in Int /\ next'[c] <= next[c]
        BY <2>1, <3>3 DEF Earlier
    <3> QED
        BY <1>i, <2>2, <2>3, <3>1, <3>2, <3>4, KeptTimely
  <2> QED
      BY <2>4, <2>5
<1>5. CASE ImportRecord
  <2> SUFFICES ASSUME Settled', NEW c \in (Normal \ stale)' PROVE Timely(c, CurrentInterval)'
      BY DEF TimelyInv
  <2>1. /\ Update(import.mid, 0, import.interval, 0, -LongAgo)
        /\ Judge({import.mid}, import.interval)
        /\ UNCHANGED <<schedule, clock, period, pc, admin>>
      BY <1>5 DEF ImportRecord, worker
  <2>2. Settled
      BY <2>1, SameInterval DEF Settled
  <2>3. /\ 0 \in Int /\ -MaxLag <= 0 /\ import.interval \in Int
        /\ import.interval <= import.interval + MaxJitter
      BY <1>i, ConstantTypes DEF TypeOK, Import
  <2> QED
      BY <1>i, <2>1, <2>2, <2>3, UpdatedTimely
<1>6. CASE ImportRecordFails
  <2> SUFFICES ASSUME Settled', NEW c \in (Normal \ stale)' PROVE Timely(c, CurrentInterval)'
      BY DEF TimelyInv
  <2>1. /\ UNCHANGED <<schedule, clock, period, pc, admin, queued, polled, last, failures, stale>>
        /\ next' = next \/ next' = [next EXCEPT ![import.mid] = 0]
      BY <1>6 DEF ImportRecordFails, worker
  <2>2. Settled
      BY <2>1, SameInterval DEF Settled
  <2>3. Normal' = Normal /\ c \in Normal \ stale /\ c \in Creators
      BY <1>i, <2>1, SameNormal DEF Normal, TypeOK
  <2>4. CASE next'[c] = next[c]
    <3>1. next'[c] \in Int /\ next'[c] <= next[c]
        BY <1>i, <2>3, <2>4 DEF TypeOK
    <3> QED
        BY <1>i, <2>1, <2>2, <2>3, <2>4, <3>1, KeptTimely
  <2>5. CASE next'[c] = 0
      BY <2>5 DEF Timely
  <2>6. next'[c] = next[c] \/ next'[c] = 0
      BY <1>i, <2>1, <2>3 DEF TypeOK
  <2> QED
      BY <2>4, <2>5, <2>6
<1>7. ASSUME NEW m \in Creators, Subscribe(m) PROVE TimelyInv'
  <2>1. UNCHANGED <<schedule, clock, period, pc, admin, stale>>
      BY <1>7 DEF Subscribe, worker, requests
  <2>2. CASE m \in queued
      BY <1>i, <1>7, <2>1, <2>2, QuietStep DEF Subscribe
  <2>3. CASE m \notin queued
    <3> SUFFICES ASSUME Settled', NEW c \in (Normal \ stale)' PROVE Timely(c, CurrentInterval)'
        BY DEF TimelyInv
    <3>1. Insert(m, 1) /\ 1 \in Int /\ 1 <= CurrentInterval
        BY <1>7, <1>c, <2>3 DEF Subscribe
    <3>2. Settled /\ stale \ {m} \subseteq stale'
        BY <2>1, SameInterval DEF Settled
    <3> QED
        BY <1>i, <2>1, <2>3, <3>1, <3>2, InsertedTimely
  <2> QED
      BY <2>2, <2>3
<1>8. CASE \E c \in Creators : StartImport(c) \/ Deactivate(c) \/ Reactivate(c)
  <2>1. UNCHANGED <<schedule, clock, period, pc, table, admin, stale>>
      BY <1>8 DEF StartImport, Deactivate, Reactivate, worker, requests, history
  <2> QED
      BY <1>i, <2>1, QuietStep
<1>9. ASSUME NEW m \in Creators, DeleteCreator(m) PROVE TimelyInv'
  <2> SUFFICES ASSUME Settled', NEW c \in (Normal \ stale)' PROVE Timely(c, CurrentInterval)'
      BY DEF TimelyInv
  <2>1. UNCHANGED <<schedule, clock, period, pc, admin>>
      BY <1>9 DEF DeleteCreator, worker, requests
  <2>2. Settled
      BY <2>1, SameInterval DEF Settled
  <2>3. c # m /\ c \in queued /\ c \in Creators
      BY <1>i, <1>9 DEF DeleteCreator, Normal, TypeOK
  <2>4. /\ next'[c] = next[c] /\ last'[c] = last[c] /\ failures'[c] = failures[c]
        /\ (c \in polled' <=> c \in polled) /\ (c \in stale' <=> c \in stale)
      BY <1>i, <1>9, <2>3 DEF DeleteCreator, TypeOK
  <2>5. c \in Normal \ stale /\ next'[c] \in Int /\ next'[c] <= next[c]
      BY <1>i, <2>3, <2>4 DEF Normal, TypeOK
  <2> QED
      BY <1>i, <2>1, <2>2, <2>4, <2>5, KeptTimely
<1> QED
    BY <1>1, <1>2, <1>3, <1>4, <1>5, <1>6, <1>7, <1>8, <1>9 DEF Answer, Ask

LEMMA TimelyStep == IInv /\ [Next]_vars => TimelyInv'
<1> SUFFICES ASSUME IInv, [Next]_vars PROVE TimelyInv'
    OBVIOUS
<1>i. TypeOK /\ RowInv /\ TimelyInv
    BY DEF IInv
<1>1. CASE Crash
    BY <1>1 DEF Crash, TimelyInv, Settled
<1>2. CASE Tick
    BY <1>i, <1>2, AgedTimely DEF TimelyInv
<1>3. CASE UNCHANGED vars
    BY <1>i, <1>3, QuietStep DEF vars, worker, requests, history
<1> QED
    BY <1>1, <1>2, <1>3, WorkerTimely, RequestTimely DEF Next

-----------------------------------------------------------------------------
(* The theorems                                                            *)

LEMMA InitIInv == Init => IInv
<1> SUFFICES ASSUME Init PROVE IInv
    OBVIOUS
<1> USE ConstantTypes
<1>1. clock \in Minute
    BY DayAssumption DEF Init, Minute
<1>2. TypeOK
    BY <1>1, NoRequestType DEF Init, TypeOK, WorkerPcs
<1>3. RowInv
    BY DEF Init, RowInv
<1>4. WorkerInv /\ BackoffKept /\ TimelyInv
    BY DEF Init, WorkerInv, BackoffKept, TimelyInv, Settled, Polling
<1>5. RequestInv
    BY DEF Init, RequestInv, NoRecalculation, NoImport
<1> QED
    BY <1>2, <1>3, <1>4, <1>5 DEF IInv

(* The invariant the theorems below rest on *)
THEOREM Invariance == Spec => []IInv
<1>1. IInv /\ [Next]_vars => IInv'
    BY TypeStep, RowStep, WorkerStep, RequestStep, BackoffStep, TimelyStep DEF IInv
<1> QED
    BY InitIInv, <1>1, PTL DEF Spec

(* What is stored, read and under way has its type, whatever happens. *)
THEOREM TypeCorrect == Spec => []TypeOK
<1>1. IInv => TypeOK
    BY DEF IInv
<1> QED
    BY <1>1, Invariance, PTL

(* A failing creator is left alone for the whole delay of its last         *)
(* failure: recordPollFailure of workers.go against everything that writes *)
(* next_poll_at.                                                           *)
THEOREM FailuresAreLeftAlone == Spec => []BackoffKept
<1>1. IInv => BackoffKept
    BY DEF IInv
<1> QED
    BY <1>1, Invariance, PTL

(* Between two polls no row waits longer than the schedule in force says:  *)
(* requeueNormalPolls, pollOne and the handlers, for any time a poll takes *)
(* and any schedules saved meanwhile.                                      *)
THEOREM ScheduleReaches == Spec => []ScheduleReachesEveryRow
<1>1. IInv => ScheduleReachesEveryRow
    BY DEF IInv, TimelyInv, Settled, Timely, PeriodPassed, ScheduleReachesEveryRow
<1> QED
    BY <1>1, Invariance, PTL
=============================================================================
