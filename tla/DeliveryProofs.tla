--------------------------- MODULE DeliveryProofs ---------------------------
(***************************************************************************)
(* Theorems about Delivery, for every set of users, number of rows, number *)
(* of attempts, retry delays, windows and bounds.                          *)
(***************************************************************************)
EXTENDS Delivery, ScheduleProofs, FiniteSetTheorems

(* The worker holds deliveryMu exactly while it works on a row.            *)
LockInv == Busy <=> mu = "worker"

(* What it works on was handed out, is not cancelled, and is in the table  *)
(* as it was read, or went with its owner.                                 *)
ItemInv ==
    /\ pc = "schedule" => windows \in AtMostOne(ProperWindow)
    /\ Busy =>
            /\ item.id \in Ids
            /\ item.id <= lastId
            /\ item.user \in Users
            /\ item.attempts < MaxAttempts
            /\ item.id \notin cancelled
            /\ \/ ~InTable(item.id) /\ users[item.user] = "deleted"
               \/ PendingOf(item.user, item.id) /\ attempts[item.id] = item.attempts

\* A row that is in the table was handed out and is not cancelled; its attempts
\* are used up exactly when it failed.  An id still to be handed out is fresh.
RowOK(id) ==
    /\ InTable(id) => owner[id] \in Users /\ id <= lastId /\ id \notin cancelled
    /\ Pending(id) => attempts[id] < MaxAttempts
    /\ status[id] = "failed" => attempts[id] = MaxAttempts
    /\ id > lastId => /\ attempts[id] = 0
                      /\ pushes[id] = 0
                      /\ unrecorded[id] = 0
                      /\ id \notin cancelled

Working(id) == Busy /\ item.id = id

\* The pushes that Bark accepted against those that are not recorded
CountOK(id) ==
    /\ pushes[id] \in {unrecorded[id], unrecorded[id] + 1}
    /\ Working(id) => (pushes[id] = unrecorded[id] + 1 <=> InFlight(id))
    /\ status[id] = "sent" => pushes[id] = unrecorded[id] + 1
    /\ status[id] \in {"pending", "failed"} /\ ~Working(id) => pushes[id] = unrecorded[id]
    /\ id \in cancelled => pushes[id] = unrecorded[id]

\* The pushes that Bark accepted against the attempts and the faults
BoundOK(id) ==
    /\ pushes[id] <= MaxAttempts + faults
    /\ Pending(id) /\ ~Working(id) => pushes[id] <= attempts[id] + faults
    /\ Working(id) => pushes[id] <= item.attempts + faults
                         + (IF pc \in {"accepted", "sent", "failed"} THEN 1 ELSE 0)

RowInv   == \A id \in Ids : RowOK(id)
CountInv == \A id \in Ids : CountOK(id)
BoundInv == \A id \in Ids : BoundOK(id)

IInv == TypeOK /\ LockInv /\ ItemInv /\ RowInv /\ CountInv /\ BoundInv

-----------------------------------------------------------------------------
(* Types                                                                   *)

LEMMA IncrementType ==
    ASSUME NEW f \in [Ids -> Nat], NEW i PROVE [f EXCEPT ![i] = @ + 1] \in [Ids -> Nat]
<1>1. i \in Ids => f[i] + 1 \in Nat
    OBVIOUS
<1>2. ASSUME i \notin Ids PROVE [f EXCEPT ![i] = @ + 1] = f
    BY <1>2
<1> DEFINE n == f[i] + 1
<1>3. ASSUME i \in Ids PROVE [f EXCEPT ![i] = n] \in [Ids -> Nat]
  <2> n \in Nat
      BY <1>1, <1>3
  <2> HIDE DEF n
  <2> QED
      OBVIOUS
<1> QED
    BY <1>2, <1>3

LEMMA NoItemType == NoItem \in Item
<1>1. 0 \in 0 .. MaxAttempts
    BY DeliveryAssumption
<1>2. NoUser \in Users \union {NoUser} /\ 0 \in Ids \union {0}
    OBVIOUS
<1> QED
    BY <1>1, <1>2 DEF NoItem, Item

LEMMA ReturnType == Return => /\ pc' \in {"idle", "lock"} \union BusyPcs
                              /\ now' \in Int
                              /\ item' \in Item
                              /\ usable' \in BOOLEAN
                              /\ windows' \in SUBSET ProperWindow
                              /\ until' \in Int
                              /\ mu' \in {"free", "worker", "cancel"}
<1> SUFFICES ASSUME Return PROVE /\ pc' = "idle" /\ now' = 0 /\ until' = 0
                                 /\ item' \in Item /\ mu' = "free"
                                 /\ usable' = FALSE /\ windows' = {}
    OBVIOUS
<1> QED
    BY NoItemType DEF Return, ForgetCall

LEMMA ItemType ==
    ASSUME TypeOK, ItemInv, Busy
    PROVE  /\ item.id \in Ids
           /\ item.user \in Users
           /\ item.attempts \in 0 .. MaxAttempts - 1
<1>1. item.attempts \in 0 .. MaxAttempts /\ item.attempts < MaxAttempts
    BY DEF TypeOK, ItemInv, Item
<1> QED
    BY <1>1, DeliveryAssumption DEF ItemInv

LEMMA QuietType == ASSUME TypeOK, NEW u \in Users
                   PROVE  QuietOf(u) \in AtMostOne(ProperWindow)
BY DEF TypeOK, QuietOf, Settings, AtMostOne

LEMMA DeferralType ==
    ASSUME TypeOK, ItemInv, pc = "schedule"
    PROVE  /\ windows \union {sleep} \in SUBSET ProperWindow
           /\ CapturedMinute \in Minute
           /\ DeliveryDeferredUntil(windows \union {sleep}, CapturedMinute) \in Int
<1>1. CapturedMinute \in Minute
    BY DayAssumption DEF TypeOK, CapturedMinute, Minute
<1>2. windows \in AtMostOne(ProperWindow) /\ sleep \in ProperWindow
    BY DEF TypeOK, ItemInv
<1>3. windows \union {sleep} = {sleep} \union windows
    OBVIOUS
<1>4. \A w \in ActiveWindows({sleep} \union windows, CapturedMinute) :
         ClockWindowEnd(w, CapturedMinute) \in Int
    BY <1>1, <1>2, WindowEndRange DEF ActiveWindows, AtMostOne
<1> DEFINE open  == ActiveWindows({sleep} \union windows, CapturedMinute)
           until_ == DeliveryDeferredUntil({sleep} \union windows, CapturedMinute)
<1>5. until_ \in Int
  <2>1. /\ open = {} => until_ = 0
        /\ open # {} => \E w \in open : until_ = ClockWindowEnd(w, CapturedMinute)
      BY <1>1, <1>2, DeferralIsLaterEnd
  <2> QED
      BY <1>4, <2>1
<1>6. windows \union {sleep} \in SUBSET ProperWindow
    BY <1>2 DEF AtMostOne
<1> QED
    BY <1>1, <1>3, <1>5, <1>6

LEMMA WorkerType == ASSUME TypeOK, ItemInv, RowInv, Deliver \/ WriteFails PROVE TypeOK'
<1> USE DEF TypeOK, config, table, call, bounds, history
<1>1. CASE DeliverOne
    BY <1>1 DEF DeliverOne
<1>2. ASSUME NEW id \in Ids, SelectDelivery(id) PROVE TypeOK'
  <2>1. item' \in Item
      BY <1>2 DEF SelectDelivery, Item
  <2> QED
      BY <1>2, <2>1 DEF SelectDelivery, BusyPcs
<1>3. CASE SelectNothing
    BY <1>3, ReturnType DEF SelectNothing
<1>4. CASE LoadBark
  <2>1. item.user \in Users
      BY <1>4, ItemType DEF LoadBark, Busy, BusyPcs
  <2>2. windows' \in SUBSET ProperWindow
      BY <1>4, <2>1, QuietType DEF LoadBark, AtMostOne
  <2>3. usable' \in BOOLEAN /\ pc' \in BusyPcs
      BY <1>4 DEF LoadBark, BusyPcs
  <2> QED
      BY <1>4, <2>2, <2>3 DEF LoadBark
<1>5. CASE DecideDeferral
  <2>1. windows' \in SUBSET ProperWindow /\ until' \in Int /\ pc' \in BusyPcs
      BY <1>5, DeferralType DEF DecideDeferral, BusyPcs, Minute
  <2> QED
      BY <1>5, <2>1 DEF DecideDeferral
<1>6. CASE WriteDeferral
    BY <1>6, ReturnType, ItemType DEF WriteDeferral, Busy, BusyPcs
<1>7. CASE BarkAccepts \/ BarkRefuses \/ BarkAnswers \/ BarkAnswerLost
    BY <1>7 DEF BarkAccepts, BarkRefuses, BarkAnswers, BarkAnswerLost, BusyPcs
<1>8. CASE RecordSent
  <2>1. \A i \in SentRows(item.id) : i \in Ids /\ attempts[i] + 1 \in 0 .. MaxAttempts
      BY <1>8, ItemType, DeliveryAssumption
      DEF RecordSent, SentRows, Busy, BusyPcs, ItemInv, PendingOf, Pending, InTable
  <2>2. status' \in [Ids -> {"none", "pending", "sent", "failed"}]
      BY <1>8 DEF RecordSent
  <2>3. attempts' \in [Ids -> 0 .. MaxAttempts]
      BY <1>8, <2>1 DEF RecordSent
  <2>4. deferred' \in [Ids -> Int]
      BY <1>8, DeliveryAssumption DEF RecordSent
  <2>5. unrecorded' \in [Ids -> Nat]
      BY <1>8, IncrementType DEF RecordSent
  <2> QED
      BY <1>8, <2>2, <2>3, <2>4, <2>5, ReturnType DEF RecordSent
<1>9. CASE RecordDeliveryFailure
  <2>1. /\ item.id \in Ids
        /\ item.attempts + 1 \in 0 .. MaxAttempts
        /\ ~GiveUp(item.attempts + 1) => RetryDelay[item.attempts + 1] \in Int
      BY <1>9, ItemType, DeliveryAssumption
      DEF RecordDeliveryFailure, GiveUp, Busy, BusyPcs
  <2>2. /\ status' \in [Ids -> {"none", "pending", "sent", "failed"}]
        /\ attempts' \in [Ids -> 0 .. MaxAttempts]
        /\ next' \in [Ids -> Int]
      BY <1>9, <2>1 DEF RecordDeliveryFailure
  <2> QED
      BY <1>9, <2>2, ReturnType DEF RecordDeliveryFailure
<1>10. CASE WriteFails
  <2>1. unrecorded' \in [Ids -> Nat] /\ faults' \in Nat
      BY <1>10, IncrementType DEF WriteFails
  <2> QED
      BY <1>10, <2>1, ReturnType DEF WriteFails
<1> QED
    BY <1>1, <1>2, <1>3, <1>4, <1>5, <1>6, <1>7, <1>8, <1>9, <1>10 DEF Deliver

LEMMA EnqueueRange ==
    ASSUME TypeOK, NEW owners \in SUBSET Users, EnqueueDeliveries(owners)
    PROVE  /\ Cardinality(owners) \in Nat \ {0}
           /\ lastId + Cardinality(owners) \in Ids
<1>1. IsFiniteSet(owners) /\ owners # {}
    BY FS_Subset, DeliveryAssumption DEF EnqueueDeliveries
<1>2. Cardinality(owners) \in Nat \ {0}
    BY <1>1, FS_CardinalityType, FS_EmptySet
<1>3. lastId + Cardinality(owners) \in lastId + 1 .. lastId + Cardinality(owners)
    BY <1>2 DEF TypeOK
<1> QED
    BY <1>2, <1>3 DEF EnqueueDeliveries

LEMMA HandlerType == ASSUME TypeOK, Handlers \/ Crash \/ Tick PROVE TypeOK'
<1> USE DEF TypeOK, config, table, call, bounds, history, Change
<1>1. ASSUME NEW owners \in SUBSET Users, EnqueueDeliveries(owners) PROVE TypeOK'
  <2>1. owner' \in [Ids -> Users \union {NoUser}]
      BY <1>1 DEF EnqueueDeliveries
  <2>2. lastId' \in 0 .. MaxDeliveries
    <3>1. lastId' \in Ids
        BY <1>1, EnqueueRange DEF EnqueueDeliveries
    <3> QED
        BY <3>1, DeliveryAssumption DEF Ids
  <2> QED
      BY <1>1, <2>1, <2>2 DEF EnqueueDeliveries
<1>2. ASSUME NEW ids \in SUBSET Ids, DeleteRows(ids)
      PROVE  /\ owner' \in [Ids -> Users \union {NoUser}]
             /\ status' \in [Ids -> {"none", "pending", "sent", "failed"}]
             /\ attempts' \in [Ids -> 0 .. MaxAttempts]
             /\ next' \in [Ids -> Int]
             /\ deferred' \in [Ids -> Int]
             /\ stale' \subseteq Ids
    BY <1>2, DeliveryAssumption DEF DeleteRows
<1>3. ASSUME NEW u \in Users, NEW id \in Ids, CancelPending(u, id) PROVE TypeOK'
    BY <1>2, <1>3 DEF CancelPending
<1>4. ASSUME NEW u \in Users, NEW id \in Ids, CancelNothing(u, id) PROVE TypeOK'
    BY <1>4 DEF CancelNothing
<1>5. CASE CancelStatus
    BY <1>5 DEF CancelStatus
<1>6. ASSUME NEW owners, ResetDeferrals(owners)
      PROVE  next' = next /\ deferred' \in [Ids -> Int] /\ stale' \subseteq Ids
    BY <1>6, DeliveryAssumption DEF ResetDeferrals
<1>7. ASSUME NEW u \in Users, NEW newKey \in BOOLEAN, NEW quiet \in QuietChoice,
             SaveBark(u, newKey, quiet)
      PROVE  TypeOK'
  <2>1. bark' \in [Users -> Settings]
      BY <1>7, DeliveryAssumption DEF SaveBark, Settings, QuietChoice, AtMostOne
  <2> QED
      BY <1>6, <1>7, <2>1 DEF SaveBark
<1>8. ASSUME NEW window \in Windows, UpdateSystem(window) PROVE TypeOK'
    BY <1>6, <1>8, DeliveryAssumption DEF UpdateSystem
<1>9. ASSUME NEW u \in Users, SetEnabled(u) PROVE TypeOK'
    BY <1>9 DEF SetEnabled
<1>10. ASSUME NEW u \in Users, DeleteUser(u) PROVE TypeOK'
  <2>1. bark' \in [Users -> Settings]
      BY <1>10 DEF DeleteUser, Settings, AtMostOne
  <2> QED
      BY <1>2, <1>10, <2>1 DEF DeleteUser
<1>11. CASE Crash
  <2>1. unrecorded' \in [Ids -> Nat] /\ faults' \in Nat
      BY <1>11, IncrementType DEF Crash
  <2> QED
      BY <1>11, <2>1, ReturnType DEF Crash
<1>12. CASE Tick
  <2>1. clock' \in Minute
      BY <1>12, DayAssumption DEF Tick, Minute
  <2>2. next' \in [Ids -> Int] /\ deferred' \in [Ids -> Int]
      BY <1>12, DeliveryAssumption DEF Tick, Aged
  <2> QED
      BY <1>12, <2>1, <2>2 DEF Tick
<1> QED
    BY <1>1, <1>3, <1>4, <1>5, <1>7, <1>8, <1>9, <1>10, <1>11, <1>12 DEF Handlers

LEMMA TypeStep == IInv /\ [Next]_vars => TypeOK'
<1>1. ASSUME TypeOK, UNCHANGED vars PROVE TypeOK'
    BY <1>1 DEF TypeOK, vars, config, table, call, bounds, history
<1> QED
    BY <1>1, WorkerType, HandlerType DEF IInv, Next

-----------------------------------------------------------------------------
(* The lock and the row in hand                                            *)

LEMMA LockStep == IInv /\ [Next]_vars => LockInv'
<1> SUFFICES ASSUME TypeOK, LockInv, [Next]_vars PROVE LockInv'
    BY DEF IInv
<1> USE DEF LockInv, Busy, BusyPcs
<1>1. CASE Deliver \/ WriteFails \/ Crash
    BY <1>1 DEF Deliver, WriteFails, Crash, DeliverOne, SelectDelivery, SelectNothing, LoadBark,
       DecideDeferral, WriteDeferral, BarkAccepts, BarkRefuses, BarkAnswers,
       BarkAnswerLost, RecordSent, RecordDeliveryFailure, Return, ForgetCall
<1>2. CASE Handlers
    BY <1>2 DEF Handlers, EnqueueDeliveries, CancelPending, CancelNothing, CancelStatus,
       SaveBark, UpdateSystem, SetEnabled, DeleteUser
<1>3. CASE Tick \/ UNCHANGED vars
    BY <1>3 DEF Tick, vars
<1> QED
    BY <1>1, <1>2, <1>3 DEF Next

\* A step that keeps the row in hand, or takes it away with its owner
LEMMA ItemKept ==
    ASSUME ItemInv, Busy,
           item' = item, cancelled' = cancelled, lastId' >= lastId,
           users[item.user] = "deleted" => users'[item.user] = "deleted",
           \/ /\ status'[item.id] = status[item.id]
              /\ owner'[item.id] = owner[item.id]
              /\ attempts'[item.id] = attempts[item.id]
           \/ status'[item.id] = "none" /\ users'[item.user] = "deleted",
           lastId \in Int, lastId' \in Int, item.id \in Int,
           pc' = "schedule" => windows' \in AtMostOne(ProperWindow)
    PROVE  ItemInv'
BY DEF ItemInv, InTable, Pending, PendingOf

LEMMA ItemStep == IInv /\ [Next]_vars => ItemInv'
<1> SUFFICES ASSUME TypeOK, LockInv, ItemInv, RowInv, [Next]_vars PROVE ItemInv'
    BY DEF IInv
<1>1. ASSUME Busy PROVE item.id \in Ids /\ item.id \in Int /\ item.user \in Users
                        /\ lastId \in Int
    BY <1>1 DEF TypeOK, ItemInv, Ids
<1>2. ASSUME ~Busy' PROVE ItemInv'
    BY <1>2 DEF ItemInv, Busy, BusyPcs
<1>3. CASE DeliverOne \/ SelectNothing \/ WriteDeferral \/ RecordSent \/ WriteFails
           \/ RecordDeliveryFailure \/ Crash
    BY <1>2, <1>3 DEF DeliverOne, SelectNothing, WriteDeferral, RecordSent, WriteFails,
       RecordDeliveryFailure, Crash, Return, ForgetCall, Busy, BusyPcs
<1>4. ASSUME NEW id \in Ids, SelectDelivery(id) PROVE ItemInv'
  <2>1. /\ Pending(id) /\ InTable(id)
        /\ attempts[id] < MaxAttempts /\ owner[id] \in Users /\ id <= lastId
        /\ id \notin cancelled
      BY <1>4 DEF SelectDelivery, FirstDue, Due, Pending, InTable, RowInv, RowOK
  <2> QED
      BY <1>4, <2>1 DEF SelectDelivery, ItemInv, PendingOf, Pending, InTable, table, history
<1>5. CASE LoadBark
  <2>1. Busy
      BY <1>5 DEF LoadBark, Busy, BusyPcs
  <2>2. windows' \in AtMostOne(ProperWindow)
      BY <1>1, <1>5, <2>1, QuietType DEF LoadBark
  <2> QED
      BY <1>1, <1>5, <2>1, <2>2, ItemKept DEF LoadBark, config, table, history
<1>6. CASE DecideDeferral \/ BarkAccepts \/ BarkRefuses \/ BarkAnswers \/ BarkAnswerLost
  <2>1. Busy /\ pc' # "schedule" /\ UNCHANGED <<config, table, item, cancelled>>
      BY <1>6 DEF DecideDeferral, BarkAccepts, BarkRefuses, BarkAnswers, BarkAnswerLost,
         Busy, BusyPcs, history, call
  <2> QED
      BY <1>1, <2>1, ItemKept DEF config, table
<1>7. ASSUME Busy, UNCHANGED <<pc, item, windows, cancelled, owner, status, attempts, lastId>>,
             users[item.user] = "deleted" => users'[item.user] = "deleted"
      PROVE  ItemInv'
    BY <1>1, <1>7, ItemKept DEF ItemInv
<1>8. ASSUME Busy, Handlers PROVE ItemInv'
  <2> USE DEF call, table, history
  <2>1. mu = "worker"
      BY <1>8 DEF LockInv
  <2>2. ASSUME NEW owners \in SUBSET Users, EnqueueDeliveries(owners) PROVE ItemInv'
    <3>1. item.id <= lastId /\ lastId' \in Int /\ lastId' >= lastId
        BY <1>1, <1>8, <2>2, EnqueueRange DEF EnqueueDeliveries, ItemInv
    <3>2. item.id \notin lastId + 1 .. lastId + Cardinality(owners)
        BY <1>1, <1>8, <3>1
    <3>3. status'[item.id] = status[item.id] /\ owner'[item.id] = owner[item.id]
        BY <1>1, <1>8, <2>2, <3>2 DEF EnqueueDeliveries
    <3> QED
        BY <1>1, <1>8, <2>2, <3>1, <3>3, ItemKept DEF EnqueueDeliveries, ItemInv, config
  <2>3. ASSUME NEW u \in Users, NEW id \in Ids, CancelPending(u, id) \/ CancelNothing(u, id)
        PROVE  FALSE
      BY <2>1, <2>3 DEF CancelPending, CancelNothing, Cancellable
  <2>4. CASE CancelStatus
      BY <2>1, <2>4 DEF CancelStatus
  <2>5. ASSUME NEW u \in Users, NEW newKey \in BOOLEAN, NEW quiet \in QuietChoice,
               SaveBark(u, newKey, quiet)
        PROVE  ItemInv'
      BY <1>7, <1>8, <2>5 DEF SaveBark
  <2>6. ASSUME NEW window \in Windows, UpdateSystem(window) PROVE ItemInv'
      BY <1>7, <1>8, <2>6 DEF UpdateSystem
  <2>7. ASSUME NEW u \in Users, SetEnabled(u) PROVE ItemInv'
    <3>1. users[item.user] = "deleted" => users'[item.user] = "deleted"
        BY <1>1, <1>8, <2>7 DEF SetEnabled, TypeOK
    <3> QED
        BY <1>7, <1>8, <2>7, <3>1 DEF SetEnabled
  <2>8. ASSUME NEW u \in Users, DeleteUser(u) PROVE ItemInv'
    <3>1. users[item.user] = "deleted" => users'[item.user] = "deleted"
        BY <1>1, <1>8, <2>8 DEF DeleteUser, TypeOK
    <3>2. CASE owner[item.id] = u
      <4>1. status'[item.id] = "none"
          BY <1>1, <1>8, <2>8, <3>2 DEF DeleteUser, DeleteRows
      <4>2. users'[item.user] = "deleted"
          BY <1>1, <1>8, <2>8, <3>1, <3>2
          DEF DeleteUser, TypeOK, ItemInv, PendingOf, InTable
      <4> QED
          BY <1>1, <1>8, <2>8, <3>1, <4>1, <4>2, ItemKept DEF DeleteUser, ItemInv
    <3>3. CASE owner[item.id] # u
      <4>1. /\ status'[item.id] = status[item.id]
            /\ owner'[item.id] = owner[item.id]
            /\ attempts'[item.id] = attempts[item.id]
          BY <1>1, <1>8, <2>8, <3>3 DEF DeleteUser, DeleteRows
      <4> QED
          BY <1>1, <1>8, <2>8, <3>1, <4>1, ItemKept DEF DeleteUser, ItemInv
    <3> QED
        BY <3>2, <3>3
  <2> QED
      BY <1>8, <2>2, <2>3, <2>4, <2>5, <2>6, <2>7, <2>8 DEF Handlers
<1>9. ASSUME ~Busy, Handlers PROVE ItemInv'
    BY <1>2, <1>9 DEF Handlers, EnqueueDeliveries, CancelPending, CancelNothing,
       CancelStatus, SaveBark, UpdateSystem, SetEnabled, DeleteUser, Busy, BusyPcs
<1>10. CASE Tick \/ UNCHANGED vars
  <2>1. UNCHANGED <<pc, item, windows, cancelled, owner, status, attempts, lastId, users>>
      BY <1>10 DEF Tick, vars, config, table, call, history
  <2> QED
      BY <1>2, <1>7, <2>1 DEF Busy
<1> QED
    BY <1>3, <1>4, <1>5, <1>6, <1>8, <1>9, <1>10 DEF Next, Deliver

-----------------------------------------------------------------------------
(* The rows                                                                *)

LEMMA RowStep == IInv /\ [Next]_vars => RowInv'
<1> SUFFICES ASSUME TypeOK, LockInv, ItemInv, RowInv, [Next]_vars, NEW id \in Ids
             PROVE  RowOK(id)'
    BY DEF IInv, RowInv
<1> USE DEF table, history, InTable, Pending
<1>0. RowOK(id) /\ id \in Int /\ lastId \in Int
    BY DEF RowInv, Ids, TypeOK
<1>1. CASE UNCHANGED <<owner, status, attempts, lastId, pushes, unrecorded, cancelled>>
    BY <1>0, <1>1 DEF RowOK
<1>2. CASE DeliverOne \/ (\E i \in Ids : SelectDelivery(i)) \/ SelectNothing \/ LoadBark
           \/ DecideDeferral \/ WriteDeferral \/ BarkRefuses \/ BarkAnswers
    BY <1>1, <1>2 DEF DeliverOne, SelectDelivery, SelectNothing, LoadBark, DecideDeferral,
       WriteDeferral, BarkRefuses, BarkAnswers
<1>3. CASE BarkAccepts \/ BarkAnswerLost \/ WriteFails \/ Crash
  <2>1. UNCHANGED <<owner, status, attempts, lastId, cancelled>>
      BY <1>3 DEF BarkAccepts, BarkAnswerLost, WriteFails, Crash
  <2>2. id # item.id \/ ~Busy => pushes'[id] = pushes[id] /\ unrecorded'[id] = unrecorded[id]
      BY <1>3 DEF BarkAccepts, BarkAnswerLost, WriteFails, Crash, TypeOK, Busy, BusyPcs
  <2>3. Busy => item.id <= lastId
      BY DEF ItemInv
  <2> QED
      BY <1>0, <2>1, <2>2, <2>3 DEF RowOK
<1>4. CASE RecordSent
  <2>1. Busy
      BY <1>4 DEF RecordSent, Busy, BusyPcs
  <2>2. UNCHANGED <<owner, lastId, pushes, cancelled>>
      BY <1>4 DEF RecordSent
  <2>3. id # item.id => /\ status'[id] = status[id] /\ attempts'[id] = attempts[id]
                        /\ unrecorded'[id] = unrecorded[id]
      BY <1>4 DEF RecordSent, SentRows, TypeOK
  <2>4. id = item.id => IF InTable(id) THEN status'[id] = "sent" ELSE status'[id] = "none"
      BY <1>4 DEF RecordSent, SentRows, TypeOK
  <2>5. id = item.id => id <= lastId
      BY <2>1 DEF ItemInv
  <2> QED
      BY <1>0, <2>2, <2>3, <2>4, <2>5 DEF RowOK
<1>5. CASE RecordDeliveryFailure
  <2>1. Busy
      BY <1>5 DEF RecordDeliveryFailure, Busy, BusyPcs
  <2>2. UNCHANGED <<owner, lastId, pushes, unrecorded, cancelled>>
      BY <1>5 DEF RecordDeliveryFailure
  <2>3. CASE id # item.id \/ ~InTable(item.id)
    <3>1. status'[id] = status[id] /\ attempts'[id] = attempts[id]
        BY <1>5, <2>3 DEF RecordDeliveryFailure, TypeOK
    <3> QED
        BY <1>0, <2>2, <3>1 DEF RowOK
  <2>4. CASE id = item.id /\ InTable(item.id)
    <3>1. item.attempts \in 0 .. MaxAttempts - 1
        BY <2>1, ItemType
    <3>2. attempts'[id] = item.attempts + 1
        BY <1>5, <2>4 DEF RecordDeliveryFailure, TypeOK
    <3>3. IF item.attempts + 1 >= MaxAttempts THEN status'[id] = "failed"
                                              ELSE status'[id] = "pending"
        BY <1>5, <2>1, <2>4 DEF RecordDeliveryFailure, GiveUp, TypeOK, ItemInv, PendingOf
    <3> QED
        BY <1>0, <2>2, <2>4, <3>1, <3>2, <3>3, DeliveryAssumption DEF RowOK
  <2> QED
      BY <2>3, <2>4
<1>6. ASSUME NEW owners \in SUBSET Users, EnqueueDeliveries(owners) PROVE RowOK(id)'
  <2> DEFINE new == lastId + 1 .. lastId + Cardinality(owners)
  <2>1. /\ Cardinality(owners) \in Nat \ {0}
        /\ lastId' = lastId + Cardinality(owners)
        /\ UNCHANGED <<attempts, pushes, unrecorded, cancelled>>
      BY <1>6, EnqueueRange DEF EnqueueDeliveries
  <2>2. CASE id \in new
    <3>1. id > lastId /\ id <= lastId'
        BY <1>0, <2>1, <2>2
    <3>2. status'[id] = "pending"
        BY <1>6, <2>2 DEF EnqueueDeliveries
    <3>3. owner'[id] \in Users
        BY <1>6, <2>2 DEF EnqueueDeliveries
    <3> QED
        BY <1>0, <2>1, <3>1, <3>2, <3>3, DeliveryAssumption DEF RowOK
  <2>3. CASE id \notin new
    <3>1. status'[id] = status[id] /\ owner'[id] = owner[id]
        BY <1>6, <2>3 DEF EnqueueDeliveries
    <3> QED
        BY <1>0, <2>1, <3>1 DEF RowOK
  <2> QED
      BY <2>2, <2>3
<1>7. ASSUME NEW ids, DeleteRows(ids), UNCHANGED <<lastId, pushes, unrecorded>>,
             cancelled' = cancelled \/ (cancelled' = cancelled \union ids
                                        /\ \A i \in ids : i <= lastId)
      PROVE  RowOK(id)'
  <2>1. id \notin ids => /\ owner'[id] = owner[id] /\ status'[id] = status[id]
                         /\ attempts'[id] = attempts[id]
      BY <1>7 DEF DeleteRows
  <2>2. id \in ids => status'[id] = "none" /\ attempts'[id] = 0
      BY <1>7 DEF DeleteRows
  <2> QED
      BY <1>0, <1>7, <2>1, <2>2 DEF RowOK
<1>8. ASSUME NEW u \in Users, NEW i \in Ids, CancelPending(u, i) PROVE RowOK(id)'
  <2>1. i <= lastId
      BY <1>8 DEF CancelPending, Cancellable, PendingOf, RowInv, RowOK
  <2> QED
      BY <1>7, <1>8, <2>1 DEF CancelPending
<1>9. ASSUME NEW u \in Users, DeleteUser(u) PROVE RowOK(id)'
    BY <1>7, <1>9 DEF DeleteUser
<1>10. CASE CancelStatus \/ (\E u \in Users, i \in Ids : CancelNothing(u, i))
            \/ (\E u \in Users, newKey \in BOOLEAN, quiet \in QuietChoice :
                   SaveBark(u, newKey, quiet))
            \/ (\E window \in Windows : UpdateSystem(window))
            \/ (\E u \in Users : SetEnabled(u)) \/ Tick \/ UNCHANGED vars
    BY <1>1, <1>10 DEF CancelStatus, CancelNothing, SaveBark, UpdateSystem, SetEnabled,
       Tick, vars
<1> QED
    BY <1>2, <1>3, <1>4, <1>5, <1>6, <1>8, <1>9, <1>10 DEF Next, Deliver, Handlers

-----------------------------------------------------------------------------
(* The pushes                                                              *)

\* A step that touches none of what CountOK(id) speaks of
LEMMA CountKept ==
    ASSUME NEW id \in Ids, CountOK(id),
           pushes'[id] = pushes[id], unrecorded'[id] = unrecorded[id],
           status'[id] = status[id] \/ status'[id] = "none",
           cancelled' = cancelled, item' = item,
           pc' = pc \/ /\ Busy <=> Busy'
                       /\ pc \in {"accepted", "sent"} <=> pc' \in {"accepted", "sent"}
    PROVE  CountOK(id)'
BY DEF CountOK, Working, InFlight, Busy

LEMMA CountStep == IInv /\ [Next]_vars => CountInv'
<1> SUFFICES ASSUME TypeOK, LockInv, ItemInv, RowInv, CountInv, [Next]_vars, NEW id \in Ids
             PROVE  CountOK(id)'
    BY DEF IInv, CountInv
<1> USE DEF table, history, InTable, Pending
<1>0. /\ CountOK(id) /\ RowOK(id)
      /\ pushes[id] \in Nat /\ unrecorded[id] \in Nat
      /\ status[id] \in {"none", "pending", "sent", "failed"}
    BY DEF CountInv, RowInv, TypeOK
<1>1. CASE DeliverOne \/ LoadBark \/ DecideDeferral \/ BarkRefuses \/ BarkAnswers
  <2>1. UNCHANGED <<pushes, unrecorded, status, cancelled, item>>
      BY <1>1 DEF DeliverOne, LoadBark, DecideDeferral, BarkRefuses, BarkAnswers, call
  <2>2. /\ Busy <=> Busy'
        /\ pc \in {"accepted", "sent"} <=> pc' \in {"accepted", "sent"}
      BY <1>1 DEF DeliverOne, LoadBark, DecideDeferral, BarkRefuses, BarkAnswers, Busy, BusyPcs
  <2> QED
      BY <1>0, <2>1, <2>2, CountKept
<1>2. ASSUME NEW i \in Ids, SelectDelivery(i) PROVE CountOK(id)'
  <2>1. /\ ~Busy /\ Busy' /\ item'.id = i /\ pc' = "bark" /\ status[i] = "pending"
        /\ UNCHANGED <<pushes, unrecorded, status, cancelled>>
      BY <1>2 DEF SelectDelivery, FirstDue, Due, Busy, BusyPcs
  <2> QED
      BY <1>0, <2>1 DEF CountOK, Working, InFlight
<1>3. CASE SelectNothing
    BY <1>0, <1>3 DEF SelectNothing, Return, ForgetCall, CountOK, Working, InFlight,
       Busy, BusyPcs
\* The call ends with the answer of Bark, if any, counted as recorded or not.
<1>4. ASSUME Busy, ~Busy', cancelled' = cancelled, pushes' = pushes,
             unrecorded'[id] = IF Working(id) /\ InFlight(id) /\ status'[id] # "sent"
                               THEN unrecorded[id] + 1 ELSE unrecorded[id],
             status'[id] = IF Working(id) THEN status'[id] ELSE status[id],
             Working(id) => \/ status'[id] = "sent" /\ InFlight(id)
                            \/ status'[id] # "sent"
      PROVE  CountOK(id)'
    BY <1>0, <1>4 DEF CountOK, Working, InFlight, ItemInv, PendingOf
<1>5. CASE WriteDeferral
  <2>1. Busy /\ ~Busy' /\ ~InFlight(id) /\ UNCHANGED <<cancelled, pushes, unrecorded, status>>
      BY <1>5 DEF WriteDeferral, Return, ForgetCall, Busy, BusyPcs, InFlight
  <2> QED
      BY <1>4, <2>1 DEF ItemInv, PendingOf, Working
<1>6. CASE BarkAccepts
  <2>1. /\ Busy /\ Busy' /\ pc = "send" /\ pc' = "accepted"
        /\ UNCHANGED <<item, unrecorded, status, cancelled>>
      BY <1>6 DEF BarkAccepts, call, Busy, BusyPcs
  <2>2. pushes'[id] = IF id = item.id THEN pushes[id] + 1 ELSE pushes[id]
      BY <1>6 DEF BarkAccepts, TypeOK
  <2>3. id = item.id => id \notin cancelled /\ status[id] \in {"pending", "none"}
      BY <2>1 DEF ItemInv, PendingOf
  <2> QED
      BY <1>0, <2>1, <2>2, <2>3 DEF CountOK, Working, InFlight
<1>7. CASE BarkAnswerLost
  <2>1. /\ Busy /\ Busy' /\ pc = "accepted" /\ pc' = "failed"
        /\ UNCHANGED <<item, pushes, status, cancelled>>
      BY <1>7 DEF BarkAnswerLost, call, Busy, BusyPcs
  <2>2. unrecorded'[id] = IF id = item.id THEN unrecorded[id] + 1 ELSE unrecorded[id]
      BY <1>7 DEF BarkAnswerLost, TypeOK
  <2>3. id = item.id => id \notin cancelled /\ status[id] \in {"pending", "none"}
      BY <2>1 DEF ItemInv, PendingOf
  <2> QED
      BY <1>0, <2>1, <2>2, <2>3 DEF CountOK, Working, InFlight
<1>8. CASE RecordSent
  <2>1. Busy /\ ~Busy' /\ pc = "sent" /\ UNCHANGED <<cancelled, pushes>>
      BY <1>8 DEF RecordSent, Return, ForgetCall, Busy, BusyPcs
  <2>2. Working(id) <=> id = item.id
      BY <2>1 DEF Working
  <2>3. status'[id] = IF id = item.id /\ InTable(id) THEN "sent" ELSE status[id]
      BY <1>8 DEF RecordSent, SentRows, TypeOK
  <2>4. unrecorded'[id] = IF id = item.id /\ ~InTable(id)
                          THEN unrecorded[id] + 1 ELSE unrecorded[id]
      BY <1>8 DEF RecordSent, SentRows, TypeOK
  <2>5. id = item.id => InFlight(id)
      BY <2>1 DEF InFlight
  <2>6. id = item.id /\ ~InTable(id) => status'[id] # "sent"
      BY <1>0, <2>3
  <2>7. id = item.id /\ InTable(id) => status'[id] = "sent"
      BY <2>3
  <2> QED
      BY <1>4, <2>1, <2>2, <2>3, <2>4, <2>5, <2>6, <2>7
<1>9. CASE RecordDeliveryFailure
  <2>1. /\ Busy /\ ~Busy' /\ ~InFlight(id) /\ UNCHANGED <<cancelled, pushes, unrecorded>>
      BY <1>9 DEF RecordDeliveryFailure, Return, ForgetCall, Busy, BusyPcs, InFlight
  <2>2. id # item.id => status'[id] = status[id]
      BY <1>9 DEF RecordDeliveryFailure, TypeOK
  <2>3. status'[id] = status[id] \/ status'[id] = "failed"
      BY <1>9 DEF RecordDeliveryFailure, TypeOK
  <2>4. id = item.id => status[id] # "sent"
      BY <2>1 DEF ItemInv, PendingOf
  <2> QED
      BY <1>4, <2>1, <2>2, <2>3, <2>4 DEF Working
<1>10. CASE WriteFails \/ Crash
  <2>1. ~Busy' /\ UNCHANGED <<cancelled, pushes, status>>
      BY <1>10 DEF WriteFails, Crash, Return, ForgetCall, Busy, BusyPcs
  <2>2. unrecorded'[id] = IF Busy /\ InFlight(id) THEN unrecorded[id] + 1 ELSE unrecorded[id]
      BY <1>10 DEF WriteFails, Crash, TypeOK, InFlight, Busy, BusyPcs, CountOK, Working,
         CountInv, ItemInv, PendingOf
  <2>3. Working(id) => status[id] # "sent"
      BY DEF ItemInv, PendingOf, Working
  <2>4. CASE Busy
      BY <1>4, <2>1, <2>2, <2>3, <2>4 DEF Working, InFlight
  <2>5. CASE ~Busy
      BY <1>0, <2>1, <2>2, <2>5 DEF CountOK, Working
  <2> QED
      BY <2>4, <2>5
<1>11. ASSUME NEW owners \in SUBSET Users, EnqueueDeliveries(owners) PROVE CountOK(id)'
  <2> DEFINE new == lastId + 1 .. lastId + Cardinality(owners)
  <2>1. UNCHANGED <<pushes, unrecorded, cancelled, item, pc>>
      BY <1>11 DEF EnqueueDeliveries, call
  <2>2. CASE id \in new
    <3>1. id > lastId /\ status'[id] = "pending"
        BY <1>11, <2>2 DEF EnqueueDeliveries, TypeOK
    <3>2. pushes[id] = 0 /\ unrecorded[id] = 0
        BY <1>0, <3>1 DEF RowOK
    <3>3. ~Working(id)
        BY <3>1 DEF Working, ItemInv, TypeOK, Ids
    <3> QED
        BY <2>1, <3>1, <3>2, <3>3 DEF CountOK, Working, Busy
  <2>3. CASE id \notin new
    <3>1. status'[id] = status[id]
        BY <1>11, <2>3 DEF EnqueueDeliveries
    <3> QED
        BY <1>0, <2>1, <3>1, CountKept
  <2> QED
      BY <2>2, <2>3
<1>12. ASSUME NEW u \in Users, NEW i \in Ids, CancelPending(u, i) PROVE CountOK(id)'
  <2>1. /\ ~Busy /\ status[i] = "pending" /\ cancelled' = cancelled \union {i}
        /\ UNCHANGED <<pushes, unrecorded, item, pc>>
      BY <1>12 DEF CancelPending, Cancellable, PendingOf, LockInv, call
  <2>2. status'[id] = IF id = i THEN "none" ELSE status[id]
      BY <1>12 DEF CancelPending, DeleteRows
  <2> QED
      BY <1>0, <2>1, <2>2 DEF CountOK, Working, Busy
<1>13. ASSUME NEW u \in Users, DeleteUser(u) PROVE CountOK(id)'
  <2>1. status'[id] \in {status[id], "none"}
      BY <1>13 DEF DeleteUser, DeleteRows
  <2> QED
      BY <1>0, <1>13, <2>1, CountKept DEF DeleteUser, call
<1>14. CASE CancelStatus \/ (\E u \in Users, i \in Ids : CancelNothing(u, i))
            \/ (\E u \in Users, newKey \in BOOLEAN, quiet \in QuietChoice :
                   SaveBark(u, newKey, quiet))
            \/ (\E window \in Windows : UpdateSystem(window))
            \/ (\E u \in Users : SetEnabled(u)) \/ Tick \/ UNCHANGED vars
  <2>1. UNCHANGED <<pushes, unrecorded, status, cancelled, item, pc>>
      BY <1>14 DEF CancelStatus, CancelNothing, SaveBark, UpdateSystem, SetEnabled,
         Tick, vars, call
  <2> QED
      BY <1>0, <2>1, CountKept
<1> QED
    BY <1>1, <1>2, <1>3, <1>5, <1>6, <1>7, <1>8, <1>9, <1>10, <1>11, <1>12, <1>13, <1>14
    DEF Next, Deliver, Handlers

\* A step that ends no call and accepts no push of row id
LEMMA BoundKept ==
    ASSUME NEW id \in Ids, BoundOK(id),
           pushes'[id] = pushes[id], attempts'[id] = attempts[id], faults' = faults,
           status'[id] = status[id] \/ status'[id] = "none",
           item' = item, Busy <=> Busy',
           pc \in {"accepted", "sent", "failed"} => pc' \in {"accepted", "sent", "failed"},
           pushes[id] \in Nat, faults \in Nat, Busy => item.attempts \in Nat
    PROVE  BoundOK(id)'
<1>1. ASSUME Working(id)
      PROVE  pushes'[id] <= item'.attempts + faults'
                 + (IF pc' \in {"accepted", "sent", "failed"} THEN 1 ELSE 0)
    BY <1>1 DEF BoundOK, Working
<1>2. Working(id)' <=> Working(id)
    BY DEF Working
<1> QED
    BY <1>1, <1>2 DEF BoundOK, Pending

LEMMA BoundStep == IInv /\ [Next]_vars => BoundInv'
<1> SUFFICES ASSUME TypeOK, LockInv, ItemInv, RowInv, BoundInv, [Next]_vars, NEW id \in Ids
             PROVE  BoundOK(id)'
    BY DEF IInv, BoundInv
<1> USE DEF table, history, bounds, InTable, Pending
<1>0. /\ BoundOK(id) /\ RowOK(id)
      /\ pushes[id] \in Nat /\ faults \in Nat /\ attempts[id] \in Nat
      /\ status[id] \in {"none", "pending", "sent", "failed"}
      /\ Busy => item.attempts \in 0 .. MaxAttempts - 1
      /\ MaxAttempts \in Nat \ {0}
    BY DeliveryAssumption, ItemType DEF BoundInv, RowInv, TypeOK
<1>a. Busy => item.attempts \in Nat
    BY <1>0
<1>1. CASE DeliverOne \/ LoadBark \/ DecideDeferral \/ BarkRefuses \/ BarkAnswers
           \/ BarkAnswerLost
  <2>1. UNCHANGED <<pushes, attempts, status, faults, item>>
      BY <1>1 DEF DeliverOne, LoadBark, DecideDeferral, BarkRefuses, BarkAnswers,
         BarkAnswerLost, call
  <2>2. /\ Busy <=> Busy'
        /\ pc \in {"accepted", "sent", "failed"} => pc' \in {"accepted", "sent", "failed"}
      BY <1>1 DEF DeliverOne, LoadBark, DecideDeferral, BarkRefuses, BarkAnswers,
         BarkAnswerLost, Busy, BusyPcs
  <2> QED
      BY <1>0, <1>a, <2>1, <2>2, BoundKept
<1>2. ASSUME NEW i \in Ids, SelectDelivery(i) PROVE BoundOK(id)'
  <2>1. /\ ~Busy /\ Busy' /\ pc' = "bark" /\ status[i] = "pending"
        /\ item'.id = i /\ item'.attempts = attempts[i]
        /\ UNCHANGED <<pushes, attempts, status, faults>>
      BY <1>2 DEF SelectDelivery, FirstDue, Due, Busy, BusyPcs
  <2> QED
      BY <1>0, <2>1 DEF BoundOK, Working
<1>3. CASE SelectNothing
  <2>1. /\ ~Busy /\ ~Busy' /\ UNCHANGED <<pushes, attempts, status, faults>>
      BY <1>3 DEF SelectNothing, Return, ForgetCall, Busy, BusyPcs
  <2> QED
      BY <1>0, <2>1 DEF BoundOK, Working
\* The end of a call
<1>4. ASSUME Busy, ~Busy', pushes' = pushes, faults' \in {faults, faults + 1},
             \/ status'[id] # "pending"
             \/ ~Working(id) /\ status'[id] = status[id] /\ attempts'[id] = attempts[id]
             \/ Working(id) /\ pushes[id] <= attempts'[id] + faults'
      PROVE  BoundOK(id)'
    BY <1>0, <1>4 DEF BoundOK, Working
<1>5. CASE WriteDeferral
  <2>1. /\ Busy /\ ~Busy' /\ pc = "defer" /\ UNCHANGED <<pushes, faults, attempts, status>>
      BY <1>5 DEF WriteDeferral, Return, ForgetCall, Busy, BusyPcs
  <2>2. Working(id) /\ status[id] = "pending" => pushes[id] <= attempts[id] + faults
      BY <1>0, <2>1 DEF BoundOK, Working, ItemInv, PendingOf
  <2> QED
      BY <1>4, <2>1, <2>2
<1>6. CASE BarkAccepts
  <2>1. /\ Busy /\ Busy' /\ pc = "send" /\ pc' = "accepted"
        /\ UNCHANGED <<item, attempts, status, faults>>
      BY <1>6 DEF BarkAccepts, call, Busy, BusyPcs
  <2>2. pushes'[id] = IF id = item.id THEN pushes[id] + 1 ELSE pushes[id]
      BY <1>6 DEF BarkAccepts, TypeOK
  <2> QED
      BY <1>0, <2>1, <2>2 DEF BoundOK, Working
<1>7. CASE RecordSent
  <2>1. Busy /\ ~Busy' /\ UNCHANGED <<pushes, faults>>
      BY <1>7 DEF RecordSent, Return, ForgetCall, Busy, BusyPcs
  <2>2. id # item.id => status'[id] = status[id] /\ attempts'[id] = attempts[id]
      BY <1>7 DEF RecordSent, SentRows, TypeOK
  <2>3. id = item.id => status'[id] # "pending"
      BY <1>7 DEF RecordSent, SentRows, TypeOK
  <2> QED
      BY <1>4, <2>1, <2>2, <2>3 DEF Working
<1>8. CASE RecordDeliveryFailure
  <2>1. Busy /\ ~Busy' /\ pc = "failed" /\ UNCHANGED <<pushes, faults>>
      BY <1>8 DEF RecordDeliveryFailure, Return, ForgetCall, Busy, BusyPcs
  <2>2. id # item.id => status'[id] = status[id] /\ attempts'[id] = attempts[id]
      BY <1>8 DEF RecordDeliveryFailure, TypeOK
  <2>3. id = item.id /\ InTable(id) => attempts'[id] = item.attempts + 1
      BY <1>8 DEF RecordDeliveryFailure, TypeOK
  <2>4. id = item.id /\ ~InTable(id) => status'[id] # "pending"
      BY <1>8 DEF RecordDeliveryFailure
  <2>5. id = item.id => pushes[id] <= item.attempts + faults + 1
      BY <1>0, <2>1 DEF BoundOK, Working
  <2>6. id = item.id /\ InTable(id) => pushes[id] <= attempts'[id] + faults
      BY <1>0, <2>1, <2>3, <2>5
  <2> QED
      BY <1>4, <2>1, <2>2, <2>4, <2>6 DEF Working
<1>9. CASE WriteFails \/ Crash
  <2>1. /\ ~Busy' /\ faults' = faults + 1 /\ UNCHANGED <<pushes, attempts, status>>
      BY <1>9 DEF WriteFails, Crash, Return, ForgetCall, Busy, BusyPcs
  <2>2. Working(id) => pushes[id] <= item.attempts + faults + 1
      BY <1>0 DEF BoundOK, Working
  <2>3. Working(id) /\ status[id] = "pending" => attempts[id] = item.attempts
      BY DEF Working, ItemInv, PendingOf
  <2>4. Working(id) /\ status[id] = "pending" => pushes[id] <= attempts'[id] + faults'
      BY <1>0, <2>1, <2>2, <2>3 DEF Working
  <2>5. CASE Busy
      BY <1>4, <2>1, <2>4, <2>5
  <2>6. CASE ~Busy
      BY <1>0, <2>1, <2>6 DEF BoundOK, Working
  <2> QED
      BY <2>5, <2>6
<1>10. ASSUME NEW owners \in SUBSET Users, EnqueueDeliveries(owners) PROVE BoundOK(id)'
  <2> DEFINE new == lastId + 1 .. lastId + Cardinality(owners)
  <2>1. UNCHANGED <<pushes, attempts, item, pc, faults>>
      BY <1>10 DEF EnqueueDeliveries, call
  <2>2. CASE id \in new
    <3>1. id > lastId /\ status'[id] = "pending"
        BY <1>10, <2>2 DEF EnqueueDeliveries, TypeOK
    <3>2. pushes[id] = 0
        BY <1>0, <3>1 DEF RowOK
    <3>3. ~Working(id)
        BY <3>1 DEF Working, ItemInv, TypeOK, Ids
    <3> QED
        BY <1>0, <2>1, <3>1, <3>2, <3>3 DEF BoundOK, Working, Busy
  <2>3. CASE id \notin new
    <3>1. status'[id] = status[id]
        BY <1>10, <2>3 DEF EnqueueDeliveries
    <3> QED
        BY <1>0, <1>a, <2>1, <3>1, BoundKept DEF Busy
  <2> QED
      BY <2>2, <2>3
<1>11. ASSUME NEW ids, DeleteRows(ids), UNCHANGED <<pushes, item, pc, faults>>
       PROVE  BoundOK(id)'
  <2>1. id \in ids => status'[id] = "none"
      BY <1>11 DEF DeleteRows
  <2>2. id \notin ids => status'[id] = status[id] /\ attempts'[id] = attempts[id]
      BY <1>11 DEF DeleteRows
  <2> QED
      BY <1>0, <1>a, <1>11, <2>1, <2>2 DEF BoundOK, Working, Busy
<1>12. ASSUME NEW u \in Users, NEW i \in Ids, CancelPending(u, i) PROVE BoundOK(id)'
    BY <1>11, <1>12 DEF CancelPending, call
<1>13. ASSUME NEW u \in Users, DeleteUser(u) PROVE BoundOK(id)'
    BY <1>11, <1>13 DEF DeleteUser, call
<1>14. CASE CancelStatus \/ (\E u \in Users, i \in Ids : CancelNothing(u, i))
            \/ (\E u \in Users, newKey \in BOOLEAN, quiet \in QuietChoice :
                   SaveBark(u, newKey, quiet))
            \/ (\E window \in Windows : UpdateSystem(window))
            \/ (\E u \in Users : SetEnabled(u)) \/ Tick \/ UNCHANGED vars
  <2>1. UNCHANGED <<pushes, attempts, status, faults, item, pc>>
      BY <1>14 DEF CancelStatus, CancelNothing, SaveBark, UpdateSystem, SetEnabled,
         Tick, vars, call
  <2> QED
      BY <1>0, <1>a, <2>1, BoundKept DEF Busy
<1> QED
    BY <1>1, <1>2, <1>3, <1>5, <1>6, <1>7, <1>8, <1>9, <1>10, <1>12, <1>13, <1>14
    DEF Next, Deliver, Handlers

-----------------------------------------------------------------------------
(* The theorems                                                            *)

LEMMA InitIInv == Init => IInv
<1> SUFFICES ASSUME Init PROVE IInv
    OBVIOUS
<1> USE DEF Init
<1>1. bark \in [Users -> Settings]
    BY DeliveryAssumption DEF Settings, QuietChoice, AtMostOne
<1>2. /\ sleep \in ProperWindow /\ clock \in Minute /\ item \in Item
      /\ lastId \in 0 .. MaxDeliveries
    BY DeliveryAssumption, DayAssumption, NoItemType DEF Minute
<1>3. /\ attempts \in [Ids -> 0 .. MaxAttempts]
      /\ next \in [Ids -> Int] /\ deferred \in [Ids -> Int]
    BY DeliveryAssumption
<1>4. TypeOK
  <2>1. /\ pc \in {"idle", "lock"} \union BusyPcs /\ now \in Int
        /\ until \in Int /\ mu \in {"free", "worker", "cancel"}
      OBVIOUS
  <2>4. usable \in BOOLEAN
      OBVIOUS
  <2>5. windows \in SUBSET ProperWindow
      OBVIOUS
  <2>2. /\ users \in [Users -> {"enabled", "disabled", "deleted"}]
        /\ owner \in [Ids -> Users \union {NoUser}]
        /\ status \in [Ids -> {"none", "pending", "sent", "failed"}]
        /\ pushes \in [Ids -> Nat] /\ unrecorded \in [Ids -> Nat]
      OBVIOUS
  <2>3. changes \in Nat /\ faults \in Nat /\ cancelled \subseteq Ids /\ stale \subseteq Ids
      OBVIOUS
  <2> QED
      BY <1>1, <1>2, <1>3, <2>1, <2>2, <2>3, <2>4, <2>5 DEF TypeOK
<1>5. LockInv /\ ItemInv
    BY DEF LockInv, ItemInv, Busy, BusyPcs
<1>6. RowInv
    BY DEF RowInv, RowOK, InTable, Pending
<1>7. CountInv
    BY DEF CountInv, CountOK, Working, Busy, BusyPcs
<1>8. BoundInv
    BY DeliveryAssumption DEF BoundInv, BoundOK, Working, Busy, BusyPcs, Pending
<1> QED
    BY <1>4, <1>5, <1>6, <1>7, <1>8 DEF IInv

(* The invariant the theorems below follow from: types, who holds          *)
(* deliveryMu, the row in the worker's hand, the rows of the table, and    *)
(* the accounting of the pushes.                                           *)
THEOREM Invariance == Spec => []IInv
<1>1. IInv /\ [Next]_vars => IInv'
    BY TypeStep, LockStep, ItemStep, RowStep, CountStep, BoundStep DEF IInv
<1> QED
    BY <1>1, InitIInv, PTL DEF Spec

(* Every variable keeps its type; a delay of RetryDelay is never looked up *)
(* out of range (recordDeliveryFailure).                                   *)
THEOREM TypeCorrect == Spec => []TypeOK
<1>1. IInv => TypeOK
    BY DEF IInv
<1> QED
    BY <1>1, Invariance, PTL

(* Between its SELECT and its UPDATE deliverOneAt works on the row as it   *)
(* was read, whatever the handlers do.                                     *)
THEOREM ItemStaysCurrent == Spec => []WorkerItemIsCurrent
<1>1. IInv => WorkerItemIsCurrent
    BY DEF IInv, ItemInv, WorkerItemIsCurrent, PendingOf, Pending, InTable
<1> QED
    BY <1>1, Invariance, PTL

(* A row whose cancellation was answered with 204 is not pushed.           *)
THEOREM CancellationHolds == Spec => []CancelledIsNotPushed
<1>1. IInv => CancelledIsNotPushed
  <2> SUFFICES ASSUME IInv, NEW id \in cancelled PROVE pushes[id] <= unrecorded[id]
      BY DEF CancelledIsNotPushed
  <2>1. id \in Ids /\ pushes[id] \in Nat /\ unrecorded[id] \in Nat
      BY DEF IInv, TypeOK
  <2> QED
      BY <2>1 DEF IInv, CountInv, CountOK
<1> QED
    BY <1>1, Invariance, PTL

(* A push is repeated only when its success could not be recorded.         *)
THEOREM PushedOnce == Spec => []NoDuplicatePush
<1>1. IInv => NoDuplicatePush
  <2> SUFFICES ASSUME IInv, NEW id \in Ids
               PROVE  /\ pushes[id] <= unrecorded[id] + 1
                      /\ status[id] = "sent" => pushes[id] = unrecorded[id] + 1
                      /\ (status[id] \in {"pending", "failed"} /\ ~InFlight(id))
                            => pushes[id] = unrecorded[id]
      BY DEF NoDuplicatePush
  <2>1. CountOK(id) /\ pushes[id] \in Nat /\ unrecorded[id] \in Nat
      BY DEF IInv, CountInv, TypeOK
  <2> QED
      BY <2>1 DEF CountOK
<1> QED
    BY <1>1, Invariance, PTL

(* Every push uses up an attempt, or is paid for by a crash or a failed    *)
(* write.                                                                  *)
THEOREM PushesBounded == Spec => []PushesAreBounded
<1>1. IInv => PushesAreBounded
    BY DEF IInv, BoundInv, BoundOK, RowInv, RowOK, PushesAreBounded, Pending
<1> QED
    BY <1>1, Invariance, PTL

\* The row in the worker's hand was due.
PastInv == now <= 0 /\ (Busy => next[item.id] <= 0)

LEMMA PastStep == IInv /\ PastInv /\ [Next]_vars => PastInv'
<1> SUFFICES ASSUME TypeOK, ItemInv, PastInv, [Next]_vars PROVE PastInv'
    BY DEF IInv
<1> USE DEF table, call
<1>0. /\ now \in Int
      /\ Busy => item.id \in Ids /\ next[item.id] \in Int
    BY DEF TypeOK, ItemInv
<1>1. CASE SelectNothing \/ WriteDeferral \/ RecordSent \/ RecordDeliveryFailure
           \/ WriteFails \/ Crash
  <2>1. now' = 0 /\ ~Busy'
      BY <1>1 DEF SelectNothing, WriteDeferral, RecordSent, RecordDeliveryFailure,
         WriteFails, Crash, Return, ForgetCall, Busy, BusyPcs
  <2> QED
      BY <2>1 DEF PastInv
<1>2. ASSUME NEW id \in Ids, SelectDelivery(id) PROVE PastInv'
  <2>1. next[id] <= now /\ next[id] \in Int
      BY <1>2 DEF SelectDelivery, FirstDue, Due, TypeOK
  <2> QED
      BY <1>0, <1>2, <2>1 DEF SelectDelivery, PastInv
<1>3. ASSUME now' = now, item' = item, Busy' => Busy,
             \A id \in Ids : next'[id] \in {next[id], 0, -LongAgo}
      PROVE  PastInv'
  <2>1. Busy => next'[item.id] \in {next[item.id], 0, -LongAgo}
      BY <1>0, <1>3
  <2> QED
      BY <1>0, <1>3, <2>1, DeliveryAssumption DEF PastInv
<1>4. CASE DeliverOne \/ LoadBark \/ DecideDeferral \/ BarkAccepts \/ BarkRefuses
           \/ BarkAnswers \/ BarkAnswerLost
    BY <1>3, <1>4 DEF DeliverOne, LoadBark, DecideDeferral, BarkAccepts, BarkRefuses,
       BarkAnswers, BarkAnswerLost, Busy, BusyPcs
<1>5. ASSUME Handlers \/ UNCHANGED vars PROVE UNCHANGED <<now, item, pc>>
    BY <1>5 DEF Handlers, EnqueueDeliveries, CancelPending, CancelNothing, CancelStatus,
       SaveBark, UpdateSystem, SetEnabled, DeleteUser, vars
<1>6. ASSUME Handlers \/ UNCHANGED vars, NEW id \in Ids
      PROVE  next'[id] \in {next[id], 0, -LongAgo}
    BY <1>6 DEF Handlers, EnqueueDeliveries, CancelPending, CancelNothing, CancelStatus,
       SaveBark, UpdateSystem, SetEnabled, DeleteUser, vars, DeleteRows, ResetDeferrals
<1>7. CASE Handlers \/ UNCHANGED vars
    BY <1>3, <1>5, <1>6, <1>7 DEF Busy
<1>8. CASE Tick
  <2>1. Busy' = Busy /\ item' = item /\ now' <= 0
      BY <1>0, <1>8 DEF Tick, Busy, PastInv
  <2>2. Busy => next'[item.id] <= next[item.id] /\ next'[item.id] \in Int
      BY <1>0, <1>8, DeliveryAssumption DEF Tick, Aged
  <2> QED
      BY <1>0, <2>1, <2>2 DEF PastInv
<1> QED
    BY <1>1, <1>2, <1>4, <1>7, <1>8 DEF Next, Deliver

\* What a step does to next_attempt_at of a row that stays pending
RetryKept(id) == \/ next'[id] >= next[id]
                 \/ clock' # clock /\ next'[id] = next[id] - 1

LEMMA RetryStep ==
    ASSUME IInv, PastInv, [Next]_vars, NEW id \in Ids, Pending(id), status'[id] = "pending"
    PROVE  RetryKept(id)
<1> USE DEF table, call, Pending
<1>0. /\ next[id] \in Int /\ TypeOK /\ ItemInv /\ id \in Int /\ lastId \in Int
      /\ id <= lastId /\ status[id] = "pending"
    BY DEF IInv, TypeOK, Ids, RowInv, RowOK, InTable
<1>1. ASSUME next'[id] = next[id] PROVE RetryKept(id)
    BY <1>0, <1>1 DEF RetryKept
<1>2. CASE RecordDeliveryFailure
  <2>1. id # item.id => next'[id] = next[id]
      BY <1>0, <1>2 DEF RecordDeliveryFailure, TypeOK
  <2>2. Busy /\ item.attempts \in 0 .. MaxAttempts - 1
      BY <1>0, <1>2, ItemType DEF RecordDeliveryFailure, Busy, BusyPcs
  <2>3. ~GiveUp(item.attempts + 1) => RetryDelay[item.attempts + 1] \in Nat
      BY <1>0, <2>2, DeliveryAssumption DEF GiveUp
  <2>4. \/ next'[id] = next[id]
        \/ ~GiveUp(item.attempts + 1) /\ next'[id] = RetryDelay[item.attempts + 1]
      BY <1>0, <1>2, <2>1 DEF RecordDeliveryFailure, TypeOK
  <2>5. id = item.id => next[id] <= 0
      BY <2>2 DEF PastInv
  <2> QED
      BY <1>0, <1>1, <2>1, <2>3, <2>4, <2>5 DEF RetryKept
<1>3. CASE Tick
  <2>1. next'[id] = next[id] \/ (clock' # clock /\ next'[id] = next[id] - 1)
    <3>1. clock' # clock
        BY <1>0, <1>3, DayAssumption DEF Tick, TypeOK, Minute
    <3>2. next'[id] = Aged(next[id])
        BY <1>3 DEF Tick
    <3> QED
        BY <1>0, <3>1, <3>2 DEF Aged
  <2> QED
      BY <1>1, <2>1 DEF RetryKept
<1>4. CASE DeliverOne \/ (\E i \in Ids : SelectDelivery(i)) \/ SelectNothing \/ LoadBark
           \/ DecideDeferral \/ WriteDeferral \/ BarkAccepts \/ BarkRefuses
           \/ BarkAnswers \/ BarkAnswerLost \/ RecordSent \/ WriteFails \/ Crash
    BY <1>1, <1>4 DEF DeliverOne, SelectDelivery, SelectNothing, LoadBark, DecideDeferral,
       WriteDeferral, BarkAccepts, BarkRefuses, BarkAnswers, BarkAnswerLost, RecordSent,
       WriteFails, Crash
<1>5. ASSUME NEW owners \in SUBSET Users, EnqueueDeliveries(owners) PROVE RetryKept(id)
  <2>1. id \notin lastId + 1 .. lastId + Cardinality(owners)
      BY <1>0
  <2> QED
      BY <1>1, <1>5, <2>1 DEF EnqueueDeliveries
<1>6. ASSUME NEW ids, DeleteRows(ids) PROVE RetryKept(id)
    BY <1>1, <1>6 DEF DeleteRows
<1>7. CASE Handlers \/ UNCHANGED vars
    BY <1>1, <1>5, <1>6, <1>7 DEF Handlers, CancelPending, CancelNothing, CancelStatus,
       SaveBark, UpdateSystem, SetEnabled, DeleteUser, ResetDeferrals, vars
<1> QED
    BY <1>2, <1>3, <1>4, <1>7 DEF Next, Deliver

(* No change of settings, deferral, cancellation or restart makes a retry  *)
(* come sooner.                                                            *)
THEOREM BackoffKept == Spec => BackoffNeverShortened
<1>1. ASSUME IInv, PastInv, [Next]_vars
      PROVE  [\A id \in Ids :
                 Pending(id) /\ status'[id] = "pending"
                    => \/ next'[id] >= next[id]
                       \/ /\ clock' # clock
                          /\ next'[id] = next[id] - 1]_vars
    BY <1>1, RetryStep DEF RetryKept
<1>2. Init => PastInv
    BY DEF Init, PastInv, Busy, BusyPcs
<1>3. Spec => []PastInv
    BY <1>2, PastStep, Invariance, PTL DEF Spec
<1> QED
    BY <1>1, <1>3, Invariance, PTL DEF Spec, BackoffNeverShortened

-----------------------------------------------------------------------------
(* Delivery implements Notification.                                       *)

\* A step that leaves row id with the fate it had
LEMMA FateKept ==
    ASSUME NEW id \in Ids, status'[id] = status[id],
           id \in cancelled' <=> id \in cancelled,
           lastId' = lastId
    PROVE  Fate(id)' = Fate(id)
BY DEF Fate, Pending, InTable

LEMMA FatesKept ==
    ASSUME status' = status, cancelled' = cancelled, lastId' = lastId,
           pushes' = pushes, unrecorded' = unrecorded
    PROVE  UNCHANGED N!vars
<1>1. \A id \in Ids : Fate(id)' = Fate(id)
    BY FateKept
<1> QED
    BY <1>1 DEF N!vars

\* The row in the worker's hand is waiting, or went with its user.
LEMMA FateInHand ==
    ASSUME IInv, Busy
    PROVE  /\ item.id \in Ids
           /\ item.id \notin cancelled
           /\ Fate(item.id) = IF Pending(item.id) THEN "waiting" ELSE "gone"
           /\ InTable(item.id) <=> Pending(item.id)
BY DEF IInv, ItemInv, Fate, InTable, Pending, PendingOf

LEMMA CountInHand ==
    ASSUME IInv, Busy
    PROVE  /\ pushes[item.id] \in Nat /\ unrecorded[item.id] \in Nat
           /\ IF pc \in {"accepted", "sent"}
                THEN pushes[item.id] = unrecorded[item.id] + 1
                ELSE pushes[item.id] = unrecorded[item.id]
<1>1. item.id \in Ids
    BY FateInHand
<1>2. CountOK(item.id) /\ Working(item.id)
    BY <1>1 DEF IInv, CountInv, Working
<1>3. pushes[item.id] \in Nat /\ unrecorded[item.id] \in Nat
    BY <1>1 DEF IInv, TypeOK
<1> QED
    BY <1>1, <1>2, <1>3 DEF CountOK, InFlight

\* An accepted push of which the record is lost
LEMMA MissStep ==
    ASSUME IInv, pc \in {"accepted", "sent"},
           unrecorded' = [unrecorded EXCEPT ![item.id] = @ + 1],
           status' = status, cancelled' = cancelled, lastId' = lastId, pushes' = pushes
    PROVE  N!Next
<1>1. Busy
    BY DEF Busy, BusyPcs
<1>2. \A id \in Ids : Fate(id)' = Fate(id)
    BY FateKept
<1>3. item.id \in Ids /\ Fate(item.id) \in {"waiting", "gone"}
    BY <1>1, FateInHand
<1>4. pushes[item.id] = unrecorded[item.id] + 1
    BY <1>1, CountInHand
<1>5. N!Miss(item.id)
    BY <1>2, <1>3, <1>4 DEF N!Miss
<1> QED
    BY <1>3, <1>5 DEF N!Next

\* Rows of the table that become "sent" or "failed", are cancelled, or go with
\* their user; or new ones
LEMMA BecomeStep ==
    ASSUME NEW ids \in SUBSET Ids, NEW f,
           \A id \in ids : Fate(id)' = f,
           \A id \in Ids \ ids : Fate(id)' = Fate(id)
    PROVE  N!Become(ids, f)
BY DEF N!Become

LEMMA WorkerRefines ==
    ASSUME IInv, Deliver \/ WriteFails PROVE N!Next \/ UNCHANGED N!vars
<1> USE DEF table, history, bounds
<1>0. TypeOK
    BY DEF IInv
<1>1. CASE DeliverOne \/ (\E id \in Ids : SelectDelivery(id)) \/ SelectNothing \/ LoadBark
           \/ DecideDeferral \/ WriteDeferral \/ BarkRefuses \/ BarkAnswers
  <2>1. UNCHANGED <<status, cancelled, lastId, pushes, unrecorded>>
      BY <1>1 DEF DeliverOne, SelectDelivery, SelectNothing, LoadBark, DecideDeferral,
         WriteDeferral, BarkRefuses, BarkAnswers
  <2> QED
      BY <2>1, FatesKept
<1>2. CASE BarkAccepts
  <2>1. Busy
      BY <1>2 DEF BarkAccepts, Busy, BusyPcs
  <2>2. \A id \in Ids : Fate(id)' = Fate(id)
      BY <1>2, FateKept DEF BarkAccepts
  <2>3. /\ item.id \in Ids /\ Fate(item.id) \in {"waiting", "gone"}
        /\ pushes[item.id] = unrecorded[item.id]
      BY <1>2, <2>1, FateInHand, CountInHand DEF BarkAccepts
  <2>4. N!Reach(item.id)
      BY <1>2, <2>2, <2>3 DEF BarkAccepts, N!Reach, N!Clear
  <2> QED
      BY <2>3, <2>4 DEF N!Next
<1>3. CASE BarkAnswerLost
    BY <1>3, MissStep DEF BarkAnswerLost
<1>4. CASE RecordSent
  <2>1. Busy /\ pc = "sent"
      BY <1>4 DEF RecordSent, Busy, BusyPcs
  <2>0. PICK i \in Ids : i = item.id
      BY <2>1, FateInHand
  <2>2. CASE InTable(item.id)
    <3>1. SentRows(item.id) = {item.id}
        BY <2>2 DEF SentRows
    <3>2. /\ status'[i] = "sent"
          /\ \A id \in Ids \ {i} : status'[id] = status[id]
          /\ UNCHANGED <<cancelled, lastId, pushes, unrecorded>>
        BY <1>4, <2>0, <3>1 DEF RecordSent
    <3>3. Fate(i)' = "sent"
        BY <2>0, <2>1, <3>2, FateInHand DEF Fate, Pending, InTable
    <3>4. \A id \in Ids \ {i} : Fate(id)' = Fate(id)
        BY <3>2, FateKept
    <3>5. N!Become({i}, "sent")
        BY <3>3, <3>4, BecomeStep
    <3>6. Fate(i) = "waiting" /\ pushes[i] = unrecorded[i] + 1
        BY <2>0, <2>1, <2>2, FateInHand, CountInHand
    <3>7. N!Settle(i)
        BY <3>2, <3>5, <3>6 DEF N!Settle
    <3> QED
        BY <3>7 DEF N!Next
  <2>3. CASE ~InTable(item.id)
    <3>1. SentRows(item.id) = {}
        BY <2>3 DEF SentRows
    <3>2. /\ UNCHANGED <<cancelled, lastId, pushes>>
          /\ unrecorded' = [unrecorded EXCEPT ![item.id] = @ + 1]
          /\ status' = [id \in Ids |-> status[id]]
        BY <1>4, <3>1 DEF RecordSent
    <3>3. status' = status
        BY <1>0, <3>2 DEF TypeOK
    <3> QED
        BY <2>1, <3>2, <3>3, MissStep
  <2> QED
      BY <2>2, <2>3
<1>5. CASE RecordDeliveryFailure
  <2>1. Busy /\ pc = "failed"
      BY <1>5 DEF RecordDeliveryFailure, Busy, BusyPcs
  <2>0. PICK i \in Ids : i = item.id
      BY <2>1, FateInHand
  <2>2. UNCHANGED <<cancelled, lastId, pushes, unrecorded>>
      BY <1>5 DEF RecordDeliveryFailure
  <2>3. CASE InTable(item.id) /\ GiveUp(item.attempts + 1)
    <3>1. status' = [status EXCEPT ![item.id] = "failed"]
        BY <1>5, <2>3 DEF RecordDeliveryFailure
    <3>2. /\ status'[i] = "failed"
          /\ \A id \in Ids \ {i} : status'[id] = status[id]
        BY <1>0, <2>0, <3>1 DEF TypeOK
    <3>3. Fate(i)' = "failed"
        BY <2>0, <2>1, <2>2, <3>2, FateInHand DEF Fate, Pending, InTable
    <3>4. \A id \in Ids \ {i} : Fate(id)' = Fate(id)
        BY <2>2, <3>2, FateKept
    <3>5. N!Become({i}, "failed")
        BY <3>3, <3>4, BecomeStep
    <3>6. Fate(i) = "waiting" /\ pushes[i] = unrecorded[i]
        BY <2>0, <2>1, <2>3, FateInHand, CountInHand
    <3>7. N!Fail(i)
        BY <2>2, <3>5, <3>6 DEF N!Fail, N!Clear
    <3> QED
        BY <3>7 DEF N!Next
  <2>4. CASE ~(InTable(item.id) /\ GiveUp(item.attempts + 1))
    <3>1. status' = status
        BY <1>5, <2>4 DEF RecordDeliveryFailure
    <3> QED
        BY <2>2, <3>1, FatesKept
  <2> QED
      BY <2>3, <2>4
<1>6. CASE WriteFails
  <2>1. UNCHANGED <<status, cancelled, lastId, pushes>>
      BY <1>6 DEF WriteFails
  <2>2. CASE pc = "sent"
      BY <1>6, <2>1, <2>2, MissStep DEF WriteFails
  <2>3. CASE pc # "sent"
      BY <1>6, <2>1, <2>3, FatesKept DEF WriteFails
  <2> QED
      BY <2>2, <2>3
<1> QED
    BY <1>1, <1>2, <1>3, <1>4, <1>5, <1>6 DEF Deliver

LEMMA HandlersRefine ==
    ASSUME IInv, Handlers \/ Crash \/ Tick PROVE N!Next \/ UNCHANGED N!vars
<1> USE DEF table, history, bounds
<1>0. TypeOK
    BY DEF IInv
<1>1. ASSUME NEW owners \in SUBSET Users, EnqueueDeliveries(owners) PROVE N!Next
  <2> DEFINE new == lastId + 1 .. lastId + Cardinality(owners)
  <2>1. /\ new \in SUBSET Ids /\ UNCHANGED <<pushes, unrecorded, cancelled>>
        /\ \A id \in Ids : status'[id] = IF id \in new THEN "pending" ELSE status[id]
      BY <1>1 DEF EnqueueDeliveries
  <2>2. lastId \in Nat /\ lastId' = lastId + Cardinality(owners)
      BY <1>0, <1>1 DEF EnqueueDeliveries, TypeOK
  <2>3. ASSUME NEW id \in new PROVE Fate(id) = "none" /\ Fate(id)' = "waiting"
    <3>1. id > lastId /\ ~(id <= lastId) /\ id \in Ids
        BY <2>1, <2>2
    <3>2. id \notin cancelled /\ ~InTable(id)
        BY <3>1 DEF IInv, RowInv, RowOK
    <3> QED
        BY <2>1, <3>1, <3>2 DEF Fate, Pending, InTable
  <2>4. ASSUME NEW id \in Ids \ new PROVE Fate(id)' = Fate(id)
    <3>1. id \in Int /\ status'[id] = status[id] /\ cancelled' = cancelled
        BY <2>1 DEF Ids
    <3>2. CASE id <= lastId
      <4>1. Cardinality(owners) \in Nat
          BY DeliveryAssumption, FS_Subset, FS_CardinalityType
      <4>2. id <= lastId'
          BY <2>2, <3>1, <3>2, <4>1
      <4> QED
          BY <3>1, <3>2, <4>2 DEF Fate, Pending, InTable
    <3>3. CASE id > lastId
      <4>1. Cardinality(owners) \in Nat
          BY DeliveryAssumption, FS_Subset, FS_CardinalityType
      <4>2. ~(id <= lastId') /\ ~(id <= lastId)
          BY <2>2, <2>4, <3>1, <3>3, <4>1
      <4> QED
          BY <3>1, <4>2 DEF Fate, Pending, InTable
    <3> QED
        BY <2>2, <3>1, <3>2, <3>3
  <2>5. N!Become(new, "waiting")
      BY <2>1, <2>3, <2>4, BecomeStep
  <2>6. N!Announce(new)
      BY <2>1, <2>3, <2>5 DEF N!Announce
  <2> QED
      BY <2>1, <2>6 DEF N!Next
<1>2. ASSUME NEW u \in Users, NEW i \in Ids, CancelPending(u, i) PROVE N!Next
  <2>1. /\ ~Busy /\ status[i] = "pending" /\ cancelled' = cancelled \union {i}
        /\ UNCHANGED <<pushes, unrecorded, lastId>>
      BY <1>2 DEF CancelPending, Cancellable, PendingOf, Pending, IInv, LockInv
  <2>2. \A id \in Ids \ {i} : status'[id] = status[id]
      BY <1>2 DEF CancelPending, DeleteRows
  <2>3. Fate(i)' = "cancelled"
      BY <2>1 DEF Fate
  <2>4. \A id \in Ids \ {i} : Fate(id)' = Fate(id)
      BY <2>1, <2>2, FateKept
  <2>5. N!Become({i}, "cancelled")
      BY <2>3, <2>4, BecomeStep
  <2>6. Fate(i) = "waiting" /\ pushes[i] = unrecorded[i]
    <3>1. RowOK(i) /\ CountOK(i)
        BY DEF IInv, RowInv, CountInv
    <3> QED
        BY <2>1, <3>1 DEF RowOK, CountOK, Working, Fate, Pending, InTable
  <2>7. N!Cancel(i)
      BY <2>1, <2>5, <2>6 DEF N!Cancel, N!Clear
  <2> QED
      BY <2>7 DEF N!Next
<1>3. ASSUME NEW u \in Users, DeleteUser(u) PROVE N!Next
  <2> DEFINE rows == {id \in Ids : owner[id] = u /\ InTable(id)}
             all == {id \in Ids : owner[id] = u}
  <2>1. /\ UNCHANGED <<pushes, unrecorded, lastId, cancelled>>
        /\ \A id \in Ids : status'[id] = IF id \in all THEN "none" ELSE status[id]
      BY <1>3 DEF DeleteUser, DeleteRows
  <2>2. ASSUME NEW id \in rows
        PROVE  Fate(id) \in {"waiting", "sent", "failed"} /\ Fate(id)' = "gone"
    <3>1. id \in Ids /\ id \notin cancelled /\ id <= lastId
        BY DEF IInv, RowInv, RowOK
    <3>2. status[id] \in {"pending", "sent", "failed"}
        BY <1>0 DEF TypeOK, InTable
    <3> QED
        BY <2>1, <3>1, <3>2 DEF Fate, Pending, InTable
  <2>3. ASSUME NEW id \in Ids \ rows PROVE Fate(id)' = Fate(id)
    <3>1. status'[id] = status[id]
        BY <2>1 DEF InTable
    <3> QED
        BY <2>1, <3>1, FateKept
  <2>4. N!Become(rows, "gone")
      BY <2>2, <2>3, BecomeStep
  <2>5. N!Forget(rows)
      BY <2>1, <2>2, <2>4 DEF N!Forget
  <2> QED
      BY <2>5 DEF N!Next
<1>4. CASE Crash
  <2>1. UNCHANGED <<status, cancelled, lastId, pushes>>
      BY <1>4 DEF Crash
  <2>2. CASE pc \in {"accepted", "sent"}
      BY <1>4, <2>1, <2>2, MissStep DEF Crash
  <2>3. CASE pc \notin {"accepted", "sent"}
      BY <1>4, <2>1, <2>3, FatesKept DEF Crash
  <2> QED
      BY <2>2, <2>3
<1>5. CASE CancelStatus \/ (\E u \in Users, i \in Ids : CancelNothing(u, i))
           \/ (\E u \in Users, newKey \in BOOLEAN, quiet \in QuietChoice :
                  SaveBark(u, newKey, quiet))
           \/ (\E window \in Windows : UpdateSystem(window))
           \/ (\E u \in Users : SetEnabled(u)) \/ Tick
  <2>1. UNCHANGED <<status, cancelled, lastId, pushes, unrecorded>>
      BY <1>5 DEF CancelStatus, CancelNothing, SaveBark, UpdateSystem, SetEnabled, Tick
  <2> QED
      BY <2>1, FatesKept
<1> QED
    BY <1>1, <1>2, <1>3, <1>4, <1>5 DEF Handlers

(* The queue keeps the promise of Notification: every step of the worker,  *)
(* of a handler, of a fault or of time is a step of the notifications or   *)
(* changes nothing that can be known of them.                              *)
THEOREM Implements == Spec => ImplementsNotification
<1>1. Init => N!Init
    BY DEF Init, N!Init, Fate, Pending, InTable, Ids
<1>2. IInv /\ [Next]_vars => [N!Next]_(N!vars)
  <2>1. ASSUME UNCHANGED vars PROVE UNCHANGED N!vars
      BY <2>1, FatesKept DEF vars, table, history
  <2> QED
      BY <2>1, WorkerRefines, HandlersRefine DEF Next
<1> QED
    BY <1>1, <1>2, Invariance, PTL DEF Spec, ImplementsNotification, N!Spec

-----------------------------------------------------------------------------
(* Deferral: no push is sent inside a window that is in force, and no row  *)
(* is held back longer than the windows say.                               *)

\* The minute at which the clock was read, seen a minute later
LEMMA CapturedStays ==
    ASSUME NEW c \in Minute, NEW n \in Int
    PROVE  (((c + 1) % Day) + (n - 1)) % Day = (c + n) % Day
<1>1. CASE c + 1 < Day
  <2>1. (c + 1) % Day = c + 1
      BY <1>1, DayAssumption DEF Minute
  <2>2. c + 1 + (n - 1) = c + n
      BY DEF Minute
  <2> QED
      BY <2>1, <2>2
<1>2. CASE c + 1 >= Day
  <2>1. c + 1 = Day /\ (c + 1) % Day = 0
      BY <1>2, DayAssumption DEF Minute
  <2>2. c + n = (n - 1) + Day
      BY <2>1, DayAssumption DEF Minute
  <2>3. 0 + (n - 1) = n - 1
      OBVIOUS
  <2> QED
      BY <2>1, <2>2, <2>3, RoundTheClock
<1> QED
    BY <1>1, <1>2, DayAssumption DEF Minute

\* The present, seen from the minute at which the clock was read
LEMMA CapturedBack ==
    ASSUME NEW c \in Minute, NEW n \in Int
    PROVE  (((c + n) % Day) - n) % Day = c
<1> DEFINE q == (c + n) \div Day
           r == (c + n) % Day
<1>1. /\ Day \in Nat \ {0} /\ c \in 0 .. Day - 1 /\ c + n \in Int
      /\ q \in Int /\ r \in Int /\ c + n = Day * q + r
    BY Divided, DayAssumption DEF Minute
<1>2. r - n = Day * (-q) + c
    BY <1>1
<1>3. \A p \in Int : (Day * p + c) % Day = c
    BY <1>1, Remainder
<1>4. -q \in Int
    BY <1>1
<1> QED
    BY <1>2, <1>3, <1>4

\* A window that is open stays open until its end, and its end stays where it is.
LEMMA EndStays ==
    ASSUME NEW w \in ProperWindow, NEW m \in Minute, ContainsClock(w, m),
           NEW k \in Nat, m + k < ClockWindowEnd(w, m)
    PROVE  /\ ContainsClock(w, (m + k) % Day)
           /\ ClockWindowEnd(w, (m + k) % Day) - ((m + k) % Day) = ClockWindowEnd(w, m) - (m + k)
<1> USE DayAssumption
<1>1. m + k \in 0 .. 2 * Day - 1 /\ k \in 0 .. Day - 1 /\ ClockWindowEnd(w, m) \in Int
    BY WindowEndRange DEF Minute
<1>2. \A t \in 0 .. 2 * Day - 1 : t % Day = IF t < Day THEN t ELSE t - Day
    OBVIOUS
<1>3. CASE m + k < Day
  <2>1. (m + k) % Day = m + k
      BY <1>1, <1>2, <1>3 DEF Minute
  <2> QED
      BY <1>1, <1>3, <2>1 DEF ProperWindow, ClockWindow, Minute, ContainsClock, ClockWindowEnd
<1>4. CASE m + k >= Day
  <2>1. (m + k) % Day = m + k - Day
      BY <1>1, <1>2, <1>4 DEF Minute
  <2> QED
      BY <1>1, <1>4, <2>1 DEF ProperWindow, ClockWindow, Minute, ContainsClock, ClockWindowEnd
<1> QED
    BY <1>1, <1>3, <1>4 DEF Minute

-----------------------------------------------------------------------------
(* The invariant                                                           *)

\* At minute c, t minutes are no longer than the windows ws hold back.
HeldAt(ws, t, c) ==
    t > 0 => \E w \in ws : ContainsClock(w, c) /\ t <= ClockWindowEnd(w, c) - c

OneOrTwo == {{s} \union q : s \in ProperWindow, q \in AtMostOne(ProperWindow)}

\* The call: what it decided follows from the windows it has read.
DecisionInv ==
    /\ pc \in {"defer", "send", "accepted"} => windows \in OneOrTwo
    /\ pc = "defer" => HeldAt(windows, until + now, clock)
    /\ pc \in {"send", "accepted"} => ActiveWindows(windows, CapturedMinute) = {}

\* The rows: unless the configuration has changed meanwhile
RowHeld(id) ==
    Pending(id) /\ id \notin stale => HeldAt(WindowsOf(owner[id]), deferred[id], clock)

LEMMA WindowsType ==
    ASSUME TypeOK, NEW u \in Users PROVE WindowsOf(u) \in OneOrTwo
<1>1. sleep \in ProperWindow /\ QuietOf(u) \in AtMostOne(ProperWindow)
    BY QuietType DEF TypeOK
<1> QED
    BY <1>1 DEF WindowsOf, OneOrTwo

LEMMA HeldNextMinute ==
    ASSUME NEW ws \in OneOrTwo, NEW t \in Int, NEW c \in Minute, HeldAt(ws, t, c)
    PROVE  HeldAt(ws, t - 1, (c + 1) % Day)
<1> SUFFICES ASSUME t - 1 > 0
             PROVE  \E w \in ws : /\ ContainsClock(w, (c + 1) % Day)
                                  /\ t - 1 <= ClockWindowEnd(w, (c + 1) % Day) - ((c + 1) % Day)
    BY DEF HeldAt
<1>1. PICK w \in ws : ContainsClock(w, c) /\ t <= ClockWindowEnd(w, c) - c
    BY DEF HeldAt
<1>2. w \in ProperWindow
    BY DEF OneOrTwo, AtMostOne
<1>3. ClockWindowEnd(w, c) \in Int /\ c \in Int
    BY <1>1, <1>2, WindowEndRange DEF Minute
<1>4. c + 1 < ClockWindowEnd(w, c)
    BY <1>1, <1>3
<1>5. /\ ContainsClock(w, (c + 1) % Day)
      /\ ClockWindowEnd(w, (c + 1) % Day) - ((c + 1) % Day) = ClockWindowEnd(w, c) - (c + 1)
    BY <1>1, <1>2, <1>4, EndStays
<1>6. t - 1 <= ClockWindowEnd(w, c) - (c + 1)
    BY <1>1, <1>3
<1> QED
    BY <1>5, <1>6

\* What deliveryDeferredUntil says at minute m, n minutes later
LEMMA DecidedHeld ==
    ASSUME NEW ws \in OneOrTwo, NEW m \in Minute, NEW n \in Nat,
           ActiveWindows(ws, m) # {}
    PROVE  HeldAt(ws, DeliveryDeferredUntil(ws, m) - m - n, (m + n) % Day)
<1>1. PICK s \in ProperWindow, q \in AtMostOne(ProperWindow) : ws = {s} \union q
    BY DEF OneOrTwo
<1>2. PICK w \in ActiveWindows(ws, m) : DeliveryDeferredUntil(ws, m) = ClockWindowEnd(w, m)
    BY <1>1, DeferralIsLaterEnd
<1>3. w \in ws /\ w \in ProperWindow /\ ContainsClock(w, m)
    BY DEF ActiveWindows, OneOrTwo, AtMostOne
<1>4. ClockWindowEnd(w, m) \in Int /\ m \in Int
    BY <1>3, WindowEndRange DEF Minute
<1>5. ASSUME ClockWindowEnd(w, m) - m - n > 0
      PROVE  /\ ContainsClock(w, (m + n) % Day)
             /\ ClockWindowEnd(w, m) - m - n
                  = ClockWindowEnd(w, (m + n) % Day) - ((m + n) % Day)
  <2>1. m + n < ClockWindowEnd(w, m) /\ ClockWindowEnd(w, m) - m - n = ClockWindowEnd(w, m) - (m + n)
      BY <1>4, <1>5
  <2> QED
      BY <1>3, <2>1, EndStays
<1>6. ASSUME ClockWindowEnd(w, m) - m - n > 0
      PROVE  ClockWindowEnd(w, m) - m - n <= ClockWindowEnd(w, (m + n) % Day) - ((m + n) % Day)
    BY <1>4, <1>5, <1>6
<1> QED
    BY <1>2, <1>3, <1>5, <1>6 DEF HeldAt

-----------------------------------------------------------------------------
(* The call                                                                *)

\* Once decided, the decision is only carried along.
LEMMA DecisionKept ==
    ASSUME DecisionInv, pc' \in {"defer", "send", "accepted"},
           pc' = pc \/ (pc = "send" /\ pc' = "accepted"),
           UNCHANGED <<windows, until, now, clock>>
    PROVE  DecisionInv'
BY DEF DecisionInv, HeldAt, CapturedMinute

LEMMA DecisionMade ==
    ASSUME TypeOK, ItemInv, PastInv, DecideDeferral PROVE DecisionInv'
<1> DEFINE ws == {sleep} \union windows
           m == CapturedMinute
           end == DeliveryDeferredUntil(ws, m)
<1>1. ws \in OneOrTwo /\ sleep \in ProperWindow /\ windows \in AtMostOne(ProperWindow)
    BY DEF DecideDeferral, TypeOK, ItemInv, OneOrTwo
<1>2. m \in Minute /\ clock \in Minute /\ now \in Int /\ -now \in Nat
    BY DayAssumption DEF TypeOK, PastInv, CapturedMinute, Minute
<1>3. /\ windows' = ws /\ now' = now /\ clock' = clock
      /\ until' = IF end = 0 THEN 0 ELSE end - m
      /\ pc' = IF end # 0 THEN "defer" ELSE IF usable THEN "send" ELSE "failed"
  <2>1. windows \union {sleep} = ws
      OBVIOUS
  <2> QED
      BY <2>1 DEF DecideDeferral
<1>4. end = 0 <=> ActiveWindows(ws, m) = {}
    BY <1>1, <1>2, DeferralIsLaterEnd
<1>5. CapturedMinute' = m
    BY <1>3 DEF CapturedMinute
<1>6. ASSUME end # 0 PROVE HeldAt(ws, until' + now, clock)
  <2>1. HeldAt(ws, end - m - (-now), (m + (-now)) % Day)
      BY <1>1, <1>2, <1>4, <1>6, DecidedHeld
  <2>2. (m - now) % Day = clock
      BY <1>2, CapturedBack DEF CapturedMinute
  <2>3. end \in Int /\ m \in Int
    <3>1. PICK w \in ActiveWindows(ws, m) : end = ClockWindowEnd(w, m)
        BY <1>1, <1>2, <1>4, <1>6, DeferralIsLaterEnd
    <3> QED
        BY <1>1, <1>2, <3>1, WindowEndRange DEF ActiveWindows, AtMostOne, Minute
  <2>4. m + (-now) = m - now /\ end - m - (-now) = until' + now
      BY <1>2, <1>3, <1>6, <2>3
  <2> QED
      BY <2>1, <2>2, <2>4
<1> QED
    BY <1>1, <1>3, <1>4, <1>5, <1>6 DEF DecisionInv

LEMMA DecisionStep ==
    ASSUME IInv, PastInv, DecisionInv, [Next]_vars PROVE DecisionInv'
<1> USE DEF IInv
<1>1. ASSUME pc' \notin {"defer", "send", "accepted"} PROVE DecisionInv'
    BY <1>1 DEF DecisionInv
<1>2. CASE DeliverOne \/ (\E id \in Ids : SelectDelivery(id)) \/ SelectNothing \/ LoadBark
           \/ WriteDeferral \/ BarkRefuses \/ BarkAnswers \/ BarkAnswerLost
           \/ RecordSent \/ RecordDeliveryFailure \/ WriteFails \/ Crash
    BY <1>1, <1>2 DEF DeliverOne, SelectDelivery, SelectNothing, LoadBark, WriteDeferral,
       BarkRefuses, BarkAnswers, BarkAnswerLost, RecordSent, RecordDeliveryFailure,
       WriteFails, Crash, Return, ForgetCall
<1>3. CASE DecideDeferral
    BY <1>3, DecisionMade
<1>4. CASE BarkAccepts
    BY <1>4, DecisionKept DEF BarkAccepts, call
<1>5. CASE Handlers \/ UNCHANGED vars
  <2>1. UNCHANGED <<pc, windows, until, now, clock>>
      BY <1>5 DEF Handlers, EnqueueDeliveries, CancelPending, CancelNothing, CancelStatus,
         SaveBark, UpdateSystem, SetEnabled, DeleteUser, vars, call
  <2> QED
      BY <1>1, <2>1, DecisionKept
<1>6. CASE Tick
  <2>1. ASSUME pc \in {"defer", "send", "accepted"} PROVE DecisionInv'
    <3>1. /\ UNCHANGED <<pc, windows, until>>
          /\ now' = now - 1 /\ clock' = (clock + 1) % Day
        BY <1>6, <2>1 DEF Tick
    <3>2. now \in Int /\ until \in Int /\ clock \in Minute /\ windows \in OneOrTwo
        BY <2>1 DEF TypeOK, DecisionInv
    <3>3. CapturedMinute' = CapturedMinute
        BY <3>1, <3>2, CapturedStays DEF CapturedMinute
    <3>4. ASSUME pc = "defer" PROVE HeldAt(windows, until + now - 1, (clock + 1) % Day)
        BY <3>2, <3>4, HeldNextMinute DEF DecisionInv
    <3>5. until + now - 1 = until + (now - 1)
        BY <3>2
    <3> QED
        BY <2>1, <3>1, <3>3, <3>4, <3>5 DEF DecisionInv
  <2> QED
      BY <1>1, <1>6, <2>1 DEF Tick
<1> QED
    BY <1>2, <1>3, <1>4, <1>5, <1>6 DEF Next, Deliver

-----------------------------------------------------------------------------
(* The rows                                                                *)

\* Row id after a step
RowOf(id) == RowHeld(id) /\ (~InTable(id) => deferred[id] <= 0)

\* A step that leaves the row alone, and the windows of its owner
LEMMA RowLeft ==
    ASSUME NEW id \in Ids, RowOf(id),
           Pending(id)' => Pending(id),
           InTable(id) => InTable(id)',
           id \in stale => id \in stale' \/ ~Pending(id)',
           owner'[id] = owner[id], deferred'[id] = deferred[id], clock' = clock,
           Pending(id) => WindowsOf(owner[id])' = WindowsOf(owner[id])
    PROVE  RowOf(id)'
<1>1. ASSUME Pending(id)', id \notin stale'
      PROVE  HeldAt(WindowsOf(owner[id])', deferred'[id], clock')
  <2>1. HeldAt(WindowsOf(owner[id]), deferred[id], clock)
      BY <1>1 DEF RowOf, RowHeld
  <2> QED
      BY <1>1, <2>1
<1>2. RowHeld(id)'
    BY <1>1 DEF RowHeld, HeldAt
<1>3. ~InTable(id)' => deferred'[id] <= 0
    BY DEF RowOf
<1> QED
    BY <1>2, <1>3 DEF RowOf

\* A step that ends its deferral
LEMMA RowFreed ==
    ASSUME NEW id \in Ids, deferred'[id] \in Int, deferred'[id] <= 0 PROVE RowOf(id)'
BY DEF RowOf, RowHeld, HeldAt

LEMMA RowDeferred ==
    ASSUME IInv, DecisionInv, WriteDeferral, NEW id \in Ids, RowOf(id) PROVE RowOf(id)'
<1> USE DEF table
<1>1. UNCHANGED <<users, bark, sleep, clock, owner, status>> /\ Busy /\ ItemInv /\ TypeOK
    BY DEF WriteDeferral, config, IInv, Busy, BusyPcs
<1>2. WindowsOf(owner[id])' = WindowsOf(owner[id])
    BY <1>1 DEF WindowsOf, QuietOf
<1>3. CASE id # item.id \/ ~InTable(id)
  <2>1. deferred'[id] = deferred[id] /\ (id \in stale <=> id \in stale')
      BY <1>1, <1>3 DEF WriteDeferral, TypeOK
  <2> QED
      BY <1>1, <1>2, <2>1, RowLeft DEF Pending, InTable
<1>4. CASE id = item.id /\ InTable(id)
  <2>1. deferred'[id] = until + now
      BY <1>1, <1>4 DEF WriteDeferral, TypeOK
  <2>2. owner[id] = item.user
      BY <1>1, <1>4 DEF ItemInv, PendingOf
  <2>3. id \notin stale' => windows = WindowsOf(owner[id])
      BY <1>4, <2>2 DEF WriteDeferral
  <2>4. HeldAt(windows, until + now, clock)
      BY DEF WriteDeferral, DecisionInv
  <2> QED
      BY <1>1, <1>2, <1>4, <2>1, <2>3, <2>4 DEF RowOf, RowHeld, InTable, HeldAt
<1> QED
    BY <1>3, <1>4

LEMMA RowNextMinute == ASSUME IInv, Tick, NEW id \in Ids, RowOf(id) PROVE RowOf(id)'
<1>0. TypeOK /\ RowOK(id)
    BY DEF IInv, RowInv
<1>1. /\ UNCHANGED <<users, bark, sleep, owner, status, stale>>
      /\ clock' = (clock + 1) % Day /\ clock \in Minute
      /\ deferred'[id] = Aged(deferred[id]) /\ deferred[id] \in Int
    BY <1>0 DEF Tick, config, history, TypeOK
<1>2. WindowsOf(owner[id])' = WindowsOf(owner[id])
    BY <1>1 DEF WindowsOf, QuietOf
<1>3. CASE deferred[id] <= 0
    BY <1>1, <1>3, RowFreed, DeliveryAssumption DEF Aged
<1>4. CASE deferred[id] > 0
  <2>1. deferred'[id] = deferred[id] - 1
      BY <1>1, <1>4, DeliveryAssumption DEF Aged
  <2>2. InTable(id)
      BY <1>1, <1>4 DEF RowOf
  <2>3. ASSUME Pending(id), id \notin stale
        PROVE  HeldAt(WindowsOf(owner[id]), deferred[id] - 1, (clock + 1) % Day)
    <3>1. owner[id] \in Users
        BY <1>0, <2>2 DEF RowOK
    <3> QED
        BY <1>0, <1>1, <2>3, <3>1, WindowsType, HeldNextMinute DEF RowOf, RowHeld
  <2> QED
      BY <1>1, <1>2, <2>1, <2>2, <2>3 DEF RowOf, RowHeld, Pending, InTable, HeldAt
<1> QED
    BY <1>1, <1>3, <1>4

LEMMA RowHandled ==
    ASSUME IInv, Handlers, NEW id \in Ids, RowOf(id) PROVE RowOf(id)'
<1> USE DEF table, config, history, Pending, InTable
<1>a. clock' = clock
    BY DEF Handlers, EnqueueDeliveries, CancelPending, CancelNothing, CancelStatus,
       SaveBark, UpdateSystem, SetEnabled, DeleteUser
<1>b. TypeOK /\ RowOK(id)
    BY DEF IInv, RowInv
<1>c. id \in Int /\ lastId \in Int /\ deferred[id] \in Int
    BY <1>b DEF TypeOK, Ids
<1>d. Pending(id) => owner[id] \in Users
    BY <1>b DEF RowOK
<1>0. /\ TypeOK /\ RowOK(id) /\ clock' = clock
      /\ -LongAgo \in Int /\ -LongAgo <= 0
      /\ id \in Int /\ lastId \in Int /\ deferred[id] \in Int
      /\ Pending(id) => owner[id] \in Users
    BY <1>a, <1>b, <1>c, <1>d, DeliveryAssumption
<1>1. ASSUME UNCHANGED <<users, bark, sleep, owner, status, deferred, stale>>
      PROVE  RowOf(id)'
  <2>1. WindowsOf(owner[id])' = WindowsOf(owner[id])
      BY <1>1 DEF WindowsOf, QuietOf
  <2> QED
      BY <1>0, <1>1, <2>1, RowLeft
<1>2. ASSUME NEW ids \in SUBSET Ids, DeleteRows(ids),
             Pending(id) /\ id \notin ids => WindowsOf(owner[id])' = WindowsOf(owner[id])
      PROVE  RowOf(id)'
  <2>1. CASE id \in ids
      BY <1>0, <1>2, <2>1, RowFreed DEF DeleteRows
  <2>2. CASE id \notin ids
    <3>1. /\ owner'[id] = owner[id] /\ status'[id] = status[id]
          /\ deferred'[id] = deferred[id] /\ (id \in stale => id \in stale')
        BY <1>2, <2>2 DEF DeleteRows
    <3> QED
        BY <1>0, <1>2, <2>2, <3>1, RowLeft
  <2> QED
      BY <2>1, <2>2
<1>3. ASSUME NEW owners, ResetDeferrals(owners), UNCHANGED <<owner, status>>,
             Pending(id) /\ owner[id] \notin owners
                => WindowsOf(owner[id])' = WindowsOf(owner[id])
      PROVE  RowOf(id)'
  <2>1. CASE Pending(id) /\ owner[id] \in owners
      BY <1>0, <1>3, <2>1, RowFreed DEF ResetDeferrals
  <2>2. CASE ~Pending(id) \/ owner[id] \notin owners
    <3>1. deferred'[id] = deferred[id] /\ (id \in stale => id \in stale')
        BY <1>3, <2>2 DEF ResetDeferrals
    <3> QED
        BY <1>0, <1>3, <2>2, <3>1, RowLeft
  <2> QED
      BY <2>1, <2>2
<1>4. ASSUME NEW owners \in SUBSET Users, EnqueueDeliveries(owners) PROVE RowOf(id)'
  <2>1. UNCHANGED <<users, bark, sleep, deferred, stale>>
      BY <1>4 DEF EnqueueDeliveries
  <2>2. CASE id > lastId
    <3>1. deferred'[id] \in Int /\ deferred'[id] <= 0
        BY <1>0, <2>1, <2>2 DEF RowOK, RowOf
    <3> QED
        BY <3>1, RowFreed
  <2>3. CASE id <= lastId
    <3>1. id \notin lastId + 1 .. lastId + Cardinality(owners)
        BY <1>0, <2>3
    <3>2. owner'[id] = owner[id] /\ status'[id] = status[id]
        BY <1>4, <3>1 DEF EnqueueDeliveries
    <3>3. WindowsOf(owner[id])' = WindowsOf(owner[id])
        BY <2>1, <3>2 DEF WindowsOf, QuietOf
    <3> QED
        BY <1>0, <2>1, <3>2, <3>3, RowLeft
  <2> QED
      BY <1>0, <2>2, <2>3
<1>5. ASSUME NEW u \in Users, NEW i \in Ids, CancelPending(u, i) PROVE RowOf(id)'
  <2>1. DeleteRows({i}) /\ UNCHANGED <<users, bark, sleep>>
      BY <1>5 DEF CancelPending
  <2>2. id # i => WindowsOf(owner[id])' = WindowsOf(owner[id])
      BY <2>1 DEF DeleteRows, WindowsOf, QuietOf
  <2> QED
      BY <1>2, <2>1, <2>2
<1>6. CASE (\E u \in Users, i \in Ids : CancelNothing(u, i)) \/ CancelStatus
    BY <1>1, <1>6 DEF CancelNothing, CancelStatus
<1>7. ASSUME NEW u \in Users, NEW newKey \in BOOLEAN, NEW quiet \in QuietChoice,
             SaveBark(u, newKey, quiet)
      PROVE  RowOf(id)'
  <2>1. ResetDeferrals({u}) /\ UNCHANGED <<users, sleep, owner, status>>
      BY <1>7 DEF SaveBark
  <2>2. ASSUME Pending(id), owner[id] \notin {u}
        PROVE  WindowsOf(owner[id])' = WindowsOf(owner[id])
    <3>1. bark'[owner[id]] = bark[owner[id]]
        BY <1>0, <1>7, <2>2 DEF SaveBark, TypeOK
    <3> QED
        BY <2>1, <3>1 DEF WindowsOf, QuietOf
  <2> QED
      BY <1>3, <2>1, <2>2
<1>8. ASSUME NEW window \in Windows, UpdateSystem(window) PROVE RowOf(id)'
  <2>1. ResetDeferrals(Users) /\ UNCHANGED <<owner, status>>
      BY <1>8 DEF UpdateSystem
  <2> QED
      BY <1>0, <1>3, <2>1
<1>9. ASSUME NEW u \in Users, SetEnabled(u) PROVE RowOf(id)'
  <2>1. UNCHANGED <<bark, sleep, owner, status, deferred, stale>>
      BY <1>9 DEF SetEnabled
  <2>2. ASSUME Pending(id) PROVE WindowsOf(owner[id])' = WindowsOf(owner[id])
    <3>1. users'[owner[id]] = "deleted" <=> users[owner[id]] = "deleted"
        BY <1>0, <1>9, <2>2 DEF SetEnabled, TypeOK
    <3> QED
        BY <2>1, <3>1 DEF WindowsOf, QuietOf
  <2> QED
      BY <1>0, <2>1, <2>2, RowLeft
<1>10. ASSUME NEW u \in Users, DeleteUser(u) PROVE RowOf(id)'
  <2> DEFINE rows == {i \in Ids : owner[i] = u}
  <2>1. DeleteRows(rows) /\ sleep' = sleep
      BY <1>10 DEF DeleteUser
  <2>2. ASSUME Pending(id), id \notin rows
        PROVE  WindowsOf(owner[id])' = WindowsOf(owner[id])
    <3>1. owner[id] # u /\ owner'[id] = owner[id]
        BY <2>1, <2>2 DEF DeleteRows
    <3>2. bark'[owner[id]] = bark[owner[id]] /\ users'[owner[id]] = users[owner[id]]
        BY <1>0, <1>10, <2>2, <3>1 DEF DeleteUser, TypeOK
    <3> QED
        BY <2>1, <3>1, <3>2 DEF WindowsOf, QuietOf
  <2> QED
      BY <1>2, <2>1, <2>2
<1> QED
    BY <1>4, <1>5, <1>6, <1>7, <1>8, <1>9, <1>10 DEF Handlers

LEMMA RowWorked ==
    ASSUME IInv, Deliver \/ WriteFails \/ Crash \/ UNCHANGED vars, DecisionInv,
           NEW id \in Ids, RowOf(id)
    PROVE  RowOf(id)'
<1> USE DEF table, config, history, Pending, InTable
<1>0. TypeOK /\ ItemInv /\ -LongAgo \in Int /\ -LongAgo <= 0
    BY DeliveryAssumption DEF IInv
<1>1. ASSUME UNCHANGED <<users, bark, sleep, clock, owner, deferred, stale>>,
             Pending(id)' => Pending(id), InTable(id) => InTable(id)'
      PROVE  RowOf(id)'
  <2>1. WindowsOf(owner[id])' = WindowsOf(owner[id])
      BY <1>1 DEF WindowsOf, QuietOf
  <2> QED
      BY <1>1, <2>1, RowLeft
<1>2. CASE DeliverOne \/ (\E i \in Ids : SelectDelivery(i)) \/ SelectNothing \/ LoadBark
           \/ DecideDeferral \/ BarkAccepts \/ BarkRefuses \/ BarkAnswers
           \/ BarkAnswerLost \/ WriteFails \/ Crash \/ UNCHANGED vars
    BY <1>1, <1>2 DEF DeliverOne, SelectDelivery, SelectNothing, LoadBark, DecideDeferral,
       BarkAccepts, BarkRefuses, BarkAnswers, BarkAnswerLost, WriteFails, Crash, vars
<1>3. CASE WriteDeferral
    BY <1>3, RowDeferred
<1>4. CASE RecordSent
  <2>1. CASE id \in SentRows(item.id)
    <3>1. deferred'[id] = -LongAgo
        BY <1>4, <2>1 DEF RecordSent
    <3> QED
        BY <1>0, <3>1, RowFreed
  <2>2. CASE id \notin SentRows(item.id)
    <3>1. /\ status'[id] = status[id] /\ deferred'[id] = deferred[id]
          /\ UNCHANGED <<users, bark, sleep, clock, owner, stale>>
        BY <1>4, <2>2 DEF RecordSent
    <3>2. WindowsOf(owner[id])' = WindowsOf(owner[id])
        BY <3>1 DEF WindowsOf, QuietOf
    <3> QED
        BY <3>1, <3>2, RowLeft
  <2> QED
      BY <2>1, <2>2
<1>5. CASE RecordDeliveryFailure
  <2>1. UNCHANGED <<users, bark, sleep, clock, owner, deferred, stale>>
      BY <1>5 DEF RecordDeliveryFailure
  <2>2. status'[id] = status[id] \/ status'[id] = "failed"
      BY <1>0, <1>5 DEF RecordDeliveryFailure, TypeOK
  <2> QED
      BY <1>1, <2>1, <2>2
<1> QED
    BY <1>2, <1>3, <1>4, <1>5 DEF Deliver

-----------------------------------------------------------------------------
(* The theorems                                                            *)

RowsHeld == \A id \in Ids : RowOf(id)

DeferralInv == DecisionInv /\ RowsHeld

LEMMA DeferralStep == IInv /\ PastInv /\ DeferralInv /\ [Next]_vars => DeferralInv'
<1> SUFFICES ASSUME IInv, PastInv, DeferralInv, [Next]_vars PROVE DeferralInv'
    OBVIOUS
<1>1. DecisionInv'
    BY DecisionStep DEF DeferralInv
<1>2. ASSUME NEW id \in Ids PROVE RowOf(id)'
    BY RowWorked, RowHandled, RowNextMinute DEF DeferralInv, RowsHeld, Next
<1> QED
    BY <1>1, <1>2 DEF DeferralInv, RowsHeld

(* What the worker carries in its hand follows from the windows it has     *)
(* read, and what is written to a row from the windows in force, unless    *)
(* they were replaced in between.                                          *)
THEOREM DeferralInvariance == Spec => [](IInv /\ DeferralInv)
<1>1. Init => PastInv
    BY DEF Init, PastInv, Busy, BusyPcs
<1>2. Init => DeferralInv
    BY DeliveryAssumption
    DEF Init, DeferralInv, DecisionInv, RowsHeld, RowOf, RowHeld, Pending
<1>3. Spec => []PastInv
    BY <1>1, PastStep, Invariance, PTL DEF Spec
<1> QED
    BY <1>2, <1>3, DeferralStep, Invariance, PTL DEF Spec

(* No push is sent that the windows in force forbade when deliverOneAt     *)
(* read the clock, unless they were replaced after it had read them.       *)
THEOREM QuietIsKept == Spec => []NoPushInsideWindow
<1>1. IInv /\ DeferralInv => NoPushInsideWindow
    BY DEF DeferralInv, DecisionInv, NoPushInsideWindow
<1> QED
    BY <1>1, DeferralInvariance, PTL

(* A pending row is held back no longer than the windows in force hold:    *)
(* whatever order the worker, saveBarkHandler, updateSystemHandler and the *)
(* passing of time take, and past any midnight.                            *)
THEOREM DeferralJustified == Spec => []DeferralIsJustified
<1>1. ASSUME IInv, DeferralInv, NEW id \in Ids, id \notin stale, Pending(id), deferred[id] > 0
      PROVE  LET end == DeliveryDeferredUntil(WindowsOf(owner[id]), clock)
             IN  end # 0 /\ deferred[id] <= end - clock
  <2> DEFINE ws == WindowsOf(owner[id])
             end == DeliveryDeferredUntil(ws, clock)
  <2>1. owner[id] \in Users /\ TypeOK
      BY <1>1 DEF IInv, RowInv, RowOK, InTable, Pending
  <2>2. clock \in Minute /\ sleep \in ProperWindow /\ deferred[id] \in Int
      BY <2>1 DEF TypeOK
  <2>3. ws = {sleep} \union QuietOf(owner[id]) /\ QuietOf(owner[id]) \in AtMostOne(ProperWindow)
      BY <2>1, QuietType DEF WindowsOf
  <2>4. PICK w \in ws : /\ ContainsClock(w, clock)
                        /\ deferred[id] <= ClockWindowEnd(w, clock) - clock
      BY <1>1 DEF DeferralInv, RowsHeld, RowOf, RowHeld, HeldAt
  <2>5. w \in ActiveWindows(ws, clock) /\ w \in ProperWindow
      BY <2>2, <2>3, <2>4 DEF ActiveWindows, AtMostOne
  <2>6. /\ end # 0 /\ ClockWindowEnd(w, clock) <= end
        /\ \E v \in ActiveWindows(ws, clock) : end = ClockWindowEnd(v, clock)
      BY <2>2, <2>3, <2>5, DeferralIsLaterEnd
  <2>7. end \in Int /\ ClockWindowEnd(w, clock) \in Int /\ clock \in Int
      BY <2>2, <2>3, <2>4, <2>5, <2>6, WindowEndRange DEF ActiveWindows, AtMostOne, Minute
  <2> QED
      BY <2>2, <2>4, <2>6, <2>7
<1>2. IInv /\ DeferralInv => DeferralIsJustified
    BY <1>1 DEF DeferralIsJustified
<1> QED
    BY <1>2, DeferralInvariance, PTL
=============================================================================
