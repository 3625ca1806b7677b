---------------------------- MODULE QRLoginProofs ----------------------------
(***************************************************************************)
(* Theorems about QRLogin, for every set of requests and every bound.      *)
(***************************************************************************)
EXTENDS QRLogin, FiniteSetTheorems, TLAPS

\* Sessions are numbered without gaps, so that the next number is a new one.
OpenedInv == \E k \in 0 .. MaxSessions : opened = 1 .. k

\* Two sessions that can be scanned are the same one.
ActiveInv == \A s, t \in Active : s = t

Holds(h) == poll[h].step \in {"ask", "save", "remove"}

\* A poll that is past its mutex has it, the mutex of a session that was opened.
MutexInv ==
    \A h \in Polls :
        /\ poll[h].step # "none" => poll[h].session \in opened
        /\ Holds(h) => mu[poll[h].session] = h

\* What a removal has closed no poll can find, and once it has waited for a
\* session only a late poll is between the answer of Bilibili and the saving.
RemovalInv ==
    /\ removal.closed \intersect listed = {}
    /\ \A h \in Polls \ late :
           poll[h].session \in removal.closed \ removal.waiting
               => poll[h].step \notin {"ask", "save"}

\* The same of the sessions that answered removals have closed
EndedInv ==
    /\ ended \intersect (listed \union removal.closed) = {}
    /\ \A h \in Polls \ late : poll[h].session \in ended => poll[h].step \notin {"ask", "save"}

IInv == TypeOK /\ OpenedInv /\ ActiveInv /\ MutexInv /\ RemovalInv /\ EndedInv

(* What is stored of a login that a removal has ended, a late poll stored. *)
OnlyLatePollsRestore ==
    [][stored' # stored /\ stored' \in ended
           => \E h \in late : poll[h].step = "save" /\ poll[h].session = stored']_vars

-----------------------------------------------------------------------------
(* Types                                                                   *)

(* A step of a poll that goes on, or leaves, keeps the types.              *)
LEMMA PollTypes ==
    ASSUME TypeOK, NEW h \in Polls,
           \/ \E step \in {"ask", "save", "remove"} : Go(h, step)
           \/ Leave(h)
    PROVE  /\ poll' \in [Polls -> PollState]
           /\ mu' \in [Sessions -> Polls \union {NoPoll}]
           /\ late' \subseteq Polls
<1>1. ASSUME NEW step \in {"ask", "save", "remove"}, Go(h, step)
      PROVE  poll' \in [Polls -> PollState] /\ UNCHANGED <<mu, late>>
      BY <1>1 DEF TypeOK, Go, PollState
<1>2. CASE Leave(h)
      BY <1>2 DEF TypeOK, Leave, NoPolling, PollState
<1> QED
    BY <1>1, <1>2 DEF TypeOK

(* The type invariant is preserved by every step.                          *)
LEMMA TypeStep == TypeOK /\ [Next]_vars => TypeOK'
<1> SUFFICES ASSUME TypeOK, [Next]_vars PROVE TypeOK'
    OBVIOUS
<1> USE DEF TypeOK, outside, memory, bounds, history
<1>1. CASE StartLook
      BY <1>1, QRLoginAssumption DEF StartLook, LookForActive
<1>2. CASE StartOpen
      BY <1>2, QRLoginAssumption DEF StartOpen, LookForActive, Active
<1>3. CASE StartFails
      BY <1>3, QRLoginAssumption DEF StartFails
<1>4. ASSUME NEW h \in Polls, PollStep(h) PROVE TypeOK'
  <2>1. CASE PollLock(h)
        BY <2>1 DEF PollLock, PollState
  <2>2. CASE PollConfirmed(h)
        BY <2>2, PollTypes DEF PollConfirmed, Go
  <2>3. CASE PollNotConfirmed(h)
        BY <2>3, PollTypes DEF PollNotConfirmed
  <2>4. CASE PollSave(h)
    <3>1. stored' \in Sessions \union {NoSession}
          BY <2>4 DEF PollSave, PollState
    <3> QED
        BY <2>4, <3>1, PollTypes DEF PollSave
  <2>5. CASE PollRemove(h)
        BY <2>5, PollTypes DEF PollRemove
  <2> QED
      BY <1>4, <2>1, <2>2, <2>3, <2>4, <2>5 DEF PollStep
<1>5. ASSUME NEW h \in Polls, NEW s \in Sessions, PollFind(h, s) PROVE TypeOK'
      BY <1>5 DEF PollFind, PollState
<1>6. ASSUME NEW kind \in {"logout", "delete"}, RemovalCollect(kind) PROVE TypeOK'
      BY <1>6 DEF RemovalCollect, Removal
<1>7. CASE RemovalStep
  <2>1. CASE RemovalUnlock
        BY <2>1 DEF RemovalUnlock, Unlock, Removal
  <2>2. ASSUME NEW s \in Sessions, RemovalWait(s) PROVE TypeOK'
        BY <2>2 DEF RemovalWait, Removal
  <2>3. NoRemoval \in Removal
        BY DEF NoRemoval, Removal
  <2>4. CASE RemovalCommit
        BY <2>3, <2>4 DEF RemovalCommit, NoRemoval
  <2>5. CASE RemovalFails
        BY <2>3, <2>5 DEF RemovalFails, NoRemoval
  <2> QED
      BY <1>7, <2>1, <2>2, <2>4, <2>5 DEF RemovalStep
<1>8. ASSUME NEW s \in Sessions, Cancel(s) \/ Confirm(s) \/ Expire(s) PROVE TypeOK'
      BY <1>8 DEF Cancel, Confirm, Expire
<1>9. CASE Crash
      BY <1>9, QRLoginAssumption DEF Crash, Forgotten, NoRemoval, Removal, NoPolling, PollState
<1>10. CASE UNCHANGED vars
      BY <1>10 DEF vars
<1> QED
    BY <1>1, <1>2, <1>3, <1>4, <1>5, <1>6, <1>7, <1>8, <1>9, <1>10 DEF Next

LEMMA TypeInit == Init => TypeOK
    BY QRLoginAssumption DEF Init, TypeOK, NoPolling, PollState, NoRemoval, Removal

(* Every variable keeps its type, whatever requests interleave.            *)
THEOREM TypeCorrect == Spec => []TypeOK
    BY TypeInit, TypeStep, PTL DEF Spec

-----------------------------------------------------------------------------
(* One code to scan                                                        *)

(* The session that is opened next is not one of those opened before.      *)
LEMMA NextIsNew ==
    ASSUME TypeOK, OpenedInv, NEW s, s = Cardinality(opened) + 1, s \in Sessions
    PROVE  s \notin opened /\ \E k \in 0 .. MaxSessions : opened \union {s} = 1 .. k
<1>1. MaxSessions \in Nat
      BY QRLoginAssumption
<1>2. PICK k \in 0 .. MaxSessions : opened = 1 .. k
      BY DEF OpenedInv
<1>3. Cardinality(opened) = k
      BY <1>1, <1>2, FS_Interval
<1> QED
    BY <1>1, <1>2, <1>3 DEF Sessions

LEMMA OpenedStep == TypeOK /\ OpenedInv /\ [Next]_vars => OpenedInv'
<1> SUFFICES ASSUME TypeOK, OpenedInv, [Next]_vars PROVE OpenedInv'
    OBVIOUS
<1>1. CASE StartOpen
  <2>1. CASE UNCHANGED opened
        BY <2>1 DEF OpenedInv
  <2>2. CASE MayOpen
        BY <1>1, <2>2, NextIsNew DEF StartOpen, OpenedInv
  <2> QED
      BY <1>1, <2>1, <2>2 DEF StartOpen
<1>2. CASE UNCHANGED opened
      BY <1>2 DEF OpenedInv
<1> QED
    BY <1>1, <1>2 DEF Next, vars, outside, StartLook, StartFails, PollStep, PollFind, PollLock,
       PollConfirmed, PollNotConfirmed, PollSave, PollRemove, RemovalCollect, RemovalStep,
       RemovalUnlock, RemovalWait, RemovalCommit, RemovalFails, Cancel, Confirm, Expire, Crash

(* Only StartOpen lists a session, and only when none is left to scan; no  *)
(* session comes back once it has expired.                                 *)
LEMMA ActiveStep == TypeOK /\ ActiveInv /\ [Next]_vars => ActiveInv'
<1> SUFFICES ASSUME TypeOK, ActiveInv, [Next]_vars PROVE ActiveInv'
    OBVIOUS
<1>1. CASE StartOpen
  <2>1. CASE MayOpen
        BY <1>1, <2>1 DEF StartOpen, MayOpen, Active, ActiveInv, TypeOK
  <2>2. CASE ~MayOpen
    <3>1. listed' \subseteq listed /\ expired' = expired
          BY <1>1, <2>2 DEF StartOpen, LookForActive
    <3> QED
        BY <3>1 DEF Active, ActiveInv
  <2> QED
      BY <2>1, <2>2
<1>2. CASE listed' \subseteq listed /\ expired \subseteq expired'
      BY <1>2 DEF Active, ActiveInv
<1> QED
    BY <1>1, <1>2 DEF Next, vars, outside, memory, LookForActive, StartLook, StartFails, PollStep,
       PollFind, PollLock, PollConfirmed, PollNotConfirmed, PollSave, PollRemove, RemovalCollect,
       RemovalStep, RemovalUnlock, RemovalWait, RemovalCommit, RemovalFails, Cancel, Confirm,
       Expire, Crash, Forgotten

-----------------------------------------------------------------------------
(* The mutex of a session                                                  *)

LEMMA MutexStep == TypeOK /\ MutexInv /\ [Next]_vars => MutexInv'
<1> SUFFICES ASSUME TypeOK, MutexInv, [Next]_vars PROVE MutexInv'
    OBVIOUS
<1> USE DEF MutexInv, Holds
<1>1. CASE StartOpen
      BY <1>1 DEF StartOpen
<1>2. ASSUME NEW h \in Polls, NEW s \in Sessions, PollFind(h, s) PROVE MutexInv'
      BY <1>2 DEF PollFind, TypeOK, outside
<1>3. ASSUME NEW h \in Polls, PollLock(h) PROVE MutexInv'
      BY <1>3, QRLoginAssumption DEF PollLock, Free, TypeOK, PollState, outside
<1>4. ASSUME NEW h \in Polls, NEW step \in {"ask", "save", "remove"}, Holds(h), Go(h, step),
             UNCHANGED opened
      PROVE  MutexInv'
      BY <1>4 DEF Go, TypeOK
<1>5. ASSUME NEW h \in Polls, Holds(h), Leave(h), UNCHANGED opened PROVE MutexInv'
  <2>1. mu[poll[h].session] = h
        BY <1>5
  <2>2. ASSUME NEW g \in Polls, g # h
        PROVE  /\ poll'[g] = poll[g]
               /\ Holds(g) => mu'[poll[g].session] = mu[poll[g].session]
        BY <1>5, <2>1, <2>2 DEF Leave, TypeOK
  <2>3. poll'[h].step = "none"
        BY <1>5 DEF Leave, TypeOK, NoPolling
  <2> QED
      BY <1>5, <2>2, <2>3
<1>6. ASSUME NEW h \in Polls, PollStep(h) PROVE MutexInv'
      BY <1>3, <1>4, <1>5, <1>6 DEF PollStep, PollConfirmed, PollNotConfirmed, PollSave,
         PollRemove, outside
<1>7. CASE Crash
      BY <1>7 DEF Crash, Forgotten, NoPolling
<1>8. CASE UNCHANGED <<mu, poll, opened>>
      BY <1>8
<1> QED
    BY <1>1, <1>2, <1>6, <1>7, <1>8 DEF Next, vars, outside, memory, StartLook, StartFails,
       RemovalCollect, RemovalStep, RemovalUnlock, RemovalWait, RemovalCommit, RemovalFails,
       Cancel, Confirm, Expire

-----------------------------------------------------------------------------
(* What a removal waits for                                                *)

(* What a removal has closed and waited for is left to late polls, in      *)
(* every step.                                                             *)
LEMMA RemovalInvStep ==
    TypeOK /\ OpenedInv /\ MutexInv /\ RemovalInv /\ [Next]_vars => RemovalInv'
<1> SUFFICES ASSUME TypeOK, OpenedInv, MutexInv, RemovalInv, [Next]_vars PROVE RemovalInv'
    OBVIOUS
<1> USE DEF RemovalInv
<1>1. CASE StartOpen
  <2>1. CASE MayOpen
        BY <1>1, <2>1, NextIsNew DEF StartOpen, TypeOK, history
  <2>2. CASE ~MayOpen
        BY <1>1, <2>2 DEF StartOpen, LookForActive, history
  <2> QED
      BY <2>1, <2>2
<1>2. ASSUME NEW h \in Polls, NEW s \in Sessions, PollFind(h, s) PROVE RemovalInv'
      BY <1>2 DEF PollFind, TypeOK, history
<1>3. ASSUME NEW h \in Polls, PollLock(h) PROVE RemovalInv'
      BY <1>3 DEF PollLock, TypeOK
<1>4. ASSUME NEW h \in Polls, Holds(h),
             \/ poll[h].step = "ask" /\ Go(h, "save")
             \/ Go(h, "remove")
             \/ Leave(h),
             UNCHANGED removal, listed' \subseteq listed
      PROVE  RemovalInv'
  <2>1. CASE poll[h].step = "ask" /\ Go(h, "save")
        BY <1>4, <2>1 DEF Go, TypeOK, PollState
  <2>2. CASE Go(h, "remove")
        BY <1>4, <2>2 DEF Go, TypeOK, PollState
  <2>3. CASE Leave(h)
    <3>1. poll'[h].step = "none"
          BY <2>3 DEF Leave, NoPolling, TypeOK
    <3>2. \A g \in Polls \ {h} : poll'[g] = poll[g]
          BY <2>3 DEF Leave, TypeOK
    <3> QED
        BY <1>4, <2>3, <3>1, <3>2 DEF Leave
  <2> QED
      BY <1>4, <2>1, <2>2, <2>3
<1>5. ASSUME NEW h \in Polls, PollStep(h) PROVE RemovalInv'
      BY <1>3, <1>4, <1>5 DEF PollStep, PollConfirmed, PollNotConfirmed, PollSave, PollRemove,
         Holds
<1>6. ASSUME NEW kind \in {"logout", "delete"}, RemovalCollect(kind) PROVE RemovalInv'
      BY <1>6 DEF RemovalCollect, history
<1>7. ASSUME NEW s \in Sessions, RemovalWait(s) PROVE RemovalInv'
  <2>1. \A h \in Polls : Holds(h) => poll[h].session # s
        BY <1>7, QRLoginAssumption DEF RemovalWait, Waited, MutexInv
  <2> QED
      BY <1>7, <2>1 DEF RemovalWait, history, Holds, TypeOK, Removal
<1>8. CASE RemovalUnlock
      BY <1>8 DEF RemovalUnlock, history, TypeOK, Removal
<1>9. CASE RemovalCommit \/ RemovalFails
      BY <1>9 DEF RemovalCommit, RemovalFails, NoRemoval, history
<1>10. CASE Crash
      BY <1>10 DEF Crash, Forgotten, NoRemoval
<1>11. CASE listed' \subseteq listed /\ UNCHANGED <<removal, poll, late>>
      BY <1>11
<1> QED
    BY <1>1, <1>2, <1>5, <1>6, <1>7, <1>8, <1>9, <1>10, <1>11
    DEF Next, vars, memory, history, LookForActive, StartLook, StartFails, RemovalStep,
        Cancel, Confirm, Expire

(* So are the sessions of the removals that were answered.                 *)
LEMMA EndedStep ==
    TypeOK /\ OpenedInv /\ RemovalInv /\ EndedInv /\ [Next]_vars => EndedInv'
<1> SUFFICES ASSUME TypeOK, OpenedInv, RemovalInv, EndedInv, [Next]_vars PROVE EndedInv'
    OBVIOUS
<1> USE DEF EndedInv
<1>1. CASE StartOpen
  <2>1. CASE MayOpen
        BY <1>1, <2>1, NextIsNew DEF StartOpen, TypeOK, history
  <2>2. CASE ~MayOpen
        BY <1>1, <2>2 DEF StartOpen, LookForActive, history
  <2> QED
      BY <2>1, <2>2
<1>2. ASSUME NEW h \in Polls, NEW s \in Sessions, PollFind(h, s) PROVE EndedInv'
      BY <1>2 DEF PollFind, TypeOK, history
<1>3. ASSUME NEW h \in Polls, PollLock(h) PROVE EndedInv'
      BY <1>3 DEF PollLock, TypeOK, RemovalInv
<1>4. ASSUME NEW h \in Polls, Go(h, "save"), poll[h].step = "ask", UNCHANGED <<listed, removal, ended>>
      PROVE  EndedInv'
      BY <1>4 DEF Go, TypeOK, PollState
<1>5. ASSUME NEW h \in Polls, Go(h, "remove"), UNCHANGED <<listed, removal, ended>> PROVE EndedInv'
      BY <1>5 DEF Go, TypeOK, PollState
<1>6. ASSUME NEW h \in Polls, Leave(h), UNCHANGED <<removal, ended>>,
             listed' \subseteq listed
      PROVE  EndedInv'
  <2>1. poll'[h].step = "none"
        BY <1>6 DEF Leave, NoPolling, TypeOK
  <2>2. \A g \in Polls \ {h} : poll'[g] = poll[g]
        BY <1>6 DEF Leave, TypeOK
  <2> QED
      BY <1>6, <2>1, <2>2 DEF Leave
<1>7. ASSUME NEW h \in Polls, PollStep(h) PROVE EndedInv'
      BY <1>3, <1>4, <1>5, <1>6, <1>7 DEF PollStep, PollConfirmed, PollNotConfirmed, PollSave,
         PollRemove
<1>8. CASE RemovalCommit
      BY <1>8 DEF RemovalCommit, RemovalInv, NoRemoval
<1>9. CASE Crash
      BY <1>9 DEF Crash, Forgotten, NoPolling, NoRemoval
<1>10. CASE listed' \subseteq listed /\ removal'.closed \subseteq listed \union removal.closed
            /\ UNCHANGED <<poll, history>>
      BY <1>10 DEF history
<1> QED
    BY <1>1, <1>2, <1>7, <1>8, <1>9, <1>10
    DEF Next, vars, memory, LookForActive, StartLook, StartFails, RemovalCollect, RemovalStep,
        RemovalUnlock, RemovalWait, RemovalFails, NoRemoval, Cancel, Confirm, Expire, TypeOK, Removal

-----------------------------------------------------------------------------
LEMMA Invariance == Spec => []IInv
<1>1. Init => IInv
  <2> SUFFICES ASSUME Init PROVE IInv
      OBVIOUS
  <2>1. OpenedInv
    <3>1. 0 \in 0 .. MaxSessions /\ {} = 1 .. 0
          BY QRLoginAssumption
    <3> QED
        BY <3>1 DEF Init, OpenedInv
  <2> QED
      BY <2>1, TypeInit
      DEF Init, IInv, ActiveInv, Active, MutexInv, Holds, RemovalInv, EndedInv, NoPolling, NoRemoval
<1>2. IInv /\ [Next]_vars => IInv'
      BY TypeStep, OpenedStep, ActiveStep, MutexStep, RemovalInvStep, EndedStep
      DEF IInv
<1> QED
    BY <1>1, <1>2, PTL DEF Spec

(* However many requests open sessions at the same time, and whatever      *)
(* polls, cancellations, removals and restarts come between, there is one  *)
(* code to scan at most: startBilibiliQRHandler looks again once Bilibili  *)
(* has answered.                                                           *)
THEOREM OneCode == Spec => []OneOpenSession
<1>1. IInv => OneOpenSession
  <2> SUFFICES ASSUME IInv PROVE Cardinality(Active) <= 1
      BY DEF OneOpenSession
  <2>1. CASE Active = {}
        BY <2>1, FS_EmptySet
  <2>2. ASSUME NEW s \in Active PROVE Cardinality(Active) <= 1
    <3>1. Active = {s}
          BY <2>2 DEF IInv, ActiveInv
    <3> QED
      <4>1. Cardinality(Active) = 1
              BY <3>1, FS_Singleton
      <4> QED
          BY <4>1
  <2> QED
      BY <2>1, <2>2
<1> QED
    BY <1>1, Invariance, PTL

(* A removal that comes to its transaction has waited for every poll of    *)
(* the sessions it closed, but for those that had found their session and  *)
(* not yet taken its mutex: the ones RemovedStaysRemoved is violated by.   *)
THEOREM RemovalWaits == Spec => []RemovalWaitsForPolls
<1>1. IInv => RemovalWaitsForPolls
      BY DEF IInv, RemovalInv, RemovalWaitsForPolls
<1> QED
    BY <1>1, Invariance, PTL

(* Nothing else brings back what a removal has ended: of all the steps     *)
(* that store a credential, in polls, removals and restarts, only the save *)
(* of a poll that got its mutex after the removal had waited can store one *)
(* of a session it closed.                                                 *)
THEOREM OnlyLatePolls == Spec => OnlyLatePollsRestore
<1> DEFINE A == stored' # stored /\ stored' \in ended
                   => \E h \in late : poll[h].step = "save" /\ poll[h].session = stored'
<1>1. IInv /\ [Next]_vars => A
  <2> SUFFICES ASSUME IInv, [Next]_vars, stored' # stored, stored' \in ended
               PROVE  \E h \in late : poll[h].step = "save" /\ poll[h].session = stored'
      OBVIOUS
  <2>1. CASE \E h \in Polls : PollSave(h)
    <3>1. PICK h \in Polls : poll[h].step = "save" /\ poll[h].session = stored'
          BY <2>1 DEF PollSave
    <3>2. h \in late
          BY <3>1 DEF IInv, EndedInv
    <3> QED
        BY <3>1, <3>2
  <2>2. CASE RemovalCommit
        BY <2>2 DEF RemovalCommit, IInv, TypeOK, Sessions, NoSession
  <2> QED
      BY <2>1, <2>2
      DEF Next, vars, StartLook, StartOpen, StartFails, PollStep, PollFind, PollLock, PollConfirmed,
          PollNotConfirmed, PollRemove, RemovalCollect, RemovalStep, RemovalUnlock, RemovalWait,
          RemovalFails, Cancel, Confirm, Expire, Crash
<1> QED
    BY <1>1, Invariance, PTL DEF Spec, OnlyLatePollsRestore

=============================================================================
