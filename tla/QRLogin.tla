------------------------------ MODULE QRLogin ------------------------------
(***************************************************************************)
(* Logging in to Bilibili by scanning a code: the sessions one user opens  *)
(* (internal/app/bilibili_qr.go), kept in memory under App.qrMu, each with *)
(* a mutex of its own that a poll holds while it asks Bilibili, validates  *)
(* and saves the credential; and the requests that remove the credential,  *)
(* deleteBilibiliHandler and deleteUserHandler, which first close the      *)
(* sessions and wait for their polls.                                      *)
(*                                                                         *)
(* Requests run at the same time.  What a request does under qrMu without  *)
(* waiting for anything is one step; a transaction is one step.            *)
(*                                                                         *)
(* Operators named Faulty... are wrong versions of the operator that       *)
(* follows them, substituted for it to see that a property notices.        *)
(***************************************************************************)
EXTENDS Naturals, FiniteSets

CONSTANTS
    Polls,        \* requests that poll one
    NoPoll,
    MaxStarts,    \* bound: requests that open a session, at the same time
    MaxSessions,  \* bound: sessions opened
    MaxRemovals,  \* bound: requests that remove the credential
    MaxCrashes    \* bound: restarts of the process

ASSUME QRLoginAssumption ==
    /\ NoPoll \notin Polls
    /\ {MaxStarts, MaxSessions, MaxRemovals, MaxCrashes} \subseteq Nat

\* Sessions are numbered as they are opened.
Sessions == 1 .. MaxSessions
NoSession == 0

VARIABLES
    account,   \* FALSE: the user is deleted
    stored,    \* the session whose credential is in the database
    phone,     \* phone[s]: what the phone has done with the code of s
    opened,    \* sessions opened so far
    expired,   \* those past ExpiresAt
    listed,    \* App.qrSessions
    qrMu,      \* holder of App.qrMu, where it is held for more than a step
    mu,        \* mu[s]: the poll that holds the mutex of session s
    asking,    \* requests that wait for Bilibili to open a session
    poll,      \* poll[h]: where request h is, and its session
    removal,   \* the request that removes the credential
    removals,
    crashes,
    \* history, read by no action of the code
    ended,     \* sessions closed by removals that were answered
    late       \* polls that found their session before a removal closed it and
               \* got its mutex after the removal had waited for it

memory  == <<listed, qrMu, mu, asking, poll, removal>>
outside == <<phone, opened, expired>>
bounds  == <<removals, crashes>>
history == <<ended, late>>
vars    == <<account, stored, outside, memory, bounds, history>>

PollState ==
    [step : {"none", "found", "ask", "save", "remove"},
     session : Sessions \union {NoSession}]

NoPolling == [step |-> "none", session |-> NoSession]

\* closed: what it took out of App.qrSessions; waiting: what it still waits for
Removal ==
    [step : {"none", "unlock", "wait"}, kind : {"logout", "delete"},
     closed : SUBSET Sessions, waiting : SUBSET Sessions]

NoRemoval == [step |-> "none", kind |-> "logout", closed |-> {}, waiting |-> {}]

TypeOK ==
    /\ account \in BOOLEAN
    /\ stored \in Sessions \union {NoSession}
    /\ phone \in [Sessions -> {"waiting", "confirmed", "used"}]
    /\ opened \subseteq Sessions
    /\ expired \subseteq opened
    /\ listed \subseteq opened
    /\ qrMu \in {"free", "removal"}
    /\ mu \in [Sessions -> Polls \union {NoPoll}]
    /\ asking \in 0 .. MaxStarts
    /\ poll \in [Polls -> PollState]
    /\ removal \in Removal
    /\ removal.waiting \subseteq removal.closed /\ removal.closed \subseteq opened
    /\ qrMu = "removal" <=> removal.step = "unlock"
    /\ removals \in Nat /\ crashes \in Nat
    /\ ended \subseteq opened
    /\ late \subseteq Polls

-----------------------------------------------------------------------------
(* startBilibiliQRHandler                                                  *)

\* activeQRSession: a session that has not expired, if there is one.  It drops
\* the expired ones it comes across, all of them when it finds no other.
Active == listed \ expired

LookForActive ==
    \E dropped \in SUBSET (listed \intersect expired) :
        /\ Active = {} => dropped = listed \intersect expired
        /\ listed' = listed \ dropped

StartLook ==
    /\ account
    /\ asking < MaxStarts
    /\ qrMu = "free"
    /\ LookForActive
    /\ asking' = IF Active = {} THEN asking + 1 ELSE asking
    /\ UNCHANGED <<account, stored, outside, qrMu, mu, poll, removal, bounds, history>>

\* Bilibili has returned a code, and qrMu is taken again: another request may
\* have opened a session meanwhile.
FaultyMayOpen == TRUE

MayOpen == Active = {}

StartOpen ==
    /\ asking > 0
    /\ qrMu = "free"
    /\ asking' = asking - 1
    /\ IF MayOpen
       THEN LET s == Cardinality(opened) + 1
            IN  /\ s \in Sessions
                /\ opened' = opened \union {s}
                /\ listed' = (listed \ expired) \union {s}
       ELSE LookForActive /\ UNCHANGED opened
    /\ UNCHANGED <<account, stored, phone, expired, qrMu, mu, poll, removal, bounds,
                   history>>

StartFails ==
    /\ asking > 0
    /\ asking' = asking - 1
    /\ UNCHANGED <<account, stored, outside, listed, qrMu, mu, poll, removal, bounds,
                   history>>

-----------------------------------------------------------------------------
(* pollBilibiliQRHandler                                                   *)

Go(h, step) ==
    /\ poll' = [poll EXCEPT ![h].step = step]
    /\ UNCHANGED <<mu, late>>

\* The answer, and the deferred Unlock
Leave(h) ==
    /\ poll' = [poll EXCEPT ![h] = NoPolling]
    /\ mu' = [mu EXCEPT ![poll[h].session] = NoPoll]
    /\ late' = late \ {h}

\* The session is looked up under qrMu; an expired one is dropped.
PollFind(h, s) ==
    /\ account
    /\ poll[h].step = "none"
    /\ qrMu = "free"
    /\ s \in listed
    /\ IF s \in expired
       THEN listed' = listed \ {s} /\ UNCHANGED poll
       ELSE poll' = [poll EXCEPT ![h] = [step |-> "found", session |-> s]] /\ UNCHANGED listed
    /\ UNCHANGED <<account, stored, outside, qrMu, mu, asking, removal, bounds, history>>

\* Then its own mutex is taken ...
Free(s) == mu[s] = NoPoll

PollLock(h) ==
    LET s == poll[h].session
    IN  /\ poll[h].step = "found"
        /\ Free(s)
        /\ mu' = [mu EXCEPT ![s] = h]
        /\ poll' = [poll EXCEPT ![h].step = "ask"]
        /\ late' = IF s \notin listed /\ s \notin removal.waiting
                   THEN late \union {h} ELSE late
        /\ UNCHANGED <<account, stored, outside, listed, qrMu, asking, removal, bounds, ended>>

\* ... and Bilibili says that the code is confirmed, and hands over the credential
\* once ...
PollConfirmed(h) ==
    LET s == poll[h].session
    IN  /\ poll[h].step = "ask"
        /\ phone[s] = "confirmed"
        /\ phone' = [phone EXCEPT ![s] = "used"]
        /\ Go(h, "save")
        /\ UNCHANGED <<account, stored, opened, expired, listed, qrMu, asking, removal, bounds,
                       ended>>

\* ... or that the code has expired, or that nobody has confirmed it yet, or
\* nothing; or it is not asked, within a second of the last poll.
PollNotConfirmed(h) ==
    /\ poll[h].step = "ask"
    /\ \/ Leave(h)
       \/ poll[h].session \in expired /\ Go(h, "remove")
    /\ UNCHANGED <<account, stored, outside, listed, qrMu, asking, removal, bounds, ended>>

\* EnsureDeviceCookies and ValidateCookie, and then saveBiliCredential: one
\* transaction, refused without the user
PollSave(h) ==
    /\ poll[h].step = "save"
    /\ \/ account /\ stored' = poll[h].session /\ Go(h, "remove")
       \/ UNCHANGED stored /\ Leave(h)
    /\ UNCHANGED <<account, outside, listed, qrMu, asking, removal, bounds, ended>>

\* removeQRSession takes qrMu while the mutex of the session is held.
PollRemove(h) ==
    /\ poll[h].step = "remove"
    /\ qrMu = "free"
    /\ listed' = listed \ {poll[h].session}
    /\ Leave(h)
    /\ UNCHANGED <<account, stored, outside, qrMu, asking, removal, bounds, ended>>

-----------------------------------------------------------------------------
(* cancelBilibiliQRHandler, and the requests that remove the credential    *)

Cancel(s) ==
    /\ account
    /\ qrMu = "free"
    /\ s \in listed
    /\ listed' = listed \ {s}
    /\ UNCHANGED <<account, stored, outside, qrMu, mu, asking, poll, removal, bounds,
                   history>>

\* cancelBilibiliQRSessionsForUser: the sessions are taken out of the map ...
RemovalCollect(kind) ==
    /\ account
    /\ removal.step = "none"
    /\ removals < MaxRemovals
    /\ removals' = removals + 1
    /\ qrMu = "free"
    /\ qrMu' = "removal"
    /\ removal' = [step |-> "unlock", kind |-> kind, closed |-> listed, waiting |-> listed]
    /\ listed' = {}
    /\ UNCHANGED <<account, stored, outside, mu, asking, poll, crashes, history>>

\* ... qrMu is released ...
FaultyUnlock == UNCHANGED qrMu

Unlock == qrMu' = "free"

RemovalUnlock ==
    /\ removal.step = "unlock"
    /\ Unlock
    /\ removal' = [removal EXCEPT !.step = "wait"]
    /\ UNCHANGED <<account, stored, outside, listed, mu, asking, poll, bounds, history>>

\* ... and the mutex of each session is taken and given back.
FaultyWaited(s) == TRUE

Waited(s) == mu[s] = NoPoll

RemovalWait(s) ==
    /\ removal.step = "wait"
    /\ s \in removal.waiting
    /\ Waited(s)
    /\ removal' = [removal EXCEPT !.waiting = @ \ {s}]
    /\ UNCHANGED <<account, stored, outside, listed, qrMu, mu, asking, poll, bounds,
                   history>>

\* The transaction that removes the credential, or the user.
RemovalCommit ==
    /\ removal.step = "wait"
    /\ removal.waiting = {}
    /\ stored' = NoSession
    /\ account' = (removal.kind = "logout")
    /\ ended' = ended \union removal.closed
    /\ removal' = NoRemoval
    /\ UNCHANGED <<outside, listed, qrMu, mu, asking, poll, bounds, late>>

RemovalFails ==
    /\ removal.step = "wait"
    /\ removal.waiting = {}
    /\ removal' = NoRemoval
    /\ UNCHANGED <<account, stored, outside, listed, qrMu, mu, asking, poll, bounds,
                   history>>

-----------------------------------------------------------------------------
(* The environment                                                         *)

\* The user scans the code and confirms on the phone.
Confirm(s) ==
    /\ s \in opened \ expired
    /\ phone[s] = "waiting"
    /\ phone' = [phone EXCEPT ![s] = "confirmed"]
    /\ UNCHANGED <<account, stored, opened, expired, memory, bounds, history>>

\* Three minutes pass since the session was opened.
Expire(s) ==
    /\ s \in opened \ expired
    /\ expired' = expired \union {s}
    /\ UNCHANGED <<account, stored, phone, opened, memory, bounds, history>>

\* The process stops and starts again: sessions and requests are lost.
Forgotten ==
    /\ listed' = {}
    /\ qrMu' = "free"
    /\ mu' = [s \in Sessions |-> NoPoll]
    /\ asking' = 0
    /\ poll' = [h \in Polls |-> NoPolling]
    /\ removal' = NoRemoval

Crash ==
    /\ crashes < MaxCrashes
    /\ crashes' = crashes + 1
    /\ Forgotten
    /\ late' = {}
    /\ UNCHANGED <<account, stored, outside, removals, ended>>

Init ==
    /\ account = TRUE
    /\ stored = NoSession
    /\ phone = [s \in Sessions |-> "waiting"]
    /\ opened = {} /\ expired = {} /\ listed = {}
    /\ qrMu = "free"
    /\ mu = [s \in Sessions |-> NoPoll]
    /\ asking = 0
    /\ poll = [h \in Polls |-> NoPolling]
    /\ removal = NoRemoval
    /\ removals = 0 /\ crashes = 0
    /\ ended = {} /\ late = {}

PollStep(h) ==
    \/ PollLock(h) \/ PollConfirmed(h) \/ PollNotConfirmed(h)
    \/ PollSave(h) \/ PollRemove(h)

RemovalStep ==
    \/ RemovalUnlock
    \/ \E s \in Sessions : RemovalWait(s)
    \/ RemovalCommit \/ RemovalFails

Next ==
    \/ StartLook \/ StartOpen \/ StartFails
    \/ \E h \in Polls : PollStep(h) \/ \E s \in Sessions : PollFind(h, s)
    \/ \E kind \in {"logout", "delete"} : RemovalCollect(kind)
    \/ RemovalStep
    \/ \E s \in Sessions : Cancel(s) \/ Confirm(s) \/ Expire(s)
    \/ Crash

Spec == Init /\ [][Next]_vars

\* A poll or a removal that is under way goes on as long as it can: Bilibili
\* answers or the HTTP client gives up.
Fairness ==
    /\ \A h \in Polls : WF_vars(PollStep(h))
    /\ WF_vars(RemovalStep)

LiveSpec == Spec /\ Fairness

-----------------------------------------------------------------------------
(* Correctness                                                             *)

(* The user has one code to scan at most: two requests that open a session *)
(* at the same time end up with the same one (the second look of           *)
(* startBilibiliQRHandler, after Bilibili has answered).                   *)
OneOpenSession == Cardinality(Active) <= 1

(* When a removal comes to its transaction, no poll of a session it closed *)
(* is between the answer of Bilibili and the saving of the credential,     *)
(* unless it got the mutex only after the removal had waited for it: such  *)
(* a poll would put the credential back.                                   *)
RemovalWaitsForPolls ==
    removal.step = "wait" /\ removal.waiting = {} =>
        \A h \in Polls \ late :
            poll[h].session \in removal.closed
                => poll[h].step \notin {"ask", "save"}

(* A removal comes to its end: polls take qrMu with the mutex of a session *)
(* in hand, so a removal waits for that mutex only once it has given qrMu  *)
(* back, and only for sessions no new poll can find.                       *)
RemovalEnds == removal.step # "none" ~> removal.step = "none"

(* The comment at internal/app/bilibili_qr.go:188, "Wait for any in-flight *)
(* poll to finish before credentials are removed": once a removal has been *)
(* answered, no poll saves a credential of a session it closed.            *)
RemovedStaysRemoved ==
    [][stored' # stored => stored' \notin ended]_vars

=============================================================================
