---------------------------- MODULE Notification ----------------------------
(***************************************************************************)
(* What the delivery queue promises for each notification, whatever the    *)
(* worker, the requests of users and administrators, faults of the network *)
(* and of the database, and restarts do: it reaches the phone again only   *)
(* when the queue could not learn that it had reached it; it is recorded   *)
(* as sent, as failed or as cancelled once, and truthfully; and what was   *)
(* settled does not reach the phone any more.                              *)
(*                                                                         *)
(* Delivery implements it; nothing of locks, rows, windows or retries is   *)
(* said here.                                                              *)
(***************************************************************************)
EXTENDS Naturals

CONSTANT Notifications

VARIABLES
    fate,    \* fate[n]: what the user may know of notification n
    heard,   \* heard[n]: times it has reached the phone
    missed   \* missed[n]: those of them the queue could not learn of

vars == <<fate, heard, missed>>

\* gone: deleted with its user, settled or not
Fates == {"none", "waiting", "sent", "failed", "cancelled", "gone"}

\* The queue knows of every time n has reached the phone, or that it has not.
Clear(n) == heard[n] = missed[n]

Become(ns, f) == fate' = [n \in Notifications |-> IF n \in ns THEN f ELSE fate[n]]

Announce(ns) ==
    /\ \A n \in ns : fate[n] = "none"
    /\ Become(ns, "waiting")
    /\ UNCHANGED <<heard, missed>>

\* A push that is under way is not called back when its user is deleted.
Reach(n) ==
    /\ fate[n] \in {"waiting", "gone"}
    /\ Clear(n)
    /\ heard' = [heard EXCEPT ![n] = @ + 1]
    /\ UNCHANGED <<fate, missed>>

\* The answer or its record is lost.
Miss(n) ==
    /\ fate[n] \in {"waiting", "gone"}
    /\ heard[n] = missed[n] + 1
    /\ missed' = [missed EXCEPT ![n] = @ + 1]
    /\ UNCHANGED <<fate, heard>>

Settle(n) ==
    /\ fate[n] = "waiting"
    /\ heard[n] = missed[n] + 1
    /\ Become({n}, "sent")
    /\ UNCHANGED <<heard, missed>>

Fail(n) ==
    /\ fate[n] = "waiting"
    /\ Clear(n)
    /\ Become({n}, "failed")
    /\ UNCHANGED <<heard, missed>>

Cancel(n) ==
    /\ fate[n] = "waiting"
    /\ Clear(n)
    /\ Become({n}, "cancelled")
    /\ UNCHANGED <<heard, missed>>

Forget(ns) ==
    /\ \A n \in ns : fate[n] \in {"waiting", "sent", "failed"}
    /\ Become(ns, "gone")
    /\ UNCHANGED <<heard, missed>>

Init ==
    /\ fate = [n \in Notifications |-> "none"]
    /\ heard = [n \in Notifications |-> 0]
    /\ missed = [n \in Notifications |-> 0]

Next ==
    \/ \E ns \in SUBSET Notifications : Announce(ns) \/ Forget(ns)
    \/ \E n \in Notifications : Reach(n) \/ Miss(n) \/ Settle(n) \/ Fail(n) \/ Cancel(n)

Spec == Init /\ [][Next]_vars
=============================================================================
