----------------------------- MODULE MCDelivery -----------------------------
(* Instances of Delivery for TLC. *)
EXTENDS Delivery

CONSTANT u1

Window(s, e) == [start |-> s, end |-> e]

\* A day of five minutes.  The first two overlap and the second spans
\* midnight, so that their ends fall on different days.
MCWindows == {Window(1, 3), Window(2, 1)}
MCOneWindow == {Window(1, 3)}

\* One and two minutes, growing like 1m, 5m, 15m, 1h, 6h
MCRetryDelay == [k \in 1 .. MaxAttempts - 1 |-> k]
=============================================================================
