---------------------------- MODULE MCPollQueue ----------------------------
(* Instances of PollQueue for TLC. *)
EXTENDS PollQueue, TLC

CONSTANTS c1, c2

\* A day of four minutes: asleep over midnight, then at work for a minute and
\* free for a minute, or free first.  Saving the other schedule changes the period
\* back and forth.  The intervals are as long as the periods or longer, so that
\* the periods change between two polls.
MCSchedule(workStart, workInterval, freeInterval) ==
    [sleep |-> [start |-> 3, end |-> 1], sleepInterval |-> 3,
     work |-> {[start |-> workStart, end |-> workStart + 1]}, workInterval |-> workInterval,
     freeInterval |-> freeInterval]

MCSchedules == {MCSchedule(1, 4, 1), MCSchedule(2, 1, 2)}

\* Growing like 5m, 15m, 30m, 1h
MCBackoff == <<1, 2>>
=============================================================================
