----------------------------- MODULE MCSchedule -----------------------------
(***************************************************************************)
(* Every valid schedule, every quiet window and every minute of a short    *)
(* day: the operators of Schedule against reference definitions that walk  *)
(* the day minute by minute.                                               *)
(***************************************************************************)
EXTENDS Schedule

VARIABLES
    schedule,   \* the administrator's poll schedule
    quiet,      \* the user's quiet window: a set of at most one window
    minute      \* the minute of the day it is now

vars == <<schedule, quiet, minute>>

\* Schedules over ordered work windows, at most MaxWorkWindows of them, with
\* three different intervals so that a mix-up shows.
WorkWindows == {w \in ClockWindow : w.start < w.end}

Schedules ==
    {s \in {[sleep |-> sl, sleepInterval |-> 3, work |-> wk,
             workInterval |-> 2, freeInterval |-> 1] :
             sl \in ProperWindow,
             wk \in {{u, v, w} : u, v, w \in WorkWindows}} :
        ValidatePollSchedule(s)}

Init ==
    /\ schedule \in Schedules
    /\ quiet \in {{}} \union {{w} : w \in ProperWindow}
    /\ minute = 0

\* A minute passes, round the clock; the configuration stays.
Next ==
    /\ minute' = (minute + 1) % Day
    /\ UNCHANGED <<schedule, quiet>>

Spec == Init /\ [][Next]_vars

-----------------------------------------------------------------------------
\* The first instant after m, within a day, that w does not contain.
FirstOutside(w, m) ==
    CHOOSE t \in m + 1 .. m + Day :
        /\ ~ContainsClock(w, t % Day)
        /\ \A u \in m + 1 .. t - 1 : ContainsClock(w, u % Day)

(* A notification is held back exactly when the sleep window or the quiet  *)
(* window is open, and until the later of the two instants at which these  *)
(* windows, walked minute by minute over midnight, are first closed        *)
(* (deliveryDeferredUntil, clockWindowEnd and containsClock of schedule.go;*)
(* "the later end applies when both overlap").                             *)
DeferralEndsWhenOpenWindowsClose ==
    LET open   == {w \in {schedule.sleep} \union quiet : ContainsClock(w, minute)}
        closes == {FirstOutside(w, minute) : w \in open}
        until  == DeliveryDeferredUntil({schedule.sleep} \union quiet, minute)
    IN  IF open = {}
        THEN until = 0
        ELSE until \in closes /\ \A c \in closes : c <= until

(* The next transition that the system page shows is the first later       *)
(* minute whose period differs from the minute before it, for every valid  *)
(* schedule; the fallback to the next midnight is never needed             *)
(* (nextScheduleTransition looks at window boundaries only).               *)
NextTransitionIsNextChange ==
    LET changes == {t \in minute + 1 .. minute + 2 * Day :
                       PeriodAt(schedule, (t - 1) % Day) # PeriodAt(schedule, t % Day)}
    IN  NextScheduleTransition(schedule, minute) \in changes
        /\ \A t \in changes : NextScheduleTransition(schedule, minute) <= t
=============================================================================
