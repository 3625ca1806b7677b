------------------------------ MODULE Schedule ------------------------------
(***************************************************************************)
(* The clock arithmetic of internal/app/schedule.go: sleep, work and free  *)
(* periods of the day, the quiet window of a user, and the instant until   *)
(* which a notification is held back.                                      *)
(*                                                                         *)
(* parseClock turns "15:04" into a minute of the day, so a clock window is *)
(* a pair of minutes here.  Instants are minutes counted from the midnight *)
(* (Asia/Shanghai, which has no daylight saving) before "now": an instant  *)
(* of the following day is at least Day.                                   *)
(*                                                                         *)
(* Operators named Faulty... are wrong versions of the operator that       *)
(* follows them, substituted for it to see that a property notices.        *)
(***************************************************************************)
EXTENDS Integers, FiniteSets

CONSTANTS
    Day,             \* minutes in a day (24 * 60 in the code)
    MaxInterval,     \* longest poll interval a schedule may ask for (1440)
    MaxWorkWindows   \* most work windows of a schedule (4)

ASSUME DayAssumption == Day \in Nat /\ Day > 1
ASSUME IntervalAssumption == MaxInterval \in Nat \ {0} /\ MaxWorkWindows \in Nat \ {0}

Minute == 0 .. Day - 1

\* type clockWindow
ClockWindow == [start : Minute, end : Minute]

\* The windows validatePollSchedule and validateBarkQuietInput let through:
\* start and end differ, and the window may span midnight.
ProperWindow == {w \in ClockWindow : w.start # w.end}

\* No window, or one of ws
AtMostOne(ws) == {{}} \union {{w} : w \in ws}

Interval == 1 .. MaxInterval

\* type pollSchedule: the work windows as a set of windows
PollSchedule ==
    [sleep : ClockWindow, sleepInterval : Int,
     work : SUBSET ClockWindow, workInterval : Int, freeInterval : Int]

-----------------------------------------------------------------------------
(* validatePollSchedule: sleep is a proper window, the work windows lie    *)
(* within one day and do not overlap, the intervals are in range.          *)

\* Sorted by start, v comes right before w: sort.Slice of the handler.
NextInOrder(work, v, w) ==
    /\ v # w
    /\ v.start <= w.start
    /\ \A x \in work : x.start <= v.start \/ w.start <= x.start

ValidatePollSchedule(s) ==
    /\ s.sleep.start # s.sleep.end
    /\ {s.sleepInterval, s.workInterval, s.freeInterval} \subseteq Interval
    /\ Cardinality(s.work) \in 1 .. MaxWorkWindows
    /\ \A w \in s.work : w.start < w.end
    /\ \A v, w \in s.work : NextInOrder(s.work, v, w) => v.end <= w.start

\* containsClock: the end is outside the window; a window that starts after
\* it ends spans midnight; an empty window contains nothing.
ContainsClock(w, minute) ==
    /\ w.start # w.end
    /\ IF w.start < w.end
       THEN w.start <= minute /\ minute < w.end
       ELSE w.start <= minute \/ minute < w.end

\* clockWindowEnd, for a window that contains minute: it ends today, or
\* tomorrow when it spans midnight and minute is before that midnight.
FaultyClockWindowEndSameDay(w, minute) == w.end

ClockWindowEnd(w, minute) ==
    IF w.start > w.end /\ minute >= w.start THEN w.end + Day ELSE w.end

\* deliveryDeferredUntil, for the sleep window and the quiet window if there is
\* one: the later end of those that contain now.  0 is the zero time.Time of
\* the code, which no window end equals.
ActiveWindows(windows, minute) == {w \in windows : ContainsClock(w, minute)}

FaultyDeferredUntilAllOpen(windows, minute) ==
    IF ActiveWindows(windows, minute) # windows THEN 0
    ELSE ClockWindowEnd(CHOOSE w \in windows : TRUE, minute)

DeliveryDeferredUntil(windows, minute) ==
    LET ends == {ClockWindowEnd(w, minute) : w \in ActiveWindows(windows, minute)}
    IN  IF ends = {} THEN 0 ELSE CHOOSE e \in ends : \A f \in ends : f <= e

-----------------------------------------------------------------------------
\* periodAt: sleep takes precedence over work, work over free.
PeriodAt(s, minute) ==
    IF ContainsClock(s.sleep, minute) THEN "sleep"
    ELSE IF \E w \in s.work : ContainsClock(w, minute) THEN "work"
    ELSE "free"

IntervalAt(s, minute) ==
    CASE PeriodAt(s, minute) = "sleep" -> s.sleepInterval
      [] PeriodAt(s, minute) = "work"  -> s.workInterval
      [] OTHER                         -> s.freeInterval

\* nextScheduleTransition: the first window boundary of today and the two
\* following days at which the period differs from the one just before it.
Boundaries(s) == UNION {{w.start, w.end} : w \in {s.sleep} \union s.work}

FaultyTransitionsAnyBoundary(s, minute) ==
    {t \in {b + d * Day : b \in Boundaries(s), d \in 0 .. 2} : t > minute}

Transitions(s, minute) ==
    {t \in {b + d * Day : b \in Boundaries(s), d \in 0 .. 2} :
        /\ t > minute
        /\ PeriodAt(s, (t - 1) % Day) # PeriodAt(s, t % Day)}

NextScheduleTransition(s, minute) ==
    LET ts == Transitions(s, minute)
    IN  IF ts = {} THEN Day ELSE CHOOSE t \in ts : \A u \in ts : t <= u

=============================================================================
