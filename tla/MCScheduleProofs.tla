------------------------- MODULE MCScheduleProofs --------------------------
(***************************************************************************)
(* The two reference definitions of MCSchedule, for a day of any length,   *)
(* any number of work windows and any quiet window.                        *)
(***************************************************************************)
EXTENDS MCSchedule, ScheduleProofs

(* The schedule is valid, the quiet window proper, the minute of the day.  *)
TypeOK ==
    /\ schedule \in PollSchedule /\ ValidatePollSchedule(schedule)
    /\ schedule.sleep \in ProperWindow
    /\ quiet \in AtMostOne(ProperWindow)
    /\ minute \in Minute

LEMMA ValidSchedules ==
    ASSUME NEW s \in Schedules
    PROVE  s \in PollSchedule /\ ValidatePollSchedule(s) /\ s.sleep \in ProperWindow
<1>1. ValidatePollSchedule(s)
    BY DEF Schedules
<1>2. PICK sl \in ProperWindow, u \in WorkWindows, v \in WorkWindows, w \in WorkWindows :
          s = [sleep |-> sl, sleepInterval |-> 3, work |-> {u, v, w},
               workInterval |-> 2, freeInterval |-> 1]
    BY DEF Schedules
<1>3. sl \in ClockWindow /\ {u, v, w} \subseteq ClockWindow
    BY DEF ProperWindow, WorkWindows
<1> QED
    BY <1>1, <1>2, <1>3 DEF PollSchedule

LEMMA Typed == Spec => []TypeOK
<1>1. Init => TypeOK
    BY ValidSchedules, DayAssumption DEF Init, TypeOK, AtMostOne, Minute
<1>2. TypeOK /\ [Next]_vars => TypeOK'
  <2> SUFFICES ASSUME TypeOK, [Next]_vars PROVE TypeOK'
      OBVIOUS
  <2>1. UNCHANGED <<schedule, quiet>> /\ (minute' = minute \/ minute' = (minute + 1) % Day)
      BY DEF Next, vars
  <2>2. minute + 1 \in Int
      BY DEF TypeOK, Minute
  <2> QED
      BY <2>1, <2>2, ClockMinute DEF TypeOK
<1> QED
    BY <1>1, <1>2, PTL DEF Spec

\* There is one first instant outside a window, and clockWindowEnd is it.
LEMMA FirstIsWindowEnd ==
    ASSUME NEW w \in ProperWindow, NEW m \in Minute, ContainsClock(w, m)
    PROVE  FirstOutside(w, m) = ClockWindowEnd(w, m)
<1> DEFINE end == ClockWindowEnd(w, m)
           First(t) == /\ ~ContainsClock(w, t % Day)
                       /\ \A u \in m + 1 .. t - 1 : ContainsClock(w, u % Day)
<1>1. /\ end \in m + 1 .. m + Day
      /\ ~ContainsClock(w, end % Day)
      /\ \A t \in m .. end - 1 : ContainsClock(w, t % Day)
    BY WindowEndIsFirstInstantOutside
<1>2. m \in Int
    BY DEF Minute
<1> HIDE DEF end
<1>3. First(end)
    BY <1>1, <1>2
<1>4. ASSUME NEW t \in m + 1 .. m + Day, First(t) PROVE t = end
  <2>1. ~(t < end)
      BY <1>1, <1>2, <1>4
  <2>2. ~(end < t)
      BY <1>1, <1>2, <1>4
  <2> QED
      BY <1>1, <1>2, <1>4, <2>1, <2>2, DayAssumption
<1>5. FirstOutside(w, m) = CHOOSE t \in m + 1 .. m + Day : First(t)
    BY DEF FirstOutside
<1> QED
    BY <1>1, <1>3, <1>4, <1>5 DEF end

(* deliveryDeferredUntil holds a notification back until the last of the   *)
(* open windows has closed, walked minute by minute over midnight.         *)
THEOREM DeferralEnds == Spec => []DeferralEndsWhenOpenWindowsClose
<1>1. TypeOK => DeferralEndsWhenOpenWindowsClose
  <2> SUFFICES ASSUME TypeOK PROVE DeferralEndsWhenOpenWindowsClose
      OBVIOUS
  <2> DEFINE windows == {schedule.sleep} \union quiet
             open    == {w \in windows : ContainsClock(w, minute)}
             closes  == {FirstOutside(w, minute) : w \in open}
             until   == DeliveryDeferredUntil(windows, minute)
  <2>1. open = ActiveWindows(windows, minute)
      BY DEF ActiveWindows
  <2>2. /\ until = 0 <=> open = {}
        /\ open # {} => /\ \E w \in open : until = ClockWindowEnd(w, minute)
                        /\ \A w \in open : ClockWindowEnd(w, minute) <= until
      BY <2>1, DeferralIsLaterEnd DEF TypeOK
  <2>3. \A w \in open : FirstOutside(w, minute) = ClockWindowEnd(w, minute)
      BY FirstIsWindowEnd DEF TypeOK, AtMostOne
  <2>4. CASE open = {}
      BY <2>2, <2>4 DEF DeferralEndsWhenOpenWindowsClose
  <2>5. CASE open # {}
    <3>1. until \in closes /\ \A c \in closes : c <= until
        BY <2>2, <2>3, <2>5
    <3> QED
        BY <2>5, <3>1 DEF DeferralEndsWhenOpenWindowsClose
  <2> QED
      BY <2>4, <2>5
<1> QED
    BY <1>1, Typed, PTL

(* The system page shows the next minute at which the period changes, at   *)
(* any minute of the day.                                                  *)
THEOREM NextTransitionFound == Spec => []NextTransitionIsNextChange
<1>1. TypeOK => NextTransitionIsNextChange
    BY TransitionIsNextChange DEF TypeOK, NextTransitionIsNextChange
<1> QED
    BY <1>1, Typed, PTL
=============================================================================
