--------------------------- MODULE ScheduleProofs ---------------------------
(***************************************************************************)
(* Theorems about the clock arithmetic, for a day of any length and all    *)
(* windows.                                                                *)
(***************************************************************************)
EXTENDS Schedule, WellFoundedInduction, TLAPS

LEMMA WindowEndRange ==
    ASSUME NEW w \in ProperWindow, NEW m \in Minute, ContainsClock(w, m)
    PROVE  /\ ClockWindowEnd(w, m) \in Int
           /\ m < ClockWindowEnd(w, m)
           /\ ClockWindowEnd(w, m) <= m + Day
BY DayAssumption DEF ProperWindow, ClockWindow, Minute, ContainsClock, ClockWindowEnd

(* clockWindowEnd returns the first instant outside the window: it lies    *)
(* after now and within a day, the window is closed then, and open at each *)
(* instant before it, also past midnight.                                  *)
THEOREM WindowEndIsFirstInstantOutside ==
    ASSUME NEW w \in ProperWindow, NEW m \in Minute, ContainsClock(w, m)
    PROVE  LET end == ClockWindowEnd(w, m)
           IN  /\ end \in m + 1 .. m + Day
               /\ ~ContainsClock(w, end % Day)
               /\ \A t \in m .. end - 1 : ContainsClock(w, t % Day)
<1> DEFINE end == ClockWindowEnd(w, m)
<1> USE DayAssumption
<1>1. end \in m + 1 .. m + Day
    BY WindowEndRange DEF Minute
<1>2. \A t \in 0 .. 2 * Day - 1 : t % Day = IF t < Day THEN t ELSE t - Day
    OBVIOUS
<1>3. ~ContainsClock(w, end % Day)
    BY <1>1, <1>2 DEF ProperWindow, ClockWindow, Minute, ContainsClock, ClockWindowEnd
<1>4. ASSUME NEW t \in m .. end - 1 PROVE ContainsClock(w, t % Day)
  <2>1. t \in Int /\ m <= t /\ t < end /\ t \in 0 .. 2 * Day - 1
      BY <1>1 DEF Minute
  <2>2. CASE t < Day
    <3>1. t % Day = t
        BY <1>2, <2>1, <2>2
    <3> QED
        BY <2>1, <2>2, <3>1 DEF ProperWindow, ClockWindow, Minute, ContainsClock, ClockWindowEnd
  <2>3. CASE t >= Day
    <3>1. t % Day = t - Day
        BY <1>2, <2>1, <2>3
    <3> QED
        BY <2>1, <2>3, <3>1 DEF ProperWindow, ClockWindow, Minute, ContainsClock, ClockWindowEnd
  <2> QED
      BY <2>1, <2>2, <2>3
<1> QED
    BY <1>1, <1>3, <1>4

(* A notification is held back exactly when the sleep window or the quiet  *)
(* window is open, until the later of the ends of those that are.          *)
THEOREM DeferralIsLaterEnd ==
    ASSUME NEW s \in ProperWindow, NEW q \in AtMostOne(ProperWindow), NEW m \in Minute
    PROVE  LET open  == ActiveWindows({s} \union q, m)
               until == DeliveryDeferredUntil({s} \union q, m)
           IN  /\ until = 0 <=> open = {}
               /\ open # {} =>
                     /\ \E w \in open : until = ClockWindowEnd(w, m)
                     /\ \A w \in open : ClockWindowEnd(w, m) <= until
<1> DEFINE open == ActiveWindows({s} \union q, m)
           ends == {ClockWindowEnd(w, m) : w \in open}
           Last(e) == \A f \in ends : f <= e
<1>1. ASSUME NEW w \in open PROVE ClockWindowEnd(w, m) \in Int /\ ClockWindowEnd(w, m) # 0
    BY WindowEndRange DEF ActiveWindows, AtMostOne, Minute
<1>2. \A f \in ends : f \in Int /\ f # 0
    BY <1>1
<1>3. ASSUME open # {} PROVE \E e \in ends : Last(e)
  <2>1. CASE q = {}
    <3>1. open = {s}
        BY <1>3, <2>1 DEF ActiveWindows
    <3>2. ends = {ClockWindowEnd(s, m)}
        BY <3>1
    <3> QED
        BY <1>2, <3>2
  <2>2. CASE q # {}
    <3>1. PICK w \in ProperWindow : q = {w}
        BY <2>2 DEF AtMostOne
    <3>2. open \subseteq {s, w}
        BY <3>1 DEF ActiveWindows
    <3>3. \/ ends = {ClockWindowEnd(s, m)}
          \/ ends = {ClockWindowEnd(w, m)}
          \/ ends = {ClockWindowEnd(s, m), ClockWindowEnd(w, m)}
        BY <1>3, <3>2
    <3> HIDE DEF ends
    <3> QED
        BY <1>2, <3>3
  <2> QED
      BY <2>1, <2>2
<1>4. CASE open = {}
    BY <1>4 DEF DeliveryDeferredUntil
<1>5. CASE open # {}
  <2>1. ends # {}
      BY <1>5
  <2>2. DeliveryDeferredUntil({s} \union q, m) = CHOOSE e \in ends : Last(e)
      BY <2>1 DEF DeliveryDeferredUntil
  <2>3. DeliveryDeferredUntil({s} \union q, m) \in ends
        /\ Last(DeliveryDeferredUntil({s} \union q, m))
      BY <1>3, <1>5, <2>2
  <2> QED
      BY <1>2, <1>5, <2>3
<1> QED
    BY <1>4, <1>5

-----------------------------------------------------------------------------
(* The clock goes round                                                    *)

LEMMA Divided ==
    ASSUME NEW d \in Nat \ {0}, NEW x \in Int
    PROVE  x \div d \in Int /\ x % d \in 0 .. d - 1 /\ x = d * (x \div d) + (x % d)
OBVIOUS

LEMMA Remainder ==
    ASSUME NEW d \in Nat \ {0}, NEW q \in Int, NEW r \in 0 .. d - 1
    PROVE  (d * q + r) % d = r
<1> DEFINE x == d * q + r
           p == x \div d
<1>1. x \in Int /\ p \in Int /\ x % d \in 0 .. d - 1 /\ d * q + r = d * p + (x % d)
    BY Divided
<1>2. d * (q - p) = (x % d) - r
    BY <1>1
<1>3. q - p >= 1 => d * (q - p) >= d
    BY <1>1
<1>4. q - p <= -1 => d * (q - p) <= -d
    BY <1>1
<1> QED
    BY <1>1, <1>2, <1>3, <1>4

LEMMA RoundTheClock ==
    ASSUME NEW x \in Int PROVE (x + Day) % Day = x % Day
<1> DEFINE q == x \div Day
           r == x % Day
<1>1. Day \in Nat \ {0} /\ q \in Int /\ r \in 0 .. Day - 1 /\ x = Day * q + r
    BY Divided, DayAssumption
<1>2. x + Day = Day * (q + 1) + r
    BY <1>1
<1>3. \A p \in Int : (Day * p + r) % Day = r
    BY <1>1, Remainder
<1>4. q + 1 \in Int
    BY <1>1
<1> QED
    BY <1>2, <1>3, <1>4

LEMMA LeastInstant ==
    ASSUME NEW T, T \subseteq Nat, T # {}
    PROVE  \E t \in T : \A u \in T : t <= u
<1>1. PICK t \in T : \A u \in T : ~(<<u, t>> \in OpToRel(<, Nat))
    BY NatLessThanWellFounded, WFMin
<1>2. ASSUME NEW u \in T PROVE t <= u
  <2>1. ~(u < t)
      BY <1>1 DEF OpToRel
  <2> QED
      BY <2>1
<1> QED
    BY <1>2

-----------------------------------------------------------------------------
(* Where the period changes                                                *)

\* One minute after x on the clock
OneLater(x) == IF x = Day - 1 THEN 0 ELSE x + 1

LEMMA ClockMinute == ASSUME NEW t \in Int PROVE t % Day \in Minute
<1>1. Day \in Nat \ {0}
    BY DayAssumption
<1> QED
    BY <1>1, Divided DEF Minute

LEMMA ClockMoves == ASSUME NEW t \in Int PROVE t % Day = OneLater((t - 1) % Day)
<1> DEFINE q == (t - 1) \div Day
           r == (t - 1) % Day
<1>1. Day \in Nat \ {0} /\ t - 1 \in Int
    BY DayAssumption
<1>2. q \in Int /\ r \in 0 .. Day - 1 /\ t - 1 = Day * q + r
    BY <1>1, Divided
<1>3. CASE r = Day - 1
  <2>1. t = Day * (q + 1) + 0 /\ q + 1 \in Int /\ 0 \in 0 .. Day - 1
      BY <1>1, <1>2, <1>3
  <2>2. (Day * (q + 1) + 0) % Day = 0
      BY <1>1, <2>1, Remainder
  <2> QED
      BY <1>3, <2>1, <2>2 DEF OneLater
<1>4. CASE r # Day - 1
  <2>1. t = Day * q + (r + 1) /\ r + 1 \in 0 .. Day - 1
      BY <1>1, <1>2, <1>4
  <2>2. (Day * q + (r + 1)) % Day = r + 1
      BY <1>1, <1>2, <2>1, Remainder
  <2> QED
      BY <1>4, <2>1, <2>2 DEF OneLater
<1> QED
    BY <1>3, <1>4

\* A window opens at its start and closes at its end, and at no other minute.
LEMMA ChangesAtBoundary ==
    ASSUME NEW w \in ClockWindow, NEW x \in Minute,
           ~(ContainsClock(w, x) <=> ContainsClock(w, OneLater(x)))
    PROVE  OneLater(x) \in {w.start, w.end}
BY DayAssumption DEF ClockWindow, Minute, ContainsClock, OneLater

LEMMA PeriodChangesAtBoundary ==
    ASSUME NEW s \in PollSchedule, NEW x \in Minute,
           PeriodAt(s, x) # PeriodAt(s, OneLater(x))
    PROVE  OneLater(x) \in Boundaries(s)
<1> SUFFICES ASSUME OneLater(x) \notin Boundaries(s) PROVE FALSE
    OBVIOUS
<1>1. s.sleep \in ClockWindow /\ s.work \subseteq ClockWindow
    BY DEF PollSchedule
<1>2. \A w \in {s.sleep} \union s.work : OneLater(x) \notin {w.start, w.end}
    BY DEF Boundaries
<1>3. \A w \in {s.sleep} \union s.work : ContainsClock(w, x) <=> ContainsClock(w, OneLater(x))
    BY <1>1, <1>2, ChangesAtBoundary
<1> QED
    BY <1>3 DEF PeriodAt

\* Asleep begins at the start of the sleep window, once a day.
LEMMA SleepBegins ==
    ASSUME NEW s \in PollSchedule, ValidatePollSchedule(s), NEW x \in Minute,
           OneLater(x) = s.sleep.start
    PROVE  PeriodAt(s, x) # PeriodAt(s, OneLater(x))
<1>1. s.sleep \in ClockWindow /\ s.sleep.start # s.sleep.end
    BY DEF PollSchedule, ValidatePollSchedule
<1>2. ~ContainsClock(s.sleep, x) /\ ContainsClock(s.sleep, OneLater(x))
    BY <1>1, DayAssumption DEF ClockWindow, Minute, ContainsClock, OneLater
<1> QED
    BY <1>2 DEF PeriodAt

(* nextScheduleTransition looks at the boundaries of the windows only, of  *)
(* three days: for every valid schedule it finds the next minute at which  *)
(* the period changes, and never falls back to the next midnight.          *)
THEOREM TransitionIsNextChange ==
    ASSUME NEW s \in PollSchedule, ValidatePollSchedule(s), NEW m \in Minute
    PROVE  LET changes == {t \in m + 1 .. m + 2 * Day :
                              PeriodAt(s, (t - 1) % Day) # PeriodAt(s, t % Day)}
           IN  /\ NextScheduleTransition(s, m) \in changes
               /\ \A t \in changes : NextScheduleTransition(s, m) <= t
<1> DEFINE Changes(t) == PeriodAt(s, (t - 1) % Day) # PeriodAt(s, t % Day)
           changes == {t \in m + 1 .. m + 2 * Day : Changes(t)}
           ts == Transitions(s, m)
           Least(t) == \A u \in ts : t <= u
<1>d. Day \in Nat /\ Day > 1 /\ m \in Nat /\ m < Day
    BY DayAssumption DEF Minute
<1>b. Boundaries(s) \subseteq Minute
    BY DEF PollSchedule, ClockWindow, Boundaries
<1>1. changes \subseteq ts
  <2> SUFFICES ASSUME NEW t \in changes PROVE t \in ts
      OBVIOUS
  <2>1. t \in Int /\ t > m /\ t <= m + 2 * Day /\ Changes(t)
      BY <1>d
  <2>2. (t - 1) % Day \in Minute /\ t % Day = OneLater((t - 1) % Day)
      BY <2>1, ClockMinute, ClockMoves
  <2>3. t % Day \in Boundaries(s)
      BY <2>1, <2>2, PeriodChangesAtBoundary
  <2> DEFINE d == t \div Day
             b == t % Day
  <2>4. d \in Int /\ b \in 0 .. Day - 1 /\ t = Day * d + b
      BY <1>d, <2>1, Divided
  <2>5. d \in 0 .. 2
    <3>1. d < 0 => Day * d <= -Day
        BY <1>d, <2>4
    <3>2. d > 2 => Day * d >= 3 * Day
        BY <1>d, <2>4
    <3> HIDE DEF d, b
    <3> QED
        BY <1>d, <2>1, <2>4, <3>1, <3>2
  <2>6. t = b + d * Day
      BY <1>d, <2>4
  <2> QED
      BY <2>1, <2>3, <2>5, <2>6 DEF Transitions
<1>2. ts \subseteq Nat /\ \A t \in ts : t > m /\ Changes(t)
    BY <1>b, <1>d DEF Transitions, Minute
\* The sleep window starts within a day.
<1> DEFINE start == s.sleep.start
           t0 == IF m < start THEN start ELSE start + Day
<1>3. start \in Minute
    BY DEF PollSchedule, ClockWindow
<1>4. t0 \in m + 1 .. m + Day
    BY <1>d, <1>3 DEF Minute
<1>5. t0 % Day = start
  <2>1. start % Day = start
      BY <1>d, <1>3 DEF Minute
  <2>2. (start + Day) % Day = start % Day
      BY <1>3, RoundTheClock DEF Minute
  <2> QED
      BY <2>1, <2>2
<1>6. t0 \in changes
  <2>1. t0 \in Int /\ t0 - 1 \in Int
      BY <1>4, <1>d
  <2> HIDE DEF t0
  <2>2. (t0 - 1) % Day \in Minute /\ t0 % Day = OneLater((t0 - 1) % Day)
      BY <2>1, ClockMinute, ClockMoves
  <2>3. Changes(t0)
      BY <1>5, <2>2, SleepBegins
  <2> QED
      BY <1>4, <1>d, <2>3
<1> HIDE DEF t0
<1>7. PICK t \in ts : Least(t)
    BY <1>1, <1>2, <1>6, LeastInstant
<1>8. NextScheduleTransition(s, m) \in ts /\ Least(NextScheduleTransition(s, m))
    BY <1>7 DEF NextScheduleTransition
<1>9. NextScheduleTransition(s, m) <= t0
    BY <1>1, <1>6, <1>8
<1> QED
    BY <1>1, <1>2, <1>4, <1>8, <1>9, <1>d
=============================================================================
