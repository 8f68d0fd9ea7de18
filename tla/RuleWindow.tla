----------------------------- MODULE RuleWindow -----------------------------
(***************************************************************************)
(* The calendar of the program, and the time windows of its source rules   *)
(* (internal/rules/rules.go: activeAt, dayOK).  An instant is a number of  *)
(* ticks since the first midnight; a tick is shorter than a second, so     *)
(* that truncation shows, and the lengths of a second, a minute and a day  *)
(* in ticks are parameters.  There is no summer time.                      *)
(***************************************************************************)
EXTENDS Integers

CONSTANTS MinuteTicks, DayTicks,
          FirstWeekday,  \* of day 0, as in package time: 0 is Sunday
          DaySets        \* the sets of weekdays to look at; {} is every day

ASSUME CalendarAssumption == /\ MinuteTicks \in Nat \ {0}
                             /\ DayTicks \in Nat \ {0}
                             /\ DayTicks % MinuteTicks = 0
                             /\ FirstWeekday \in 0..6
                             /\ DaySets \subseteq SUBSET (0..6)

Day(t) == t \div DayTicks
Weekday(day) == (day + FirstWeekday) % 7
Minute(t) == (t % DayTicks) \div MinuteTicks   \* t.Hour()*60 + t.Minute()

(* A rule's window: minutes of the day, and weekdays.                      *)
Windows == [start : 0..(DayTicks \div MinuteTicks) - 1,
            end   : 0..(DayTicks \div MinuteTicks) - 1,
            days  : DaySets]

DayOK(r, day) == r.days = {} \/ Weekday(day) \in r.days

ActiveAtByToday(r, t) ==            \* bug: after midnight, today's weekday
    LET m == Minute(t)  d == Day(t) IN
    /\ \/ r.start = r.end
       \/ r.start < r.end /\ r.start <= m /\ m < r.end
       \/ r.start > r.end /\ (r.start <= m \/ m < r.end)
    /\ DayOK(r, d)

(* After midnight a window that began yesterday is still yesterday's.      *)
ActiveAt(r, t) ==
    LET m == Minute(t)  d == Day(t) IN
    \/ r.start = r.end /\ DayOK(r, d)
    \/ r.start < r.end /\ r.start <= m /\ m < r.end /\ DayOK(r, d)
    \/ r.start > r.end /\ r.start <= m /\ DayOK(r, d)
    \/ r.start > r.end /\ m < r.end /\ DayOK(r, d - 1)

(* What the user means: the window opens on each of the rule's days and is *)
(* one interval of time, over midnight if it must (all day, from midnight, *)
(* when it ends where it begins).                                          *)
Opens(r, day) == IF r.start = r.end THEN day * DayTicks
                 ELSE day * DayTicks + r.start * MinuteTicks
Closes(r, day) == IF r.start = r.end THEN (day + 1) * DayTicks
                  ELSE (IF r.start < r.end THEN day ELSE day + 1) * DayTicks
                       + r.end * MinuteTicks
InWindow(r, t) == \E day \in (Day(t) - 1)..Day(t) :
    DayOK(r, day) /\ Opens(r, day) <= t /\ t < Closes(r, day)
=============================================================================
