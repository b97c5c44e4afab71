---------------------------- MODULE CivilCalendar ---------------------------
(***************************************************************************)
(* The calendar arithmetic of rfc3339_to_unix (runner.rs): the days from   *)
(* 1970-01-01 to a date, by Hinnant's algorithm, beside a walk that knows  *)
(* nothing but the lengths of the months.                                  *)
(***************************************************************************)
EXTENDS Integers

CONSTANTS
    Anchors,        \* [y, m, d, days]: dates whose day number is known.
    Span            \* Bound on the days walked from an anchor.

VARIABLES
    date,           \* The day the walk is at.
    left            \* The days it has left.

walkVars == <<date, left>>

-----------------------------------------------------------------------------

\* Mutant of DaysFromCivil: every fourth year is a leap year.
DaysJulian(y, m, d) ==
    LET z == IF m > 2 THEN y ELSE y - 1
        doy == (153 * (IF m > 2 THEN m - 3 ELSE m + 9) + 2) \div 5 + d - 1
    IN  z * 365 + z \div 4 + doy - 719483

\* Days since 1970-01-01; years begin in March, eras have 400 years.
DaysFromCivil(y, m, d) ==
    LET z == IF m > 2 THEN y ELSE y - 1
        era == z \div 400
        yoe == z - era * 400
        doy == (153 * (IF m > 2 THEN m - 3 ELSE m + 9) + 2) \div 5 + d - 1
        doe == yoe * 365 + yoe \div 4 - yoe \div 100 + doy
    IN  era * 146097 + doe - 719468

\* The reference.
Leap(y) == y % 4 = 0 /\ (y % 100 # 0 \/ y % 400 = 0)
LastOf(y, m) ==
    IF m = 2 THEN 28 + (IF Leap(y) THEN 1 ELSE 0) ELSE IF m \in {4, 6, 9, 11} THEN 30 ELSE 31

ASSUME CalendarAssumption ==
    /\ Anchors \subseteq [y : Nat, m : 1 .. 12, d : 1 .. 31, days : Int]
    /\ \A a \in Anchors : a.d <= LastOf(a.y, a.m)
    /\ Span \in Nat

NextDay(a) ==
    [y |-> IF a.m = 12 /\ a.d = 31 THEN a.y + 1 ELSE a.y,
     m |-> IF a.d < LastOf(a.y, a.m) THEN a.m ELSE (a.m % 12) + 1,
     d |-> IF a.d < LastOf(a.y, a.m) THEN a.d + 1 ELSE 1,
     days |-> a.days + 1]

-----------------------------------------------------------------------------

CalendarInit == date \in Anchors /\ left = Span

CalendarNext == left > 0 /\ date' = NextDay(date) /\ left' = left - 1

CalendarSpec == CalendarInit /\ [][CalendarNext]_walkVars

\* The day after any date is the next day number: across the ends of months and
\* years, in leap years, in centuries that are not leap years and in 2000.
CalendarAgrees == DaysFromCivil(date.y, date.m, date.d) = date.days
=============================================================================
