------------------------------ MODULE Calendar ------------------------------
(***************************************************************************)
(* The civil date arithmetic of zrt_time.h (namespace detail), and the     *)
(* calendar it should agree with.                                          *)
(*                                                                         *)
(* The lengths of a minute, an hour and a day are parameters, so that a    *)
(* model can count through centuries second by second; in the code they    *)
(* are 60, 3600 and 86400.  UintMod is the modulus of unsigned arithmetic, *)
(* 2^32.  C's division rounds to zero (CDiv, CMod), TLA+'s down.           *)
(***************************************************************************)
EXTENDS Integers

CONSTANTS Minute, Hour, Day, UintMod

ASSUME UnitsAssumption ==
    /\ Minute \in Nat \ {0} /\ Hour \in Nat /\ Day \in Nat
    /\ Hour % Minute = 0 /\ Hour >= Minute
    /\ Day % Hour = 0 /\ Day >= Hour
    /\ UintMod \in Nat /\ UintMod > 800000

CDiv(a, b) == IF a >= 0 THEN a \div b ELSE -((-a) \div b)
CMod(a, b) == a - b * CDiv(a, b)

Unsigned(n) == n % UintMod

EraOf(n, size) == CDiv(IF n >= 0 THEN n ELSE n - (size - 1), size)

\* Mutant: January and February are not counted to the year before.
DaysFromCivil_YearNotMoved(year, m, d) ==
    LET era == EraOf(year, 400)
        yoe == year - era * 400
        doy == Unsigned((153 * (IF m > 2 THEN m - 3 ELSE m + 9) + 2) \div 5 + d - 1)
        doe == Unsigned(yoe * 365 + yoe \div 4 - yoe \div 100 + doy)
    IN era * 146097 + doe - 719468

\* Days from 1970-01-01 to a date: years begin in March, eras have 400 years.
\* m and d are unsigned, and so are doy and doe.
DaysFromCivil(year, m, d) ==
    LET y == IF m <= 2 THEN year - 1 ELSE year
        era == EraOf(y, 400)
        yoe == y - era * 400
        doy == Unsigned((153 * (IF m > 2 THEN m - 3 ELSE m + 9) + 2) \div 5 + d - 1)
        doe == Unsigned(yoe * 365 + yoe \div 4 - yoe \div 100 + doy)
    IN era * 146097 + doe - 719468

\* The fields of a std::tm that the code uses.
FastTimegm(tm) ==
    DaysFromCivil(tm.year + 1900, Unsigned(tm.mon + 1), Unsigned(tm.mday)) * Day
        + tm.hour * Hour + tm.min * Minute + tm.sec

IsLeap(y) == y % 4 = 0 /\ (y % 100 # 0 \/ y % 400 = 0)

MonthDays == <<0, 31, 59, 90, 120, 151, 181, 212, 243, 273, 304, 334>>

\* Mutant: days before 1970 are not corrected for the rounding to zero.
DayNumber_Rounded(z) == CDiv(z, Day)

\* The number of the day of second z.
DayNumber(z) == CDiv(z, Day) - (IF z < 0 /\ CMod(z, Day) # 0 THEN 1 ELSE 0)

\* The year within an era and the day within a year, of a day of an era; the
\* month, counted from March, of a day of a year.
YearOfEra(doe) ==
    (doe - doe \div 1460 + doe \div 36524 - doe \div 146096) \div 365

DayOfYear(doe) ==
    LET yoe == YearOfEra(doe) IN doe - (365 * yoe + yoe \div 4 - yoe \div 100)

MonthFromMarch(doy) == (5 * doy + 2) \div 153

\* Day n since 1970-01-01.
CivilFromDays(n) ==
    LET days == n + 719468
        era == EraOf(days, 146097)
        doe == days - era * 146097
        y == YearOfEra(doe) + era * 400
        doy == DayOfYear(doe)
        mp == MonthFromMarch(doy)
        mday == doy - (153 * mp + 2) \div 5 + 1
        mon == IF mp < 10 THEN mp + 2 ELSE mp - 10
    IN
    [year |-> (IF mon <= 1 THEN y + 1 ELSE y) - 1900, mon |-> mon, mday |-> mday,
     yday |-> MonthDays[mon + 1] + mday - 1
                  + (IF mon > 1 /\ IsLeap(y) THEN 1 ELSE 0)]

CivilFromEpoch(z) ==
    LET daySeconds == CMod(z, Day)
        date == CivilFromDays(DayNumber(z))
        weekday == CMod(CDiv(z, Day) + 4, 7)
    IN
    [year |-> date.year, mon |-> date.mon, mday |-> date.mday, yday |-> date.yday,
     hour |-> CDiv(daySeconds, Hour),
     min  |-> CDiv(CMod(daySeconds, Hour), Minute),
     sec  |-> CMod(daySeconds, Minute),
     wday |-> IF weekday < 0 THEN weekday + 7 ELSE weekday,
     isdst |-> 0]

----------------------------------------------------------------------------
(* The calendar, by counting leap years and the lengths of months. *)

LeapYearsBefore(y) == (y - 1) \div 4 - (y - 1) \div 100 + (y - 1) \div 400

DaysInMonth(y, mon) ==
    IF mon \in {3, 5, 8, 10} THEN 30
    ELSE IF mon = 1 THEN (IF IsLeap(y) THEN 29 ELSE 28) ELSE 31

DaysBeforeMonth(y, mon) ==
    MonthDays[mon + 1] + (IF mon > 1 /\ IsLeap(y) THEN 1 ELSE 0)

\* Days from 1970-01-01 to the first of month mon (from 0) of year y.
FirstOfMonth(y, mon) ==
    365 * (y - 1970) + LeapYearsBefore(y) - LeapYearsBefore(1970)
        + DaysBeforeMonth(y, mon)

\* The second that a std::tm stands for, when its fields may lie outside
\* their ranges: months run on into other years, days into other months.
SecondOf(tm) ==
    LET y == tm.year + 1900 + tm.mon \div 12
    IN (FirstOfMonth(y, tm.mon % 12) + tm.mday - 1) * Day
           + tm.hour * Hour + tm.min * Minute + tm.sec

\* A date that exists, and is that of day number n.
IsDateOf(tm, n) ==
    LET y == tm.year + 1900 IN
    /\ tm.mon \in 0 .. 11
    /\ tm.mday \in 1 .. DaysInMonth(y, tm.mon)
    /\ FirstOfMonth(y, tm.mon) + tm.mday - 1 = n
    /\ tm.yday = DaysBeforeMonth(y, tm.mon) + tm.mday - 1

\* The time of day and the weekday of second z (1970-01-01 was a Thursday).
IsTimeOf(tm, z) ==
    /\ tm.hour \in 0 .. Day \div Hour - 1
    /\ tm.min \in 0 .. Hour \div Minute - 1
    /\ tm.sec \in 0 .. Minute - 1
    /\ (z \div Day) * Day + tm.hour * Hour + tm.min * Minute + tm.sec = z
    /\ tm.wday = (z \div Day + 4) % 7

============================================================================
