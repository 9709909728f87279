------------------------- MODULE SingleThreadProofs -------------------------
(***************************************************************************)
(* Proofs about the classes whose objects belong to one thread.  Calendar  *)
(* and DateTime: for any epoch, any settings and offsets, any zone, and any*)
(* lengths of minute, hour and day.  UltraBuf: for any size of its blocks, *)
(* any limit, and any amounts of data pushed and pulled.                   *)
(***************************************************************************)
EXTENDS DateTime, UltraBuf, SequenceTheorems, WellFoundedInduction, TLAPS

----------------------------------------------------------------------------
(* Quotients and remainders *)

\* A product grows by at least its second factor with its first factor.
LEMMA ProductGrows ==
    ASSUME NEW x \in Int, NEW y \in Int, NEW k \in Nat, x < y
    PROVE  x * k + k <= y * k
<1> DEFINE d == y - x - 1
<1>1. d \in Nat
  OBVIOUS
<1>2. y * k = (x + 1 + d) * k
  BY <1>1
<1>3. (x + 1 + d) * k = x * k + k + d * k
  BY <1>1
<1>4. d * k \in Nat
  BY <1>1
<1>. QED
  BY <1>2, <1>3, <1>4

\* A number is made up of its quotient and its remainder.
LEMMA DivMod ==
    ASSUME NEW n \in Int, NEW d \in Nat \ {0}
    PROVE  /\ n \div d \in Int /\ n % d \in Int
           /\ 0 <= n % d /\ n % d < d
           /\ n = (n \div d) * d + (n % d)
  OBVIOUS

\* In no other way.
LEMMA DivModUnique ==
    ASSUME NEW d \in Nat \ {0}, NEW q \in Int, NEW r \in Int, 0 <= r, r < d
    PROVE  /\ (q * d + r) \div d = q
           /\ (q * d + r) % d = r
<1> DEFINE n == q * d + r
           p == n \div d
           m == n % d
<1>1. n \in Int
  OBVIOUS
<1>2. /\ p \in Int /\ m \in Int /\ 0 <= m /\ m < d
      /\ n = p * d + m
  BY <1>1, DivMod
<1>3. q * d \in Int /\ p * d \in Int
  BY <1>2
<1> HIDE DEF p, m
<1>4. ~(p < q)
  <2>1. p < q => p * d + d <= q * d
    BY <1>2, ProductGrows
  <2>. QED
    BY <1>2, <1>3, <2>1
<1>5. ~(q < p)
  <2>1. q < p => q * d + d <= p * d
    BY <1>2, ProductGrows
  <2>. QED
    BY <1>2, <1>3, <2>1
<1>6. p = q /\ m = r
  BY <1>2, <1>4, <1>5
<1>. QED
  BY <1>6 DEF p, m

\* Rounding to zero is rounding down for what is not negative, and for what
\* is divided without a rest.
LEMMA RoundedDown ==
    ASSUME NEW n \in Int, NEW d \in Nat \ {0}, n >= 0 \/ n % d = 0
    PROVE  CDiv(n, d) = n \div d /\ CMod(n, d) = n % d
<1> DEFINE q == n \div d
<1>1. q \in Int /\ n = q * d + (n % d) /\ q * d \in Int
  BY DivMod
<1>2. CDiv(n, d) = q
  <2>1. CASE n >= 0
    BY <2>1 DEF CDiv
  <2>2. CASE n < 0 /\ n % d = 0
    <3>1. -n = (-q) * d + 0
      BY <1>1, <2>2
    <3>2. (-n) \div d = -q
      BY <1>1, <3>1, DivModUnique
    <3>. QED
      BY <1>1, <2>2, <3>2 DEF CDiv
  <2>. QED
    BY <2>1, <2>2
<1>3. d * q = q * d
  BY <1>1
<1>. QED
  BY <1>1, <1>2, <1>3 DEF CMod

\* Otherwise it is one more.
LEMMA RoundedUp ==
    ASSUME NEW n \in Int, NEW d \in Nat \ {0}, n < 0, n % d # 0
    PROVE  CDiv(n, d) = n \div d + 1 /\ CMod(n, d) = (n % d) - d /\ CMod(n, d) # 0
<1> DEFINE q == n \div d
           r == n % d
<1>1. q \in Int /\ r \in Int /\ 0 < r /\ r < d /\ n = q * d + r /\ q * d \in Int
  BY DivMod
<1>. HIDE DEF q, r
<1>2. -n = (-q - 1) * d + (d - r)
  <2>1. (-q - 1) * d = -(q * d) - d
    BY <1>1
  <2>. QED
    BY <1>1, <2>1
<1>3. (-n) \div d = -q - 1
  BY <1>1, <1>2, DivModUnique
<1>4. CDiv(n, d) = q + 1
  BY <1>1, <1>3 DEF CDiv
<1>5. CMod(n, d) = r - d
  <2>1. d * (q + 1) = q * d + d
    BY <1>1
  <2>. QED
    BY <1>1, <1>4, <2>1 DEF CMod
<1>. QED
  BY <1>1, <1>4, <1>5 DEF q, r

LEMMA DayUnits ==
    /\ Minute \in Nat \ {0} /\ Hour \in Nat \ {0} /\ Day \in Nat \ {0}
    /\ Hour % Minute = 0 /\ Day % Hour = 0
  BY UnitsAssumption

\* DayNumber rounds down for every second.
LEMMA DayNumberDown ==
    ASSUME NEW z \in Int
    PROVE  DayNumber(z) = z \div Day
<1>0. Day \in Nat \ {0}
  BY DayUnits
<1>1. CASE z >= 0
  BY <1>0, <1>1, RoundedDown, DivMod DEF DayNumber
<1>2. CASE z < 0 /\ z % Day = 0
  BY <1>0, <1>2, RoundedDown, DivMod DEF DayNumber
<1>3. CASE z < 0 /\ z % Day # 0
  <2>1. CDiv(z, Day) = z \div Day + 1 /\ CMod(z, Day) # 0
    BY <1>0, <1>3, RoundedUp
  <2>. QED
    BY <1>0, <1>3, <2>1, DivMod DEF DayNumber
<1>. QED
  BY <1>1, <1>2, <1>3

----------------------------------------------------------------------------
(* The date of a day *)

\* The year of an era and the day of a year that begins in March, of the day
\* of an era: only the last day of a leap year has number 365.
LEMMA YearWithinEra ==
    ASSUME NEW doe \in Int, 0 <= doe, doe <= 146096,
           NEW yoe \in Int,
           yoe = (doe - doe \div 1460 + doe \div 36524 - doe \div 146096) \div 365,
           NEW doy \in Int, doy = doe - (365 * yoe + yoe \div 4 - yoe \div 100)
    PROVE  /\ 0 <= yoe /\ yoe <= 399
           /\ 0 <= doy /\ doy <= 365
           /\ doy = 365 => yoe % 4 = 3 /\ (yoe % 100 # 99 \/ yoe = 399)
<1>1. 0 <= yoe /\ yoe <= 399
  OBVIOUS
<1>2. doy >= 0
  BY <1>1
<1>3. doy <= 365
  BY <1>1
<1>4. doy = 365 => yoe % 4 = 3 /\ (yoe % 100 # 99 \/ yoe = 399)
  BY <1>1
<1>. QED
  BY <1>1, <1>2, <1>3, <1>4

\* The month, counted from March, and the day of the month.
LEMMA MonthOfYear ==
    ASSUME NEW doy \in Int, 0 <= doy, doy <= 365,
           NEW mp \in Int, mp = (5 * doy + 2) \div 153,
           NEW mday \in Int, mday = doy - ((153 * mp + 2) \div 5) + 1
    PROVE  /\ 0 <= mp /\ mp <= 11
           /\ 1 <= mday /\ mday <= 31
           /\ mp \in {1, 3, 6, 8} => mday <= 30
           /\ mp = 11 => mday <= 29 /\ (mday = 29 => doy = 365)
<1>1. 0 <= mp /\ mp <= 11
  OBVIOUS
<1>2. 1 <= mday /\ mday <= 31
  BY <1>1
<1>3. mp \in {1, 3, 6, 8} => mday <= 30
  BY <1>1
<1>4. mp = 11 => mday <= 29 /\ (mday = 29 => doy = 365)
  BY <1>1
<1>. QED
  BY <1>1, <1>2, <1>3, <1>4

\* Month mon is number mp from March on; year y, which begins in March, is number
\* yoe of its era, and the next one is y1.
IsMonth(mp, mon) ==
    /\ mp \in Int /\ 0 <= mp /\ mp <= 11
    /\ mon \in Int /\ mon = IF mp < 10 THEN mp + 2 ELSE mp - 10
IsYear(era, yoe, y, y1) ==
    /\ era \in Int /\ yoe \in Int /\ 0 <= yoe /\ yoe <= 399
    /\ y \in Int /\ y = yoe + era * 400
    /\ y1 \in Int /\ y1 = y + 1

\* Days before a month from March on, and before January and February of the
\* year after.
LEMMA MonthTable ==
    ASSUME NEW mp, NEW mon, IsMonth(mp, mon)
    PROVE  /\ MonthDays[mon + 1] \in Int
           /\ mp < 10 => MonthDays[mon + 1] = 59 + ((153 * mp + 2) \div 5)
           /\ mp >= 10 => 365 + MonthDays[mon + 1] = 59 + ((153 * mp + 2) \div 5)
<1>. /\ mp \in Int /\ 0 <= mp /\ mp <= 11
     /\ mon \in Int /\ mon = IF mp < 10 THEN mp + 2 ELSE mp - 10
  BY DEF IsMonth
<1>1. \/ mp = 0 \/ mp = 1 \/ mp = 2 \/ mp = 3 \/ mp = 4 \/ mp = 5
      \/ mp = 6 \/ mp = 7 \/ mp = 8 \/ mp = 9 \/ mp = 10 \/ mp = 11
  OBVIOUS
<1>2. /\ MonthDays[1] = 0 /\ MonthDays[2] = 31 /\ MonthDays[3] = 59 /\ MonthDays[4] = 90
      /\ MonthDays[5] = 120 /\ MonthDays[6] = 151 /\ MonthDays[7] = 181 /\ MonthDays[8] = 212
      /\ MonthDays[9] = 243 /\ MonthDays[10] = 273 /\ MonthDays[11] = 304 /\ MonthDays[12] = 334
  BY DEF MonthDays
<1>. HIDE DEF MonthDays
<1>. QED
  BY <1>1, <1>2

\* Leap years before year y and before the next.
LEMMA LeapYears ==
    ASSUME NEW era, NEW yoe, NEW y, NEW y1, IsYear(era, yoe, y, y1)
    PROVE  /\ LeapYearsBefore(y1) = era * 97 + yoe \div 4 - yoe \div 100
           /\ LeapYearsBefore(y) = era * 97 + yoe \div 4 - yoe \div 100
                                        - (IF IsLeap(y) THEN 1 ELSE 0)
           /\ yoe % 4 = 3 /\ (yoe % 100 # 99 \/ yoe = 399) => IsLeap(y1)
<1>1. /\ era \in Int /\ yoe \in Int /\ 0 <= yoe /\ yoe <= 399
      /\ y \in Int /\ y = yoe + era * 400
      /\ y1 \in Int /\ y1 = y + 1
  BY DEF IsYear
<1>2. \A e, o, x, x1 \in Int : x = o + e * 400 /\ x1 = x + 1 /\ 0 <= o /\ o <= 399 =>
          /\ LeapYearsBefore(x1) = e * 97 + o \div 4 - o \div 100
          /\ LeapYearsBefore(x) = e * 97 + o \div 4 - o \div 100 - (IF IsLeap(x) THEN 1 ELSE 0)
          /\ o % 4 = 3 /\ (o % 100 # 99 \/ o = 399) => IsLeap(x1)
  BY SMTT(30) DEF LeapYearsBefore, IsLeap
<1>. QED
  BY <1>1, <1>2, SMTT(30)

\* Days from 1970-01-01 to the first of a month.
LEMMA FirstOfMonthDays ==
    ASSUME NEW y \in Int, NEW mon \in Int, DaysBeforeMonth(y, mon) \in Int
    PROVE  FirstOfMonth(y, mon) =
               365 * y - 719527 + LeapYearsBefore(y) + DaysBeforeMonth(y, mon)
<1>1. LeapYearsBefore(1970) = 477
  BY SMTT(20) DEF LeapYearsBefore
<1>2. 365 * (y - 1970) = 365 * y - 719050
  BY SMTT(20)
<1>3. LeapYearsBefore(y) \in Int
  BY DEF LeapYearsBefore
<1>. QED
  BY <1>1, <1>2, <1>3, SMTT(20) DEF FirstOfMonth

\* The first day of a month, counted from March of the year y = yoe + era * 400.
LEMMA MonthStart ==
    ASSUME NEW era, NEW yoe, NEW y, NEW y1, NEW mp, NEW mon, NEW year,
           IsYear(era, yoe, y, y1), IsMonth(mp, mon), year = IF mp < 10 THEN y ELSE y1
    PROVE  /\ DaysBeforeMonth(year, mon) \in Int
           /\ FirstOfMonth(year, mon) =
                  365 * yoe + yoe \div 4 - yoe \div 100 + ((153 * mp + 2) \div 5)
                      - 719468 + era * 146097
<1>1. /\ MonthDays[mon + 1] \in Int
      /\ mp < 10 => MonthDays[mon + 1] = 59 + ((153 * mp + 2) \div 5)
      /\ mp >= 10 => 365 + MonthDays[mon + 1] = 59 + ((153 * mp + 2) \div 5)
  BY MonthTable
<1>2. /\ era \in Int /\ yoe \in Int /\ 0 <= yoe /\ yoe <= 399
      /\ y \in Int /\ y = yoe + era * 400
      /\ y1 \in Int /\ y1 = y + 1
      /\ mp \in Int /\ 0 <= mp /\ mp <= 11
      /\ mon \in Int /\ mon = IF mp < 10 THEN mp + 2 ELSE mp - 10
      /\ year \in Int
  BY DEF IsYear, IsMonth
<1>3. /\ LeapYearsBefore(y1) = era * 97 + yoe \div 4 - yoe \div 100
      /\ LeapYearsBefore(y) = era * 97 + yoe \div 4 - yoe \div 100
                                     - (IF IsLeap(y) THEN 1 ELSE 0)
  BY LeapYears
<1>4. LeapYearsBefore(year) + DaysBeforeMonth(year, mon) =
          era * 97 + yoe \div 4 - yoe \div 100 + MonthDays[mon + 1]
  <2>1. CASE mp < 10
    BY <1>1, <1>2, <1>3, <2>1, SMTT(20) DEF DaysBeforeMonth
  <2>2. CASE mp >= 10
    BY <1>1, <1>2, <1>3, <2>2, SMTT(20) DEF DaysBeforeMonth
  <2>. QED
    BY <1>2, <2>1, <2>2, SMTT(20)
<1>5. DaysBeforeMonth(year, mon) \in Int /\ LeapYearsBefore(year) \in Int
  BY <1>1, <1>2, SMTT(20) DEF DaysBeforeMonth, LeapYearsBefore
<1>6. FirstOfMonth(year, mon) =
          365 * year - 719527 + LeapYearsBefore(year) + DaysBeforeMonth(year, mon)
  BY <1>2, <1>5, FirstOfMonthDays, SMTT(20)
<1>7. FirstOfMonth(year, mon) =
          365 * year - 719527 + era * 97 + yoe \div 4 - yoe \div 100 + MonthDays[mon + 1]
  BY <1>1, <1>2, <1>4, <1>5, <1>6, SMTT(20)
<1>8. 365 * y = 365 * yoe + era * 146000
  BY <1>2, SMTT(20)
<1>9. CASE mp < 10
  BY <1>1, <1>2, <1>5, <1>7, <1>8, <1>9, SMTT(20)
<1>10. CASE mp >= 10
  BY <1>1, <1>2, <1>5, <1>7, <1>8, <1>10, SMTT(20)
<1>. QED
  BY <1>2, <1>5, <1>9, <1>10, SMTT(20)

\* The date of day n since 1970-01-01, as CivilFromDays computes it, is the
\* one of the calendar.
LEMMA DateOfDay ==
    ASSUME NEW n \in Int
    PROVE  /\ IsDateOf(CivilFromDays(n), n)
           /\ CivilFromDays(n).year \in Int /\ CivilFromDays(n).mon \in Int
           /\ CivilFromDays(n).mday \in Int /\ CivilFromDays(n).yday \in Int
<1> DEFINE tm == CivilFromDays(n)
           days == n + 719468
           era == EraOf(days, 146097)
           doe == days - era * 146097
           yoe == YearOfEra(doe)
           y == yoe + era * 400
           doy == DayOfYear(doe)
           mp == MonthFromMarch(doy)
           mday == doy - ((153 * mp + 2) \div 5) + 1
           mon == IF mp < 10 THEN mp + 2 ELSE mp - 10
           year == IF mon <= 1 THEN y + 1 ELSE y
<1>1. /\ tm.year = year - 1900 /\ tm.mon = mon /\ tm.mday = mday
      /\ tm.yday = MonthDays[mon + 1] + mday - 1 + (IF mon > 1 /\ IsLeap(y) THEN 1 ELSE 0)
  BY SMTT(30) DEF CivilFromDays
<1>2. days = n + 719468
  BY SMT
<1>. HIDE DEF tm, days
<1>3. days \in Int
  BY <1>2, SMTT(20)
<1>4. era \in Int /\ doe \in Int /\ 0 <= doe /\ doe <= 146096
  BY <1>3, SMTT(20) DEF EraOf, CDiv
<1>. HIDE DEF era
<1>5. doe = n + 719468 - era * 146097
  BY <1>2, <1>4, SMTT(20)
<1>. HIDE DEF doe
<1>6. yoe \in Int /\ yoe = (doe - doe \div 1460 + doe \div 36524 - doe \div 146096) \div 365
  BY <1>4, SMTT(20) DEF YearOfEra
<1>7. doy \in Int /\ doy = doe - (365 * yoe + yoe \div 4 - yoe \div 100)
  BY <1>4, <1>6, SMTT(20) DEF DayOfYear
<1>8. /\ 0 <= yoe /\ yoe <= 399 /\ 0 <= doy /\ doy <= 365
      /\ doy = 365 => yoe % 4 = 3 /\ (yoe % 100 # 99 \/ yoe = 399)
  BY <1>4, <1>6, <1>7, YearWithinEra, SMTT(20)
<1>9. doe = 365 * yoe + yoe \div 4 - yoe \div 100 + doy
  BY <1>4, <1>6, <1>7, SMTT(20)
<1>10. y \in Int /\ y = yoe + era * 400
  BY <1>4, <1>6, SMTT(20)
<1>. HIDE DEF yoe
<1>. HIDE DEF y, doy
<1>11. mp \in Int /\ mp = (5 * doy + 2) \div 153 /\ mday \in Int
  BY <1>7, SMTT(20) DEF MonthFromMarch
<1>12. /\ 0 <= mp /\ mp <= 11 /\ 1 <= mday /\ mday <= 31
       /\ mp \in {1, 3, 6, 8} => mday <= 30
       /\ mp = 11 => mday <= 29 /\ (mday = 29 => doy = 365)
  BY <1>7, <1>8, <1>11, MonthOfYear, SMTT(20)
<1>13. doy = mday - 1 + ((153 * mp + 2) \div 5)
  BY <1>7, <1>11, SMTT(20)
<1>. HIDE DEF mp, mday
<1>14. mon \in Int /\ mon = IF mp < 10 THEN mp + 2 ELSE mp - 10
  BY <1>11, SMTT(20)
<1>15. /\ MonthDays[mon + 1] \in Int
       /\ mp < 10 => MonthDays[mon + 1] = 59 + ((153 * mp + 2) \div 5)
       /\ mp >= 10 => 365 + MonthDays[mon + 1] = 59 + ((153 * mp + 2) \div 5)
  <2>1. IsMonth(mp, mon)
    BY <1>11, <1>12, <1>14, SMTT(20) DEF IsMonth
  <2>. QED
    BY <2>1, MonthTable
<1>. HIDE DEF mon
<1>16. year \in Int /\ (mp < 10 => mon >= 2 /\ year = y) /\ (mp >= 10 => mon <= 1 /\ year = y + 1)
  BY <1>10, <1>11, <1>12, <1>14, SMTT(20)
<1>. HIDE DEF year
<1>17. PICK y1 \in Int : y1 = y + 1 /\ IsYear(era, yoe, y, y1)
  <2>1. y + 1 \in Int
    BY <1>10
  <2>. QED
    BY <1>4, <1>6, <1>8, <1>10, <2>1, SMTT(20) DEF IsYear
<1>17a. yoe % 4 = 3 /\ (yoe % 100 # 99 \/ yoe = 399) => IsLeap(y1)
  BY <1>17, LeapYears
<1>18. mon \in 0 .. 11
  BY <1>11, <1>12, <1>14, SMTT(20)
<1>19. mday <= DaysInMonth(year, mon)
  <2>1. mon = 1 => mp = 11 /\ year = y1
    BY <1>11, <1>12, <1>14, <1>16, <1>17, SMTT(20)
  <2>2. mon \in {3, 5, 8, 10} => mp \in {1, 3, 6, 8}
    BY <1>11, <1>12, <1>14, SMTT(20)
  <2>3. mon = 1 /\ mday = 29 => IsLeap(year)
    BY <1>8, <1>12, <1>17a, <2>1, SMTT(20)
  <2>. QED
    BY <1>11, <1>12, <2>1, <2>2, <2>3, SMTT(20) DEF DaysInMonth
<1>20. FirstOfMonth(year, mon) + mday - 1 = n
  <2>1. year = IF mp < 10 THEN y ELSE y1
    BY <1>11, <1>16, <1>17, SMTT(20)
  <2>2. IsMonth(mp, mon)
    BY <1>11, <1>12, <1>14, SMTT(20) DEF IsMonth
  <2>3. FirstOfMonth(year, mon) =
            365 * yoe + yoe \div 4 - yoe \div 100 + ((153 * mp + 2) \div 5)
                - 719468 + era * 146097
    BY <1>17, <2>1, <2>2, MonthStart, SMTT(30)
  <2>4. n = 365 * yoe + yoe \div 4 - yoe \div 100 + doy - 719468 + era * 146097
    BY <1>2, <1>4, <1>5, <1>6, <1>7, <1>9, SMTT(20)
  <2>5. era \in Int /\ yoe \in Int /\ doy \in Int
    <3>1. era \in Int
      BY <1>4, SMTT(20)
    <3>2. yoe \in Int
      BY <1>6, SMTT(20)
    <3>3. doy \in Int
      BY <1>7, SMTT(20)
    <3>. QED
      BY <3>1, <3>2, <3>3
  <2>6. mday \in Int /\ mp \in Int
    BY <1>11, SMTT(20)
  <2>. QED
    BY <1>13, <2>3, <2>4, <2>5, <2>6, SMTT(20)
<1>21. tm.yday = DaysBeforeMonth(year, mon) + mday - 1 /\ tm.yday \in Int
  <2>1. mon > 1 => year = y
    BY <1>11, <1>12, <1>14, <1>16, SMTT(20)
  <2>. QED
    BY <1>1, <1>11, <1>14, <1>15, <2>1, SMTT(20) DEF DaysBeforeMonth
<1>22. tm.year + 1900 = year
  BY <1>1, <1>16, SMTT(20)
<1>23. mday \in 1 .. DaysInMonth(year, mon)
  <2>1. DaysInMonth(year, mon) \in Int
    BY SMTT(20) DEF DaysInMonth
  <2>. QED
    BY <1>11, <1>12, <1>19, <2>1, SMTT(20)
<1>24. IsDateOf(tm, n)
  BY <1>1, <1>18, <1>20, <1>21, <1>22, <1>23, SMTT(20) DEF IsDateOf
<1>. QED
  BY <1>1, <1>11, <1>14, <1>16, <1>21, <1>24, SMTT(20) DEF tm

\* So is that of the day of second z, which is rounded down.
LEMMA CivilDate ==
    ASSUME NEW z \in Int
    PROVE  /\ IsDateOf(CivilFromEpoch(z), z \div Day)
           /\ CivilFromEpoch(z).year \in Int /\ CivilFromEpoch(z).mon \in Int
           /\ CivilFromEpoch(z).mday \in Int /\ CivilFromEpoch(z).yday \in Int
<1>. DEFINE d == CivilFromDays(DayNumber(z))
            tm == CivilFromEpoch(z)
            n == z \div Day
<1>1. n \in Int /\ DayNumber(z) = n
  BY DayUnits, DayNumberDown
<1>2. tm.year = d.year /\ tm.mon = d.mon /\ tm.mday = d.mday /\ tm.yday = d.yday
  BY DEF CivilFromEpoch
<1>. HIDE DEF d, tm, n
<1>3. /\ IsDateOf(d, n)
      /\ d.year \in Int /\ d.mon \in Int /\ d.mday \in Int /\ d.yday \in Int
  BY <1>1, DateOfDay DEF d
<1>4. IsDateOf(tm, n)
  BY <1>2, <1>3 DEF IsDateOf
<1>. QED
  BY <1>2, <1>3, <1>4 DEF tm, n

----------------------------------------------------------------------------
(* The time of a day *)

\* What lies below a multiple of d has a quotient below the multiple's.
LEMMA QuotientBelow ==
    ASSUME NEW d \in Nat \ {0}, NEW n \in Nat, n % d = 0, NEW r \in Int, 0 <= r, r < n
    PROVE  r \div d \in Int /\ 0 <= r \div d /\ r \div d <= n \div d - 1
<1> DEFINE q == r \div d
           p == n \div d
           m == r % d
<1>1. /\ q \in Int /\ m \in Int /\ 0 <= m /\ m < d /\ r = q * d + m
      /\ p \in Int /\ n = p * d
  <2>1. n = p * d + 0 /\ p \in Int
    BY DivMod
  <2>2. p * d \in Int
    BY <2>1
  <2>. QED
    BY <2>1, <2>2, DivMod
<1>2. q * d \in Int /\ p * d \in Int
  BY <1>1
<1>. HIDE DEF q, p, m
<1>3. ~(q < 0)
  <2>1. q < 0 => q * d + d <= 0 * d
    BY <1>1, ProductGrows
  <2>. QED
    BY <1>1, <1>2, <2>1
<1>4. ~(p <= q)
  <2>1. p < q => p * d + d <= q * d
    BY <1>1, ProductGrows
  <2>. QED
    BY <1>1, <1>2, <2>1
<1>. QED
  BY <1>1, <1>3, <1>4 DEF q, p

\* Hours, minutes and seconds of a day make up its second s.
LEMMA ClockTime ==
    ASSUME NEW s \in Int, 0 <= s, s < Day
    PROVE  /\ s \div Hour \in 0 .. Day \div Hour - 1
           /\ (s % Hour) \div Minute \in 0 .. Hour \div Minute - 1
           /\ s % Minute \in 0 .. Minute - 1
           /\ (s \div Hour) * Hour + ((s % Hour) \div Minute) * Minute + (s % Minute) = s
<1> DEFINE h == s \div Hour
           r == s % Hour
           m == r \div Minute
           t == r % Minute
           k == Hour \div Minute
<1>1. /\ h \in Int /\ r \in Int /\ 0 <= r /\ r < Hour /\ s = h * Hour + r
      /\ h * Hour \in Int
  BY DayUnits, DivMod
<1>. HIDE DEF h, r
<1>2. /\ m \in Int /\ t \in Int /\ 0 <= t /\ t < Minute /\ r = m * Minute + t
      /\ m * Minute \in Int
  BY <1>1, DayUnits, DivMod
<1>3. k \in Int /\ Hour = k * Minute
  <2>1. Hour = k * Minute + 0 /\ k \in Int
    BY DayUnits, DivMod
  <2>2. k * Minute \in Int
    BY <2>1, DayUnits
  <2>. QED
    BY <2>1, <2>2
<1>. HIDE DEF m, t, k
<1>4. s = (h * k + m) * Minute + t
  <2>1. (h * k + m) * Minute = h * (k * Minute) + m * Minute
    BY <1>1, <1>2, <1>3, DayUnits
  <2>. QED
    BY <1>1, <1>2, <1>3, <2>1
<1>5. s % Minute = t
  <2>1. h * k + m \in Int
    BY <1>1, <1>2, <1>3
  <2>. QED
    BY <1>2, <1>4, <2>1, DayUnits, DivModUnique
<1>6. h \in 0 .. Day \div Hour - 1
  <2>1. s \div Hour \in Int /\ 0 <= s \div Hour /\ s \div Hour <= Day \div Hour - 1
    BY DayUnits, QuotientBelow
  <2>2. Day \div Hour \in Int
    BY DayUnits
  <2>. QED
    BY <2>1, <2>2 DEF h
<1>7. m \in 0 .. k - 1
  <2>1. r \div Minute \in Int /\ 0 <= r \div Minute /\ r \div Minute <= Hour \div Minute - 1
    BY <1>1, DayUnits, QuotientBelow
  <2>. QED
    BY <1>3, <2>1 DEF m, k
<1>8. t \in 0 .. Minute - 1
  BY <1>2, DayUnits
<1>9. h * Hour + m * Minute + t = s
  BY <1>1, <1>2
<1>. QED
  BY <1>5, <1>6, <1>7, <1>8, <1>9 DEF h, m, r, k

\* C's division yields integers.
LEMMA CDivInt ==
    ASSUME NEW a \in Int, NEW b \in Nat \ {0}
    PROVE  CDiv(a, b) \in Int /\ CMod(a, b) \in Int
  BY DEF CDiv, CMod

\* The day of the week, from the day's number.
LEMMA Weekday ==
    ASSUME NEW n \in Int
    PROVE  LET w == CMod(n + 4, 7) IN (IF w < 0 THEN w + 7 ELSE w) = (n + 4) % 7
  BY SMTT(20) DEF CMod, CDiv

\* Every field of the broken-down time is a number.
LEMMA CivilFields ==
    ASSUME NEW z \in Int
    PROVE  /\ CivilFromEpoch(z) \in TM
           /\ CivilFromEpoch(z).hour = CDiv(CMod(z, Day), Hour)
           /\ CivilFromEpoch(z).min = CDiv(CMod(CMod(z, Day), Hour), Minute)
           /\ CivilFromEpoch(z).sec = CMod(CMod(z, Day), Minute)
           /\ CivilFromEpoch(z).wday = (CDiv(z, Day) + 4) % 7
           /\ CivilFromEpoch(z).isdst = 0
<1> DEFINE tm == CivilFromEpoch(z)
           a == CMod(z, Day)
           n == CDiv(z, Day)
           weekday == CMod(n + 4, 7)
           wday == IF weekday < 0 THEN weekday + 7 ELSE weekday
<1>1. /\ tm.hour = CDiv(a, Hour) /\ tm.min = CDiv(CMod(a, Hour), Minute)
      /\ tm.sec = CMod(a, Minute) /\ tm.isdst = 0 /\ tm.wday = wday
      /\ tm = [year |-> tm.year, mon |-> tm.mon, mday |-> tm.mday, yday |-> tm.yday,
               hour |-> tm.hour, min |-> tm.min, sec |-> tm.sec, wday |-> tm.wday,
               isdst |-> tm.isdst]
  BY DEF CivilFromEpoch
<1>. HIDE DEF tm, wday
<1>2. a \in Int /\ n \in Int
  BY DayUnits, CDivInt
<1>3. tm.year \in Int /\ tm.mon \in Int /\ tm.mday \in Int /\ tm.yday \in Int
  BY CivilDate DEF tm
<1>. HIDE DEF a, n
<1>4. tm.wday = (n + 4) % 7
  BY <1>1, <1>2, Weekday DEF wday
<1>5. tm.hour \in Int /\ tm.min \in Int /\ tm.sec \in Int /\ tm.wday \in Int /\ tm.isdst \in Int
  <2>1. CMod(a, Hour) \in Int /\ CDiv(a, Hour) \in Int /\ CMod(a, Minute) \in Int
    BY <1>2, DayUnits, CDivInt
  <2>2. CDiv(CMod(a, Hour), Minute) \in Int
    BY <2>1, DayUnits, CDivInt
  <2>3. (n + 4) % 7 \in Int
    BY <1>2
  <2>. QED
    BY <1>1, <1>4, <2>1, <2>2, <2>3
<1>6. tm \in TM
  BY <1>1, <1>3, <1>5 DEF TM
<1>. QED
  BY <1>1, <1>4, <1>6 DEF tm, a, n

\* The time of day that CivilFromEpoch computes, from 1970 on and at midnight
\* before.
LEMMA CivilTime ==
    ASSUME NEW z \in Int, z >= 0 \/ z % Day = 0
    PROVE  IsTimeOf(CivilFromEpoch(z), z)
<1> DEFINE s == z % Day
           n == z \div Day
           tm == CivilFromEpoch(z)
<1>1. /\ s \in Int /\ 0 <= s /\ s < Day /\ n \in Int /\ z = n * Day + s /\ n * Day \in Int
  BY DayUnits, DivMod
<1>2. CDiv(z, Day) = n /\ CMod(z, Day) = s
  BY DayUnits, RoundedDown
<1>3. /\ tm.hour = CDiv(s, Hour) /\ tm.min = CDiv(CMod(s, Hour), Minute)
      /\ tm.sec = CMod(s, Minute) /\ tm.wday = (n + 4) % 7
  BY <1>2, CivilFields
<1>. HIDE DEF s, n, tm
<1>4. CDiv(s, Hour) = s \div Hour /\ CMod(s, Hour) = s % Hour /\ CMod(s, Minute) = s % Minute
  BY <1>1, DayUnits, RoundedDown
<1>5. s % Hour \in Int /\ 0 <= s % Hour
  BY <1>1, DayUnits, DivMod
<1>6. CDiv(s % Hour, Minute) = (s % Hour) \div Minute
  BY <1>5, DayUnits, RoundedDown
<1>7. /\ tm.hour = s \div Hour /\ tm.min = (s % Hour) \div Minute /\ tm.sec = s % Minute
  BY <1>3, <1>4, <1>6
<1>8. /\ tm.hour \in 0 .. Day \div Hour - 1 /\ tm.min \in 0 .. Hour \div Minute - 1
      /\ tm.sec \in 0 .. Minute - 1
      /\ tm.hour * Hour + tm.min * Minute + tm.sec = s
  BY <1>1, <1>7, ClockTime
<1>9. n * Day + tm.hour * Hour + tm.min * Minute + tm.sec = z
  <2>1. PICK h, m, t \in Int : h = tm.hour * Hour /\ m = tm.min * Minute /\ t = tm.sec
    <3>1. tm.hour \in Int /\ tm.min \in Int /\ tm.sec \in Int
      BY CivilFields DEF TM, tm
    <3>2. tm.hour * Hour \in Int /\ tm.min * Minute \in Int
      BY <3>1, DayUnits
    <3>. QED
      BY <3>1, <3>2
  <2>. QED
    BY <1>1, <1>8, <2>1
<1>. QED
  BY <1>3, <1>8, <1>9 DEF IsTimeOf, n, tm

\* What localtime_r yields is the date and the time of the second that the
\* clocks of the zone show.
LEMMA LocalFields ==
    ASSUME NEW epoch \in Int
    PROVE  /\ LocalTime(epoch) \in TM
           /\ IsDateOf(LocalTime(epoch), (epoch + Ahead(IsDst(epoch))) \div Day)
           /\ IsTimeOf(LocalTime(epoch), epoch + Ahead(IsDst(epoch)))
<1> DEFINE s == epoch + Ahead(IsDst(epoch))
           rest == s % Day
           n == s \div Day
           d == CivilFromEpoch(s - rest)
           tm == LocalTime(epoch)
<1>0. IsDst(epoch) \in {0, 1} /\ IsDst(epoch) \in Int
  BY DEF IsDst
<1>1. s \in Int
  BY <1>0, ConstantsAssumption, DayUnits DEF Ahead
<1>2. tm = [d EXCEPT !.hour = rest \div Hour, !.min = (rest % Hour) \div Minute,
                     !.sec = rest % Minute, !.isdst = IsDst(epoch)]
  BY DEF LocalTime
<1>. HIDE DEF s, tm
<1>3. /\ rest \in Int /\ 0 <= rest /\ rest < Day /\ n \in Int /\ s = n * Day + rest
      /\ n * Day \in Int
  BY <1>1, DayUnits, DivMod
<1>. HIDE DEF rest, n
<1>4. s - rest \in Int /\ s - rest = n * Day + 0
  BY <1>1, <1>3
<1>5. (s - rest) \div Day = n /\ (s - rest) % Day = 0
  BY <1>3, <1>4, DayUnits, DivModUnique
<1>6. d \in TM /\ IsDateOf(d, n) /\ d.wday = (n + 4) % 7
  <2>1. CDiv(s - rest, Day) = n
    BY <1>4, <1>5, DayUnits, RoundedDown
  <2>. QED
    BY <1>4, <1>5, <2>1, CivilDate, CivilFields
<1>. HIDE DEF d
<1>7. /\ rest \div Hour \in 0 .. Day \div Hour - 1
      /\ (rest % Hour) \div Minute \in 0 .. Hour \div Minute - 1
      /\ rest % Minute \in 0 .. Minute - 1
      /\ (rest \div Hour) * Hour + ((rest % Hour) \div Minute) * Minute + (rest % Minute) = rest
  BY <1>3, ClockTime
<1>8. PICK h, m, t \in Int : h = rest \div Hour /\ m = (rest % Hour) \div Minute /\ t = rest % Minute
  BY <1>3, DayUnits
<1>9. tm \in TM /\ /\ tm.year = d.year /\ tm.mon = d.mon /\ tm.mday = d.mday /\ tm.yday = d.yday
                  /\ tm.wday = d.wday /\ tm.hour = h /\ tm.min = m /\ tm.sec = t
  BY <1>0, <1>2, <1>6, <1>8 DEF TM
<1>10. IsDateOf(tm, n)
  BY <1>6, <1>9 DEF IsDateOf
<1>11. n * Day + h * Hour + m * Minute + t = s
  <2>1. h * Hour \in Int /\ m * Minute \in Int
    BY <1>8, DayUnits
  <2>. QED
    BY <1>3, <1>7, <1>8, <2>1
<1>12. IsTimeOf(tm, s)
  <2>1. s \div Day = n
    BY DEF n
  <2>. QED
    BY <1>6, <1>7, <1>8, <1>9, <1>11, <2>1 DEF IsTimeOf
<1>. QED
  BY <1>9, <1>10, <1>12 DEF tm, s, n

----------------------------------------------------------------------------
(* The seconds that broken-down times stand for *)

LEMMA MonthDaysInt ==
    ASSUME NEW mon \in 0 .. 11
    PROVE  MonthDays[mon + 1] \in Int
<1> DEFINE mp == IF mon > 1 THEN mon - 2 ELSE mon + 10
<1>1. IsMonth(mp, mon)
  BY DEF IsMonth
<1>. QED
  BY <1>1, MonthTable

LEMMA FirstOfMonthInt ==
    ASSUME NEW y \in Int, NEW mon \in 0 .. 11
    PROVE  FirstOfMonth(y, mon) \in Int
<1>1. DaysBeforeMonth(y, mon) \in Int
  BY MonthDaysInt DEF DaysBeforeMonth
<1>2. LeapYearsBefore(y) \in Int /\ LeapYearsBefore(1970) \in Int
  BY DEF LeapYearsBefore
<1>. QED
  BY <1>1, <1>2 DEF FirstOfMonth

LEMMA SecondOfInt ==
    ASSUME NEW tm \in TM
    PROVE  SecondOf(tm) \in Int
<1>1. /\ tm.year \in Int /\ tm.mon \in Int /\ tm.mday \in Int
      /\ tm.hour \in Int /\ tm.min \in Int /\ tm.sec \in Int
  BY DEF TM
<1>2. tm.mon % 12 \in 0 .. 11 /\ tm.mon \div 12 \in Int
  BY <1>1
<1>3. FirstOfMonth(tm.year + 1900 + tm.mon \div 12, tm.mon % 12) \in Int
  <2>1. PICK y \in Int : y = tm.year + 1900 + tm.mon \div 12
    BY <1>1, <1>2
  <2>2. PICK mon \in 0 .. 11 : mon = tm.mon % 12
    BY <1>2
  <2>3. FirstOfMonth(y, mon) \in Int
    BY FirstOfMonthInt
  <2>. QED
    BY <2>1, <2>2, <2>3
<1>4. tm.hour * Hour \in Int /\ tm.min * Minute \in Int
  BY <1>1, DayUnits
<1>5. (FirstOfMonth(tm.year + 1900 + tm.mon \div 12, tm.mon % 12) + tm.mday - 1) * Day \in Int
  BY <1>1, <1>3, DayUnits
<1>. QED
  BY <1>1, <1>4, <1>5 DEF SecondOf

LEMMA DaysFromCivilInt ==
    ASSUME NEW year \in Int, NEW m \in Int, NEW d \in Int
    PROVE  DaysFromCivil(year, m, d) \in Int
<1> DEFINE y == IF m <= 2 THEN year - 1 ELSE year
           era == EraOf(y, 400)
           yoe == y - era * 400
           doy == Unsigned((153 * (IF m > 2 THEN m - 3 ELSE m + 9) + 2) \div 5 + d - 1)
           doe == Unsigned(yoe * 365 + yoe \div 4 - yoe \div 100 + doy)
<1>0. UintMod \in Nat \ {0}
  BY UnitsAssumption
<1>1. y \in Int
  OBVIOUS
<1>. HIDE DEF y
<1>2. era \in Int
  BY <1>1 DEF EraOf, CDiv
<1>. HIDE DEF era
<1>3. yoe \in Int
  BY <1>1, <1>2
<1>. HIDE DEF yoe
<1>4. doy \in Int
  BY <1>0 DEF Unsigned
<1>. HIDE DEF doy
<1>5. doe \in Int
  BY <1>0, <1>3, <1>4 DEF Unsigned
<1>. HIDE DEF doe
<1>6. era * 146097 + doe - 719468 \in Int
  BY <1>2, <1>5, SMT
<1>7. DaysFromCivil(year, m, d) = era * 146097 + doe - 719468
  BY SMT DEF DaysFromCivil, doe, doy, yoe, era, y
<1>. QED
  BY <1>6, <1>7, SMT

LEMMA FastTimegmInt ==
    ASSUME NEW tm \in TM
    PROVE  FastTimegm(tm) \in Int
<1>1. /\ tm.year \in Int /\ tm.mon \in Int /\ tm.mday \in Int
      /\ tm.hour \in Int /\ tm.min \in Int /\ tm.sec \in Int
  BY DEF TM
<1>2. Unsigned(tm.mon + 1) \in Int /\ Unsigned(tm.mday) \in Int
  BY <1>1, UnitsAssumption DEF Unsigned
<1>3. DaysFromCivil(tm.year + 1900, Unsigned(tm.mon + 1), Unsigned(tm.mday)) \in Int
  <2>1. PICK y \in Int : y = tm.year + 1900
    BY <1>1
  <2>2. DaysFromCivil(y, Unsigned(tm.mon + 1), Unsigned(tm.mday)) \in Int
    BY <1>2, DaysFromCivilInt
  <2>. QED
    BY <2>1, <2>2
<1>4. /\ tm.hour * Hour \in Int /\ tm.min * Minute \in Int
      /\ DaysFromCivil(tm.year + 1900, Unsigned(tm.mon + 1), Unsigned(tm.mday)) * Day \in Int
  BY <1>1, <1>3, DayUnits
<1>. QED
  BY <1>1, <1>4 DEF FastTimegm

LEMMA UpdateInt ==
    /\ \A tm \in TM : TSUpdate(tm) \in Int
    /\ \A epoch \in Int : TMUpdate(epoch) \in TM
<1>1. ASSUME NEW tm \in TM
      PROVE  TSUpdate(tm) \in Int
  <2>1. SecondOf(tm) \in Int /\ FastTimegm(tm) \in Int
    BY SecondOfInt, FastTimegmInt
  <2>2. Ahead(tm.isdst) \in Int
    BY ConstantsAssumption, DayUnits DEF Ahead, TM
  <2>. QED
    BY <2>1, <2>2 DEF TSUpdate, MkTime
<1>2. ASSUME NEW epoch \in Int
      PROVE  TMUpdate(epoch) \in TM
  BY LocalFields, CivilFields DEF TMUpdate
<1>. QED
  BY <1>1, <1>2

----------------------------------------------------------------------------
(* The types of the variables and the cache *)

TypeInv ==
    /\ tz \in DOMAIN Starts
    /\ tv_sec \in Int /\ tv_nsec \in Int /\ cached_epoch \in Int
    /\ m_tm \in TM

LEMMA Kilos == Kilo \in Nat \ {0} /\ Mega \in Nat \ {0} /\ Giga \in Nat \ {0}
<1>1. Kilo \in Nat \ {0}
  BY ConstantsAssumption
<1>2. \A a, b \in Nat \ {0} : a * b \in Nat \ {0}
  <2>. SUFFICES ASSUME NEW a \in Nat \ {0}, NEW b \in Nat \ {0}
                PROVE  a * b \in Nat \ {0}
    OBVIOUS
  <2>1. 0 * b + b <= a * b
    BY ProductGrows
  <2>2. a * b \in Int
    OBVIOUS
  <2>. QED
    BY <2>1, <2>2
<1>. QED
  BY <1>1, <1>2 DEF Mega, Giga

LEMMA InitType == Init => TypeInv
<1>. SUFFICES ASSUME Init
              PROVE  TypeInv
  OBVIOUS
<1>1. cached_epoch \in Int
  BY DEF Init
<1>2. CASE FromEpoch
  <2>1. tz \in DOMAIN Starts /\ m_tm = ZeroTM
    BY <1>2 DEF FromEpoch
  <2>2. m_tm \in TM
    BY <2>1 DEF ZeroTM, TM
  <2>3. CASE tv_sec \in Starts[tz] /\ tv_nsec = 0
    BY <1>1, <2>1, <2>2, <2>3, ConstantsAssumption DEF TypeInv
  <2>4. ASSUME NEW e \in FineStarts, NEW unit \in {Giga, Mega, Kilo},
               tv_sec = CDiv(e, unit), tv_nsec = CMod(e, unit) * (Giga \div unit)
        PROVE  tv_sec \in Int /\ tv_nsec \in Int
    <3>1. e \in Int /\ unit \in Nat \ {0} /\ Giga \in Int
      BY Kilos, ConstantsAssumption
    <3>2. CDiv(e, unit) \in Int /\ CMod(e, unit) \in Int /\ Giga \div unit \in Int
      BY <3>1, CDivInt
    <3>3. CMod(e, unit) * (Giga \div unit) \in Int
      BY <3>2
    <3>. QED
      BY <2>4, <3>2, <3>3
  <2>. QED
    BY <1>1, <1>2, <2>1, <2>2, <2>3, <2>4 DEF FromEpoch, TypeInv
<1>3. CASE FromString
  <2>1. tz \in DOMAIN Starts /\ m_tm \in TM
    BY <1>3, ConstantsAssumption DEF FromString
  <2>2. tv_sec \in Int
    BY <1>3, <2>1, UpdateInt DEF FromString
  <2>3. PICK unit \in {1, Giga, Mega, Kilo} : \E decimals \in 0 .. unit - 1 :
            tv_nsec = decimals * (Giga \div unit)
    BY <1>3 DEF FromString
  <2>4. unit \in Nat \ {0} /\ Giga \in Int
    BY Kilos
  <2>5. PICK decimals \in 0 .. unit - 1 : tv_nsec = decimals * (Giga \div unit)
    BY <2>3
  <2>6. tv_nsec \in Int
    <3>1. decimals \in Int /\ Giga \div unit \in Int
      BY <2>4
    <3>. QED
      BY <2>5, <3>1
  <2>. QED
    BY <1>1, <2>1, <2>2, <2>6 DEF TypeInv
<1>. QED
  BY <1>2, <1>3 DEF Init

LEMMA UpdatedInTM ==
    ASSUME TypeInv
    PROVE  UpdatedTM \in TM
  BY UpdateInt DEF UpdatedTM, TypeInv

LEMMA NextType == TypeInv /\ [Next]_vars => TypeInv'
<1>. SUFFICES ASSUME TypeInv, [Next]_vars
              PROVE  TypeInv'
  OBVIOUS
<1>. USE DEF TypeInv
<1>0. UpdatedTM \in TM
  BY UpdatedInTM
<1>1. CASE UNCHANGED vars
  BY <1>1 DEF vars
<1>2. CASE Next /\ Get
  BY <1>0, <1>2 DEF Next, Get
<1>3. ASSUME Next, NEW f \in DOMAIN Settings, NEW v \in Settings[f], Set(f, v)
      PROVE  TypeInv'
  <2>. DEFINE tm == [UpdatedTM EXCEPT ![f] = v - CountsFrom[f]]
  <2>1. f \in {"year", "mon", "mday", "hour", "min", "sec"} /\ v \in Int
    BY ConstantsAssumption DEF CountsFrom
  <2>2. v - CountsFrom[f] \in Int
    BY <2>1 DEF CountsFrom
  <2>3. tm \in TM
    BY <1>0, <2>1, <2>2 DEF TM
  <2>4. m_tm' = tm /\ tv_sec' = TSUpdate(tm) /\ cached_epoch' = -1 /\ UNCHANGED <<tz, tv_nsec>>
    BY <1>3 DEF Next, Set, UpdateEpoch
  <2>. HIDE DEF tm
  <2>5. TSUpdate(tm) \in Int
    BY <2>3, UpdateInt
  <2>. QED
    BY <2>3, <2>4, <2>5
<1>4. CASE Next /\ SetNano(0)
  BY <1>4 DEF Next, SetNano
<1>5. ASSUME Next, NEW n \in Offsets, NEW unit \in {Day, Hour, Minute, 1}, Offset(n, unit)
      PROVE  TypeInv'
  <2>1. n \in Int /\ unit \in Int
    BY ConstantsAssumption, DayUnits
  <2>2. tv_sec + n * unit \in Int
    BY <2>1
  <2>. QED
    BY <1>5, <2>2 DEF Next, Offset
<1>6. ASSUME Next, NEW n \in NanoOffsets, OffsetNano(n)
      PROVE  TypeInv'
  <2>1. n \in Int /\ Giga \in Nat \ {0}
    BY ConstantsAssumption, Kilos
  <2>2. Epoch19 + n \in Int
    BY <2>1 DEF Epoch19
  <2>3. CDiv(Epoch19 + n, Giga) \in Int /\ CMod(Epoch19 + n, Giga) \in Int
    BY <2>1, <2>2, CDivInt
  <2>. QED
    BY <1>6, <2>3 DEF Next, OffsetNano
<1>. QED
  BY <1>1, <1>2, <1>3, <1>4, <1>5, <1>6 DEF Next

\* The fields that are cached are those of the epoch they are cached for,
\* whatever calls follow each other.
THEOREM CacheStaysCoherent == Spec => []CacheCoherent
<1>1. Init => CacheCoherent
  BY DEF Init, CacheCoherent
<1>2. TypeInv /\ CacheCoherent /\ [Next]_vars => CacheCoherent'
  <2>. SUFFICES ASSUME TypeInv, CacheCoherent, [Next]_vars
                PROVE  CacheCoherent'
    OBVIOUS
  <2>1. CASE UNCHANGED vars
    BY <2>1 DEF vars, CacheCoherent, TMUpdate
  <2>2. CASE Next /\ Get
    <3>1. m_tm' = UpdatedTM /\ cached_epoch' = tv_sec /\ tz' = tz
      BY <2>2 DEF Next, Get
    <3>2. tv_sec # -1 => UpdatedTM = TMUpdate(tv_sec)
      BY DEF UpdatedTM, CacheCoherent
    <3>. QED
      BY <3>1, <3>2 DEF CacheCoherent, TMUpdate
  <2>3. CASE Next /\ SetNano(0)
    BY <2>3 DEF Next, SetNano, CacheCoherent, TMUpdate
  <2>4. CASE Next /\ ~Get /\ ~SetNano(0)
    <3>1. cached_epoch' = -1
      BY <2>4 DEF Next, Set, UpdateEpoch, Offset, OffsetNano
    <3>. QED
      BY <3>1 DEF CacheCoherent
  <2>. QED
    BY <2>1, <2>2, <2>3, <2>4
<1>. QED
  BY <1>1, <1>2, InitType, NextType, PTL DEF Spec

LEMMA TypesHold == Spec => []TypeInv
  BY InitType, NextType, PTL DEF Spec

\* What GetYmd and GetHMS print are the date and the time of day of the epoch, after
\* any calls and for every epoch but -1 (the time: from 1970 on, and at midnight
\* before).
THEOREM FieldsAreRight == Spec => []FieldsRight
<1>1. TypeInv /\ CacheCoherent => FieldsRight
  <2>. SUFFICES ASSUME TypeInv, CacheCoherent, tv_sec # -1
                PROVE  /\ IsDateOf(UpdatedTM, Shown \div Day)
                       /\ tz = "kLocal" \/ tv_sec >= 0 \/ tv_sec % Day = 0
                              => IsTimeOf(UpdatedTM, Shown)
    BY DEF FieldsRight
  <2>1. UpdatedTM = TMUpdate(tv_sec) /\ tv_sec \in Int
    BY DEF UpdatedTM, CacheCoherent, TypeInv
  <2>2. CASE tz = "kLocal"
    <3>1. UpdatedTM = LocalTime(tv_sec) /\ Shown = tv_sec + Ahead(IsDst(tv_sec))
      BY <2>1, <2>2 DEF TMUpdate, Shown
    <3>. QED
      BY <2>1, <3>1, LocalFields
  <2>3. CASE tz # "kLocal"
    <3>1. UpdatedTM = CivilFromEpoch(tv_sec) /\ Shown = tv_sec
      BY <2>1, <2>3 DEF TMUpdate, Shown
    <3>. QED
      BY <2>1, <2>3, <3>1, CivilDate, CivilTime
  <2>. QED
    BY <2>2, <2>3
<1>. QED
  BY <1>1, CacheStaysCoherent, TypesHold, PTL

----------------------------------------------------------------------------
(* The setters *)

LEMMA UnsignedSmall ==
    ASSUME NEW n \in Int, 0 <= n, n <= 800000
    PROVE  Unsigned(n) = n /\ Unsigned(n + UintMod) = n /\ Unsigned(-1) = UintMod - 1
<1>1. UintMod \in Nat \ {0} /\ n < UintMod /\ 1 < UintMod
  BY UnitsAssumption
<1>2. (0 * UintMod + n) % UintMod = n /\ (1 * UintMod + n) % UintMod = n
  BY <1>1, DivModUnique
<1>3. ((-1) * UintMod + (UintMod - 1)) % UintMod = UintMod - 1
  <2>1. UintMod - 1 \in Int /\ 0 <= UintMod - 1 /\ UintMod - 1 < UintMod
    BY <1>1
  <2>. QED
    BY <1>1, <2>1, DivModUnique
<1>4. /\ 0 * UintMod + n = n /\ 1 * UintMod + n = n + UintMod
      /\ (-1) * UintMod + (UintMod - 1) = -1
  BY <1>1
<1>. QED
  BY <1>2, <1>3, <1>4 DEF Unsigned

\* The months up to one before and two after their year, and days from the
\* one before the first.
Sensible(tm) == tm.mon \in -1 .. 13 /\ tm.mday \in 0 .. 31

\* The exception is day 0 of March in the first year of an era.
IsDay(year, mon, mday) ==
    /\ year \in Int /\ mon \in -1 .. 13 /\ mday \in 0 .. 31
    /\ mday >= 1 \/ mon # 2 \/ year % 400 # 0

LEMMA DayOfDate ==
    ASSUME NEW year, NEW mon, NEW mday, IsDay(year, mon, mday)
    PROVE  DaysFromCivil(year, Unsigned(mon + 1), Unsigned(mday)) =
               FirstOfMonth(year + mon \div 12, mon % 12) + mday - 1
<1> DEFINE m == mon + 1
           y == IF m <= 2 THEN year - 1 ELSE year
           era == EraOf(y, 400)
           yoe == y - era * 400
           mp == IF m > 2 THEN m - 3 ELSE m + 9
           before == (153 * mp + 2) \div 5
           years == yoe * 365 + yoe \div 4 - yoe \div 100
           doy == Unsigned(before + mday - 1)
           doe == Unsigned(years + doy)
<1>1. /\ mon \in Int /\ mday \in Int /\ 0 <= mday /\ mday <= 31
      /\ m \in Int /\ 0 <= m /\ m <= 14 /\ -1 <= mon /\ mon <= 13
      /\ year \in Int /\ (mday >= 1 \/ mon # 2 \/ year % 400 # 0)
  BY DEF IsDay
<1>2. Unsigned(mon + 1) = m /\ Unsigned(mday) = mday
  BY <1>1, UnsignedSmall
<1>3. DaysFromCivil(year, m, mday) = era * 146097 + doe - 719468
  BY SMT DEF DaysFromCivil
<1>4. y \in Int /\ y = IF mon <= 1 THEN year - 1 ELSE year
  BY <1>1
<1>5. mp \in Int /\ 0 <= mp /\ mp <= 11 /\ mp = IF mon >= 2 THEN mon - 2 ELSE mon + 10
  BY <1>1
<1>. HIDE DEF m, y, mp
<1>6. era \in Int /\ yoe \in Int /\ 0 <= yoe /\ yoe <= 399
  BY <1>4 DEF EraOf, CDiv
<1>. HIDE DEF era
<1>7. y = yoe + era * 400
  BY <1>4, <1>6
<1>. HIDE DEF yoe
<1>8. /\ before \in Int /\ 0 <= before /\ before <= 337 /\ (before = 0 => mp = 0)
  BY <1>1, <1>5
<1>9. /\ years \in Int /\ 0 <= years /\ years <= 146000 /\ (years = 0 => yoe = 0)
  BY <1>6
<1>. HIDE DEF before, years
<1>10. doe = years + before + mday - 1
  <2>1. CASE before + mday - 1 >= 0
    <3>1. doy = before + mday - 1
      BY <1>1, <1>8, <2>1, UnsignedSmall
    <3>2. years + doy \in Int /\ 0 <= years + doy /\ years + doy <= 800000
      BY <1>1, <1>8, <1>9, <2>1, <3>1
    <3>3. doe = years + doy
      BY <3>2, UnsignedSmall
    <3>. QED
      BY <1>1, <1>8, <1>9, <3>1, <3>3
  <2>2. CASE before + mday - 1 < 0
    <3>1. before = 0 /\ mday = 0 /\ before + mday - 1 = -1
      BY <1>1, <1>8, <2>2
    <3>2. mon = 2
      BY <1>1, <1>5, <1>8, <3>1
    <3>3. years # 0
      <4>1. year % 400 # 0 /\ year = y
        BY <1>1, <1>4, <3>1, <3>2
      <4>. QED
        BY <1>4, <1>6, <1>7, <1>9, <4>1
    <3>4. UintMod \in Int
      BY UnitsAssumption
    <3>5. doy = UintMod - 1
      BY <3>1, UnsignedSmall
    <3>6. years - 1 \in Int /\ 0 <= years - 1 /\ years - 1 <= 800000
      BY <1>9, <3>3
    <3>7. Unsigned((years - 1) + UintMod) = years - 1
      BY <3>6, UnsignedSmall
    <3>8. years + doy = (years - 1) + UintMod
      BY <1>9, <3>4, <3>5
    <3>. QED
      BY <1>1, <1>9, <3>1, <3>7, <3>8
  <2>. QED
    BY <1>1, <1>8, <2>1, <2>2
<1>. HIDE DEF doy, doe
<1>11. PICK y1 \in Int : y1 = y + 1
  BY <1>4
<1>12. PICK cm \in Int : cm = mon % 12
  BY <1>1
<1>13. PICK cy \in Int : cy = year + mon \div 12
  BY <1>1
<1>14. IsYear(era, yoe, y, y1)
  BY <1>4, <1>6, <1>7, <1>11 DEF IsYear
<1>15. IsMonth(mp, cm)
  BY <1>1, <1>5, <1>12 DEF IsMonth
<1>16. cy = IF mp < 10 THEN y ELSE y1
  BY <1>1, <1>4, <1>5, <1>11, <1>13
<1>17. FirstOfMonth(cy, cm) =
           365 * yoe + yoe \div 4 - yoe \div 100 + ((153 * mp + 2) \div 5)
               - 719468 + era * 146097
  BY <1>14, <1>15, <1>16, MonthStart, SMT
<1>18. FirstOfMonth(cy, cm) = years + before - 719468 + era * 146097
  BY <1>5, <1>6, <1>17, SMT DEF years, before
<1>19. DaysFromCivil(year, m, mday) = FirstOfMonth(cy, cm) + mday - 1
  BY <1>1, <1>3, <1>6, <1>8, <1>9, <1>10, <1>18, SMT
<1>. QED
  BY <1>2, <1>12, <1>13, <1>19

\* What an object in UTC is moved to.
LEMMA SecondOfDate ==
    ASSUME NEW tm \in TM, Sensible(tm),
           tm.mday >= 1 \/ tm.mon # 2 \/ (tm.year + 1900) % 400 # 0
    PROVE  FastTimegm(tm) = SecondOf(tm)
<1>1. tm.year + 1900 \in Int /\ tm.mon \in -1 .. 13 /\ tm.mday \in 0 .. 31
  BY DEF TM, Sensible
<1>2. PICK year, mon, mday : year = tm.year + 1900 /\ mon = tm.mon /\ mday = tm.mday
  OBVIOUS
<1>3. DaysFromCivil(year, Unsigned(mon + 1), Unsigned(mday)) =
          FirstOfMonth(year + mon \div 12, mon % 12) + mday - 1
  <2>1. IsDay(year, mon, mday)
    BY <1>1, <1>2 DEF IsDay
  <2>. QED
    BY <2>1, DayOfDate
<1>4. DaysFromCivil(tm.year + 1900, Unsigned(tm.mon + 1), Unsigned(tm.mday)) =
          FirstOfMonth(tm.year + 1900 + tm.mon \div 12, tm.mon % 12) + tm.mday - 1
  BY <1>2, <1>3
<1>5. FastTimegm(tm) =
          DaysFromCivil(tm.year + 1900, Unsigned(tm.mon + 1), Unsigned(tm.mday)) * Day
              + tm.hour * Hour + tm.min * Minute + tm.sec
  BY DEF FastTimegm
<1>6. SecondOf(tm) =
          (FirstOfMonth(tm.year + 1900 + tm.mon \div 12, tm.mon % 12) + tm.mday - 1) * Day
              + tm.hour * Hour + tm.min * Minute + tm.sec
  BY DEF SecondOf
<1>. QED
  BY <1>4, <1>5, <1>6

\* The two directions of the conversion are inverse, from 1970 on and at midnight
\* before.
THEOREM ConversionsInverse ==
    \A z \in Int : z >= 0 \/ z % Day = 0 => FastTimegm(CivilFromEpoch(z)) = z
<1>. SUFFICES ASSUME NEW z \in Int, z >= 0 \/ z % Day = 0
              PROVE  FastTimegm(CivilFromEpoch(z)) = z
  OBVIOUS
<1>. DEFINE tm == CivilFromEpoch(z)
            y == tm.year + 1900
            n == z \div Day
<1>1. tm \in TM /\ IsDateOf(tm, n) /\ IsTimeOf(tm, z)
  BY CivilFields, CivilDate, CivilTime
<1>. HIDE DEF tm
<1>2. /\ tm.year \in Int /\ tm.mon \in 0 .. 11 /\ tm.mday \in 1 .. DaysInMonth(y, tm.mon)
      /\ FirstOfMonth(y, tm.mon) + tm.mday - 1 = n
  BY <1>1 DEF IsDateOf, TM
<1>3. tm.mday \in 1 .. 31
  <2>1. DaysInMonth(y, tm.mon) \in {28, 29, 30, 31}
    BY DEF DaysInMonth
  <2>. QED
    BY <1>2, <2>1
<1>4. FastTimegm(tm) = SecondOf(tm)
  <2>1. Sensible(tm) /\ tm.mday >= 1
    BY <1>2, <1>3 DEF Sensible
  <2>. QED
    BY <1>1, <2>1, SecondOfDate
<1>5. y + tm.mon \div 12 = y /\ tm.mon % 12 = tm.mon
  BY <1>2
<1>6. SecondOf(tm) = n * Day + tm.hour * Hour + tm.min * Minute + tm.sec
  BY <1>2, <1>5 DEF SecondOf
<1>. QED
  BY <1>1, <1>4, <1>6 DEF IsTimeOf, tm

\* What is set stays within the months and days above.
SensibleInputs ==
    /\ \A tm \in Parsed : Sensible(tm)
    /\ \A f \in DOMAIN Settings : \A v \in Settings[f] :
           /\ f = "mon" => v \in 0 .. 14
           /\ f = "mday" => v \in 0 .. 31

SetInv ==
    /\ Sensible(m_tm)
    /\ last = "set" => tv_sec = TSUpdate(m_tm)

LEMMA UpdatedSensible ==
    ASSUME TypeInv, Sensible(m_tm)
    PROVE  Sensible(UpdatedTM)
<1>1. ASSUME NEW tm \in TM, NEW n, IsDateOf(tm, n)
      PROVE  Sensible(tm)
  <2>1. tm.mon \in 0 .. 11 /\ tm.mday \in 1 .. DaysInMonth(tm.year + 1900, tm.mon)
    BY <1>1 DEF IsDateOf
  <2>2. DaysInMonth(tm.year + 1900, tm.mon) \in {28, 29, 30, 31}
    BY DEF DaysInMonth
  <2>. QED
    BY <2>1, <2>2 DEF Sensible
<1>2. CASE UpdatedTM = m_tm
  BY <1>2
<1>3. CASE UpdatedTM = LocalTime(tv_sec)
  BY <1>1, <1>3, LocalFields DEF TypeInv
<1>4. CASE UpdatedTM = CivilFromEpoch(tv_sec)
  BY <1>1, <1>4, CivilDate, CivilFields DEF TypeInv
<1>. QED
  BY <1>2, <1>3, <1>4 DEF UpdatedTM, TMUpdate

\* A string or a setter moves the object to the second that its fields stand for,
\* but for day 0 of March in the first year of an era, and for a local time whose
\* tm_isdst is another day's.  The months are those up to one before and two after
\* the year: the arithmetic of days_from_civil goes no further.
THEOREM SettersAlwaysNormalise ==
    ASSUME SensibleInputs
    PROVE  Spec => []SettersNormalise
<1>1. Init => SetInv
  BY DEF Init, FromEpoch, FromString, SensibleInputs, SetInv, Sensible, ZeroTM
<1>2. TypeInv /\ SetInv /\ [Next]_vars => SetInv'
  <2>. SUFFICES ASSUME TypeInv, SetInv, [Next]_vars
                PROVE  SetInv'
    OBVIOUS
  <2>0. Sensible(UpdatedTM) /\ UpdatedTM \in TM
    BY UpdatedSensible, UpdatedInTM DEF SetInv
  <2>1. CASE UNCHANGED vars
    BY <2>1 DEF vars, SetInv, Sensible, TSUpdate
  <2>2. CASE Next /\ Get
    BY <2>0, <2>2 DEF Next, Get, SetInv, Sensible
  <2>3. ASSUME Next, NEW f \in DOMAIN Settings, NEW v \in Settings[f], Set(f, v)
        PROVE  SetInv'
    <3>. DEFINE tm == [UpdatedTM EXCEPT ![f] = v - CountsFrom[f]]
    <3>1. /\ f \in {"year", "mon", "mday", "hour", "min", "sec"} /\ v \in Int
          /\ f = "mon" => v \in 0 .. 14
          /\ f = "mday" => v \in 0 .. 31
      BY ConstantsAssumption, SensibleInputs DEF CountsFrom, SensibleInputs
    <3>2. /\ tm.mon = IF f = "mon" THEN v - 1 ELSE UpdatedTM.mon
          /\ tm.mday = IF f = "mday" THEN v - 0 ELSE UpdatedTM.mday
      BY <2>0, <3>1 DEF TM, CountsFrom
    <3>3. Sensible(tm)
      BY <2>0, <3>1, <3>2 DEF Sensible
    <3>4. m_tm' = tm /\ tv_sec' = TSUpdate(tm) /\ tz' = tz
      BY <2>3 DEF Next, Set, UpdateEpoch
    <3>. HIDE DEF tm
    <3>. QED
      BY <3>3, <3>4 DEF SetInv, Sensible, TSUpdate
  <2>4. CASE Next /\ SetNano(0)
    BY <2>4 DEF Next, SetNano, SetInv, Sensible
  <2>5. ASSUME Next, NEW n \in Offsets, NEW unit \in {Day, Hour, Minute, 1}, Offset(n, unit)
        PROVE  SetInv'
    BY <2>5 DEF Offset, SetInv, Sensible
  <2>6. ASSUME Next, NEW n \in NanoOffsets, OffsetNano(n)
        PROVE  SetInv'
    BY <2>6 DEF OffsetNano, SetInv, Sensible
  <2>. QED
    BY <2>1, <2>2, <2>3, <2>4, <2>5, <2>6 DEF Next
<1>3. TypeInv /\ SetInv => SettersNormalise
  <2>. SUFFICES ASSUME TypeInv, SetInv, last = "set"
                PROVE  SettersNormalise
    BY DEF SettersNormalise
  <2>1. tv_sec = TSUpdate(m_tm) /\ Sensible(m_tm) /\ m_tm \in TM
    BY DEF SetInv, TypeInv
  <2>2. CASE tz = "kLocal"
    <3>1. SecondOf(m_tm) \in Int /\ m_tm.isdst \in Int /\ IsDst(tv_sec) \in Int
          /\ Hour \in Int /\ ZoneOffset \in Int
      BY <2>1, SecondOfInt, DayUnits, ConstantsAssumption DEF TM, IsDst
    <3>2. Shown = SecondOf(m_tm) - Ahead(m_tm.isdst) + Ahead(IsDst(tv_sec))
      BY <2>1, <2>2 DEF Shown, TSUpdate, MkTime
    <3>3. /\ m_tm.isdst * Hour \in Int /\ IsDst(tv_sec) * Hour \in Int
          /\ (IsDst(tv_sec) - m_tm.isdst) * Hour = IsDst(tv_sec) * Hour - m_tm.isdst * Hour
      BY <3>1
    <3>4. Shown = SecondOf(m_tm) + (IsDst(tv_sec) - m_tm.isdst) * Hour
      BY <3>1, <3>2, <3>3 DEF Ahead
    <3>. QED
      BY <2>2, <3>4 DEF SettersNormalise
  <2>3. CASE tz # "kLocal"
    <3>1. tz = "kUTC" /\ tv_sec \in Int
      BY <2>3, ConstantsAssumption DEF TypeInv
    <3>2. Shown = FastTimegm(m_tm)
      <4>1. Shown = tv_sec + 0
        BY <2>3 DEF Shown
      <4>. QED
        BY <2>1, <2>3, <3>1, <4>1 DEF TSUpdate
    <3>3. CASE m_tm.mday >= 1 \/ m_tm.mon # 2 \/ (m_tm.year + 1900) % 400 # 0
      BY <2>1, <3>2, <3>3, SecondOfDate DEF SettersNormalise
    <3>4. CASE ~(m_tm.mday >= 1) /\ m_tm.mon = 2 /\ (m_tm.year + 1900) % 400 = 0
      <4>1. m_tm.mday < 1
        BY <2>1, <3>4 DEF Sensible
      <4>. QED
        BY <3>1, <3>4, <4>1 DEF SettersNormalise
    <3>. QED
      BY <3>3, <3>4
  <2>. QED
    BY <2>2, <2>3
<1>. QED
  BY <1>1, <1>2, <1>3, TypesHold, PTL DEF Spec

----------------------------------------------------------------------------
(* Induction over numbers, stated of sets, and sequences put together *)

\* A set that holds 0, and with a number the next one, holds every number.
LEMMA NatSetInduction ==
    ASSUME NEW T, 0 \in T, \A n \in Nat : n \in T => n + 1 \in T
    PROVE  \A n \in Nat : n \in T
<1> DEFINE U == Nat \ T
           R == OpToRel(<, Nat)
<1>. SUFFICES ASSUME U # {} PROVE FALSE
  OBVIOUS
<1>1. IsWellFoundedOn(R, Nat)
  BY NatLessThanWellFounded
<1>2. \A x \in U : x # 0 /\ x - 1 \in Nat
  BY SMT
<1>3. \A x \in Nat : x # 0 => <<x - 1, x>> \in R
  BY DEF OpToRel
<1>4. U \subseteq Nat
  OBVIOUS
<1>5. \A x \in U : x - 1 \in U
  BY <1>2
<1> HIDE DEF U, R
<1>6. PICK x \in U : \A y \in U : <<y, x>> \notin R
  BY <1>1, <1>4, WFMin
<1>. QED
  BY <1>2, <1>3, <1>4, <1>5, <1>6

\* The concatenation, a name that the provers do not look into.
Cat(s, t) == s \o t

IsFlat(f, ss, n) ==
    \A i \in 1 .. n : f[i] = IF i = 1 THEN ss[i] ELSE Cat(f[i - 1], ss[i])

LEMMA FlatExists ==
    ASSUME NEW S, NEW ss \in Seq(Seq(S)), NEW n \in Nat, n <= Len(ss)
    PROVE  \E f \in [1 .. n -> Seq(S)] : IsFlat(f, ss, n)
<1> DEFINE T == {k \in Nat : k <= Len(ss) => \E f \in [1 .. k -> Seq(S)] : IsFlat(f, ss, k)}
<1>1. 0 \in T
  <2>1. /\ [i \in 1 .. 0 |-> <<>>] \in [1 .. 0 -> Seq(S)]
        /\ IsFlat([i \in 1 .. 0 |-> <<>>], ss, 0)
    BY DEF IsFlat
  <2>. QED
    BY <2>1
<1>2. ASSUME NEW k \in Nat, k \in T
      PROVE  k + 1 \in T
  <2>. SUFFICES ASSUME k + 1 <= Len(ss)
                PROVE  \E f \in [1 .. k + 1 -> Seq(S)] : IsFlat(f, ss, k + 1)
    OBVIOUS
  <2>1. PICK f \in [1 .. k -> Seq(S)] : IsFlat(f, ss, k)
    BY <1>2
  <2>. DEFINE e == IF k = 0 THEN ss[1] ELSE Cat(f[k], ss[k + 1])
              g == [i \in 1 .. k + 1 |-> IF i = k + 1 THEN e ELSE f[i]]
  <2>2. ss[1] \in Seq(S) /\ ss[k + 1] \in Seq(S)
    OBVIOUS
  <2>3. e \in Seq(S)
    <3>1. CASE k = 0
      BY <2>2, <3>1
    <3>2. CASE k # 0
      <4>1. f[k] \in Seq(S)
        BY <3>2
      <4>. QED
        BY <2>2, <3>2, <4>1, ConcatProperties DEF Cat
    <3>. QED
      BY <3>1, <3>2
  <2>4. g \in [1 .. k + 1 -> Seq(S)]
    BY <2>3
  <2>5. IsFlat(g, ss, k + 1)
    BY <2>1 DEF IsFlat
  <2>. QED
    BY <2>4, <2>5
<1>. HIDE DEF T
<1>3. n \in T
  BY <1>1, <1>2, NatSetInduction
<1>. QED
  BY <1>3 DEF T

LEMMA FlatUnique ==
    ASSUME NEW ss, NEW n \in Nat, NEW f, NEW g, IsFlat(f, ss, n), IsFlat(g, ss, n)
    PROVE  \A i \in 1 .. n : f[i] = g[i]
<1> DEFINE T == {i \in Nat : i \in 1 .. n => f[i] = g[i]}
<1>1. 0 \in T
  OBVIOUS
<1>2. ASSUME NEW i \in Nat, i \in T PROVE i + 1 \in T
  BY <1>2 DEF IsFlat
<1>. HIDE DEF T
<1>3. \A i \in Nat : i \in T
  BY <1>1, <1>2, NatSetInduction
<1>. QED
  BY <1>3 DEF T

LEMMA FlattenIs ==
    ASSUME NEW S, NEW ss \in Seq(Seq(S)), Len(ss) # 0, NEW f, IsFlat(f, ss, Len(ss))
    PROVE  FlattenSeq(ss) = f[Len(ss)]
<1> DEFINE n == Len(ss)
           D(h) == [i \in 1 .. n |-> IF i = 1 THEN ss[i] ELSE Cat(h[i - 1], ss[i])]
           F == CHOOSE h : h = D(h)
<1>1. n \in Nat \ {0} /\ n \in Nat /\ n <= Len(ss)
  OBVIOUS
<1>2. PICK g \in [1 .. n -> Seq(S)] : IsFlat(g, ss, n)
  <2>. HIDE DEF n, D, F
  <2>. QED
    BY <1>1, FlatExists, Zenon
<1>3. g = D(g)
  BY <1>2 DEF IsFlat
<1>4. F = D(F)
  BY <1>3
<1>5. FlattenSeq(ss) = F[n]
  BY <1>1 DEF FlattenSeq, Cat
<1>. HIDE DEF F
<1>6. IsFlat(F, ss, n)
  BY <1>4 DEF IsFlat
<1>7. F[n] = f[n]
  BY <1>1, <1>6, FlatUnique
<1>. QED
  BY <1>5, <1>7

\* FlattenSeq of no sequence, and of one sequence more at the end.
LEMMA FlattenEmpty == FlattenSeq(<<>>) = <<>>
BY DEF FlattenSeq

LEMMA FlattenAppend ==
    ASSUME NEW S, NEW ss \in Seq(Seq(S)), NEW s \in Seq(S)
    PROVE  /\ FlattenSeq(ss) \in Seq(S)
           /\ FlattenSeq(Append(ss, s)) = FlattenSeq(ss) \o s
<1> DEFINE n == Len(ss)
<1>0. PICK tt : tt = Append(ss, s)
  OBVIOUS
<1>1. /\ tt \in Seq(Seq(S))
      /\ Len(tt) = n + 1
      /\ \A i \in 1 .. n : tt[i] = ss[i]
      /\ tt[n + 1] = s
  BY <1>0, AppendProperties
<1>2. n \in Nat
  BY LenProperties
<1>3. n = 0 => ss = <<>>
  BY EmptySeq
<1>. HIDE DEF n
<1>4. PICK f \in [1 .. n + 1 -> Seq(S)] : IsFlat(f, tt, n + 1)
  <2>1. n + 1 \in Nat /\ n + 1 <= Len(tt)
    BY <1>1, <1>2
  <2>. QED
    BY <1>1, <2>1, FlatExists
<1>5. FlattenSeq(tt) = f[n + 1]
  BY <1>1, <1>2, <1>4, FlattenIs
<1>6. IsFlat(f, ss, n)
  BY <1>1, <1>2, <1>4 DEF IsFlat
<1>7. CASE n = 0
  <2>1. f[1] = s
    BY <1>1, <1>4, <1>7 DEF IsFlat
  <2>2. FlattenSeq(ss) = <<>>
    BY <1>3, <1>7, FlattenEmpty
  <2>3. <<>> \o s = s /\ <<>> \in Seq(S)
    BY ConcatEmptySeq, EmptySeq
  <2>. QED
    BY <1>0, <1>5, <1>7, <2>1, <2>2, <2>3
<1>8. CASE n # 0
  <2>1. FlattenSeq(ss) = f[n]
    BY <1>6, <1>8, FlattenIs DEF n
  <2>2. n + 1 # 1 /\ n + 1 \in 1 .. n + 1 /\ n + 1 - 1 = n
    BY <1>2, <1>8
  <2>5. f[n + 1] = IF n + 1 = 1 THEN tt[n + 1] ELSE Cat(f[n + 1 - 1], tt[n + 1])
    BY <1>2, <1>4, <2>2 DEF IsFlat
  <2>3. f[n + 1] = f[n] \o s
    BY <1>1, <2>2, <2>5 DEF Cat
  <2>4. f[n] \in Seq(S)
    BY <1>2, <1>4, <1>8
  <2>. QED
    BY <1>0, <1>5, <2>1, <2>3, <2>4
<1>. QED
  BY <1>7, <1>8

\* A sequence more in front.
ConsAt(s, ss, n) ==
    n <= Len(ss) => FlattenSeq(Cat(<<s>>, SubSeq(ss, 1, n)))
                        = Cat(s, FlattenSeq(SubSeq(ss, 1, n)))

LEMMA FlattenConsBase ==
    ASSUME NEW S, NEW s \in Seq(S), NEW ss
    PROVE  ConsAt(s, ss, 0)
<1>1. SubSeq(ss, 1, 0) = <<>>
  BY SubSeqEmpty
<1>2. <<>> \in Seq(Seq(S)) /\ <<s>> = Append(<<>>, s)
  OBVIOUS
<1>3. FlattenSeq(Append(<<>>, s)) = FlattenSeq(<<>>) \o s
  BY <1>2, FlattenAppend
<1>4. <<>> \o s = s /\ s \o <<>> = s
  BY ConcatEmptySeq
<1>5. FlattenSeq(<<s>>) = s
  BY <1>2, <1>3, <1>4, FlattenEmpty
<1>6. Cat(<<s>>, <<>>) = <<s>>
  BY <1>2, ConcatEmptySeq DEF Cat
<1>7. Cat(s, <<>>) = s
  BY <1>4 DEF Cat
<1>. QED
  BY <1>1, <1>5, <1>6, <1>7, FlattenEmpty DEF ConsAt

LEMMA FlattenConsStep ==
    ASSUME NEW S, NEW s \in Seq(S), NEW a \in Seq(Seq(S)), NEW e \in Seq(S),
           FlattenSeq(Cat(<<s>>, a)) = Cat(s, FlattenSeq(a))
    PROVE  FlattenSeq(Cat(<<s>>, Append(a, e))) = Cat(s, FlattenSeq(Append(a, e)))
<1>1. PICK b : b = Cat(<<s>>, a)
  OBVIOUS
<1>2. b \in Seq(Seq(S))
  BY <1>1, ConcatProperties DEF Cat
<1>3. Cat(<<s>>, Append(a, e)) = Append(b, e)
  <2>1. <<s>> \o Append(a, e) = Append(<<s>> \o a, e)
    OBVIOUS
  <2>. QED
    BY <1>1, <2>1 DEF Cat
<1>4. PICK c : c = FlattenSeq(a)
  OBVIOUS
<1>5. c \in Seq(S) /\ FlattenSeq(Append(a, e)) = Cat(c, e)
  BY <1>4, FlattenAppend DEF Cat
<1>6. FlattenSeq(Append(b, e)) = Cat(FlattenSeq(b), e)
  BY <1>2, FlattenAppend DEF Cat
<1>7. Cat(Cat(s, c), e) = Cat(s, Cat(c, e))
  <2>1. c \in Seq(S)
    BY <1>5
  <2>2. (s \o c) \o e = s \o (c \o e)
    BY <2>1, ConcatAssociative
  <2>. QED
    BY <2>2 DEF Cat
<1>. QED
  BY <1>1, <1>3, <1>4, <1>5, <1>6, <1>7

LEMMA FlattenCons ==
    ASSUME NEW S, NEW s \in Seq(S), NEW ss \in Seq(Seq(S))
    PROVE  FlattenSeq(<<s>> \o ss) = s \o FlattenSeq(ss)
<1> DEFINE T == {n \in Nat : ConsAt(s, ss, n)}
<1>1. 0 \in T
  BY FlattenConsBase
<1>2. ASSUME NEW n \in Nat, n \in T
      PROVE  n + 1 \in T
  <2>1. SUFFICES ASSUME n + 1 <= Len(ss) PROVE ConsAt(s, ss, n + 1)
    BY DEF ConsAt
  <2>2. PICK a, e : a = SubSeq(ss, 1, n) /\ e = ss[n + 1]
    OBVIOUS
  <2>3. a \in Seq(Seq(S)) /\ e \in Seq(S) /\ SubSeq(ss, 1, n + 1) = Append(a, e)
    <3>1. n + 1 \in 1 .. Len(ss) /\ e \in Seq(S)
      BY <2>1, <2>2
    <3>2. a \in Seq(Seq(S))
      BY <2>1, <2>2
    <3>3. SubSeq(ss, 1, n + 1) = Append(SubSeq(ss, 1, n), ss[n + 1])
      BY <3>1
    <3>. QED
      BY <2>2, <3>1, <3>2, <3>3, Zenon
  <2>4. FlattenSeq(Cat(<<s>>, a)) = Cat(s, FlattenSeq(a))
    <3>1. n <= Len(ss) /\ ConsAt(s, ss, n)
      BY <1>2, <2>1
    <3>. QED
      BY <2>2, <3>1 DEF ConsAt
  <2>5. FlattenSeq(Cat(<<s>>, Append(a, e))) = Cat(s, FlattenSeq(Append(a, e)))
    BY <2>3, <2>4, FlattenConsStep
  <2>. QED
    BY <2>3, <2>5 DEF ConsAt
<1>. HIDE DEF T
<1>3. Len(ss) \in T
  BY <1>1, <1>2, NatSetInduction, LenProperties
<1>4. SubSeq(ss, 1, Len(ss)) = ss
  BY SubSeqFull
<1>5. ConsAt(s, ss, Len(ss))
  BY <1>3 DEF T
<1>6. FlattenSeq(Cat(<<s>>, ss)) = Cat(s, FlattenSeq(ss))
  <2>1. Len(ss) \in Nat /\ Len(ss) <= Len(ss)
    BY LenProperties
  <2>. QED
    BY <1>4, <1>5, <2>1 DEF ConsAt
<1>. QED
  BY <1>6 DEF Cat
\* The first and the last element of a sequence, and another one in its place.
LEMMA FrontOf ==
    ASSUME NEW S, NEW s \in Seq(S), s # <<>>
    PROVE  /\ Len(s) \in Nat \ {0}
           /\ SubSeq(s, 1, Len(s) - 1) \in Seq(S)
           /\ Len(SubSeq(s, 1, Len(s) - 1)) = Len(s) - 1
           /\ \A k \in 1 .. Len(s) - 1 : SubSeq(s, 1, Len(s) - 1)[k] = s[k]
           /\ s = Append(SubSeq(s, 1, Len(s) - 1), s[Len(s)])
<1>1. PICK n \in Nat \ {0} : n = Len(s)
  BY EmptySeq
<1>2. \A k \in 1 .. n - 1 : s[k] \in S
  BY <1>1
<1>3. PICK f : f = SubSeq(s, 1, n - 1)
  OBVIOUS
<1>4. f \in Seq(S) /\ Len(f) = n - 1 /\ \A k \in 1 .. n - 1 : f[k] = s[k]
  BY <1>1, <1>2, <1>3
<1>5. PICK g : g = Append(f, s[n])
  OBVIOUS
<1>6. g \in Seq(S) /\ Len(g) = n /\ \A k \in 1 .. n : g[k] = s[k]
  BY <1>1, <1>4, <1>5
<1>7. g = s
  BY <1>1, <1>6, SeqEqual
<1>. QED
  BY <1>1, <1>3, <1>4, <1>5, <1>7

LEMMA ReplaceLast ==
    ASSUME NEW S, NEW s \in Seq(S), s # <<>>, NEW t \in Seq(S), Len(t) = Len(s),
           \A k \in 1 .. Len(s) - 1 : t[k] = s[k]
    PROVE  t = Append(SubSeq(s, 1, Len(s) - 1), t[Len(s)])
<1>1. PICK n \in Nat \ {0} : n = Len(s)
  BY EmptySeq
<1>2. t # <<>>
  BY <1>1
<1>3. t = Append(SubSeq(t, 1, n - 1), t[n])
  BY <1>1, <1>2, FrontOf
<1>4. SubSeq(t, 1, n - 1) = SubSeq(s, 1, n - 1)
  <2>1. PICK f, g : f = SubSeq(s, 1, n - 1) /\ g = SubSeq(t, 1, n - 1)
    OBVIOUS
  <2>2. f \in Seq(S) /\ Len(f) = n - 1 /\ \A k \in 1 .. n - 1 : f[k] = s[k]
    BY <1>1, <2>1, FrontOf
  <2>3. g \in Seq(S) /\ Len(g) = n - 1 /\ \A k \in 1 .. n - 1 : g[k] = t[k]
    BY <1>1, <1>2, <2>1, FrontOf
  <2>4. \A k \in 1 .. n - 1 : f[k] = g[k]
    BY <1>1, <2>2, <2>3
  <2>. QED
    BY <2>1, <2>2, <2>3, <2>4, SeqEqual
<1>. QED
  BY <1>1, <1>3, <1>4

LEMMA ReplaceFirst ==
    ASSUME NEW S, NEW s \in Seq(S), s # <<>>, NEW c \in S,
           NEW t, t = [s EXCEPT ![1] = c]
    PROVE  /\ t \in Seq(S) /\ Len(t) = Len(s) /\ t[1] = c
           /\ \A k \in 2 .. Len(s) : t[k] = s[k]
           /\ t = <<c>> \o Tail(s)
           /\ s = <<s[1]>> \o Tail(s)
           /\ Tail(s) \in Seq(S) /\ Len(Tail(s)) = Len(s) - 1
           /\ \A k \in 1 .. Len(s) - 1 : Tail(s)[k] = s[k + 1]
<1>1. PICK n \in Nat \ {0} : n = Len(s)
  BY EmptySeq
<1>2. t \in Seq(S) /\ Len(t) = n /\ t[1] = c /\ \A k \in 2 .. n : t[k] = s[k]
  BY <1>1
<1>3. PICK r : r = Tail(s)
  OBVIOUS
<1>4. r \in Seq(S) /\ Len(r) = n - 1 /\ \A k \in 1 .. n - 1 : r[k] = s[k + 1]
  BY <1>1, <1>3, HeadTailProperties
<1>5. ASSUME NEW d \in S, NEW u \in Seq(S), Len(u) = n, u[1] = d,
             \A k \in 2 .. n : u[k] = s[k]
      PROVE  u = <<d>> \o r
  <2>1. PICK g : g = <<d>> \o r
    OBVIOUS
  <2>2. <<d>> \in Seq(S) /\ Len(<<d>>) = 1 /\ <<d>>[1] = d
    OBVIOUS
  <2>3. /\ g \in Seq(S) /\ Len(g) = n
        /\ \A k \in 1 .. n : g[k] = IF k <= 1 THEN d ELSE r[k - 1]
    BY <1>1, <1>4, <2>1, <2>2, ConcatProperties
  <2>4. ASSUME NEW k \in 1 .. n PROVE g[k] = u[k]
    <3>1. CASE k = 1
      BY <1>5, <2>3, <3>1
    <3>2. CASE k # 1
      <4>1. g[k] = r[k - 1]
        BY <2>3, <3>2
      <4>2. k - 1 \in 1 .. n - 1 /\ k - 1 + 1 = k /\ k \in 2 .. n
        BY <3>2
      <4>3. r[k - 1] = s[k - 1 + 1]
        BY <1>4, <4>2
      <4>. QED
        BY <1>5, <4>1, <4>2, <4>3
    <3>. QED
      BY <3>1, <3>2
  <2>. QED
    BY <1>5, <2>1, <2>3, <2>4, SeqEqual
<1>6. s[1] \in S
  BY <1>1
<1>. QED
  BY <1>1, <1>2, <1>3, <1>4, <1>5, <1>6

----------------------------------------------------------------------------
(* Bytes that follow one another *)

Run(a, n) == [i \in 1 .. n |-> a + i]

LEMMA RunIs ==
    ASSUME NEW a \in Int, NEW n \in Nat
    PROVE  /\ Run(a, n) \in Seq(Int) /\ Len(Run(a, n)) = n
           /\ \A i \in 1 .. n : Run(a, n)[i] = a + i
BY DEF Run

LEMMA RunEqual ==
    ASSUME NEW a \in Int, NEW n \in Nat, NEW s \in Seq(Int), Len(s) = n,
           \A i \in 1 .. n : s[i] = a + i
    PROVE  s = Run(a, n)
<1>1. PICK r : r = Run(a, n)
  OBVIOUS
<1>2. r \in Seq(Int) /\ Len(r) = n /\ \A i \in 1 .. n : r[i] = s[i]
  BY <1>1, RunIs
<1>. QED
  BY <1>1, <1>2, SeqEqual

LEMMA RunConcat ==
    ASSUME NEW a \in Int, NEW n \in Nat, NEW m \in Nat
    PROVE  Run(a, n) \o Run(a + n, m) = Run(a, n + m)
<1>1. PICK p, q, s : p = Run(a, n) /\ q = Run(a + n, m) /\ s = p \o q
  OBVIOUS
<1>2. /\ p \in Seq(Int) /\ Len(p) = n /\ \A i \in 1 .. n : p[i] = a + i
      /\ q \in Seq(Int) /\ Len(q) = m /\ \A i \in 1 .. m : q[i] = a + n + i
  <2>1. PICK c \in Int : c = a + n
    OBVIOUS
  <2>2. q \in Seq(Int) /\ Len(q) = m /\ \A i \in 1 .. m : q[i] = c + i
    BY <1>1, <2>1, RunIs
  <2>. QED
    BY <1>1, <2>1, <2>2, RunIs
<1>3. /\ s \in Seq(Int) /\ Len(s) = n + m
      /\ \A i \in 1 .. n + m : s[i] = IF i <= n THEN p[i] ELSE q[i - n]
  <2>1. /\ s \in Seq(Int) /\ Len(s) = Len(p) + Len(q)
        /\ \A i \in 1 .. Len(p) + Len(q) :
               s[i] = IF i <= Len(p) THEN p[i] ELSE q[i - Len(p)]
    <3>1. p \in Seq(Int) /\ q \in Seq(Int)
      BY <1>2
    <3>2. /\ p \o q \in Seq(Int) /\ Len(p \o q) = Len(p) + Len(q)
          /\ \A i \in 1 .. Len(p) + Len(q) :
                 (p \o q)[i] = IF i <= Len(p) THEN p[i] ELSE q[i - Len(p)]
      BY <3>1, ConcatProperties, Zenon
    <3>. QED
      BY <1>1, <3>2, Zenon
  <2>. QED
    BY <1>2, <2>1, Zenon
<1>4. ASSUME NEW i \in 1 .. n + m PROVE s[i] = a + i
  <2>1. CASE i <= n
    BY <1>2, <1>3, <2>1
  <2>2. CASE i > n
    <3>1. i - n \in 1 .. m
      BY <2>2
    <3>2. q[i - n] = a + n + (i - n)
      BY <1>2, <3>1
    <3>. QED
      BY <1>3, <2>2, <3>2
  <2>. QED
    BY <2>1, <2>2
<1>5. s = Run(a, n + m)
  BY <1>3, <1>4, RunEqual
<1>. QED
  BY <1>1, <1>5

LEMMA RunParts ==
    ASSUME NEW a \in Int, NEW n \in Nat, NEW k \in 0 .. n
    PROVE  /\ SubSeq(Run(a, n), 1, k) = Run(a, k)
           /\ SubSeq(Run(a, n), k + 1, n) = Run(a + k, n - k)
<1>1. PICK r : r = Run(a, n)
  OBVIOUS
<1>2. r \in Seq(Int) /\ Len(r) = n /\ \A i \in 1 .. n : r[i] = a + i
  BY <1>1, RunIs
<1>3. SubSeq(r, 1, k) = Run(a, k)
  <2>1. PICK p : p = SubSeq(r, 1, k)
    OBVIOUS
  <2>2. \A i \in 1 .. k : r[i] \in Int
    BY <1>2
  <2>3. p \in Seq(Int) /\ Len(p) = k /\ \A i \in 1 .. k : p[i] = r[i]
    BY <2>1, <2>2
  <2>4. k \in Nat /\ \A i \in 1 .. k : p[i] = a + i
    BY <1>2, <2>3
  <2>5. p = Run(a, k)
    BY <2>3, <2>4, RunEqual
  <2>. QED
    BY <2>1, <2>5
<1>4. SubSeq(r, k + 1, n) = Run(a + k, n - k)
  <2>1. PICK p : p = SubSeq(r, k + 1, n)
    OBVIOUS
  <2>2. \A i \in k + 1 .. n : r[i] \in Int
    BY <1>2
  <2>3. p \in Seq(Int) /\ Len(p) = n - k /\ \A i \in 1 .. n - k : p[i] = r[k + i]
    BY <2>1, <2>2
  <2>4. \A i \in 1 .. n - k : p[i] = a + k + i
    BY <1>2, <2>3
  <2>5. PICK c \in Int, m \in Nat : c = a + k /\ m = n - k
    OBVIOUS
  <2>6. p = Run(c, m)
    BY <2>3, <2>4, <2>5, RunEqual
  <2>. QED
    BY <2>1, <2>5, <2>6
<1>. QED
  BY <1>1, <1>3, <1>4

----------------------------------------------------------------------------
(* Blocks that follow one another *)

\* Blocks with bytes in order.
Block == {b \in [begin : 0 .. BlockSize, end : 0 .. BlockSize,
                 buf : [0 .. BlockSize - 1 -> Int]] : b.begin <= b.end}

LEMMA BlockType ==
    /\ BlockSize \in Nat \ {0}
    /\ \A b \in Block : /\ b.begin \in Nat /\ b.end \in Nat
                        /\ b.begin <= b.end /\ b.end <= BlockSize
                        /\ b.buf \in [0 .. BlockSize - 1 -> Int]
BY BufAssumption DEF Block

\* The number of the byte at offset 0 of block k, when it is a in the first.
Base(a, k) == a + (k - 1) * BlockSize

LEMMA BaseIs ==
    ASSUME NEW a \in Int, NEW k \in Int
    PROVE  /\ Base(a, 1) = a
           /\ Base(a, k) \in Int
           /\ Base(a, k + 1) = Base(a, k) + BlockSize
           /\ Base(a + BlockSize, k) = Base(a, k) + BlockSize
<1>1. BlockSize \in Int
  BY BlockType
<1>2. PICK j \in Int : j = k - 1 /\ k + 1 - 1 = j + 1
  OBVIOUS
<1>3. (j + 1) * BlockSize = j * BlockSize + BlockSize /\ j * BlockSize \in Int
  BY <1>1
<1>4. (1 - 1) * BlockSize = 0
  BY <1>1
<1>. QED
  BY <1>1, <1>2, <1>3, <1>4 DEF Base

LEMMA BaseOfBase ==
    ASSUME NEW a \in Int, NEW k \in Int, NEW m \in Int
    PROVE  Base(Base(a, k), m) = Base(a, k + m - 1)
<1>1. BlockSize \in Int
  BY BlockType
<1>2. PICK i \in Int, j \in Int : i = k - 1 /\ j = m - 1 /\ k + m - 1 - 1 = i + j
  OBVIOUS
<1>3. (i + j) * BlockSize = i * BlockSize + j * BlockSize
      /\ i * BlockSize \in Int /\ j * BlockSize \in Int
  BY <1>1
<1>. QED
  BY <1>2, <1>3 DEF Base

\* The bytes of block b are numbered, the one at offset 0 would be t.
Numbered(b, t) ==
    \A j \in 0 .. BlockSize - 1 : b.begin <= j /\ j < b.end => b.buf[j] = t + j

\* A list of blocks as push leaves it: all but the last are full, all but the
\* first begin at 0, and the numbers go on from one to the next.
Chain(bs, a) ==
    /\ bs \in Seq(Block) /\ bs # <<>>
    /\ \A k \in 1 .. Len(bs) : bs[k].end = BlockSize <=> k < Len(bs)
    /\ \A k \in 2 .. Len(bs) : bs[k].begin = 0
    /\ \A k \in 1 .. Len(bs) : Numbered(bs[k], Base(a, k))

LEMMA BytesOfIs ==
    ASSUME NEW b \in Block, NEW t \in Int
    PROVE  /\ BytesOf(b) \in Seq(Int)
           /\ Numbered(b, t) => BytesOf(b) = Run(t + b.begin - 1, b.end - b.begin)
<1>1. /\ b.begin \in Nat /\ b.end \in Nat /\ b.begin <= b.end /\ b.end <= BlockSize
      /\ b.buf \in [0 .. BlockSize - 1 -> Int] /\ BlockSize \in Nat
  BY BlockType
<1>2. PICK s : s = BytesOf(b)
  OBVIOUS
<1>3. PICK n \in Nat : n = b.end - b.begin
  BY <1>1
<1>4. \A i \in 1 .. n : b.begin + i - 1 \in 0 .. BlockSize - 1
  BY <1>1, <1>3
<1>5. s \in Seq(Int) /\ Len(s) = n /\ \A i \in 1 .. n : s[i] = b.buf[b.begin + i - 1]
  <2>1. s = [i \in 1 .. n |-> b.buf[b.begin + i - 1]]
    BY <1>2, <1>3 DEF BytesOf
  <2>2. \A i \in 1 .. n : b.buf[b.begin + i - 1] \in Int
    BY <1>1, <1>4
  <2>. QED
    BY <2>1, <2>2
<1>6. ASSUME Numbered(b, t) PROVE s = Run(t + b.begin - 1, n)
  <2>1. ASSUME NEW i \in 1 .. n PROVE s[i] = (t + b.begin - 1) + i
    <3>1. PICK j \in 0 .. BlockSize - 1 : j = b.begin + i - 1
      BY <1>4
    <3>2. b.begin <= j /\ j < b.end
      BY <1>1, <1>3, <3>1
    <3>3. b.buf[j] = t + j
      BY <1>6, <3>2 DEF Numbered
    <3>4. s[i] = b.buf[b.begin + i - 1] /\ b.begin \in Int /\ i \in Int
      BY <1>1, <1>5
    <3>5. s[i] = t + (b.begin + i - 1)
      BY <3>1, <3>3, <3>4
    <3>. QED
      BY <3>4, <3>5
  <2>2. t + b.begin - 1 \in Int
    BY <1>1
  <2>. QED
    BY <1>5, <2>1, <2>2, RunEqual
<1>. QED
  BY <1>2, <1>3, <1>5, <1>6

\* Concat of no block, and of one block more.
LEMMA ConcatEmpty == Concat(<<>>) = <<>>
<1>1. [k \in DOMAIN <<>> |-> BytesOf(<<>>[k])] = <<>>
  OBVIOUS
<1>. QED
  BY <1>1, FlattenEmpty DEF Concat

LEMMA ConcatAppend ==
    ASSUME NEW bs \in Seq(Block), NEW b \in Block
    PROVE  /\ Concat(bs) \in Seq(Int)
           /\ Concat(Append(bs, b)) = Concat(bs) \o BytesOf(b)
<1>1. PICK cs : cs = Append(bs, b)
  OBVIOUS
<1>2. PICK n \in Nat : n = Len(bs)
  BY LenProperties
<1>3. /\ cs \in Seq(Block) /\ Len(cs) = n + 1
      /\ \A k \in 1 .. n : cs[k] = bs[k]
      /\ cs[n + 1] = b
  BY <1>1, <1>2, AppendProperties
<1>4. PICK ws, vs, m : /\ ws = [k \in DOMAIN bs |-> BytesOf(bs[k])]
                       /\ vs = [k \in DOMAIN cs |-> BytesOf(cs[k])]
                       /\ m = BytesOf(b)
  OBVIOUS
<1>5. \A x \in Block : BytesOf(x) \in Seq(Int)
  <2>1. 0 \in Int
    OBVIOUS
  <2>. QED
    BY <2>1, BytesOfIs
<1>6. /\ DOMAIN bs = 1 .. n /\ \A k \in 1 .. n : bs[k] \in Block
      /\ DOMAIN cs = 1 .. n + 1 /\ \A k \in 1 .. n + 1 : cs[k] \in Block
  BY <1>2, <1>3
<1>7. ws \in [1 .. n -> Seq(Int)] /\ vs \in [1 .. n + 1 -> Seq(Int)]
  BY <1>4, <1>5, <1>6
<1>8. /\ ws \in Seq(Seq(Int)) /\ Len(ws) = n /\ vs \in Seq(Seq(Int)) /\ Len(vs) = n + 1
      /\ m \in Seq(Int)
  BY <1>4, <1>5, <1>7
<1>9. (\A k \in 1 .. n : vs[k] = ws[k]) /\ vs[n + 1] = m
  BY <1>3, <1>4, <1>6
<1>10. vs = Append(ws, m)
  <2>1. PICK us : us = Append(ws, m)
    OBVIOUS
  <2>2. us \in Seq(Seq(Int)) /\ Len(us) = Len(vs) /\ \A k \in 1 .. Len(vs) : vs[k] = us[k]
    BY <1>8, <1>9, <2>1
  <2>. QED
    BY <1>8, <2>1, <2>2, SeqEqual
<1>11. /\ FlattenSeq(ws) \in Seq(Int)
       /\ FlattenSeq(vs) = FlattenSeq(ws) \o m
  BY <1>8, <1>10, FlattenAppend
<1>12. Concat(bs) = FlattenSeq(ws) /\ Concat(cs) = FlattenSeq(vs)
  BY <1>4 DEF Concat
<1>. QED
  BY <1>1, <1>4, <1>11, <1>12

\* How many bytes the first k blocks hold.
Upto(bs, a, k) == IF k = 0 THEN 0 ELSE Base(a, k) + bs[k].end - a - bs[1].begin

LEMMA ChainFacts ==
    ASSUME NEW a \in Int, NEW bs, Chain(bs, a)
    PROVE  /\ Len(bs) \in Nat \ {0}
           /\ \A k \in 1 .. Len(bs) :
                  /\ bs[k] \in Block /\ bs[k].begin \in Nat /\ bs[k].end \in Nat
                  /\ bs[k].begin <= bs[k].end /\ bs[k].end <= BlockSize
                  /\ Upto(bs, a, k) \in Int
                  /\ bs[k].end = BlockSize <=> k < Len(bs)
           /\ \A k \in 2 .. Len(bs) : bs[k].begin = 0
           /\ Upto(bs, a, 0) = 0
           /\ \A k \in 0 .. Len(bs) - 1 :
                  Upto(bs, a, k + 1) = Upto(bs, a, k) + bs[k + 1].end - bs[k + 1].begin
<1>1. bs \in Seq(Block) /\ Len(bs) \in Nat \ {0}
  BY EmptySeq DEF Chain
<1>2. \A k \in 1 .. Len(bs) :
          /\ bs[k] \in Block /\ bs[k].begin \in Nat /\ bs[k].end \in Nat
          /\ bs[k].begin <= bs[k].end /\ bs[k].end <= BlockSize
  BY <1>1, BlockType
<1>3. \A k \in 1 .. Len(bs) : bs[k].end = BlockSize <=> k < Len(bs)
  BY DEF Chain
<1>4. \A k \in 2 .. Len(bs) : bs[k].begin = 0
  BY DEF Chain
<1>5. Upto(bs, a, 0) = 0
  BY DEF Upto
<1>6. \A k \in 1 .. Len(bs) : Upto(bs, a, k) \in Int
  <2>1. ASSUME NEW k \in 1 .. Len(bs) PROVE Upto(bs, a, k) \in Int
    <3>1. Base(a, k) \in Int
      BY <1>1, BaseIs
    <3>2. bs[k].end \in Nat /\ bs[1].begin \in Nat
      BY <1>1, <1>2
    <3>. QED
      BY <1>1, <3>1, <3>2 DEF Upto
  <2>. QED
    BY <2>1
<1>7. ASSUME NEW k \in 0 .. Len(bs) - 1
      PROVE  Upto(bs, a, k + 1) = Upto(bs, a, k) + bs[k + 1].end - bs[k + 1].begin
  <2>1. /\ k + 1 \in 1 .. Len(bs) /\ k + 1 # 0 /\ 1 \in 1 .. Len(bs)
        /\ bs[1].begin \in Nat /\ bs[k + 1].begin \in Nat /\ bs[k + 1].end \in Nat
    BY <1>1, <1>2
  <2>2. Upto(bs, a, k + 1) = Base(a, k + 1) + bs[k + 1].end - a - bs[1].begin
    BY <2>1 DEF Upto
  <2>3. CASE k = 0
    <3>1. Base(a, 1) = a
      BY BaseIs
    <3>. QED
      BY <1>5, <2>1, <2>2, <2>3, <3>1
  <2>4. CASE k # 0
    <3>1. k \in 1 .. Len(bs) /\ k + 1 \in 2 .. Len(bs) /\ k < Len(bs)
      BY <1>1, <2>4
    <3>2. bs[k].end = BlockSize /\ bs[k + 1].begin = 0
      BY <1>3, <1>4, <3>1
    <3>3. Base(a, k + 1) = Base(a, k) + BlockSize /\ Base(a, k) \in Int
      BY <3>1, BaseIs
    <3>4. Upto(bs, a, k) = Base(a, k) + BlockSize - a - bs[1].begin
      BY <2>4, <3>2 DEF Upto
    <3>5. bs[k + 1].end \in Int /\ bs[1].begin \in Int /\ BlockSize \in Int
      BY <2>1, BlockType
    <3>. QED
      BY <2>2, <3>2, <3>3, <3>4, <3>5
  <2>. QED
    BY <2>3, <2>4
<1>. QED
  BY <1>1, <1>2, <1>3, <1>4, <1>5, <1>6, <1>7

UptoIs(bs, a, x, k) ==
    k <= Len(bs) => /\ Upto(bs, a, k) \in Nat
                    /\ Concat(SubSeq(bs, 1, k)) = Run(x, Upto(bs, a, k))

\* The bytes of the first blocks of a chain.
LEMMA ChainConcat ==
    ASSUME NEW a \in Int, NEW bs, Chain(bs, a)
    PROVE  \A k \in 0 .. Len(bs) :
               /\ Upto(bs, a, k) \in Nat
               /\ Concat(SubSeq(bs, 1, k)) = Run(a + bs[1].begin - 1, Upto(bs, a, k))
<1>1. PICK x \in Int : x = a + bs[1].begin - 1
  BY ChainFacts
<1> DEFINE T == {k \in Nat : UptoIs(bs, a, x, k)}
<1>2. 0 \in T
  <2>1. SubSeq(bs, 1, 0) = <<>> /\ Upto(bs, a, 0) = 0
    BY SubSeqEmpty, ChainFacts
  <2>2. Run(x, 0) = <<>>
    BY DEF Run
  <2>3. PICK z \in Nat : z = 0
    OBVIOUS
  <2>4. Concat(SubSeq(bs, 1, 0)) = Run(x, z) /\ Upto(bs, a, 0) = z
    BY <2>1, <2>2, <2>3, ConcatEmpty, Zenon
  <2>5. UptoIs(bs, a, x, 0)
    BY <2>4, Zenon DEF UptoIs
  <2>. QED
    BY <2>5
<1>3. ASSUME NEW k \in Nat, k \in T
      PROVE  k + 1 \in T
  <2>1. SUFFICES ASSUME k + 1 <= Len(bs)
                 PROVE  /\ Upto(bs, a, k + 1) \in Nat
                        /\ Concat(SubSeq(bs, 1, k + 1)) = Run(x, Upto(bs, a, k + 1))
    BY DEF UptoIs
  <2>2. Len(bs) \in Nat \ {0} /\ bs \in Seq(Block)
    BY ChainFacts DEF Chain
  <2>3. PICK cs, b : cs = SubSeq(bs, 1, k) /\ b = bs[k + 1]
    OBVIOUS
  <2>4. cs \in Seq(Block) /\ b \in Block /\ SubSeq(bs, 1, k + 1) = Append(cs, b)
    <3>1. \A i \in 1 .. k + 1 : bs[i] \in Block
      BY <2>1, <2>2
    <3>2. k + 1 \in 1 .. Len(bs) /\ k + 1 \in 1 .. k + 1
      BY <2>1
    <3>3. cs \in Seq(Block) /\ b \in Block
      BY <2>3, <3>1, <3>2
    <3>4. SubSeq(bs, 1, k + 1) = Append(cs, b)
      BY <2>1, <2>2, <2>3
    <3>. QED
      BY <3>3, <3>4
  <2>5. PICK n \in Nat : n = Upto(bs, a, k) /\ Concat(cs) = Run(x, n)
    BY <1>3, <2>1, <2>2, <2>3 DEF UptoIs
  <2>6. Upto(bs, a, k + 1) = n + b.end - b.begin
    <3>1. k \in 0 .. Len(bs) - 1
      BY <2>1, <2>2
    <3>. QED
      BY <2>3, <2>5, <3>1, ChainFacts
  <2>7. b.begin \in Nat /\ b.end \in Nat /\ b.begin <= b.end
    BY <2>4, BlockType
  <2>8. BytesOf(b) = Run(x + n, b.end - b.begin)
    <3>1. Numbered(b, Base(a, k + 1)) /\ Base(a, k + 1) \in Int
      <4>1. k + 1 \in 1 .. Len(bs)
        BY <2>1, <2>2
      <4>. QED
        BY <2>3, <4>1, BaseIs DEF Chain
    <3>2. BytesOf(b) = Run(Base(a, k + 1) + b.begin - 1, b.end - b.begin)
      BY <2>4, <3>1, BytesOfIs
    <3>3. n + b.end - b.begin = Base(a, k + 1) + b.end - a - bs[1].begin
      BY <2>3, <2>6 DEF Upto
    <3>4. bs[1].begin \in Nat
      BY <2>2, ChainFacts
    <3>5. Base(a, k + 1) + b.begin - 1 = x + n
      BY <1>1, <2>7, <3>1, <3>3, <3>4
    <3>. QED
      BY <3>2, <3>5
  <2>9. PICK m \in Nat : m = b.end - b.begin
    BY <2>7
  <2>10. Run(x, n) \o Run(x + n, m) = Run(x, n + m)
    BY RunConcat
  <2>11. Concat(Append(cs, b)) = Concat(cs) \o BytesOf(b)
    BY <2>4, ConcatAppend
  <2>12. Upto(bs, a, k + 1) = n + m
    BY <2>6, <2>7, <2>9
  <2>13. Concat(SubSeq(bs, 1, k + 1)) = Run(x, n + m)
    BY <2>4, <2>5, <2>8, <2>9, <2>10, <2>11
  <2>. QED
    BY <2>12, <2>13
<1>. HIDE DEF T
<1>4. \A k \in Nat : k \in T
  BY <1>2, <1>3, NatSetInduction
<1>5. ASSUME NEW k \in 0 .. Len(bs)
      PROVE  /\ Upto(bs, a, k) \in Nat
             /\ Concat(SubSeq(bs, 1, k)) = Run(x, Upto(bs, a, k))
  <2>1. k \in Nat /\ k <= Len(bs)
    BY ChainFacts
  <2>. QED
    BY <1>4, <2>1 DEF T, UptoIs
<1>. QED
  BY <1>1, <1>5

----------------------------------------------------------------------------
(* What push appends *)

\* The number that follows the last byte of a chain.
EndOf(bs, a) == Base(a, Len(bs)) + bs[Len(bs)].end

LEMMA StoredIs ==
    ASSUME NEW b \in Block, NEW first \in Int, NEW n \in Nat, b.end + n <= BlockSize
    PROVE  /\ StoredAt(b, first, n) \in Block
           /\ StoredAt(b, first, n).begin = b.begin
           /\ StoredAt(b, first, n).end = b.end + n
           /\ \A t \in Int : Numbered(b, t) /\ t + b.end = first
                                => Numbered(StoredAt(b, first, n), t)
<1>1. /\ b.begin \in Nat /\ b.end \in Nat /\ b.begin <= b.end /\ b.end <= BlockSize
      /\ b.buf \in [0 .. BlockSize - 1 -> Int] /\ BlockSize \in Nat
  BY BlockType
<1>2. b = [begin |-> b.begin, end |-> b.end, buf |-> b.buf]
  BY DEF Block
<1>3. PICK u : u = [o \in 0 .. BlockSize - 1 |->
                        IF o \in b.end .. b.end + n - 1 THEN first + o - b.end ELSE b.buf[o]]
  OBVIOUS
<1>4. /\ u \in [0 .. BlockSize - 1 -> Int]
      /\ \A o \in 0 .. BlockSize - 1 :
             u[o] = IF o \in b.end .. b.end + n - 1 THEN first + o - b.end ELSE b.buf[o]
  <2>1. \A o \in 0 .. BlockSize - 1 : first + o - b.end \in Int /\ b.buf[o] \in Int
    BY <1>1
  <2>. QED
    BY <1>3, <2>1
<1>5. PICK c : c = StoredAt(b, first, n)
  OBVIOUS
<1>6. c = [b EXCEPT !.buf = u, !.end = @ + n]
  <2>1. DOMAIN b.buf = 0 .. BlockSize - 1
    BY <1>1
  <2>2. u = [o \in DOMAIN b.buf |->
                 IF o \in b.end .. b.end + n - 1 THEN first + o - b.end ELSE b.buf[o]]
    BY <1>3, <2>1
  <2>. QED
    BY <1>5, <2>2 DEF StoredAt
<1>7. /\ c.begin = b.begin /\ c.end = b.end + n /\ c.buf = u
      /\ c = [begin |-> b.begin, end |-> b.end + n, buf |-> u]
  <2>1. b \in [begin : 0 .. BlockSize, end : 0 .. BlockSize, buf : [0 .. BlockSize - 1 -> Int]]
    BY DEF Block
  <2>2. c = [begin |-> b.begin, end |-> b.end + n, buf |-> u]
    BY <1>6, <2>1, Zenon
  <2>. QED
    BY <2>2
<1>8. c \in Block
  <2>1. b.begin \in 0 .. BlockSize /\ b.end + n \in 0 .. BlockSize
    BY <1>1
  <2>2. c.begin <= c.end
    BY <1>1, <1>7
  <2>3. c \in [begin : 0 .. BlockSize, end : 0 .. BlockSize, buf : [0 .. BlockSize - 1 -> Int]]
    BY <1>4, <1>7, <2>1
  <2>. QED
    BY <2>2, <2>3 DEF Block
<1>9. ASSUME NEW t \in Int, Numbered(b, t), t + b.end = first
      PROVE  Numbered(c, t)
  <2>1. ASSUME NEW j \in 0 .. BlockSize - 1, b.begin <= j, j < b.end + n
        PROVE  u[j] = t + j
    <3>1. CASE j < b.end
      <4>1. b.buf[j] = t + j
        BY <1>9, <2>1, <3>1 DEF Numbered
      <4>2. u[j] = b.buf[j]
        BY <1>1, <1>4, <3>1
      <4>. QED
        BY <4>1, <4>2
    <3>2. CASE j >= b.end
      <4>1. u[j] = first + j - b.end
        BY <1>1, <1>4, <2>1, <3>2
      <4>. QED
        BY <1>1, <1>9, <4>1
    <3>. QED
      BY <1>1, <3>1, <3>2
  <2>. QED
    BY <1>7, <2>1 DEF Numbered
<1>. QED
  BY <1>5, <1>7, <1>8, <1>9

LEMMA NewBlockIs ==
    /\ NewBlock \in Block /\ NewBlock.begin = 0 /\ NewBlock.end = 0
    /\ \A t \in Int : Numbered(NewBlock, t)
<1>1. BlockSize \in Nat
  BY BlockType
<1>2. [o \in 0 .. BlockSize - 1 |-> 0] \in [0 .. BlockSize - 1 -> Int]
  OBVIOUS
<1>3. NewBlock.begin = 0 /\ NewBlock.end = 0
  BY DEF NewBlock
<1>4. NewBlock \in Block
  BY <1>1, <1>2, <1>3 DEF NewBlock, Block
<1>. QED
  BY <1>1, <1>3, <1>4 DEF Numbered

\* A chain of one block.
LEMMA ChainOne ==
    ASSUME NEW a \in Int, NEW b \in Block, b.end < BlockSize, Numbered(b, a)
    PROVE  /\ Chain(<<b>>, a) /\ EndOf(<<b>>, a) = a + b.end
           /\ Len(<<b>>) = 1 /\ <<b>>[1] = b
<1>1. PICK s : s = <<b>>
  OBVIOUS
<1>2. s \in Seq(Block) /\ Len(s) = 1 /\ s[1] = b /\ s # <<>>
  BY <1>1
<1>3. Base(a, 1) = a
  BY BaseIs
<1>4. b.end \in Nat /\ BlockSize \in Nat
  BY BlockType
<1>5. \A k \in 1 .. Len(s) : s[k].end = BlockSize <=> k < Len(s)
  BY <1>2, <1>4
<1>6. \A k \in 2 .. Len(s) : s[k].begin = 0
  BY <1>2
<1>7. \A k \in 1 .. Len(s) : Numbered(s[k], Base(a, k))
  BY <1>2, <1>3
<1>8. Chain(s, a)
  BY <1>2, <1>5, <1>6, <1>7 DEF Chain
<1>9. EndOf(s, a) = a + b.end
  BY <1>2, <1>3 DEF EndOf
<1>. QED
  BY <1>1, <1>2, <1>8, <1>9

\* The blocks before the last of a chain, and a chain that goes on from there.
LEMMA ChainJoin ==
    ASSUME NEW a \in Int, NEW bs, Chain(bs, a), NEW cs, Chain(cs, Base(a, Len(bs))),
           cs[1].begin = bs[Len(bs)].begin
    PROVE  LET ds == SubSeq(bs, 1, Len(bs) - 1) \o cs
           IN  /\ Chain(ds, a) /\ EndOf(ds, a) = EndOf(cs, Base(a, Len(bs)))
               /\ Len(ds) = Len(bs) - 1 + Len(cs)
               /\ ds[1].begin = bs[1].begin
<1>1. PICK k, m : k = Len(bs) /\ m = Len(cs)
  OBVIOUS
<1>2. /\ bs \in Seq(Block) /\ cs \in Seq(Block)
      /\ k \in Nat \ {0} /\ m \in Nat \ {0} /\ bs # <<>>
  BY <1>1, EmptySeq DEF Chain
<1>3. PICK t \in Int : t = Base(a, k)
  <2>1. Base(a, k) \in Int
    BY <1>2, BaseIs
  <2>. QED
    BY <2>1, Zenon
<1>4. PICK f : f = SubSeq(bs, 1, k - 1)
  OBVIOUS
<1>5. f \in Seq(Block) /\ Len(f) = k - 1 /\ \A i \in 1 .. k - 1 : f[i] = bs[i]
  BY <1>1, <1>2, <1>4, FrontOf
<1>6. PICK ds : ds = f \o cs
  OBVIOUS
<1>7. /\ ds \in Seq(Block) /\ Len(ds) = k - 1 + m
      /\ \A i \in 1 .. k - 1 + m : ds[i] = IF i <= k - 1 THEN f[i] ELSE cs[i - (k - 1)]
  BY <1>1, <1>2, <1>5, <1>6, ConcatProperties
<1>8. \A i \in 1 .. k - 1 : ds[i] = bs[i]
  BY <1>2, <1>5, <1>7
<1>9. \A i \in 1 .. m : ds[k - 1 + i] = cs[i]
  <2>1. ASSUME NEW i \in 1 .. m PROVE ds[k - 1 + i] = cs[i]
    <3>1. PICK j \in 1 .. k - 1 + m : j = k - 1 + i /\ ~(j <= k - 1) /\ j - (k - 1) = i
      BY <1>2
    <3>. QED
      BY <1>7, <3>1
  <2>. QED
    BY <2>1
<1>10. ASSUME NEW j \in 1 .. Len(ds), j > k - 1
       PROVE  \E i \in 1 .. m : j = k - 1 + i /\ ds[j] = cs[i]
  <2>1. j - (k - 1) \in 1 .. m /\ j = k - 1 + (j - (k - 1))
    BY <1>2, <1>7, <1>10
  <2>. QED
    BY <1>9, <2>1
<1>11. \A j \in 1 .. Len(ds) : ds[j].end = BlockSize <=> j < Len(ds)
  <2>1. ASSUME NEW j \in 1 .. Len(ds) PROVE ds[j].end = BlockSize <=> j < Len(ds)
    <3>1. CASE j <= k - 1
      <4>1. j \in 1 .. k - 1 /\ j \in 1 .. k /\ j < k /\ j < Len(ds)
        BY <1>2, <1>7, <3>1
      <4>2. bs[j].end = BlockSize
        BY <1>1, <4>1 DEF Chain
      <4>. QED
        BY <1>8, <4>1, <4>2
    <3>2. CASE j > k - 1
      <4>1. PICK i \in 1 .. m : j = k - 1 + i /\ ds[j] = cs[i]
        BY <1>10, <3>2
      <4>2. cs[i].end = BlockSize <=> i < m
        BY <1>1, <4>1 DEF Chain
      <4>3. i < m <=> j < Len(ds)
        <5>1. Len(ds) = k - 1 + m /\ k \in Int /\ m \in Int
          BY <1>2, <1>7
        <5>2. i \in Int /\ j = k - 1 + i
          BY <1>2, <4>1
        <5>. QED
          BY <5>1, <5>2
      <4>. QED
        BY <4>1, <4>2, <4>3
    <3>. QED
      BY <1>2, <1>7, <3>1, <3>2
  <2>. QED
    BY <2>1
<1>12. \A j \in 2 .. Len(ds) : ds[j].begin = 0
  <2>1. ASSUME NEW j \in 2 .. Len(ds) PROVE ds[j].begin = 0
    <3>0. j \in 1 .. Len(ds)
      BY <1>2, <1>7
    <3>1. CASE j <= k - 1
      <4>1. j \in 1 .. k - 1 /\ j \in 2 .. k
        BY <1>2, <1>7, <3>1
      <4>2. bs[j].begin = 0
        BY <1>1, <4>1 DEF Chain
      <4>. QED
        BY <1>8, <4>1, <4>2
    <3>2. CASE j > k - 1
      <4>1. PICK i \in 1 .. m : j = k - 1 + i /\ ds[j] = cs[i]
        BY <1>10, <3>0, <3>2
      <4>2. CASE i = 1
        <5>1. k \in 2 .. k
          BY <1>2, <4>1, <4>2
        <5>2. bs[k].begin = 0
          BY <1>1, <5>1 DEF Chain
        <5>. QED
          BY <1>1, <4>1, <4>2, <5>2
      <4>3. CASE i # 1
        <5>1. i \in 2 .. m
          BY <1>2, <4>3
        <5>. QED
          BY <1>1, <4>1, <5>1 DEF Chain
      <4>. QED
        BY <4>2, <4>3
    <3>. QED
      BY <1>2, <1>7, <3>1, <3>2
  <2>. QED
    BY <2>1
<1>13. \A i \in Int : Base(t, i) = Base(a, k - 1 + i)
  <2>1. ASSUME NEW i \in Int PROVE Base(t, i) = Base(a, k - 1 + i)
    <3>1. k \in Int /\ k + i - 1 = k - 1 + i
      BY <1>2
    <3>2. Base(Base(a, k), i) = Base(a, k + i - 1)
      BY <3>1, BaseOfBase
    <3>. QED
      BY <1>3, <3>1, <3>2
  <2>. QED
    BY <2>1
<1>14. \A j \in 1 .. Len(ds) : Numbered(ds[j], Base(a, j))
  <2>1. ASSUME NEW j \in 1 .. Len(ds) PROVE Numbered(ds[j], Base(a, j))
    <3>1. CASE j <= k - 1
      <4>1. j \in 1 .. k - 1 /\ j \in 1 .. k
        BY <1>2, <1>7, <3>1
      <4>2. Numbered(bs[j], Base(a, j))
        BY <1>1, <4>1 DEF Chain
      <4>. QED
        BY <1>8, <4>1, <4>2
    <3>2. CASE j > k - 1
      <4>1. PICK i \in 1 .. m : j = k - 1 + i /\ ds[j] = cs[i]
        BY <1>10, <3>2
      <4>2. Numbered(cs[i], Base(t, i))
        BY <1>1, <1>3, <4>1 DEF Chain
      <4>3. i \in Int
        OBVIOUS
      <4>. QED
        BY <1>13, <4>1, <4>2, <4>3
    <3>. QED
      BY <1>2, <1>7, <3>1, <3>2
  <2>. QED
    BY <2>1
<1>15. Chain(ds, a)
  <2>1. ds # <<>>
    BY <1>2, <1>7
  <2>. QED
    BY <1>7, <1>11, <1>12, <1>14, <2>1 DEF Chain
<1>16. EndOf(ds, a) = EndOf(cs, t)
  <2>1. m \in 1 .. m /\ m \in Int
    BY <1>2
  <2>2. ds[k - 1 + m] = cs[m] /\ Base(t, m) = Base(a, k - 1 + m)
    BY <1>9, <1>13, <2>1
  <2>. QED
    BY <1>1, <1>7, <2>2 DEF EndOf
<1>17. ds[1].begin = bs[1].begin
  <2>1. CASE k = 1
    <3>1. 1 \in 1 .. m /\ k - 1 + 1 = 1
      BY <1>2, <2>1
    <3>2. ds[1] = cs[1]
      BY <1>9, <3>1
    <3>. QED
      BY <1>1, <2>1, <3>2
  <2>2. CASE k # 1
    <3>1. 1 \in 1 .. k - 1
      BY <1>2, <2>2
    <3>. QED
      BY <1>8, <3>1
  <2>. QED
    BY <2>1, <2>2
<1>. QED
  BY <1>1, <1>3, <1>4, <1>6, <1>7, <1>15, <1>16, <1>17

\* A full block before a chain.
LEMMA ChainCons ==
    ASSUME NEW a \in Int, NEW b \in Block, b.end = BlockSize, Numbered(b, a),
           NEW cs, Chain(cs, a + BlockSize), cs[1].begin = 0
    PROVE  /\ Chain(Cat(<<b>>, cs), a)
           /\ EndOf(Cat(<<b>>, cs), a) = EndOf(cs, a + BlockSize)
           /\ Cat(<<b>>, cs)[1] = b
<1>1. PICK m : m = Len(cs)
  OBVIOUS
<1>2. cs \in Seq(Block) /\ m \in Nat \ {0} /\ cs # <<>> /\ BlockSize \in Nat \ {0}
  BY <1>1, EmptySeq, BlockType DEF Chain
<1>3. PICK t \in Int : t = a + BlockSize
  BY <1>2
<1>4. PICK ds : ds = Cat(<<b>>, cs)
  OBVIOUS
<1>5. /\ ds \in Seq(Block) /\ Len(ds) = m + 1 /\ ds[1] = b
      /\ \A i \in 2 .. m + 1 : ds[i] = cs[i - 1]
  <2>1. <<b>> \in Seq(Block) /\ Len(<<b>>) = 1 /\ <<b>>[1] = b
    OBVIOUS
  <2>2. /\ ds \in Seq(Block) /\ Len(ds) = 1 + m
        /\ \A i \in 1 .. 1 + m : ds[i] = IF i <= 1 THEN <<b>>[i] ELSE cs[i - 1]
    BY <1>1, <1>2, <1>4, <2>1, ConcatProperties DEF Cat
  <2>3. 1 \in 1 .. 1 + m
    BY <1>2
  <2>. QED
    BY <1>2, <2>1, <2>2, <2>3
<1>6. ASSUME NEW j \in 2 .. Len(ds)
      PROVE  \E i \in 1 .. m : j = i + 1 /\ ds[j] = cs[i]
  <2>1. j - 1 \in 1 .. m /\ j = (j - 1) + 1 /\ j \in 2 .. m + 1
    BY <1>2, <1>5
  <2>. QED
    BY <1>5, <2>1
<1>7. \A i \in Int : Base(t, i) = Base(a, i + 1)
  <2>1. ASSUME NEW i \in Int PROVE Base(t, i) = Base(a, i + 1)
    <3>1. Base(a + BlockSize, i) = Base(a, i) + BlockSize /\ Base(a, i + 1) = Base(a, i) + BlockSize
      BY BaseIs
    <3>. QED
      BY <1>3, <3>1
  <2>. QED
    BY <2>1
<1>8. \A j \in 1 .. Len(ds) : ds[j].end = BlockSize <=> j < Len(ds)
  <2>1. ASSUME NEW j \in 1 .. Len(ds) PROVE ds[j].end = BlockSize <=> j < Len(ds)
    <3>1. CASE j = 1
      BY <1>2, <1>5, <3>1
    <3>2. CASE j # 1
      <4>1. j \in 2 .. Len(ds)
        BY <1>2, <1>5, <3>2
      <4>2. PICK i \in 1 .. m : j = i + 1 /\ ds[j] = cs[i]
        BY <1>6, <4>1
      <4>3. cs[i].end = BlockSize <=> i < m
        BY <1>1 DEF Chain
      <4>. QED
        BY <1>2, <1>5, <4>2, <4>3
    <3>. QED
      BY <3>1, <3>2
  <2>. QED
    BY <2>1
<1>9. \A j \in 2 .. Len(ds) : ds[j].begin = 0
  <2>1. ASSUME NEW j \in 2 .. Len(ds) PROVE ds[j].begin = 0
    <3>1. PICK i \in 1 .. m : j = i + 1 /\ ds[j] = cs[i]
      BY <1>6
    <3>2. CASE i = 1
      BY <3>1, <3>2
    <3>3. CASE i # 1
      <4>1. i \in 2 .. m
        BY <1>2, <3>3
      <4>. QED
        BY <1>1, <3>1, <4>1 DEF Chain
    <3>. QED
      BY <3>2, <3>3
  <2>. QED
    BY <2>1
<1>10. \A j \in 1 .. Len(ds) : Numbered(ds[j], Base(a, j))
  <2>1. ASSUME NEW j \in 1 .. Len(ds) PROVE Numbered(ds[j], Base(a, j))
    <3>1. CASE j = 1
      BY <1>5, <3>1, BaseIs
    <3>2. CASE j # 1
      <4>1. j \in 2 .. Len(ds)
        BY <1>2, <1>5, <3>2
      <4>2. PICK i \in 1 .. m : j = i + 1 /\ ds[j] = cs[i]
        BY <1>6, <4>1
      <4>3. Numbered(cs[i], Base(t, i))
        BY <1>1, <1>3 DEF Chain
      <4>4. i \in Int
        OBVIOUS
      <4>. QED
        BY <1>7, <4>2, <4>3, <4>4
    <3>. QED
      BY <3>1, <3>2
  <2>. QED
    BY <2>1
<1>11. Chain(ds, a)
  <2>1. ds # <<>>
    BY <1>2, <1>5
  <2>. QED
    BY <1>5, <1>8, <1>9, <1>10, <2>1 DEF Chain
<1>12. EndOf(ds, a) = EndOf(cs, t)
  <2>1. m + 1 \in 2 .. m + 1 /\ m + 1 - 1 = m /\ m \in Int
    BY <1>2
  <2>2. ds[m + 1] = cs[m] /\ Base(t, m) = Base(a, m + 1)
    BY <1>5, <1>7, <2>1
  <2>. QED
    BY <1>1, <1>5, <2>2 DEF EndOf
<1>. QED
  BY <1>3, <1>4, <1>5, <1>11, <1>12

\* The recursive function in Filled, on the first sizes.
Fill(f, first, n, r) ==
    IF IsBlockFull(NewBlock, r)
    THEN Cat(<<StoredAt(NewBlock, first + n - r, BlockSize)>>, f[r - BlockSize])
    ELSE <<StoredAt(NewBlock, first + n - r, r)>>

IsFill(f, first, n, k) == \A r \in Nat : r <= k => f[r] = Fill(f, first, n, r)

LEMMA FullIs ==
    ASSUME NEW r \in Int
    PROVE  /\ IsBlockFull(NewBlock, r) <=> r >= BlockSize
           /\ r - BlockSize \in Int /\ r - BlockSize < r
<1>1. NewBlock.end = 0 /\ BlockSize \in Nat \ {0}
  BY NewBlockIs, BlockType
<1>. QED
  BY <1>1 DEF IsBlockFull

LEMMA FillSame ==
    ASSUME NEW f, NEW g, NEW first, NEW n, NEW r \in Int,
           \A o \in Int : o < r => g[o] = f[o]
    PROVE  Fill(g, first, n, r) = Fill(f, first, n, r)
<1>1. g[r - BlockSize] = f[r - BlockSize]
  BY FullIs
<1>. QED
  BY <1>1 DEF Fill

LEMMA FillExists ==
    ASSUME NEW first, NEW n, NEW k \in Nat
    PROVE  \E f : IsFill(f, first, n, k)
<1> DEFINE T == {i \in Nat : \E f : IsFill(f, first, n, i)}
<1>1. ASSUME NEW f, NEW i \in Nat, \A r \in Nat : r < i => f[r] = Fill(f, first, n, r)
      PROVE  \E g : IsFill(g, first, n, i)
  <2>1. PICK e : e = Fill(f, first, n, i)
    OBVIOUS
  <2>2. PICK g : g = [o \in Int |-> IF o = i THEN e ELSE f[o]]
    OBVIOUS
  <2>3. g[i] = e /\ \A o \in Int : o < i => g[o] = f[o]
    BY <2>2
  <2>4. ASSUME NEW r \in Nat, r <= i PROVE g[r] = Fill(g, first, n, r)
    <3>1. \A o \in Int : o < r => g[o] = f[o]
      BY <2>3, <2>4
    <3>2. Fill(g, first, n, r) = Fill(f, first, n, r)
      BY <3>1, FillSame
    <3>3. CASE r = i
      BY <2>1, <2>3, <3>2, <3>3
    <3>4. CASE r # i
      <4>1. r < i /\ r \in Int
        BY <2>4, <3>4
      <4>. QED
        BY <1>1, <2>3, <3>2, <4>1
    <3>. QED
      BY <3>3, <3>4
  <2>. QED
    BY <2>4 DEF IsFill
<1>2. 0 \in T
  <2>1. PICK f : f = 0
    OBVIOUS
  <2>2. \A r \in Nat : r < 0 => f[r] = Fill(f, first, n, r)
    OBVIOUS
  <2>3. \E g : IsFill(g, first, n, 0)
    BY <1>1, <2>2
  <2>. QED
    BY <2>3
<1>3. ASSUME NEW i \in Nat, i \in T PROVE i + 1 \in T
  <2>1. PICK f : IsFill(f, first, n, i)
    BY <1>3
  <2>2. \A r \in Nat : r < i + 1 => f[r] = Fill(f, first, n, r)
    BY <2>1 DEF IsFill
  <2>3. \E g : IsFill(g, first, n, i + 1)
    BY <1>1, <2>2
  <2>. QED
    BY <2>3
<1>. HIDE DEF T
<1>4. k \in T
  BY <1>2, <1>3, NatSetInduction
<1>. QED
  BY <1>4 DEF T

GoodFill(f, first, n, r) ==
    /\ Chain(f[r], first + n - r)
    /\ EndOf(f[r], first + n - r) = first + n
    /\ f[r][1].begin = 0

LEMMA FillGood ==
    ASSUME NEW first \in Int, NEW n \in Nat, NEW f, IsFill(f, first, n, n)
    PROVE  \A r \in 0 .. n : GoodFill(f, first, n, r)
<1> DEFINE T == {i \in Nat : \A r \in Nat : r < i /\ r <= n => GoodFill(f, first, n, r)}
<1>1. 0 \in T
  OBVIOUS
<1>2. ASSUME NEW i \in Nat, i \in T PROVE i + 1 \in T
  <2>1. \A r \in Nat : r < i /\ r <= n => GoodFill(f, first, n, r)
    BY <1>2
  <2>2. ASSUME i <= n PROVE GoodFill(f, first, n, i)
    <3>1. PICK t \in Int : t = first + n - i /\ t + i = first + n
      OBVIOUS
    <3>2. f[i] = Fill(f, first, n, i)
      BY <2>2 DEF IsFill
    <3>3. /\ BlockSize \in Nat \ {0}
          /\ IsBlockFull(NewBlock, i) <=> i >= BlockSize
          /\ NewBlock \in Block /\ NewBlock.begin = 0 /\ NewBlock.end = 0
          /\ Numbered(NewBlock, t) /\ t + NewBlock.end = t
      BY BlockType, FullIs, NewBlockIs
    <3>4. CASE IsBlockFull(NewBlock, i)
      <4>1. PICK b : b = StoredAt(NewBlock, t, BlockSize)
        OBVIOUS
      <4>2. NewBlock.end + BlockSize <= BlockSize /\ BlockSize \in Nat
        BY <3>3
      <4>3. b \in Block /\ b.begin = 0 /\ b.end = 0 + BlockSize /\ Numbered(b, t)
        BY <3>3, <4>1, <4>2, StoredIs
      <4>4. PICK j \in Nat : j = i - BlockSize /\ j < i /\ j <= n
        BY <2>2, <3>3, <3>4
      <4>5. GoodFill(f, first, n, j)
        BY <2>1, <4>4
      <4>6. first + n - j = t + BlockSize
        BY <3>1, <3>3, <4>4
      <4>7. PICK cs : cs = f[j]
        OBVIOUS
      <4>8. /\ Chain(cs, t + BlockSize) /\ EndOf(cs, t + BlockSize) = first + n
            /\ cs[1].begin = 0
        BY <4>5, <4>6, <4>7 DEF GoodFill
      <4>9. b.end = BlockSize
        BY <3>3, <4>3
      <4>10. /\ Chain(Cat(<<b>>, cs), t) /\ EndOf(Cat(<<b>>, cs), t) = first + n
             /\ Cat(<<b>>, cs)[1] = b
        BY <4>3, <4>8, <4>9, ChainCons
      <4>11. f[i] = Cat(<<b>>, cs)
        BY <3>1, <3>2, <3>4, <4>1, <4>4, <4>7 DEF Fill
      <4>. QED
        BY <3>1, <4>3, <4>10, <4>11 DEF GoodFill
    <3>5. CASE ~IsBlockFull(NewBlock, i)
      <4>1. PICK b : b = StoredAt(NewBlock, t, i)
        OBVIOUS
      <4>2. NewBlock.end + i <= BlockSize /\ i < BlockSize
        BY <3>3, <3>5
      <4>3. b \in Block /\ b.begin = 0 /\ b.end = 0 + i /\ Numbered(b, t)
        BY <3>3, <4>1, <4>2, StoredIs
      <4>4. b.end = i /\ b.end < BlockSize
        BY <4>2, <4>3
      <4>5. Chain(<<b>>, t) /\ EndOf(<<b>>, t) = t + i /\ <<b>>[1] = b
        BY <4>3, <4>4, ChainOne
      <4>6. f[i] = <<b>>
        BY <3>1, <3>2, <3>5, <4>1 DEF Fill
      <4>. QED
        BY <3>1, <4>3, <4>5, <4>6 DEF GoodFill
    <3>. QED
      BY <3>4, <3>5
  <2>3. ASSUME NEW r \in Nat, r < i + 1, r <= n PROVE GoodFill(f, first, n, r)
    <3>1. CASE r < i
      BY <2>1, <2>3, <3>1
    <3>2. CASE r = i
      BY <2>2, <2>3, <3>2
    <3>. QED
      BY <2>3, <3>1, <3>2
  <2>. QED
    BY <2>3
<1>. HIDE DEF T
<1>3. \A i \in Nat : i \in T
  BY <1>1, <1>2, NatSetInduction
<1>4. ASSUME NEW r \in 0 .. n PROVE GoodFill(f, first, n, r)
  <2>1. r + 1 \in T /\ r < r + 1 /\ r <= n /\ r \in Nat
    BY <1>3
  <2>. QED
    BY <2>1 DEF T
<1>. QED
  BY <1>4

\* What push puts in the place of the tail.
LEMMA FilledIs ==
    ASSUME NEW tail \in Block, tail.end < BlockSize, NEW t \in Int, Numbered(tail, t),
           NEW n \in Nat
    PROVE  LET grown == Filled(tail, t + tail.end, n)
           IN  /\ Chain(grown, t) /\ EndOf(grown, t) = t + tail.end + n
               /\ grown[1].begin = tail.begin
               /\ ~IsBlockFull(tail, n) => Len(grown) = 1
<1>1. PICK first \in Int : first = t + tail.end
  BY BlockType
<1> DEFINE D(h) == [r \in 0 .. n |->
                        IF IsBlockFull(NewBlock, r)
                        THEN Cat(<<StoredAt(NewBlock, first + n - r, BlockSize)>>,
                                 h[r - BlockSize])
                        ELSE <<StoredAt(NewBlock, first + n - r, r)>>]
           F == CHOOSE h : h = D(h)
<1>2. PICK f : IsFill(f, first, n, n)
  BY FillExists
<1>3. PICK g : g = [r \in 0 .. n |-> f[r]]
  OBVIOUS
<1>4. ASSUME NEW r \in 0 .. n PROVE g[r] = D(g)[r]
  <2>1. g[r] = Fill(f, first, n, r)
    BY <1>2, <1>3 DEF IsFill
  <2>2. CASE IsBlockFull(NewBlock, r)
    <3>1. r - BlockSize \in 0 .. n
      <4>1. r \in Int /\ BlockSize \in Int
        BY BlockType
      <4>2. r >= BlockSize /\ r - BlockSize < r
        BY <2>2, <4>1, FullIs
      <4>. QED
        BY <4>1, <4>2
    <3>. QED
      BY <1>3, <2>1, <2>2, <3>1 DEF Fill
  <2>3. CASE ~IsBlockFull(NewBlock, r)
    BY <2>1, <2>3 DEF Fill
  <2>. QED
    BY <2>2, <2>3
<1>5. g = D(g)
  BY <1>3, <1>4
<1>6. F = D(F)
  BY <1>5
<1>7. PICK grown : grown = Filled(tail, first, n)
  OBVIOUS
<1>8. grown = IF IsBlockFull(tail, n)
             THEN Cat(<<StoredAt(tail, first, BlockSize - tail.end)>>, F[n - (BlockSize - tail.end)])
             ELSE <<StoredAt(tail, first, n)>>
  BY <1>7 DEF Filled, Cat
<1>9. \A r \in 0 .. n : F[r] = D(F)[r]
  BY <1>6
<1>. HIDE DEF F
<1>10. IsFill(F, first, n, n)
  <2>1. ASSUME NEW r \in Nat, r <= n PROVE F[r] = Fill(F, first, n, r)
    BY <1>9, <2>1 DEF Fill
  <2>. QED
    BY <2>1 DEF IsFill
<1>11. tail.begin \in Nat /\ tail.end \in Nat /\ BlockSize \in Nat \ {0}
  BY BlockType
<1>12. CASE IsBlockFull(tail, n)
  <2>1. PICK s \in Nat : s = BlockSize - tail.end /\ tail.end + s <= BlockSize
                         /\ tail.end + s = BlockSize
    BY <1>11
  <2>2. PICK b : b = StoredAt(tail, first, s)
    OBVIOUS
  <2>3. b \in Block /\ b.begin = tail.begin /\ b.end = BlockSize /\ Numbered(b, t)
    BY <1>1, <2>1, <2>2, StoredIs
  <2>4. PICK r \in 0 .. n : r = n - s
    BY <1>11, <1>12, <2>1 DEF IsBlockFull
  <2>5. GoodFill(F, first, n, r)
    BY <1>10, FillGood
  <2>6. first + n - r = t + BlockSize
    BY <1>1, <1>11, <2>1, <2>4
  <2>7. PICK cs : cs = F[r]
    OBVIOUS
  <2>8. Chain(cs, t + BlockSize) /\ EndOf(cs, t + BlockSize) = first + n /\ cs[1].begin = 0
    BY <2>5, <2>6, <2>7 DEF GoodFill
  <2>9. grown = Cat(<<b>>, cs)
    BY <1>8, <1>12, <2>1, <2>2, <2>4, <2>7
  <2>10. Chain(grown, t) /\ EndOf(grown, t) = first + n /\ grown[1] = b
    BY <2>3, <2>8, <2>9, ChainCons
  <2>. QED
    BY <1>1, <1>7, <1>12, <2>3, <2>10
<1>13. CASE ~IsBlockFull(tail, n)
  <2>1. tail.end + n <= BlockSize /\ tail.end + n < BlockSize
    BY <1>11, <1>13 DEF IsBlockFull
  <2>2. PICK b : b = StoredAt(tail, first, n)
    OBVIOUS
  <2>3. b \in Block /\ b.begin = tail.begin /\ b.end = tail.end + n /\ Numbered(b, t)
    BY <1>1, <2>1, <2>2, StoredIs
  <2>4. /\ Chain(<<b>>, t) /\ EndOf(<<b>>, t) = t + (tail.end + n)
        /\ Len(<<b>>) = 1 /\ <<b>>[1] = b
    BY <2>1, <2>3, ChainOne
  <2>5. grown = <<b>>
    BY <1>8, <1>13, <2>2
  <2>6. t + (tail.end + n) = t + tail.end + n
    BY <1>11
  <2>. QED
    BY <1>1, <1>7, <1>13, <2>3, <2>4, <2>5, <2>6
<1>. QED
  BY <1>12, <1>13

----------------------------------------------------------------------------
(* What pull leaves *)

LEMMA AdvancedIs ==
    ASSUME NEW b \in Block, NEW n \in Nat, b.begin + n <= b.end
    PROVE  /\ Advanced(b, n) \in Block
           /\ Advanced(b, n).begin = b.begin + n
           /\ Advanced(b, n).end = b.end
           /\ \A t \in Int : Numbered(b, t) => Numbered(Advanced(b, n), t)
<1>1. /\ b.begin \in Nat /\ b.end \in Nat /\ b.begin <= b.end /\ b.end <= BlockSize
      /\ b.buf \in [0 .. BlockSize - 1 -> Int] /\ BlockSize \in Nat
  BY BlockType
<1>2. PICK c : c = Advanced(b, n)
  OBVIOUS
<1>3. /\ c.begin = b.begin + n /\ c.end = b.end /\ c.buf = b.buf
      /\ c = [begin |-> b.begin + n, end |-> b.end, buf |-> b.buf]
  <2>1. b \in [begin : 0 .. BlockSize, end : 0 .. BlockSize, buf : [0 .. BlockSize - 1 -> Int]]
    BY DEF Block
  <2>2. c = [b EXCEPT !.begin = @ + n]
    BY <1>2 DEF Advanced
  <2>3. c = [begin |-> b.begin + n, end |-> b.end, buf |-> b.buf]
    BY <2>1, <2>2, Zenon
  <2>. QED
    BY <2>3
<1>4. c \in Block
  <2>1. b.begin + n \in 0 .. BlockSize /\ b.end \in 0 .. BlockSize
    BY <1>1
  <2>2. c.begin <= c.end
    BY <1>3
  <2>3. c \in [begin : 0 .. BlockSize, end : 0 .. BlockSize, buf : [0 .. BlockSize - 1 -> Int]]
    BY <1>1, <1>3, <2>1
  <2>. QED
    BY <2>2, <2>3 DEF Block
<1>5. ASSUME NEW t \in Int, Numbered(b, t) PROVE Numbered(c, t)
  <2>1. ASSUME NEW j \in 0 .. BlockSize - 1, b.begin + n <= j, j < b.end
        PROVE  b.buf[j] = t + j
    <3>1. b.begin <= j
      BY <1>1, <2>1
    <3>. QED
      BY <1>5, <2>1, <3>1 DEF Numbered
  <2>. QED
    BY <1>3, <2>1 DEF Numbered
<1>. QED
  BY <1>2, <1>3, <1>4, <1>5

FromHead(bs, k, m) == [SubSeq(bs, k + 1, Len(bs)) EXCEPT ![1] = Advanced(@, m)]

LEMMA ChainDrop ==
    ASSUME NEW a \in Int, NEW bs, Chain(bs, a), NEW k \in 0 .. Len(bs) - 1, NEW m \in Nat,
           bs[k + 1].begin + m <= bs[k + 1].end
    PROVE  /\ Chain(FromHead(bs, k, m), Base(a, k + 1))
           /\ EndOf(FromHead(bs, k, m), Base(a, k + 1)) = EndOf(bs, a)
           /\ FromHead(bs, k, m)[1].begin = bs[k + 1].begin + m
           /\ Len(FromHead(bs, k, m)) = Len(bs) - k
<1>1. PICK l : l = Len(bs)
  OBVIOUS
<1>2. bs \in Seq(Block) /\ l \in Nat \ {0} /\ k \in Nat /\ k + 1 \in 1 .. l /\ l - k \in Nat \ {0}
  BY <1>1, ChainFacts DEF Chain
<1>3. PICK b \in Block : b = bs[k + 1] /\ b.begin \in Nat /\ b.end \in Nat
  BY <1>1, <1>2, ChainFacts
<1>4. PICK c : c = Advanced(b, m)
  OBVIOUS
<1>5. /\ c \in Block /\ c.begin = b.begin + m /\ c.end = b.end
      /\ \A t \in Int : Numbered(b, t) => Numbered(c, t)
  <2>1. b.begin + m <= b.end
    BY <1>3
  <2>. QED
    BY <1>4, <2>1, AdvancedIs
<1>6. PICK s : s = SubSeq(bs, k + 1, l)
  OBVIOUS
<1>7. s \in Seq(Block) /\ Len(s) = l - k /\ \A i \in 1 .. l - k : s[i] = bs[k + i]
  <2>1. PICK j \in Int : j = k + 1
    BY <1>2
  <2>2. \A i \in j .. l : bs[i] \in Block
    BY <1>1, <1>2, <2>1
  <2>3. s = SubSeq(bs, j, l)
    BY <1>6, <2>1
  <2>4. /\ s \in Seq(Block) /\ Len(s) = IF j <= l THEN l - j + 1 ELSE 0
        /\ \A i \in 1 .. l - j + 1 : s[i] = bs[j + i - 1]
    BY <1>2, <2>2, <2>3, SubSeqProperties
  <2>5. j <= l /\ l - j + 1 = l - k /\ \A i \in 1 .. l - k : j + i - 1 = k + i
    BY <1>2, <2>1
  <2>. QED
    BY <2>4, <2>5
<1>8. s # <<>> /\ s[1] = b
  <2>1. 1 \in 1 .. l - k
    BY <1>2
  <2>. QED
    BY <1>2, <1>3, <1>7, <2>1
<1>9. PICK ds : ds = [s EXCEPT ![1] = c]
  OBVIOUS
<1>10. ds = FromHead(bs, k, m)
  BY <1>1, <1>4, <1>6, <1>8, <1>9 DEF FromHead
<1>11. /\ ds \in Seq(Block) /\ Len(ds) = l - k /\ ds[1] = c
       /\ \A i \in 2 .. l - k : ds[i] = s[i]
  BY <1>5, <1>7, <1>8, <1>9, ReplaceFirst
<1>12. \A i \in 2 .. l - k : ds[i] = bs[k + i]
  <2>1. \A i \in 2 .. l - k : i \in 1 .. l - k
    BY <1>2
  <2>. QED
    BY <1>7, <1>11, <2>1
<1>13. \A i \in 1 .. l - k : ds[i].end = bs[k + i].end
  <2>1. ASSUME NEW i \in 1 .. l - k PROVE ds[i].end = bs[k + i].end
    <3>1. CASE i = 1
      BY <1>3, <1>5, <1>11, <3>1
    <3>2. CASE i # 1
      <4>1. i \in 2 .. l - k
        BY <3>2
      <4>. QED
        BY <1>12, <4>1
    <3>. QED
      BY <3>1, <3>2
  <2>. QED
    BY <2>1
<1>14. PICK t \in Int : t = Base(a, k + 1)
  BY <1>2, BaseIs
<1>15. \A i \in Int : Base(t, i) = Base(a, k + i)
  <2>1. ASSUME NEW i \in Int PROVE Base(t, i) = Base(a, k + i)
    <3>1. PICK j \in Int : j = k + 1 /\ j + i - 1 = k + i
      BY <1>2
    <3>2. Base(Base(a, j), i) = Base(a, j + i - 1)
      BY BaseOfBase
    <3>. QED
      BY <1>14, <3>1, <3>2
  <2>. QED
    BY <2>1
<1>16. \A i \in 1 .. l - k : i \in Int /\ k + i \in 1 .. l /\ (i < l - k <=> k + i < l)
  BY <1>2
<1>17. \A i \in 1 .. Len(ds) : ds[i].end = BlockSize <=> i < Len(ds)
  <2>1. \A i \in 1 .. l : bs[i].end = BlockSize <=> i < l
    BY <1>1 DEF Chain
  <2>. QED
    BY <1>11, <1>13, <1>16, <2>1
<1>18. \A i \in 2 .. Len(ds) : ds[i].begin = 0
  <2>1. \A i \in 2 .. l : bs[i].begin = 0
    BY <1>1 DEF Chain
  <2>2. \A i \in 2 .. l - k : k + i \in 2 .. l
    BY <1>2
  <2>. QED
    BY <1>11, <1>12, <2>1, <2>2
<1>19. \A i \in 1 .. Len(ds) : Numbered(ds[i], Base(t, i))
  <2>1. ASSUME NEW i \in 1 .. l - k PROVE Numbered(ds[i], Base(t, i))
    <3>1. Numbered(bs[k + i], Base(a, k + i)) /\ Base(t, i) = Base(a, k + i)
      BY <1>1, <1>15, <1>16 DEF Chain
    <3>2. CASE i = 1
      <4>1. Numbered(b, Base(a, k + 1)) /\ Base(t, i) = Base(a, k + 1)
        BY <1>3, <3>1, <3>2
      <4>. QED
        BY <1>5, <1>11, <1>14, <3>2, <4>1
    <3>3. CASE i # 1
      <4>1. i \in 2 .. l - k
        BY <3>3
      <4>. QED
        BY <1>12, <3>1, <4>1
    <3>. QED
      BY <3>2, <3>3
  <2>. QED
    BY <1>11, <2>1
<1>20. Chain(ds, t)
  <2>1. ds # <<>>
    BY <1>2, <1>11
  <2>. QED
    BY <1>11, <1>17, <1>18, <1>19, <2>1 DEF Chain
<1>21. EndOf(ds, t) = EndOf(bs, a)
  <2>1. PICK i \in 1 .. l - k : i = l - k /\ k + i = l /\ i \in Int
    BY <1>2
  <2>2. ds[i].end = bs[l].end /\ Base(t, i) = Base(a, l)
    BY <1>13, <1>15, <2>1
  <2>. QED
    BY <1>1, <1>11, <2>1, <2>2 DEF EndOf
<1>. QED
  BY <1>1, <1>3, <1>5, <1>10, <1>11, <1>14, <1>20, <1>21

----------------------------------------------------------------------------
(* The layout of the buffer when p bytes were pushed and c are left *)

Layout(bs, p, c) ==
    \E a \in Int : /\ Chain(bs, a)
                   /\ EndOf(bs, a) = p + 1
                   /\ a + bs[1].begin = p + 1 - c

LEMMA LayoutFacts ==
    ASSUME NEW bs, NEW p \in Nat, NEW c \in 0 .. p, Layout(bs, p, c)
    PROVE  \E a \in Int :
             /\ Chain(bs, a) /\ EndOf(bs, a) = p + 1 /\ a + bs[1].begin = p + 1 - c
             /\ Upto(bs, a, Len(bs)) = c
             /\ \A k \in 0 .. Len(bs) - 1 :
                    Upto(bs, a, k) = Base(a, k + 1) + bs[k + 1].begin - (p + 1 - c)
             /\ \A k \in 0 .. Len(bs) : /\ Upto(bs, a, k) \in Nat
                                        /\ Concat(SubSeq(bs, 1, k)) = Run(p - c, Upto(bs, a, k))
             /\ Concat(bs) = Run(p - c, c)
<1>1. PICK a \in Int : Chain(bs, a) /\ EndOf(bs, a) = p + 1 /\ a + bs[1].begin = p + 1 - c
  BY DEF Layout
<1>2. /\ Len(bs) \in Nat \ {0} /\ bs \in Seq(Block)
      /\ \A k \in 1 .. Len(bs) : bs[k].begin \in Nat /\ bs[k].end \in Nat
  BY <1>1, ChainFacts DEF Chain
<1>3. PICK l \in Nat \ {0} : l = Len(bs)
  BY <1>2
<1>4. 1 \in 1 .. l /\ l \in 1 .. l /\ l # 0 /\ bs[1].begin \in Nat /\ bs[l].end \in Nat
  BY <1>2, <1>3
<1>5. Upto(bs, a, l) = c
  <2>1. Base(a, l) \in Int
    BY BaseIs
  <2>2. Upto(bs, a, l) = Base(a, l) + bs[l].end - a - bs[1].begin
    BY <1>4 DEF Upto
  <2>3. Base(a, l) + bs[l].end = p + 1
    BY <1>1, <1>3 DEF EndOf
  <2>4. PICK x \in Int, y \in Int, z \in Int : x = Base(a, l) /\ y = bs[l].end /\ z = bs[1].begin
    BY <1>4, <2>1
  <2>5. x + y = p + 1 /\ a + z = p + 1 - c /\ Upto(bs, a, l) = x + y - a - z
    BY <1>1, <2>2, <2>3, <2>4
  <2>. QED
    BY <2>5
<1>6. ASSUME NEW k \in 0 .. l - 1
      PROVE  Upto(bs, a, k) = Base(a, k + 1) + bs[k + 1].begin - (p + 1 - c)
  <2>1. PICK j \in 1 .. l : j = k + 1 /\ j # 0
    OBVIOUS
  <2>2. Upto(bs, a, j) = Base(a, j) + bs[j].end - a - bs[1].begin
    BY <2>1 DEF Upto
  <2>3. Upto(bs, a, j) = Upto(bs, a, k) + bs[j].end - bs[j].begin
    <3>1. Upto(bs, a, k + 1) = Upto(bs, a, k) + bs[k + 1].end - bs[k + 1].begin
      BY <1>1, <1>3, ChainFacts
    <3>. QED
      BY <2>1, <3>1
  <2>4. bs[j].end \in Nat /\ bs[j].begin \in Nat /\ Base(a, j) \in Int
    <3>1. j \in Int /\ j \in 1 .. Len(bs)
      BY <1>3
    <3>. QED
      BY <1>2, <3>1, BaseIs
  <2>5. Upto(bs, a, k) \in Int
    <3>1. k \in 0 .. Len(bs)
      BY <1>3
    <3>2. Upto(bs, a, k) \in Nat
      BY <1>1, <3>1, ChainConcat
    <3>. QED
      BY <3>2
  <2>6. PICK x \in Int, y \in Int, z \in Int, b \in Int, u \in Int :
            /\ x = Base(a, j) /\ y = bs[j].end /\ z = bs[1].begin /\ b = bs[j].begin
            /\ u = Upto(bs, a, k)
    <3>1. \A x \in Nat : x \in Int
      OBVIOUS
    <3>. QED
      BY <1>4, <2>4, <2>5, <3>1, Zenon
  <2>7. a + z = p + 1 - c /\ x + y - a - z = u + y - b
    <3>1. a + z = p + 1 - c
      BY <1>1, <2>6
    <3>2. Upto(bs, a, j) = x + y - a - z
      BY <2>2, <2>6
    <3>3. Upto(bs, a, j) = u + y - b
      BY <2>3, <2>6
    <3>. QED
      BY <3>1, <3>2, <3>3
  <2>8. u = x + b - (p + 1 - c)
    BY <2>7
  <2>9. x = Base(a, k + 1) /\ b = bs[k + 1].begin
    BY <2>1, <2>6
  <2>. QED
    BY <2>6, <2>8, <2>9
<1>7. a + bs[1].begin - 1 = p - c
  BY <1>1, <1>4
<1>8. \A k \in 0 .. Len(bs) : /\ Upto(bs, a, k) \in Nat
                              /\ Concat(SubSeq(bs, 1, k)) = Run(p - c, Upto(bs, a, k))
  BY <1>1, <1>7, ChainConcat
<1>9. Concat(bs) = Run(p - c, c)
  <2>1. l \in 0 .. Len(bs) /\ SubSeq(bs, 1, l) = bs
    BY <1>2, <1>3, SubSeqFull
  <2>. QED
    BY <1>5, <1>8, <2>1
<1>. QED
  BY <1>1, <1>3, <1>5, <1>6, <1>8, <1>9

----------------------------------------------------------------------------
(* What the loops of read and pull find *)

LEMMA MinPair ==
    ASSUME NEW x \in Int, NEW y \in Int
    PROVE  Min({x, y}) = IF x <= y THEN x ELSE y
<1>1. PICK m \in {x, y} : m = Min({x, y}) /\ \A z \in {x, y} : m <= z
  <2>1. \E m \in {x, y} : \A z \in {x, y} : m <= z
    <3>1. CASE x <= y
      BY <3>1
    <3>2. CASE ~(x <= y)
      BY <3>2
    <3>. QED
      BY <3>1, <3>2
  <2>2. Min({x, y}) = CHOOSE m \in {x, y} : \A z \in {x, y} : m <= z
    BY DEF Min
  <2>. QED
    BY <2>1, <2>2, Zenon
<1>. QED
  BY <1>1

\* The first blocks that hold n bytes, in a chain that holds that many.
IsPassed(bs, a, n, k) ==
    /\ Upto(bs, a, k + 1) >= n
    /\ \A j \in 0 .. k - 1 : Upto(bs, a, j + 1) < n

LEMMA PassedExists ==
    ASSUME NEW a, NEW bs, NEW n \in Int, Len(bs) \in Nat \ {0},
           \A k \in 0 .. Len(bs) : Upto(bs, a, k) \in Nat,
           n <= Upto(bs, a, Len(bs))
    PROVE  \E k \in 0 .. Len(bs) - 1 : IsPassed(bs, a, n, k)
<1> DEFINE T == {i \in Nat : i <= Len(bs) - 1 =>
                     \/ \E k \in 0 .. Len(bs) - 1 : IsPassed(bs, a, n, k)
                     \/ \A j \in 0 .. i : Upto(bs, a, j + 1) < n}
<1>1. PICK l \in Nat \ {0} : l = Len(bs)
  OBVIOUS
<1>2. ASSUME NEW i \in Nat, i <= l - 1, \A j \in 0 .. i - 1 : Upto(bs, a, j + 1) < n
      PROVE  \/ \E k \in 0 .. l - 1 : IsPassed(bs, a, n, k)
             \/ \A j \in 0 .. i : Upto(bs, a, j + 1) < n
  <2>1. i \in 0 .. l - 1 /\ i + 1 \in 0 .. l
    BY <1>2
  <2>2. CASE Upto(bs, a, i + 1) >= n
    <3>1. IsPassed(bs, a, n, i)
      BY <1>2, <2>2 DEF IsPassed
    <3>. QED
      BY <2>1, <3>1
  <2>3. CASE ~(Upto(bs, a, i + 1) >= n)
    <3>1. Upto(bs, a, i + 1) < n
      BY <1>1, <2>1, <2>3
    <3>2. \A j \in 0 .. i : j \in 0 .. i - 1 \/ j = i
      OBVIOUS
    <3>. QED
      BY <1>2, <3>1, <3>2
  <2>. QED
    BY <2>2, <2>3
<1>3. 0 \in T
  <2>1. 0 \in Nat /\ 0 <= l - 1 /\ \A j \in 0 .. 0 - 1 : Upto(bs, a, j + 1) < n
    OBVIOUS
  <2>. QED
    BY <1>1, <1>2, <2>1
<1>4. ASSUME NEW i \in Nat, i \in T PROVE i + 1 \in T
  <2>1. SUFFICES ASSUME i + 1 <= l - 1, \A j \in 0 .. i : Upto(bs, a, j + 1) < n
                 PROVE  \/ \E k \in 0 .. l - 1 : IsPassed(bs, a, n, k)
                        \/ \A j \in 0 .. i + 1 : Upto(bs, a, j + 1) < n
    BY <1>1, <1>4
  <2>2. i + 1 \in Nat /\ \A j \in 0 .. (i + 1) - 1 : Upto(bs, a, j + 1) < n
    BY <2>1
  <2>. QED
    BY <1>2, <2>1, <2>2
<1>. HIDE DEF T
<1>5. \A i \in Nat : i \in T
  BY <1>3, <1>4, NatSetInduction
<1>6. l - 1 \in T /\ l - 1 <= Len(bs) - 1
  BY <1>1, <1>5
<1>7. ~ \A j \in 0 .. l - 1 : Upto(bs, a, j + 1) < n
  <2>1. l - 1 \in 0 .. l - 1 /\ l - 1 + 1 = l /\ l \in 0 .. Len(bs)
    BY <1>1
  <2>2. ~(Upto(bs, a, l) < n)
    BY <1>1, <2>1
  <2>. QED
    BY <2>1, <2>2
<1>. QED
  BY <1>1, <1>6, <1>7 DEF T

LEMMA PassedIs ==
    ASSUME NEW a \in Int, NEW x \in Int, NEW n \in Nat, blocks \in Seq(Block),
           Len(blocks) \in Nat \ {0}, Upto(blocks, a, 0) = 0,
           \A k \in 0 .. Len(blocks) : /\ Upto(blocks, a, k) \in Nat
                                       /\ Concat(SubSeq(blocks, 1, k)) = Run(x, Upto(blocks, a, k)),
           n <= Upto(blocks, a, Len(blocks))
    PROVE  /\ Passed(n) \in 0 .. Len(blocks) - 1
           /\ Upto(blocks, a, Passed(n)) <= n
           /\ n <= Upto(blocks, a, Passed(n) + 1)
           /\ Len(Concat(SubSeq(blocks, 1, Passed(n)))) = Upto(blocks, a, Passed(n))
           /\ SubSeq(Concat(SubSeq(blocks, 1, Passed(n) + 1)), 1, n) = Run(x, n)
<1>1. PICK l \in Nat \ {0} : l = Len(blocks)
  OBVIOUS
<1>2. \A k \in 0 .. l : Len(Concat(SubSeq(blocks, 1, k))) = Upto(blocks, a, k)
  BY <1>1, RunIs
<1>3. \A k \in 0 .. l - 1 : k + 1 \in 0 .. l
  OBVIOUS
<1>4. \A k \in 0 .. l - 1 : \A j \in 0 .. k - 1 : j + 1 \in 0 .. l
  OBVIOUS
<1>5. ASSUME NEW k \in 0 .. l - 1
      PROVE  IsPassed(blocks, a, n, k) <=>
                /\ Len(Concat(SubSeq(blocks, 1, k + 1))) >= n
                /\ \A j \in 0 .. k - 1 : Len(Concat(SubSeq(blocks, 1, j + 1))) < n
  <2>1. Len(Concat(SubSeq(blocks, 1, k + 1))) = Upto(blocks, a, k + 1)
    BY <1>2, <1>3
  <2>2. \A j \in 0 .. k - 1 : Len(Concat(SubSeq(blocks, 1, j + 1))) = Upto(blocks, a, j + 1)
    BY <1>2, <1>4
  <2>. QED
    BY <2>1, <2>2 DEF IsPassed
<1>6. \E k \in 0 .. l - 1 : IsPassed(blocks, a, n, k)
  <2>1. /\ n \in Int /\ Len(blocks) \in Nat \ {0} /\ n <= Upto(blocks, a, Len(blocks))
        /\ \A k \in 0 .. Len(blocks) : Upto(blocks, a, k) \in Nat
    BY <1>1
  <2>. QED
    BY <1>1, <2>1, PassedExists
<1>7. PICK k \in 0 .. l - 1 : k = Passed(n) /\ IsPassed(blocks, a, n, k)
  <2>1. Passed(n) = CHOOSE k \in 0 .. l - 1 :
                       /\ Len(Concat(SubSeq(blocks, 1, k + 1))) >= n
                       /\ \A j \in 0 .. k - 1 : Len(Concat(SubSeq(blocks, 1, j + 1))) < n
    BY <1>1 DEF Passed
  <2>2. \E k \in 0 .. l - 1 :
           /\ Len(Concat(SubSeq(blocks, 1, k + 1))) >= n
           /\ \A j \in 0 .. k - 1 : Len(Concat(SubSeq(blocks, 1, j + 1))) < n
    BY <1>5, <1>6
  <2>3. /\ Passed(n) \in 0 .. l - 1
        /\ Len(Concat(SubSeq(blocks, 1, Passed(n) + 1))) >= n
        /\ \A j \in 0 .. Passed(n) - 1 : Len(Concat(SubSeq(blocks, 1, j + 1))) < n
    BY <2>1, <2>2, Zenon
  <2>. QED
    BY <1>5, <2>3
<1>8. k \in 0 .. l /\ k + 1 \in 0 .. l /\ k \in Nat
  BY <1>7
<1>9. PICK u \in Nat, v \in Nat : u = Upto(blocks, a, k) /\ v = Upto(blocks, a, k + 1)
  BY <1>1, <1>8
<1>10. n <= v
  BY <1>7, <1>9 DEF IsPassed
<1>11. u <= n
  <2>1. CASE k = 0
    BY <1>9, <2>1
  <2>2. CASE k # 0
    <3>1. k - 1 \in 0 .. k - 1 /\ k - 1 + 1 = k
      BY <1>8, <2>2
    <3>2. Upto(blocks, a, k - 1 + 1) < n
      BY <1>7, <3>1 DEF IsPassed
    <3>. QED
      BY <1>9, <3>1, <3>2
  <2>. QED
    BY <2>1, <2>2
<1>12. SubSeq(Concat(SubSeq(blocks, 1, k + 1)), 1, n) = Run(x, n)
  <2>1. Concat(SubSeq(blocks, 1, k + 1)) = Run(x, v)
    BY <1>1, <1>8, <1>9
  <2>2. n \in 0 .. v
    BY <1>10
  <2>3. SubSeq(Run(x, v), 1, n) = Run(x, n)
    BY <2>2, RunParts
  <2>. QED
    BY <2>1, <2>3
<1>. QED
  BY <1>1, <1>2, <1>7, <1>8, <1>9, <1>10, <1>11, <1>12

----------------------------------------------------------------------------
(* The inductive invariant *)

\* The blocks hold the bytes pushed and not yet pulled, and the counters agree.
BufInv ==
    /\ free \in Nat /\ empty_cnt = free /\ used_cnt = Len(blocks)
    /\ pushed \in 0 .. MaxBytes /\ content \in 0 .. pushed
    /\ Layout(blocks, pushed, content)
    /\ CapacityBounded
    /\ CopyWhole

LEMMA InvContent ==
    ASSUME BufInv
    PROVE  /\ Concat(blocks) = Run(pushed - content, content)
           /\ Len(Concat(blocks)) = content
           /\ pushed \in Nat /\ content \in Nat /\ content <= pushed
           /\ blocks \in Seq(Block) /\ Len(blocks) \in Nat \ {0}
<1>1. pushed \in Nat /\ content \in 0 .. pushed /\ Layout(blocks, pushed, content)
  BY BufAssumption DEF BufInv
<1>2. PICK a \in Int : Chain(blocks, a) /\ Concat(blocks) = Run(pushed - content, content)
  BY <1>1, LayoutFacts
<1>3. content \in Nat /\ content <= pushed /\ pushed - content \in Int
  BY <1>1
<1>4. Len(Run(pushed - content, content)) = content
  BY <1>3, RunIs
<1>5. blocks \in Seq(Block) /\ Len(blocks) \in Nat \ {0}
  BY <1>2, ChainFacts DEF Chain
<1>. QED
  BY <1>1, <1>2, <1>3, <1>4, <1>5

\* The invariant makes WellFormed true.
LEMMA InvWellFormed ==
    ASSUME BufInv
    PROVE  WellFormed
<1>1. pushed \in Nat /\ content \in 0 .. pushed /\ Layout(blocks, pushed, content)
  BY BufAssumption DEF BufInv
<1>2. PICK a \in Int : /\ Chain(blocks, a)
                       /\ EndOf(blocks, a) = pushed + 1
                       /\ a + blocks[1].begin = pushed + 1 - content
  BY <1>1, LayoutFacts
<1>3. PICK l \in Nat \ {0} : l = Len(blocks) /\ DOMAIN blocks = 1 .. l
  BY <1>2, ChainFacts DEF Chain
<1>4. \A k \in 1 .. l : /\ blocks[k].begin \in Nat /\ blocks[k].end \in Nat
                        /\ blocks[k].begin <= blocks[k].end /\ blocks[k].end <= BlockSize
                        /\ blocks[k].end = BlockSize <=> k < l
  BY <1>2, <1>3, ChainFacts
<1>5. \A k \in DOMAIN blocks : 0 <= blocks[k].begin /\ blocks[k].begin <= blocks[k].end
  BY <1>3, <1>4
<1>6. \A k \in DOMAIN blocks : blocks[k].end = BlockSize <=> k < Len(blocks)
  BY <1>3, <1>4
<1>7. content <= (used_cnt + empty_cnt) * BlockSize
  <2>1. used_cnt = l /\ empty_cnt \in Nat /\ BlockSize \in Nat
    BY <1>3, BlockType DEF BufInv
  <2>2. Base(a, l) + blocks[l].end = pushed + 1
    BY <1>2, <1>3 DEF EndOf
  <2>3. l \in 1 .. l /\ 1 \in 1 .. l
    OBVIOUS
  <2>4. blocks[l].end \in Nat /\ blocks[l].end <= BlockSize /\ blocks[1].begin \in Nat
    BY <1>4, <2>3
  <2>5. PICK j \in Nat, i \in Nat : j = l - 1 /\ i = empty_cnt /\ used_cnt + empty_cnt = j + 1 + i
    BY <2>1
  <2>6. Base(a, l) = a + j * BlockSize
    BY <2>5 DEF Base
  <2>7. /\ j * BlockSize \in Nat /\ i * BlockSize \in Nat
        /\ (j + 1 + i) * BlockSize = j * BlockSize + BlockSize + i * BlockSize
    BY <2>1
  <2>8. PICK x \in Nat, y \in Nat : x = j * BlockSize /\ y = i * BlockSize
    BY <2>7
  <2>9. content <= x + BlockSize
    <3>1. PICK e \in Nat, b \in Nat : e = blocks[l].end /\ b = blocks[1].begin
      BY <2>4
    <3>2. a + x + e = pushed + 1 /\ a + b = pushed + 1 - content /\ e <= BlockSize
      BY <1>2, <2>2, <2>4, <2>6, <2>8, <3>1
    <3>. QED
      BY <1>1, <2>1, <3>1, <3>2
  <2>. QED
    BY <1>1, <2>1, <2>5, <2>7, <2>8, <2>9
<1>8. used_cnt = Len(blocks) /\ empty_cnt = free /\ CapacityBounded
  BY DEF BufInv
<1>9. content = Len(Concat(blocks))
  BY InvContent
<1>. QED
  BY <1>5, <1>6, <1>7, <1>8, <1>9
  DEF WellFormed, CntBlockUsed, GetSize, GetCapacity, CntBlockTotal

LEMMA InitInv == BufInit => BufInv
<1>. SUFFICES ASSUME BufInit PROVE BufInv
  OBVIOUS
<1>1. NewBlock \in Block /\ NewBlock.end = 0 /\ NewBlock.begin = 0 /\ Numbered(NewBlock, 1)
      /\ BlockSize \in Nat \ {0}
  BY NewBlockIs, BlockType
<1>2. /\ Chain(<<NewBlock>>, 1) /\ EndOf(<<NewBlock>>, 1) = 1 + 0
      /\ Len(<<NewBlock>>) = 1 /\ <<NewBlock>>[1] = NewBlock
  BY <1>1, ChainOne
<1>3. Layout(blocks, 0, 0)
  BY <1>1, <1>2 DEF Layout, BufInit
<1>4. CapacityBounded
  BY BufAssumption DEF CapacityBounded, CntBlockTotal, BufInit
<1>5. CopyWhole
  BY DEF CopyWhole, BufInit
<1>. QED
  BY <1>2, <1>3, <1>4, <1>5, BufAssumption DEF BufInv, BufInit

----------------------------------------------------------------------------
(* The steps, with what they do to the stream *)

\* The history of calls is no copy: CopyWhole says nothing of it.
LEMMA NoCopy ==
    ASSUME ret'.call # "copy"
    PROVE  CopyWhole'
BY DEF CopyWhole

LEMMA PushLayout ==
    ASSUME NEW bs, NEW p \in Nat, NEW c \in 0 .. p, Layout(bs, p, c), NEW n \in Nat
    PROVE  LET grown == Filled(bs[Len(bs)], p + 1, n)
               ds == SubSeq(bs, 1, Len(bs) - 1) \o grown
           IN  /\ Layout(ds, p + n, c + n)
               /\ Len(bs) \in Nat \ {0} /\ Len(grown) \in Nat \ {0}
               /\ Len(ds) = Len(bs) + (Len(grown) - 1)
               /\ ~IsBlockFull(bs[Len(bs)], n) => Len(grown) = 1
<1>1. PICK a \in Int : Chain(bs, a) /\ EndOf(bs, a) = p + 1 /\ a + bs[1].begin = p + 1 - c
  BY DEF Layout
<1>2. PICK k \in Nat \ {0} : k = Len(bs)
  BY <1>1, ChainFacts
<1>3. PICK tail \in Block : tail = bs[k] /\ tail.end < BlockSize /\ tail.end \in Nat
  <2>1. k \in 1 .. Len(bs)
    BY <1>2
  <2>2. /\ bs[k] \in Block /\ bs[k].end \in Nat /\ bs[k].end <= BlockSize
        /\ bs[k].end = BlockSize <=> k < Len(bs)
    BY <1>1, <2>1, ChainFacts
  <2>3. bs[k].end < BlockSize
    BY <1>2, <2>2, BlockType
  <2>. QED
    BY <2>2, <2>3
<1>4. PICK t \in Int : t = Base(a, k)
  BY BaseIs
<1>5. t + tail.end = p + 1
  BY <1>1, <1>2, <1>3, <1>4 DEF EndOf
<1>6. Numbered(tail, t)
  <2>1. k \in 1 .. Len(bs)
    BY <1>2
  <2>. QED
    BY <1>1, <1>3, <1>4, <2>1 DEF Chain
<1>7. PICK grown : grown = Filled(tail, t + tail.end, n)
  OBVIOUS
<1>8. /\ Chain(grown, t) /\ EndOf(grown, t) = t + tail.end + n
      /\ grown[1].begin = tail.begin
      /\ ~IsBlockFull(tail, n) => Len(grown) = 1
  BY <1>3, <1>6, <1>7, FilledIs
<1>9. Len(grown) \in Nat \ {0}
  BY <1>8, ChainFacts
<1>10. PICK ds : ds = SubSeq(bs, 1, Len(bs) - 1) \o grown
  OBVIOUS
<1>11. Chain(grown, Base(a, Len(bs))) /\ grown[1].begin = bs[Len(bs)].begin
  BY <1>2, <1>3, <1>4, <1>8
<1>12. /\ Chain(ds, a) /\ EndOf(ds, a) = EndOf(grown, Base(a, Len(bs)))
       /\ Len(ds) = Len(bs) - 1 + Len(grown)
       /\ ds[1].begin = bs[1].begin
  <2>1. Chain(bs, a) /\ a \in Int /\ grown[1].begin = bs[Len(bs)].begin
    BY <1>1, <1>11, Zenon
  <2>2. LET es == SubSeq(bs, 1, Len(bs) - 1) \o grown
        IN  /\ Chain(es, a) /\ EndOf(es, a) = EndOf(grown, Base(a, Len(bs)))
            /\ Len(es) = Len(bs) - 1 + Len(grown)
            /\ es[1].begin = bs[1].begin
    BY <1>11, <2>1, ChainJoin, ZenonT(60)
  <2>. QED
    BY <1>10, <2>2, Zenon
<1>13. EndOf(ds, a) = p + n + 1
  <2>1. EndOf(ds, a) = t + tail.end + n
    BY <1>2, <1>4, <1>8, <1>12
  <2>. QED
    BY <1>5, <2>1
<1>14. a + ds[1].begin = p + n + 1 - (c + n)
  <2>1. p + n + 1 - (c + n) = p + 1 - c
    OBVIOUS
  <2>. QED
    BY <1>1, <1>12, <2>1
<1>15. Layout(ds, p + n, c + n)
  BY <1>12, <1>13, <1>14 DEF Layout
<1>16. Len(ds) = Len(bs) + (Len(grown) - 1)
  BY <1>2, <1>9, <1>12
<1>17. grown = Filled(bs[Len(bs)], p + 1, n)
  BY <1>2, <1>3, <1>5, <1>7
<1>. QED
  BY <1>2, <1>3, <1>8, <1>9, <1>10, <1>15, <1>16, <1>17

LEMMA PushInv ==
    ASSUME BufInv, NEW size \in PushSizes, Push(size)
    PROVE  /\ BufInv'
           /\ ret'.call = "push" /\ ret'.bytes = Run(pushed, size) /\ ret'.size = size
           /\ \/ IsFull(size) /\ UNCHANGED blocks /\ ret'.value = EAGAIN
              \/ content' = content + size /\ pushed' = pushed + size /\ ret'.value = size
<1>1. size \in Nat /\ MaxBytes \in Nat /\ MaxBlockNo \in Nat
  BY BufAssumption
<1>2. /\ pushed \in Nat /\ content \in 0 .. pushed /\ Layout(blocks, pushed, content)
      /\ free \in Nat /\ empty_cnt = free /\ used_cnt = Len(blocks) /\ CapacityBounded
  BY <1>1 DEF BufInv
<1>3. CASE IsFull(size) /\ Returns("push", size, EAGAIN, Run(pushed, size))
           /\ UNCHANGED <<blocks, free, used_cnt, empty_cnt, content, pushed, spanned>>
  <2>1. /\ ret'.call = "push" /\ ret'.bytes = Run(pushed, size) /\ ret'.size = size
        /\ ret'.value = EAGAIN
    BY <1>3 DEF Returns
  <2>2. CopyWhole'
    BY <2>1, NoCopy
  <2>3. CapacityBounded'
    BY <1>2, <1>3 DEF CapacityBounded, CntBlockTotal
  <2>4. Layout(blocks, pushed, content)'
    BY <1>2, <1>3
  <2>. QED
    BY <1>3, <2>1, <2>2, <2>3, <2>4 DEF BufInv
<1>4. PICK grown, ds, new :
         /\ new \in Nat
         /\ grown = Filled(blocks[Len(blocks)], pushed + 1, size)
         /\ ds = SubSeq(blocks, 1, Len(blocks) - 1) \o grown
         /\ new = Len(grown) - 1
         /\ Layout(ds, pushed + size, content + size)
         /\ Len(blocks) \in Nat \ {0}
         /\ Len(ds) = Len(blocks) + new
         /\ ~IsBlockFull(blocks[Len(blocks)], size) => new = 0
  <2>1. PICK grown, ds : /\ grown = Filled(blocks[Len(blocks)], pushed + 1, size)
                        /\ ds = SubSeq(blocks, 1, Len(blocks) - 1) \o grown
    OBVIOUS
  <2>2. /\ Layout(ds, pushed + size, content + size)
        /\ Len(blocks) \in Nat \ {0} /\ Len(grown) \in Nat \ {0}
        /\ Len(ds) = Len(blocks) + (Len(grown) - 1)
        /\ ~IsBlockFull(blocks[Len(blocks)], size) => Len(grown) = 1
    <3>0. PICK bs : bs = blocks
      OBVIOUS
    <3>1. PICK p \in Nat, c \in 0 .. pushed, n \in Nat :
             p = pushed /\ c = content /\ n = size
      <4>1. size \in Nat /\ pushed \in Nat /\ content \in 0 .. pushed
        BY <1>1, <1>2
      <4>. QED
        BY <4>1, Zenon
    <3>2. /\ c \in 0 .. p /\ Layout(bs, p, c) /\ grown = Filled(bs[Len(bs)], p + 1, n)
          /\ ds = SubSeq(bs, 1, Len(bs) - 1) \o grown
      BY <1>2, <2>1, <3>0, <3>1
    <3>3. /\ Layout(ds, p + n, c + n)
          /\ Len(bs) \in Nat \ {0} /\ Len(grown) \in Nat \ {0}
          /\ Len(ds) = Len(bs) + (Len(grown) - 1)
          /\ ~IsBlockFull(bs[Len(bs)], n) => Len(grown) = 1
      BY <3>2, PushLayout, Zenon
    <3>. QED
      BY <3>0, <3>1, <3>3
  <2>3. PICK new \in Nat : new = Len(grown) - 1
    BY <2>2
  <2>4. Len(ds) = Len(blocks) + new /\ (Len(grown) = 1 => new = 0)
    BY <2>2, <2>3
  <2>5. ~IsBlockFull(blocks[Len(blocks)], size) => new = 0
    BY <2>2, <2>4, Zenon
  <2>6. /\ Layout(ds, pushed + size, content + size) /\ Len(blocks) \in Nat \ {0}
        /\ Len(ds) = Len(blocks) + new
    BY <2>2, <2>4, Zenon
  <2>. QED
    BY <2>1, <2>3, <2>5, <2>6, Zenon
<1>5. PICK reused \in Nat : /\ reused = Min({new, free})
                            /\ new <= free => reused = new
                            /\ ~(new <= free) => reused = free
  <2>1. new \in Int /\ free \in Int /\ new \in Nat /\ free \in Nat
    BY <1>2, <1>4
  <2>2. Min({new, free}) = IF new <= free THEN new ELSE free
    BY <2>1, MinPair
  <2>. QED
    BY <2>1, <2>2
<1>6. CASE /\ ~IsFull(size)
           /\ pushed + size <= MaxBytes
           /\ blocks' = ds
           /\ free' = free - reused
           /\ empty_cnt' = empty_cnt - reused
           /\ used_cnt' = used_cnt + new
           /\ content' = content + size
           /\ pushed' = pushed + size
           /\ spanned' = (spanned \/ new > 1)
           /\ Returns("push", size, size, Run(pushed, size))
  <2>1. /\ ret'.call = "push" /\ ret'.bytes = Run(pushed, size) /\ ret'.size = size
        /\ ret'.value = size
    BY <1>6 DEF Returns
  <2>2. CopyWhole'
    BY <2>1, NoCopy
  <2>3. /\ Layout(blocks', pushed + size, content + size)
        /\ Len(blocks) \in Nat \ {0}
        /\ Len(blocks') = Len(blocks) + new
        /\ ~IsBlockFull(blocks[Len(blocks)], size) => new = 0
    BY <1>4, <1>6
  <2>4. free' \in Nat /\ empty_cnt' = free'
    BY <1>2, <1>5, <1>6
  <2>5. used_cnt' = Len(blocks')
    BY <1>2, <1>6, <2>3
  <2>6. pushed' \in 0 .. MaxBytes /\ content' \in 0 .. pushed'
    BY <1>1, <1>2, <1>6
  <2>7. CapacityBounded'
    <3>1. SUFFICES ASSUME MaxBlockNo # 0, ~spanned' PROVE used_cnt' + empty_cnt' <= MaxBlockNo
      BY DEF CapacityBounded, CntBlockTotal
    <3>2. ~spanned /\ ~(new > 1)
      <4>1. ~(spanned \/ new > 1)
        BY <1>6, <3>1, Zenon
      <4>. QED
        BY <4>1, Zenon
    <3>6. ~(new > 1)
      BY <3>2, Zenon
    <3>3. used_cnt + empty_cnt <= MaxBlockNo
      BY <1>2, <3>1, <3>2, Zenon DEF CapacityBounded, CntBlockTotal
    <3>4. CASE new <= free
      <4>1. used_cnt' = used_cnt + new /\ empty_cnt' = empty_cnt - new
        BY <1>5, <1>6, <3>4, Zenon
      <4>2. used_cnt \in Nat /\ empty_cnt \in Nat
        BY <1>2, <1>4
      <4>. QED
        BY <1>4, <3>3, <4>1, <4>2
    <3>5. CASE ~(new <= free)
      <4>1. new = 1 /\ free = 0
        <5>1. new \in Nat /\ free \in Nat
          BY <1>2, <1>4, Zenon
        <5>. QED
          BY <3>5, <3>6, <5>1
      <4>2. used_cnt # MaxBlockNo
        <5>1. IsBlockFull(blocks[Len(blocks)], size)
          <6>1. new # 0
            BY <4>1
          <6>. QED
            BY <2>3, <6>1, Zenon
        <5>. QED
          BY <1>6, <3>1, <5>1, Zenon DEF IsFull
      <4>3. used_cnt' = used_cnt + 1 /\ empty_cnt' = empty_cnt
        <5>1. reused = 0 /\ empty_cnt \in Int
          BY <1>2, <1>5, <3>5, <4>1
        <5>. QED
          BY <1>6, <4>1, <5>1
      <4>4. used_cnt \in Nat /\ empty_cnt = 0
        BY <1>2, <1>4, <4>1
      <4>. QED
        BY <1>1, <3>3, <4>2, <4>3, <4>4
    <3>. QED
      BY <3>4, <3>5
  <2>8. Layout(blocks, pushed, content)'
    BY <1>6, <2>3
  <2>9. BufInv'
    BY <2>2, <2>4, <2>5, <2>6, <2>7, <2>8 DEF BufInv
  <2>. QED
    BY <1>6, <2>1, <2>9
<1>. QED
  BY <1>3, <1>4, <1>5, <1>6 DEF Push, Run

\* What read and pull return.
LEMMA TakenIs ==
    ASSUME BufInv, NEW size \in PullSizes, NEW n, n = Min({size, content})
    PROVE  /\ n \in Nat /\ n <= content /\ n = IF size <= content THEN size ELSE content
           /\ Taken(size) = Run(pushed - content, n)
           /\ \E a \in Int :
                /\ Chain(blocks, a) /\ EndOf(blocks, a) = pushed + 1
                /\ LET k == Passed(n)
                       u == Len(Concat(SubSeq(blocks, 1, k)))
                   IN  /\ k \in 0 .. Len(blocks) - 1 /\ u \in Nat /\ u <= n
                       /\ n <= u + blocks[k + 1].end - blocks[k + 1].begin
                       /\ u = Base(a, k + 1) + blocks[k + 1].begin - (pushed + 1 - content)
<1>1. size \in Nat /\ pushed \in Nat /\ content \in 0 .. pushed
      /\ Layout(blocks, pushed, content)
  BY BufAssumption DEF BufInv
<1>2. n \in Nat /\ n <= content /\ n = IF size <= content THEN size ELSE content
  <2>1. size \in Int /\ content \in Int
    BY <1>1
  <2>2. n = IF size <= content THEN size ELSE content
    BY <2>1, MinPair
  <2>. QED
    BY <1>1, <2>2
<1>3. PICK a \in Int :
         /\ Chain(blocks, a) /\ EndOf(blocks, a) = pushed + 1
         /\ Upto(blocks, a, Len(blocks)) = content
         /\ \A k \in 0 .. Len(blocks) - 1 :
                Upto(blocks, a, k) = Base(a, k + 1) + blocks[k + 1].begin - (pushed + 1 - content)
         /\ \A k \in 0 .. Len(blocks) :
                /\ Upto(blocks, a, k) \in Nat
                /\ Concat(SubSeq(blocks, 1, k)) = Run(pushed - content, Upto(blocks, a, k))
  BY <1>1, LayoutFacts
<1>4. /\ blocks \in Seq(Block) /\ Len(blocks) \in Nat \ {0} /\ Upto(blocks, a, 0) = 0
      /\ \A k \in 0 .. Len(blocks) - 1 :
             Upto(blocks, a, k + 1)
                = Upto(blocks, a, k) + blocks[k + 1].end - blocks[k + 1].begin
  BY <1>3, ChainFacts DEF Chain
<1>5. PICK x \in Int : x = pushed - content
  BY <1>1
<1>6. PICK k : k = Passed(n)
  OBVIOUS
<1>7. \A j \in 0 .. Len(blocks) : /\ Upto(blocks, a, j) \in Nat
                                  /\ Concat(SubSeq(blocks, 1, j)) = Run(x, Upto(blocks, a, j))
  BY <1>3, <1>5
<1>8. n <= Upto(blocks, a, Len(blocks))
  BY <1>2, <1>3
<1>9. /\ k \in 0 .. Len(blocks) - 1
      /\ Upto(blocks, a, k) <= n /\ n <= Upto(blocks, a, k + 1)
      /\ Len(Concat(SubSeq(blocks, 1, k))) = Upto(blocks, a, k)
      /\ SubSeq(Concat(SubSeq(blocks, 1, k + 1)), 1, n) = Run(x, n)
  BY <1>2, <1>4, <1>6, <1>7, <1>8, PassedIs
<1>10. Taken(size) = Run(x, n)
  BY <1>6, <1>9 DEF Taken
<1>11. k \in 0 .. Len(blocks)
  BY <1>4, <1>9
<1>12. PICK u \in Nat : u = Upto(blocks, a, k)
  BY <1>7, <1>11
<1>13. n <= u + blocks[k + 1].end - blocks[k + 1].begin
  BY <1>4, <1>9, <1>12
<1>14. u = Base(a, k + 1) + blocks[k + 1].begin - (pushed + 1 - content)
  BY <1>3, <1>9, <1>12
<1>15. u <= n /\ u = Len(Concat(SubSeq(blocks, 1, k)))
  BY <1>9, <1>12
<1>. QED
  BY <1>2, <1>3, <1>5, <1>6, <1>9, <1>10, <1>12, <1>13, <1>14, <1>15

\* A pull of n bytes passes k blocks with u bytes.
PullAt(a, n, k, u) ==
    /\ pushed \in Nat /\ content \in Nat /\ content <= pushed
    /\ a \in Int /\ Chain(blocks, a) /\ EndOf(blocks, a) = pushed + 1
    /\ n \in Nat /\ n <= content
    /\ k \in 0 .. Len(blocks) - 1 /\ u \in Nat /\ u <= n
    /\ n <= u + blocks[k + 1].end - blocks[k + 1].begin
    /\ u = Base(a, k + 1) + blocks[k + 1].begin - (pushed + 1 - content)

\* What is taken of the block after them is in it.
LEMMA RestFits ==
    ASSUME NEW n \in Int, NEW u \in Int, NEW b \in Int, NEW e \in Int,
           NEW m, n <= u + e - b, m = n - u
    PROVE  b + m <= e
  OBVIOUS

LEMMA PullLayout ==
    ASSUME NEW a, NEW n, NEW k, NEW u, PullAt(a, n, k, u),
           NEW ds, ds = FromHead(blocks, k, n - u)
    PROVE  /\ Layout(ds, pushed, content - n)
           /\ Len(ds) = Len(blocks) - k
<1>. /\ pushed \in Nat /\ content \in Nat /\ content <= pushed
     /\ a \in Int /\ Chain(blocks, a) /\ EndOf(blocks, a) = pushed + 1
     /\ n \in Nat /\ n <= content
     /\ k \in 0 .. Len(blocks) - 1 /\ u \in Nat /\ u <= n
     /\ n <= u + blocks[k + 1].end - blocks[k + 1].begin
     /\ u = Base(a, k + 1) + blocks[k + 1].begin - (pushed + 1 - content)
  BY DEF PullAt
<1>0. n \in Int /\ content \in Int /\ pushed \in Int
  OBVIOUS
<1>1. PICK m \in Nat : m = n - u
  OBVIOUS
<1>2. PICK t \in Int, b \in Nat, e \in Nat :
         t = Base(a, k + 1) /\ b = blocks[k + 1].begin /\ e = blocks[k + 1].end
  <2>1. k + 1 \in 1 .. Len(blocks) /\ k + 1 \in Int
    BY ChainFacts
  <2>2. blocks[k + 1].begin \in Nat /\ blocks[k + 1].end \in Nat
    BY <2>1, ChainFacts
  <2>3. Base(a, k + 1) \in Int
    BY <2>1, BaseIs
  <2>. QED
    BY <2>2, <2>3, Zenon
<1>3. b + m <= e
  <2>1. n <= u + e - b
    BY <1>2
  <2>2. n \in Int /\ u \in Int
    OBVIOUS
  <2>3. b \in Int /\ e \in Int
    <3>1. b \in Nat /\ e \in Nat
      BY <1>2, Zenon
    <3>. QED
      BY <3>1
  <2>. QED
    BY <1>1, <2>1, <2>2, <2>3, RestFits, Zenon
<1>4. ds = FromHead(blocks, k, m)
  BY <1>1
<1>5. /\ Chain(ds, Base(a, k + 1)) /\ EndOf(ds, Base(a, k + 1)) = EndOf(blocks, a)
      /\ ds[1].begin = blocks[k + 1].begin + m
      /\ Len(ds) = Len(blocks) - k
  <2>1. blocks[k + 1].begin + m <= blocks[k + 1].end
    BY <1>2, <1>3
  <2>. QED
    BY <1>4, <2>1, ChainDrop
<1>6. t + ds[1].begin = pushed + 1 - (content - n)
  <2>1. PICK d \in Int : d = ds[1].begin /\ d = b + m
    <3>1. ds[1].begin = b + m
      BY <1>2, <1>5, Zenon
    <3>2. b + m \in Int
      OBVIOUS
    <3>. QED
      BY <3>1, <3>2, Zenon
  <2>2. u = t + b - (pushed + 1 - content)
    BY <1>2
  <2>3. u = n - m /\ t \in Int /\ b \in Int /\ m \in Int
    BY <1>0, <1>1
  <2>4. t + d = pushed + 1 - (content - n)
    <3>1. d = b + m /\ pushed - content \in Int
      BY <1>0, <2>1
    <3>2. PICK x \in Int, y \in Int, z \in Int : x = pushed /\ y = content /\ z = n
      BY <1>0, Zenon
    <3>3. z - m = t + b - (x + 1 - y)
      BY <2>2, <2>3, <3>2
    <3>4. t + (b + m) = x + 1 - (y - z)
      BY <2>3, <3>3
    <3>. QED
      BY <3>1, <3>2, <3>4
  <2>. QED
    BY <2>1, <2>4
<1>7. Layout(ds, pushed, content - n)
  BY <1>2, <1>5, <1>6 DEF Layout
<1>. QED
  BY <1>5, <1>7

LEMMA LayoutContent ==
    ASSUME NEW bs, NEW p \in Nat, NEW c \in 0 .. p, Layout(bs, p, c)
    PROVE  Concat(bs) = Run(p - c, c)
BY LayoutFacts

\* The content after a step that keeps the invariant.
LEMMA NextContent ==
    ASSUME BufInv'
    PROVE  /\ Concat(blocks') = Run(pushed' - content', content')
           /\ pushed' \in Nat /\ content' \in Nat /\ content' <= pushed' /\ pushed' <= MaxBytes
<1>1. pushed' \in 0 .. MaxBytes /\ content' \in 0 .. pushed' /\ Layout(blocks', pushed', content')
  BY DEF BufInv
<1>2. /\ pushed' \in Nat /\ pushed' <= MaxBytes /\ content' \in 0 .. pushed'
      /\ content' \in Nat /\ content' <= pushed'
  BY <1>1, BufAssumption
<1>3. PICK bs, p, c : bs = blocks' /\ p = pushed' /\ c = content'
  OBVIOUS
<1>4. Concat(bs) = Run(p - c, c)
  <2>1. p \in Nat /\ c \in 0 .. p /\ Layout(bs, p, c)
    BY <1>1, <1>2, <1>3
  <2>. QED
    BY <2>1, LayoutContent
<1>. QED
  BY <1>2, <1>3, <1>4

LEMMA FrontIs ==
    ASSUME BufInv, NEW n \in Nat
    PROVE  Stream!Front(n) = Run(pushed - content, IF n < content THEN n ELSE content)
<1>1. PICK m \in 0 .. content : m = IF n < content THEN n ELSE content
  BY InvContent
<1>2. Stream!Front(n) = SubSeq(Concat(blocks), 1, m)
  <2>1. Len(Concat(blocks)) = content
    BY InvContent
  <2>. QED
    BY <1>1, <2>1 DEF Stream!Front
<1>3. PICK x \in Int, c \in Nat : x = pushed - content /\ c = content /\ Concat(blocks) = Run(x, c)
  BY InvContent
<1>4. m \in 0 .. c
  BY <1>3
<1>5. SubSeq(Run(x, c), 1, m) = Run(x, m)
  BY <1>4, RunParts
<1>. QED
  BY <1>1, <1>2, <1>3, <1>5

LEMMA SameInv ==
    ASSUME BufInv, UNCHANGED <<blocks, free, used_cnt, empty_cnt, content, pushed, spanned>>,
           CopyWhole'
    PROVE  BufInv'
<1>1. CapacityBounded' /\ Layout(blocks, pushed, content)'
  BY DEF BufInv, CapacityBounded, CntBlockTotal
<1>. QED
  BY <1>1 DEF BufInv

LEMMA ReadStep ==
    ASSUME BufInv, NEW size \in PullSizes, Read(size)
    PROVE  BufInv' /\ Stream!Read
<1>1. PICK n : n = Min({size, content})
  OBVIOUS
<1>2. /\ ret'.call = "read" /\ ret'.size = size
      /\ ret'.value = IF IsEmpty THEN 0 ELSE n
      /\ ret'.bytes = IF IsEmpty THEN <<>> ELSE Taken(size)
      /\ UNCHANGED <<blocks, free, used_cnt, empty_cnt, content, pushed, spanned>>
  BY <1>1 DEF Read, Returns
<1>3. /\ n \in Nat /\ n <= content /\ n = IF size <= content THEN size ELSE content
      /\ Taken(size) = Run(pushed - content, n)
  BY <1>1, TakenIs
<1>4. size \in Nat /\ content \in Nat /\ pushed - content \in Int
  BY BufAssumption, InvContent
<1>5. BufInv'
  <2>1. ret'.call # "copy"
    BY <1>2
  <2>2. CopyWhole'
    BY <2>1, NoCopy
  <2>. QED
    BY <1>2, <2>2, SameInv
<1>6. ret'.bytes = Run(pushed - content, n) /\ ret'.value = n
  <2>1. CASE IsEmpty
    <3>1. n = 0
      BY <1>3, <1>4, <2>1 DEF IsEmpty
    <3>2. Run(pushed - content, 0) = <<>>
      BY DEF Run
    <3>. QED
      BY <1>2, <2>1, <3>1, <3>2
  <2>2. CASE ~IsEmpty
    BY <1>2, <1>3, <2>2
  <2>. QED
    BY <2>1, <2>2
<1>7. Stream!Front(size) = Run(pushed - content, n)
  <2>1. Stream!Front(size) = Run(pushed - content, IF size < content THEN size ELSE content)
    BY <1>4, FrontIs
  <2>2. n = IF size < content THEN size ELSE content
    BY <1>3, <1>4
  <2>. QED
    BY <2>1, <2>2
<1>8. Len(Run(pushed - content, n)) = n
  BY <1>3, <1>4, RunIs
<1>9. UNCHANGED Concat(blocks)
  BY <1>2
<1>. QED
  BY <1>2, <1>5, <1>6, <1>7, <1>8, <1>9 DEF Stream!Read

LEMMA PullStep ==
    ASSUME BufInv, NEW size \in PullSizes, Pull(size)
    PROVE  BufInv' /\ Stream!Pull
<1>1. PICK n : n = Min({size, content})
  OBVIOUS
<1>2. /\ n \in Nat /\ n <= content /\ n = IF size <= content THEN size ELSE content
      /\ Taken(size) = Run(pushed - content, n)
  BY <1>1, TakenIs
<1>3. /\ size \in Nat /\ content \in Nat /\ pushed \in Nat /\ content <= pushed
      /\ pushed - content \in Int /\ MaxBytes \in Nat
  BY BufAssumption, InvContent
<1>4. Len(Run(pushed - content, n)) = n
  BY <1>2, <1>3, RunIs
<1>5. Stream!Front(size) = Run(pushed - content, n)
  <2>1. Stream!Front(size) = Run(pushed - content, IF size < content THEN size ELSE content)
    BY <1>3, FrontIs
  <2>2. n = IF size < content THEN size ELSE content
    BY <1>2, <1>3
  <2>. QED
    BY <2>1, <2>2
<1>6. PICK x \in Int, c \in Nat : x = pushed - content /\ c = content /\ Concat(blocks) = Run(x, c)
  BY <1>3, InvContent
<1>7. SubSeq(Concat(blocks), n + 1, Len(Concat(blocks))) = Run(pushed - content + n, content - n)
  <2>1. n \in 0 .. c
    BY <1>2, <1>6
  <2>2. SubSeq(Run(x, c), n + 1, c) = Run(x + n, c - n)
    BY <2>1, RunParts
  <2>3. Len(Concat(blocks)) = c
    BY <1>6, InvContent
  <2>. QED
    BY <1>6, <2>2, <2>3
<1>8. CASE IsEmpty /\ Returns("pull", size, 0, <<>>)
           /\ UNCHANGED <<blocks, free, used_cnt, empty_cnt, content, pushed, spanned>>
  <2>1. ret'.call = "pull" /\ ret'.size = size /\ ret'.value = 0 /\ ret'.bytes = <<>>
    BY <1>8 DEF Returns
  <2>2. CopyWhole'
    BY <2>1, NoCopy
  <2>3. BufInv'
    BY <1>8, <2>2, SameInv
  <2>4. n = 0 /\ content = 0
    BY <1>2, <1>3, <1>8 DEF IsEmpty
  <2>5. Run(pushed - content, 0) = <<>>
    BY DEF Run
  <2>6. ret'.bytes = Stream!Front(ret'.size) /\ ret'.value = Len(ret'.bytes)
    BY <1>4, <1>5, <2>1, <2>4, <2>5
  <2>7. Concat(blocks') = SubSeq(Concat(blocks), Len(ret'.bytes) + 1, Len(Concat(blocks)))
    <3>1. Len(ret'.bytes) = n
      BY <1>4, <2>1, <2>4, <2>5
    <3>2. pushed - content + n = pushed - content /\ content - n = content
      BY <1>3, <2>4
    <3>. QED
      BY <1>6, <1>7, <1>8, <3>1, <3>2
  <2>. QED
    BY <2>1, <2>3, <2>6, <2>7 DEF Stream!Pull
<1>9. PICK k, u, ds : /\ k = Passed(n) /\ u = Len(Concat(SubSeq(blocks, 1, k)))
                      /\ ds = FromHead(blocks, k, n - u)
  OBVIOUS
<1>10. CASE /\ ~IsEmpty
            /\ Returns("pull", size, n, Taken(size))
            /\ blocks' = ds
            /\ free' = free + k
            /\ empty_cnt' = empty_cnt + k
            /\ used_cnt' = used_cnt - k
            /\ content' = content - n
            /\ UNCHANGED <<pushed, spanned>>
  <2>1. ret'.call = "pull" /\ ret'.size = size /\ ret'.value = n /\ ret'.bytes = Taken(size)
    BY <1>10 DEF Returns
  <2>2. CopyWhole'
    BY <2>1, NoCopy
  <2>3. PICK a \in Int :
           /\ Chain(blocks, a) /\ EndOf(blocks, a) = pushed + 1
           /\ k \in 0 .. Len(blocks) - 1 /\ u \in Nat /\ u <= n
           /\ n <= u + blocks[k + 1].end - blocks[k + 1].begin
           /\ u = Base(a, k + 1) + blocks[k + 1].begin - (pushed + 1 - content)
    BY <1>1, <1>9, TakenIs
  <2>4. Layout(ds, pushed, content - n) /\ Len(ds) = Len(blocks) - k
    <3>1. /\ pushed \in Nat /\ content \in Nat /\ content <= pushed
          /\ n \in Nat /\ n <= content /\ ds = FromHead(blocks, k, n - u)
      BY <1>2, <1>3, <1>9, Zenon
    <3>2. /\ a \in Int /\ Chain(blocks, a) /\ EndOf(blocks, a) = pushed + 1
          /\ k \in 0 .. Len(blocks) - 1 /\ u \in Nat /\ u <= n
          /\ n <= u + blocks[k + 1].end - blocks[k + 1].begin
          /\ u = Base(a, k + 1) + blocks[k + 1].begin - (pushed + 1 - content)
      BY <2>3, Zenon
    <3>3. PullAt(a, n, k, u)
      BY <3>1, <3>2, Zenon DEF PullAt
    <3>. QED
      BY <3>1, <3>3, PullLayout
  <2>5. Layout(blocks, pushed, content)'
    BY <1>10, <2>4
  <2>6. /\ free \in Nat /\ empty_cnt = free /\ used_cnt = Len(blocks) /\ CapacityBounded
        /\ pushed \in 0 .. MaxBytes /\ Len(blocks) \in Nat
    BY InvContent DEF BufInv
  <2>7. k \in Nat
    BY <2>3
  <2>8. free' \in Nat /\ empty_cnt' = free' /\ used_cnt' = Len(blocks')
    BY <1>10, <2>4, <2>6, <2>7
  <2>9. pushed' \in 0 .. MaxBytes /\ content' \in 0 .. pushed'
    BY <1>2, <1>3, <1>10, <2>6
  <2>10. CapacityBounded'
    <3>1. used_cnt' + empty_cnt' = used_cnt + empty_cnt
      BY <1>10, <2>6, <2>7
    <3>. QED
      BY <1>10, <2>6, <3>1, Zenon DEF CapacityBounded, CntBlockTotal
  <2>11. BufInv'
    BY <2>2, <2>5, <2>8, <2>9, <2>10 DEF BufInv
  <2>12. Concat(blocks') = Run(pushed - content + n, content - n)
    <3>1. Concat(blocks') = Run(pushed' - content', content')
      BY <2>11, NextContent
    <3>2. pushed' - content' = pushed - content + n /\ content' = content - n
      BY <1>2, <1>3, <1>10
    <3>. QED
      BY <3>1, <3>2
  <2>13. ret'.bytes = Stream!Front(ret'.size) /\ ret'.value = Len(ret'.bytes)
    BY <1>2, <1>4, <1>5, <2>1
  <2>14. Len(ret'.bytes) = n
    BY <2>1, <2>13
  <2>. QED
    BY <1>7, <2>1, <2>11, <2>12, <2>13, <2>14 DEF Stream!Pull
<1>11. \/ /\ IsEmpty /\ Returns("pull", size, 0, <<>>)
          /\ UNCHANGED <<blocks, free, used_cnt, empty_cnt, content, pushed, spanned>>
       \/ /\ ~IsEmpty
          /\ Returns("pull", size, n, Taken(size))
          /\ blocks' = ds
          /\ free' = free + k
          /\ empty_cnt' = empty_cnt + k
          /\ used_cnt' = used_cnt - k
          /\ content' = content - n
          /\ UNCHANGED <<pushed, spanned>>
  BY <1>1, <1>9, Zenon DEF Pull, FromHead
<1>. QED
  BY <1>8, <1>10, <1>11

\* The loop of copy_content passes all blocks, or all but an empty tail, when
\* the head was not left at its end.
LEMMA CopyStep ==
    ASSUME BufInv, CopyContent
    PROVE  BufInv' /\ Stream!Copy
<1>1. /\ pushed \in Nat /\ content \in 0 .. pushed /\ Layout(blocks, pushed, content)
      /\ content \in Nat /\ Len(Concat(blocks)) = content
      /\ Concat(blocks) = Run(pushed - content, content)
  BY InvContent DEF BufInv
<1>2. PICK a \in Int :
         /\ Chain(blocks, a)
         /\ Upto(blocks, a, Len(blocks)) = content
         /\ \A k \in 0 .. Len(blocks) :
                /\ Upto(blocks, a, k) \in Nat
                /\ Concat(SubSeq(blocks, 1, k)) = Run(pushed - content, Upto(blocks, a, k))
  BY <1>1, LayoutFacts
<1>3. PICK l \in Nat \ {0} : l = Len(blocks)
  BY <1>2, ChainFacts
<1>4. \A k \in 1 .. l : /\ blocks[k].begin \in Nat /\ blocks[k].end \in Nat
                        /\ blocks[k].begin <= blocks[k].end /\ blocks[k].end <= BlockSize
                        /\ blocks[k].end = BlockSize <=> k < l
  BY <1>2, <1>3, ChainFacts
<1>5. \A k \in 2 .. l : blocks[k].begin = 0
  BY <1>2, <1>3, ChainFacts
<1>6. BlockSize \in Nat \ {0} /\ 1 \in 1 .. l /\ l \in 1 .. l
  BY BlockType
<1> DEFINE Stops(k) == /\ \A j \in 1 .. k : HasContent(blocks[j])
                       /\ k < l => ~HasContent(blocks[k + 1])
<1>7. blocks[1].begin < BlockSize => \A k \in 1 .. l - 1 : HasContent(blocks[k])
  <2>1. ASSUME blocks[1].begin < BlockSize, NEW k \in 1 .. l - 1 PROVE HasContent(blocks[k])
    <3>1. k \in 1 .. l /\ k < l
      OBVIOUS
    <3>2. blocks[k].end = BlockSize
      BY <1>4, <3>1
    <3>3. blocks[k].begin < BlockSize
      <4>1. CASE k = 1
        BY <2>1, <4>1
      <4>2. CASE k # 1
        <5>1. k \in 2 .. l
          BY <4>2
        <5>. QED
          BY <1>5, <1>6, <5>1
      <4>. QED
        BY <4>1, <4>2
    <3>4. blocks[k].begin \in Nat
      BY <1>4, <3>1
    <3>. QED
      BY <1>6, <3>2, <3>3, <3>4 DEF HasContent
  <2>. QED
    BY <2>1
<1>8. \E k \in 0 .. l : Stops(k)
  <2>1. CASE blocks[1].begin < BlockSize
    <3>1. CASE HasContent(blocks[l])
      <4>1. \A j \in 1 .. l : j \in 1 .. l - 1 \/ j = l
        OBVIOUS
      <4>2. \A j \in 1 .. l : HasContent(blocks[j])
        BY <1>7, <2>1, <3>1, <4>1
      <4>3. l \in 0 .. l /\ ~(l < l)
        OBVIOUS
      <4>4. Stops(l)
        BY <4>2, <4>3
      <4>. QED
        BY <4>3, <4>4
    <3>2. CASE ~HasContent(blocks[l])
      <4>1. l - 1 \in 0 .. l /\ l - 1 + 1 = l
        OBVIOUS
      <4>2. Stops(l - 1)
        BY <1>7, <2>1, <3>2, <4>1
      <4>. QED
        BY <4>1, <4>2
    <3>. QED
      BY <3>1, <3>2
  <2>2. CASE ~(blocks[1].begin < BlockSize)
    <3>1. ~HasContent(blocks[1])
      <4>1. /\ blocks[1].begin \in Nat /\ blocks[1].end \in Nat
            /\ blocks[1].begin <= blocks[1].end /\ blocks[1].end <= BlockSize
        BY <1>4, <1>6
      <4>. QED
        BY <1>6, <2>2, <4>1 DEF HasContent
    <3>2. 0 \in 0 .. l /\ (\A j \in 1 .. 0 : HasContent(blocks[j])) /\ 0 + 1 = 1
      OBVIOUS
    <3>3. Stops(0)
      BY <3>1, <3>2
    <3>. QED
      BY <3>2, <3>3
  <2>. QED
    BY <2>1, <2>2
<1>9. PICK k \in 0 .. l : /\ Stops(k)
                          /\ ret'.call = "copy"
                          /\ ret'.bytes = Concat(SubSeq(blocks, 1, k))
                          /\ UNCHANGED <<blocks, free, used_cnt, empty_cnt, content, pushed, spanned>>
  <2>1. PICK k : k = CHOOSE i \in 0 .. l : Stops(i)
    OBVIOUS
  <2>2. k \in 0 .. l /\ Stops(k)
    BY <1>8, <2>1, Zenon
  <2>3. /\ Returns("copy", 0, 0, Concat(SubSeq(blocks, 1, k)))
        /\ UNCHANGED <<blocks, free, used_cnt, empty_cnt, content, pushed, spanned>>
    BY <1>3, <2>1, Zenon DEF CopyContent
  <2>4. ret'.call = "copy" /\ ret'.bytes = Concat(SubSeq(blocks, 1, k))
    BY <2>3 DEF Returns
  <2>. QED
    BY <2>2, <2>3, <2>4, Zenon
<1>10. ret'.bytes = Run(pushed - content, Upto(blocks, a, k))
  BY <1>2, <1>3, <1>9
<1>11. CASE blocks[1].begin < BlockSize
  <2>1. k = l \/ (k = l - 1 /\ ~HasContent(blocks[l]))
    <3>1. CASE k < l - 1
      <4>1. k + 1 \in 1 .. l - 1 /\ k < l
        BY <3>1
      <4>2. HasContent(blocks[k + 1])
        BY <1>7, <1>11, <4>1
      <4>. QED
        BY <1>9, <4>1, <4>2
    <3>2. CASE ~(k < l - 1)
      <4>1. k = l \/ (k = l - 1 /\ k < l /\ k + 1 = l)
        BY <3>2
      <4>. QED
        BY <1>9, <4>1
    <3>. QED
      BY <3>1, <3>2
  <2>2. Upto(blocks, a, k) = content
    <3>1. CASE k = l
      BY <1>2, <1>3, <3>1
    <3>2. CASE k = l - 1 /\ ~HasContent(blocks[l])
      <4>1. k \in 0 .. Len(blocks) - 1 /\ k + 1 = l
        BY <1>3, <3>2
      <4>2. Upto(blocks, a, k + 1) = Upto(blocks, a, k) + blocks[k + 1].end - blocks[k + 1].begin
        BY <1>2, <4>1, ChainFacts
      <4>3. PICK e \in Nat, b \in Nat : e = blocks[l].end /\ b = blocks[l].begin /\ b <= e
        BY <1>4, <1>6, Zenon
      <4>4. e = b
        BY <3>2, <4>3 DEF HasContent
      <4>5. PICK v \in Nat : v = Upto(blocks, a, k)
        BY <1>2, <1>3
      <4>6. content = v + e - b
        BY <1>2, <1>3, <4>1, <4>2, <4>3, <4>5
      <4>. QED
        BY <4>4, <4>5, <4>6
    <3>. QED
      BY <2>1, <3>1, <3>2
  <2>3. ret'.bytes = Concat(blocks) /\ Len(ret'.bytes) = content
    BY <1>1, <1>10, <2>2
  <2>4. CopyWhole'
    BY <1>9, <2>3 DEF CopyWhole
  <2>5. BufInv'
    BY <1>9, <2>4, SameInv
  <2>6. Stream!Front(content) = Run(pushed - content, content)
    <3>1. Stream!Front(content) = Run(pushed - content, IF content < content THEN content ELSE content)
      BY <1>1, FrontIs
    <3>. QED
      BY <3>1
  <2>. QED
    BY <1>1, <1>9, <2>3, <2>5, <2>6 DEF Stream!Copy
<1>12. CASE ~(blocks[1].begin < BlockSize)
  <2>1. CopyWhole'
    BY <1>9, <1>12 DEF CopyWhole, HeadBlock
  <2>2. BufInv'
    BY <1>9, <2>1, SameInv
  <2>3. k = 0
    <3>1. ~HasContent(blocks[1])
      <4>1. PICK b \in Nat, e \in Nat : b = blocks[1].begin /\ e = blocks[1].end /\ e <= BlockSize
        BY <1>4, <1>6, Zenon
      <4>. QED
        BY <1>6, <1>12, <4>1 DEF HasContent
    <3>2. CASE k # 0
      <4>1. 1 \in 1 .. k
        BY <3>2
      <4>. QED
        BY <1>9, <3>1, <4>1
    <3>. QED
      BY <3>2
  <2>4. ret'.bytes = <<>> /\ Len(ret'.bytes) = 0
    <3>1. SubSeq(blocks, 1, 0) = <<>>
      BY SubSeqEmpty
    <3>2. ret'.bytes = <<>>
      BY <1>9, <2>3, <3>1, ConcatEmpty, Zenon
    <3>. QED
      BY <3>2, EmptySeq
  <2>5. Stream!Front(0) = <<>>
    <3>1. (IF 0 < content THEN 0 ELSE content) = 0
      BY <1>1
    <3>2. Stream!Front(0) = Run(pushed - content, 0)
      BY <3>1, FrontIs
    <3>3. Run(pushed - content, 0) = <<>>
      BY DEF Run
    <3>. QED
      BY <3>2, <3>3
  <2>. QED
    BY <1>9, <2>2, <2>4, <2>5 DEF Stream!Copy
<1>. QED
  BY <1>11, <1>12

----------------------------------------------------------------------------
(* The theorems *)

LEMMA ShrinkStep ==
    ASSUME BufInv, ShrinkToFit
    PROVE  BufInv' /\ UNCHANGED <<Concat(blocks), ret>>
<1>1. /\ free' = 0 /\ empty_cnt' = 0
      /\ UNCHANGED <<blocks, used_cnt, content, pushed, ret, spanned>>
  BY DEF ShrinkToFit
<1>2. CapacityBounded'
  <2>1. /\ used_cnt = Len(blocks) /\ empty_cnt = free /\ free \in Nat /\ Len(blocks) \in Nat
        /\ CapacityBounded /\ MaxBlockNo \in Nat
    BY BufAssumption, InvContent DEF BufInv
  <2>2. used_cnt + empty_cnt <= MaxBlockNo => used_cnt' + empty_cnt' <= MaxBlockNo
    BY <1>1, <2>1
  <2>. QED
    BY <1>1, <2>1, <2>2, Zenon DEF CapacityBounded, CntBlockTotal
<1>3. Layout(blocks, pushed, content)' /\ CopyWhole'
  BY <1>1 DEF BufInv, CopyWhole, HeadBlock
<1>4. BufInv'
  BY <1>1, <1>2, <1>3 DEF BufInv
<1>. QED
  BY <1>1, <1>4

\* A push is refused only when its bytes would reach into the last block that
\* the limit allows: all blocks but the head are unread, and the head has at
\* most one block's bytes behind it.
LEMMA RefusedWhenFull ==
    ASSUME BufInv, NEW size \in PushSizes, IsFull(size)
    PROVE  MaxBlockNo # 0 /\ content + size >= (MaxBlockNo - 1) * BlockSize
<1>1. /\ pushed \in Nat /\ content \in 0 .. pushed /\ Layout(blocks, pushed, content)
      /\ size \in Nat /\ used_cnt = Len(blocks) /\ BlockSize \in Nat
  BY BufAssumption, BlockType DEF BufInv
<1>2. PICK a \in Int : /\ Chain(blocks, a)
                       /\ EndOf(blocks, a) = pushed + 1
                       /\ a + blocks[1].begin = pushed + 1 - content
  BY <1>1, LayoutFacts
<1>3. PICK l \in Nat \ {0} : l = Len(blocks)
  BY <1>2, ChainFacts
<1>4. /\ MaxBlockNo # 0 /\ l = MaxBlockNo
      /\ blocks[l].end + size >= BlockSize
  BY <1>1, <1>3 DEF IsFull, IsBlockFull
<1>5. 1 \in 1 .. l /\ l \in 1 .. l
  OBVIOUS
<1>6. PICK b \in Nat, e \in Nat : b = blocks[1].begin /\ e = blocks[l].end /\ b <= BlockSize
  <2>1. /\ blocks[1].begin \in Nat /\ blocks[1].end \in Nat
        /\ blocks[1].begin <= blocks[1].end /\ blocks[1].end <= BlockSize
        /\ blocks[l].end \in Nat
    BY <1>2, <1>3, <1>5, ChainFacts
  <2>. QED
    BY <1>1, <2>1
<1>7. PICK y \in Nat : y = (l - 1) * BlockSize
  BY <1>1
<1>8. a + y + e = pushed + 1
  <2>1. EndOf(blocks, a) = a + (l - 1) * BlockSize + e
    BY <1>3, <1>6 DEF EndOf, Base
  <2>. QED
    BY <1>2, <1>7, <2>1
<1>9. content + size >= y
  <2>1. a + b = pushed + 1 - content /\ e + size >= BlockSize /\ b <= BlockSize
    BY <1>2, <1>4, <1>6
  <2>2. content \in Nat
    BY <1>1
  <2>. QED
    BY <1>1, <1>8, <2>1, <2>2
<1>. QED
  BY <1>4, <1>7, <1>9

LEMMA PushStep ==
    ASSUME BufInv, NEW size \in PushSizes, Push(size)
    PROVE  BufInv' /\ Stream!Push
<1>1. /\ BufInv'
      /\ ret'.call = "push" /\ ret'.bytes = Run(pushed, size) /\ ret'.size = size
      /\ \/ IsFull(size) /\ UNCHANGED blocks /\ ret'.value = EAGAIN
         \/ content' = content + size /\ pushed' = pushed + size /\ ret'.value = size
  BY PushInv
<1>2. /\ Concat(blocks) = Run(pushed - content, content) /\ Len(Concat(blocks)) = content
      /\ pushed \in Nat /\ content \in Nat /\ content <= pushed /\ size \in Nat
  BY BufAssumption, InvContent
<1>3. ret'.call = "push" /\ ret'.size = Len(ret'.bytes)
  <2>1. Len(Run(pushed, size)) = size
    BY <1>2, RunIs
  <2>. QED
    BY <1>1, <2>1
<1>4. CASE IsFull(size) /\ UNCHANGED blocks /\ ret'.value = EAGAIN
  <2>1. MaxBlockNo # 0 /\ content + size >= (MaxBlockNo - 1) * BlockSize
    BY <1>4, RefusedWhenFull
  <2>2. Len(Concat(blocks)) + ret'.size >= (MaxBlockNo - 1) * BlockSize
    BY <1>1, <1>2, <2>1
  <2>3. UNCHANGED Concat(blocks)
    BY <1>4
  <2>. QED
    BY <1>1, <1>3, <1>4, <2>1, <2>2, <2>3 DEF Stream!Push
<1>5. CASE content' = content + size /\ pushed' = pushed + size /\ ret'.value = size
  <2>1. PICK x \in Int, c \in Nat, n \in Nat :
           x = pushed - content /\ c = content /\ n = size /\ pushed = x + c
    BY <1>2
  <2>2. Concat(blocks') = Run(x, c + n)
    <3>1. Concat(blocks') = Run(pushed' - content', content')
      BY <1>1, NextContent
    <3>2. pushed' - content' = x /\ content' = c + n
      BY <1>2, <1>5, <2>1
    <3>. QED
      BY <3>1, <3>2
  <2>3. Run(x, c) \o Run(x + c, n) = Run(x, c + n)
    BY RunConcat
  <2>4. Concat(blocks') = Concat(blocks) \o ret'.bytes
    BY <1>1, <1>2, <2>1, <2>2, <2>3
  <2>. QED
    BY <1>1, <1>3, <1>5, <2>4 DEF Stream!Push
<1>. QED
  BY <1>1, <1>4, <1>5

LEMMA NextStep ==
    BufInv /\ [BufNext]_bufVars => BufInv' /\ [Stream!Next]_(<<Concat(blocks), ret>>)
<1>. SUFFICES ASSUME BufInv, [BufNext]_bufVars
              PROVE  BufInv' /\ (Stream!Next \/ UNCHANGED <<Concat(blocks), ret>>)
  OBVIOUS
<1>1. ASSUME NEW size \in PushSizes, Push(size) PROVE BufInv' /\ Stream!Next
  BY <1>1, PushStep DEF Stream!Next
<1>2. ASSUME NEW size \in PullSizes, Read(size) PROVE BufInv' /\ Stream!Next
  BY <1>2, ReadStep DEF Stream!Next
<1>3. ASSUME NEW size \in PullSizes, Pull(size) PROVE BufInv' /\ Stream!Next
  BY <1>3, PullStep DEF Stream!Next
<1>4. ASSUME CopyContent PROVE BufInv' /\ Stream!Next
  BY <1>4, CopyStep DEF Stream!Next
<1>5. ASSUME ShrinkToFit PROVE BufInv' /\ UNCHANGED <<Concat(blocks), ret>>
  BY <1>5, ShrinkStep
<1>6. CASE UNCHANGED bufVars
  <2>1. UNCHANGED <<blocks, free, used_cnt, empty_cnt, content, pushed, spanned>> /\ UNCHANGED ret
    BY <1>6 DEF bufVars
  <2>2. CopyWhole'
    BY <2>1 DEF BufInv, CopyWhole, HeadBlock
  <2>3. BufInv'
    BY <2>1, <2>2, SameInv
  <2>. QED
    BY <2>1, <2>3
<1>. QED
  BY <1>1, <1>2, <1>3, <1>4, <1>5, <1>6 DEF BufNext

LEMMA StreamInit == BufInit => Stream!Init
<1>. SUFFICES ASSUME BufInit PROVE Stream!Init
  OBVIOUS
<1>1. BufInv /\ content = 0 /\ pushed = 0
  BY InitInv DEF BufInit
<1>2. Concat(blocks) = Run(0 - 0, 0)
  BY <1>1, InvContent
<1>3. Run(0 - 0, 0) = <<>>
  BY DEF Run
<1>. QED
  BY <1>2, <1>3 DEF BufInit, Stream!Init

\* Every state of the buffer satisfies BufInv: its counters agree with its
\* lists, and its blocks hold the last bytes that push was given, in order.
THEOREM BufInvariant == BufSpec => []BufInv
<1>1. BufInit => BufInv
  BY InitInv
<1>2. BufInv /\ [BufNext]_bufVars => BufInv'
  BY NextStep
<1>. QED
  BY <1>1, <1>2, PTL DEF BufSpec

\* push, pull, shrink_to_fit of ultrabuf.h keep begin and end of every block
\* in order, room in the tail alone, and the counters that is_full, get_size
\* and get_capacity answer from in agreement with the lists, for any size of
\* a block, any limit and any amounts pushed and pulled.
THEOREM BufWellFormed == BufSpec => []WellFormed
<1>1. BufInv => WellFormed
  BY InvWellFormed
<1>. QED
  BY <1>1, BufInvariant, PTL

\* copy_content of ultrabuf.h returns all bytes not yet pulled, across any
\* number of blocks, unless a pull has ended at the end of the first block.
THEOREM BufCopyWhole == BufSpec => []CopyWhole
<1>1. BufInv => CopyWhole
  BY DEF BufInv
<1>. QED
  BY <1>1, BufInvariant, PTL

\* push, pull and read of ultrabuf.h implement a stream: the bytes given to
\* push are appended as they are, none lost and none twice, or the push says
\* EAGAIN and is near the limit; they come out in that order, whatever blocks
\* they lie in.
THEOREM BufIsStream == BufSpec => ImplementsStream
<1>1. BufInv /\ [BufNext]_bufVars => [Stream!Next]_(<<Concat(blocks), ret>>)
  BY NextStep
<1>. QED
  BY <1>1, BufInvariant, StreamInit, PTL DEF BufSpec, ImplementsStream, Stream!Spec

=============================================================================
