----------------------------- MODULE MCDateTime -----------------------------
(***************************************************************************)
(* DateTime for TLC.  A day has two hours of two minutes of two seconds,   *)
(* so that a period of the calendar (400 years) can be counted through.    *)
(***************************************************************************)
EXTENDS DateTime

\* Every midnight from 1800 to 2200, the seconds around 1970, and some days
\* before the year 0.
UTCStarts ==
    {FirstOfMonth(1800, 0) * Day + n * Day : n \in 0 .. 146097}
        \union (-30 .. 30) \union {(FirstOfMonth(0, 2) + n) * Day : n \in -500 .. 500}

MCFineStarts == {-13, -8, 0, 5, 12}

DaysAround(y, mon, a, b) == FirstOfMonth(y, mon) * Day + a * Day .. FirstOfMonth(y, mon) * Day + b * Day + Day - 1

\* The turn of 1969 and 1970, and the end of February 2000.
MCWindow == DaysAround(1970, 0, -1, 0) \union DaysAround(2000, 2, -1, 0)

\* Strings with a date alone, a time alone, and both.
MCParsed ==
    LET all == {CivilFromEpoch(z) : z \in MCWindow}
        dates == {[tm EXCEPT !.hour = 0, !.min = 0, !.sec = 0] : tm \in all}
        times == {[ZeroTM EXCEPT !.hour = tm.hour, !.min = tm.min, !.sec = tm.sec] : tm \in all}
    IN all \union dates \union times

MCStarts == [kUTC |-> UTCStarts, kLocal |-> MCWindow]

\* Daylight saving time begins and ends within each part of the window.
MCSummer == (-5 .. 4) \union (FirstOfMonth(2000, 2) * Day - 6 .. FirstOfMonth(2000, 2) * Day + 3)

MCOffsets == {-1, 1}
MCNanoOffsets == {-4, 12}

MCSettings ==
    [year |-> {1969, 1970, 1999, 2000}, mon |-> {0, 1, 2, 3, 12, 13},
     mday |-> {0, 1, 29, 31}, hour |-> {0, 1, 2}, min |-> {0, 1}, sec |-> {-1, 0, 1}]
============================================================================
