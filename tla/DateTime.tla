------------------------------ MODULE DateTime ------------------------------
(***************************************************************************)
(* zrt_time.h, DateTime<tz>: a timespec, its broken-down form m_tm, and    *)
(* the epoch that m_tm was computed from.  A call is one step; an object   *)
(* belongs to one thread.  kUTC uses the arithmetic of Calendar, kLocal    *)
(* the C library with the time zone of the host.                           *)
(***************************************************************************)
EXTENDS Calendar

CONSTANTS Kilo,       \* kKilo; kMega and kGiga are its powers
          Starts,     \* tz: epochs that objects are made of
          FineStarts, \* the same in nanoseconds, for the other resolutions
          Parsed,     \* broken-down times that are read from strings
          Window,     \* bound: the epochs at which further calls are made
          Settings,   \* [year, mon, ...|-> the values set, as the application counts]
          Offsets,    \* days, hours, minutes and seconds added
          NanoOffsets,\* nanoseconds added
          ZoneOffset, \* seconds that the standard time of the host is ahead of UTC
          Summer      \* the epochs at which it has daylight saving time

\* The fields of a std::tm that the code uses.
TM == [year : Int, mon : Int, mday : Int, hour : Int, min : Int, sec : Int,
       wday : Int, yday : Int, isdst : Int]

\* What the fields that can be set count from.
CountsFrom == [year |-> 1900, mon |-> 1, mday |-> 0, hour |-> 0, min |-> 0, sec |-> 0]

ASSUME ConstantsAssumption ==
    /\ Kilo \in Nat \ {0}
    /\ DOMAIN Starts \subseteq {"kUTC", "kLocal"}
    /\ \A t \in DOMAIN Starts : Starts[t] \subseteq Int
    /\ FineStarts \subseteq Int /\ Parsed \subseteq TM
    /\ DOMAIN Settings \subseteq DOMAIN CountsFrom
    /\ \A f \in DOMAIN Settings : Settings[f] \subseteq Int
    /\ Offsets \subseteq Int /\ NanoOffsets \subseteq Int /\ ZoneOffset \in Int

Mega == Kilo * Kilo
Giga == Mega * Kilo

VARIABLES
    tz,              \* the template parameter
    tv_sec, tv_nsec, \* m_ts
    m_tm,            \* m_tm
    cached_epoch,    \* m_cached_epoch
    last             \* history: what the last call did

vars == <<tz, tv_sec, tv_nsec, m_tm, cached_epoch, last>>

ZeroTM == [year |-> 0, mon |-> 0, mday |-> 0, hour |-> 0, min |-> 0, sec |-> 0,
           wday |-> 0, yday |-> 0, isdst |-> 0]

Epoch19 == tv_sec * Giga + tv_nsec

\* How far the clocks of the host are ahead of UTC.
Ahead(isdst) == ZoneOffset + isdst * Hour
IsDst(epoch) == IF epoch \in Summer THEN 1 ELSE 0

LocalTime(epoch) ==
    LET s == epoch + Ahead(IsDst(epoch))
        rest == s % Day
    IN [CivilFromEpoch(s - rest) EXCEPT
           !.hour = rest \div Hour, !.min = (rest % Hour) \div Minute,
           !.sec = rest % Minute, !.isdst = IsDst(epoch)]

\* mktime takes tm_isdst at its word, also at a time of the year that has the
\* other one.
MkTime(tm) == SecondOf(tm) - Ahead(tm.isdst)

\* TMUpdater and TSUpdater: the two directions of the conversion.
TMUpdate(epoch) == IF tz = "kLocal" THEN LocalTime(epoch) ELSE CivilFromEpoch(epoch)
TSUpdate(tm) == IF tz = "kLocal" THEN MkTime(tm) ELSE FastTimegm(tm)

\* DateTime(epoch, digits): seconds, milli-, micro- or nanoseconds.
FromEpoch ==
    /\ tz \in DOMAIN Starts
    /\ \/ tv_sec \in Starts[tz] /\ tv_nsec = 0
       \/ \E e \in FineStarts, unit \in {Giga, Mega, Kilo} :
             /\ tv_sec = CDiv(e, unit)
             /\ tv_nsec = CMod(e, unit) * (Giga \div unit)
    /\ m_tm = ZeroTM
    /\ last = "new"

\* DateTime(time_str, format): the decimals go to tv_nsec, the rest through
\* m_tm, of which the fields that the format does not have stay 0.  A string
\* that does not fit leaves second 0, and in m_tm what was read of it.
FromString ==
    /\ tz \in DOMAIN Starts
    /\ \E unit \in {1, Giga, Mega, Kilo} : \E decimals \in 0 .. unit - 1 :
          tv_nsec = decimals * (Giga \div unit)
    /\ m_tm \in Parsed
    /\ \/ tv_sec = TSUpdate(m_tm) /\ last = "set"
       \/ tv_sec = 0 /\ last = "new"

Init == (FromEpoch \/ FromString) /\ cached_epoch = -1

\* m_tm as UpdateTM leaves it: taken from the cache, or computed.
UpdatedTM == IF tv_sec = cached_epoch THEN m_tm ELSE TMUpdate(tv_sec)

\* GetHMS, GetYmd, GetYmdHMS, ToFormat.
Get ==
    /\ m_tm' = UpdatedTM
    /\ cached_epoch' = tv_sec
    /\ last' = "get"
    /\ UNCHANGED <<tv_sec, tv_nsec>>

\* Mutant: the epoch of m_tm is taken to be cached already.
UpdateEpoch_Cached(tm) ==
    /\ m_tm' = tm
    /\ tv_sec' = TSUpdate(tm)
    /\ cached_epoch' = TSUpdate(tm)

\* UpdateEpoch with m_tm = tm: m_tm is not brought into its ranges.
UpdateEpoch(tm) ==
    /\ m_tm' = tm
    /\ tv_sec' = TSUpdate(tm)
    /\ cached_epoch' = -1

\* SetYear .. SetSec.
Set(field, value) ==
    /\ UpdateEpoch([UpdatedTM EXCEPT ![field] = value - CountsFrom[field]])
    /\ last' = "set"
    /\ UNCHANGED tv_nsec

SetNano(nano) ==
    /\ tv_nsec' = nano
    /\ last' = "get"
    /\ UNCHANGED <<tv_sec, m_tm, cached_epoch>>

\* OffsetDay .. OffsetSec.
Offset(n, unit) ==
    /\ tv_sec' = tv_sec + n * unit
    /\ cached_epoch' = -1
    /\ last' = "offset"
    /\ UNCHANGED <<tv_nsec, m_tm>>

\* OffsetNano, and OffsetMSec and OffsetUSec, which call it.
OffsetNano(n) ==
    /\ tv_sec' = CDiv(Epoch19 + n, Giga)
    /\ tv_nsec' = CMod(Epoch19 + n, Giga)
    /\ cached_epoch' = -1
    /\ last' = "offset"
    /\ UNCHANGED m_tm

Next ==
    /\ tv_sec \in Window
    /\ UNCHANGED tz
    /\ \/ Get
       \/ \E f \in DOMAIN Settings : \E v \in Settings[f] : Set(f, v)
       \/ SetNano(0)
       \/ \E n \in Offsets, unit \in {Day, Hour, Minute, 1} : Offset(n, unit)
       \/ \E n \in NanoOffsets : OffsetNano(n)

Spec == Init /\ [][Next]_vars

----------------------------------------------------------------------------
(* Properties *)

\* The second that the clocks of the time zone show.
Shown == tv_sec + (IF tz = "kLocal" THEN Ahead(IsDst(tv_sec)) ELSE 0)

\* What GetYmd and GetHMS print is the date of the current epoch and its time
\* of day: the date for every epoch, the time and the weekday from 1970 on and
\* at midnight before (for other negative epochs the code rounds to zero, when
\* it does not ask the C library).  Only at epoch -1, which is also
\* the mark of an empty cache, the fields of an earlier call are shown.
FieldsRight ==
    tv_sec # -1 =>
        /\ IsDateOf(UpdatedTM, Shown \div Day)
        /\ tz = "kLocal" \/ tv_sec >= 0 \/ tv_sec % Day = 0 => IsTimeOf(UpdatedTM, Shown)

\* A string or a setter moves the object to the second its fields stand for, also
\* when the day or the month it sets lies outside its range, as the callers of
\* timegm expect: day 0 is the last of the month before.  The exceptions are
\* day 0 of March in a year that divides by 400, where the unsigned day of
\* the era wraps, and a local time for which tm_isdst, 0 from a string and
\* kept by the setters, is not that of the day: it is off by the hour.
SettersNormalise ==
    last = "set" =>
        \/ Shown = SecondOf(m_tm)
        \/ tz = "kUTC" /\ m_tm.mday < 1 /\ m_tm.mon = 2 /\ (m_tm.year + 1900) % 400 = 0
        \/ tz = "kLocal" /\ Shown = SecondOf(m_tm) + (IsDst(tv_sec) - m_tm.isdst) * Hour

\* The cached fields are those of the epoch they are cached for, through any
\* sequence of setters and offsets that leaves and comes back to it.
CacheCoherent == cached_epoch # -1 => m_tm = TMUpdate(cached_epoch)

============================================================================
