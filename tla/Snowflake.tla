----------------------------- MODULE Snowflake -----------------------------
(***************************************************************************)
(* zrt_snowflake.h: nextId, a lock-free generator of 63-bit ids that any   *)
(* number of threads call.  All they share is the atomic state_, which     *)
(* packs the timestamp of the last id and its sequence number, and the     *)
(* system clock, which may step backwards.                                 *)
(*                                                                         *)
(* Bit fields are kept as multiplication and division by the size of the   *)
(* field, so that x << n | y is x * 2^n + y.  The statistics counters and  *)
(* the log lines have no effect on the ids and are left out.               *)
(***************************************************************************)
EXTENDS Integers, Sequences

CONSTANTS Threads,      \* threads that call nextId
          SeqSize,      \* MAX_SEQUENCE + 1, a power of 2
          ServerSize,   \* MAX_SERVER_ID + 1
          MaxTimestamp, \* MAX_TIMESTAMP
          ServerId,     \* server_id_
          Epoch,        \* epoch_ms_
          Tolerance,    \* ToleranceMs
          WaitLimit,    \* WaitThresholdMs
          ErrorLimit,   \* ErrorThresholdMs
          StartClock,   \* the clock when the generator is constructed
          MaxCalls,     \* bound: calls of nextId
          ClockLead,    \* bound: how far the clock runs ahead of state_
          MaxBack,      \* bound: the largest backward step of the clock
          MaxBacks      \* bound: backward steps of the clock

ASSUME ConstantsAssumption ==
    /\ SeqSize \in Nat \ {0}
    /\ ServerSize \in Nat \ {0}
    /\ MaxTimestamp \in Nat
    /\ ServerId \in 0 .. ServerSize - 1
    /\ Epoch \in Nat
    /\ Tolerance \in Nat
    /\ WaitLimit \in Nat
    /\ ErrorLimit \in Nat
    /\ Tolerance <= WaitLimit
    /\ WaitLimit <= ErrorLimit
    /\ StartClock \in Nat \ {0}
    /\ MaxCalls \in Nat
    /\ ClockLead \in Nat
    /\ MaxBack \in Nat
    /\ MaxBacks \in Nat

VARIABLES
    clock,  \* system_clock::now(), in milliseconds
    state,  \* state_
    pc,     \* where each thread is in nextId
    now,    \* nextId: now
    old,    \* nextId: old_state
    new,    \* nextId: new_state (while waiting: the timestamp to pass)
    calls,  \* history: calls of nextId so far
    issued, \* history: the new_state behind each id returned, in CAS order
    backs   \* history: backward steps of the clock so far

vars == <<clock, state, pc, now, old, new, calls, issued, backs>>

\* (timestamp << SEQUENCE_BITS) | sequence, and its two fields.
Pack(ts, sequence) == ts * SeqSize + sequence
LastTimestamp(s) == s \div SeqSize
LastSequence(s) == s % SeqSize

\* Mutant: TIMESTAMP_SHIFT leaves out the bits of the sequence number.
IdOf_ShiftTooSmall(s) ==
    (LastTimestamp(s) - Epoch) * ServerSize
        + ServerId * SeqSize + LastSequence(s)

\* The id nextId builds from new_state.
IdOf(s) ==
    (LastTimestamp(s) - Epoch) * (ServerSize * SeqSize)
        + ServerId * SeqSize + LastSequence(s)

\* parseId.
ParseId(id) ==
    [timestamp_ms |-> id \div (ServerSize * SeqSize) + Epoch,
     server_id |-> (id \div SeqSize) % ServerSize,
     sequence |-> id % SeqSize]

\* time_diff is unsigned: a timestamp before the epoch wraps to a value far
\* above MAX_TIMESTAMP.
TimeDiffFits(ts) == ts >= Epoch /\ ts - Epoch <= MaxTimestamp

Init ==
    /\ clock = StartClock
    /\ state = 0
    /\ pc = [t \in Threads |-> "idle"]
    /\ now = [t \in Threads |-> 0]
    /\ old = [t \in Threads |-> 0]
    /\ new = [t \in Threads |-> 0]
    /\ calls = 0
    /\ issued = <<>>
    /\ backs = 0

----------------------------------------------------------------------------
(* The clock *)

Tick ==
    /\ \/ clock < StartClock + ClockLead
       \/ clock < LastTimestamp(state) + ClockLead
    /\ clock' = clock + 1
    /\ UNCHANGED <<state, pc, now, old, new, calls, issued, backs>>

ClockBack ==
    /\ backs < MaxBacks
    /\ backs' = backs + 1
    /\ \E d \in 1 .. MaxBack : clock > d /\ clock' = clock - d
    /\ UNCHANGED <<state, pc, now, old, new, calls, issued>>

----------------------------------------------------------------------------
(* nextId *)

NextId(t) ==
    /\ pc[t] = "idle"
    /\ calls < MaxCalls
    /\ calls' = calls + 1
    /\ pc' = [pc EXCEPT ![t] = "clock"]
    /\ UNCHANGED <<clock, state, now, old, new, issued, backs>>

\* The head of the loop: now = getCurrentMillis().
ReadClock(t) ==
    /\ pc[t] = "clock"
    /\ now' = [now EXCEPT ![t] = clock]
    /\ pc' = [pc EXCEPT ![t] = "load"]
    /\ UNCHANGED <<clock, state, old, new, calls, issued, backs>>

\* Mutant: an exhausted sequence number wraps to 0 within the millisecond.
Decide_SequenceWraps(t, ts) ==
    \/ /\ ts = LastTimestamp(state)
       /\ new' = [new EXCEPT ![t] = Pack(ts, (LastSequence(state) + 1) % SeqSize)]
       /\ pc' = [pc EXCEPT ![t] = "cas"]
    \/ /\ ts # LastTimestamp(state)
       /\ new' = [new EXCEPT ![t] = Pack(ts, 0)]
       /\ pc' = [pc EXCEPT ![t] = "cas"]

\* The sequence number for timestamp ts; when the millisecond's numbers are
\* used up the thread enters waitNextMillis.
Decide(t, ts) ==
    \/ /\ ts = LastTimestamp(state)
       /\ LastSequence(state) + 1 < SeqSize
       /\ new' = [new EXCEPT ![t] = Pack(ts, LastSequence(state) + 1)]
       /\ pc' = [pc EXCEPT ![t] = "cas"]
    \/ /\ ts = LastTimestamp(state)
       /\ LastSequence(state) + 1 = SeqSize
       /\ new' = [new EXCEPT ![t] = ts]
       /\ pc' = [pc EXCEPT ![t] = "wait"]
    \/ /\ ts # LastTimestamp(state)
       /\ new' = [new EXCEPT ![t] = Pack(ts, 0)]
       /\ pc' = [pc EXCEPT ![t] = "cas"]

\* Mutant: after a drift the loop goes back without reading the clock again.
LoadState_ClockNotReread(t) ==
    LET last == LastTimestamp(state)
        drift == last - now[t]
    IN
    /\ pc[t] = "load"
    /\ old' = [old EXCEPT ![t] = state]
    /\ \/ /\ now[t] >= last
          /\ Decide(t, now[t])
       \/ /\ now[t] < last
          /\ drift < Tolerance
          /\ Decide(t, last)
       \/ /\ now[t] < last
          /\ drift >= Tolerance
          /\ drift < ErrorLimit
          /\ UNCHANGED <<pc, new>>
       \/ /\ now[t] < last
          /\ drift >= Tolerance
          /\ drift >= ErrorLimit
          /\ pc' = [pc EXCEPT ![t] = "clockError"]
          /\ UNCHANGED new
    /\ UNCHANGED <<clock, state, now, calls, issued, backs>>

\* The load of state_ and the three tiers of clock drift: tolerated, waited
\* for (yield below WaitLimit, a sleep from there up to ErrorLimit, both back
\* to the head of the loop), or thrown.
LoadState(t) ==
    LET last == LastTimestamp(state)
        drift == last - now[t]
    IN
    /\ pc[t] = "load"
    /\ old' = [old EXCEPT ![t] = state]
    /\ \/ /\ now[t] >= last
          /\ Decide(t, now[t])
       \/ /\ now[t] < last
          /\ drift < Tolerance
          /\ Decide(t, last)
       \/ /\ now[t] < last
          /\ drift >= Tolerance
          /\ drift < ErrorLimit
          /\ pc' = [pc EXCEPT ![t] = "clock"]
          /\ UNCHANGED new
       \/ /\ now[t] < last
          /\ drift >= Tolerance
          /\ drift >= ErrorLimit
          /\ pc' = [pc EXCEPT ![t] = "clockError"]
          /\ UNCHANGED new
    /\ UNCHANGED <<clock, state, now, calls, issued, backs>>

\* waitNextMillis leaves its loop with the first reading past the timestamp.
WaitNextMillis(t) ==
    /\ pc[t] = "wait"
    /\ clock > new[t]
    /\ new' = [new EXCEPT ![t] = Pack(clock, 0)]
    /\ pc' = [pc EXCEPT ![t] = "cas"]
    /\ UNCHANGED <<clock, state, now, old, calls, issued, backs>>

\* Mutant: the id is returned without the check of its timestamp.
CasSucceeds_OverflowNotChecked(t) ==
    /\ pc[t] = "cas"
    /\ state = old[t]
    /\ state' = new[t]
    /\ issued' = Append(issued, new[t])
    /\ pc' = [pc EXCEPT ![t] = "idle"]
    /\ UNCHANGED <<clock, now, old, new, calls, backs>>

\* compare_exchange_weak succeeds; the overflow of the timestamp is found
\* only after state_ has moved.
CasSucceeds(t) ==
    /\ pc[t] = "cas"
    /\ state = old[t]
    /\ state' = new[t]
    /\ \/ /\ TimeDiffFits(LastTimestamp(new[t]))
          /\ issued' = Append(issued, new[t])
          /\ pc' = [pc EXCEPT ![t] = "idle"]
       \/ /\ ~TimeDiffFits(LastTimestamp(new[t]))
          /\ pc' = [pc EXCEPT ![t] = "overflow"]
          /\ UNCHANGED issued
    /\ UNCHANGED <<clock, now, old, new, calls, backs>>

\* compare_exchange_weak fails, because state_ has moved or spuriously.
CasFails(t) ==
    /\ pc[t] = "cas"
    /\ pc' = [pc EXCEPT ![t] = "clock"]
    /\ UNCHANGED <<clock, state, now, old, new, calls, issued, backs>>

\* The caller catches the exception.
Catch(t) ==
    /\ pc[t] \in {"clockError", "overflow"}
    /\ pc' = [pc EXCEPT ![t] = "idle"]
    /\ UNCHANGED <<clock, state, now, old, new, calls, issued, backs>>

----------------------------------------------------------------------------
ThreadStep(t) ==
    \/ ReadClock(t)
    \/ LoadState(t)
    \/ WaitNextMillis(t)
    \/ CasSucceeds(t)
    \/ CasFails(t)
    \/ Catch(t)

Next ==
    \/ Tick
    \/ ClockBack
    \/ \E t \in Threads : NextId(t) \/ ThreadStep(t)

Spec == Init /\ [][Next]_vars

\* The clock keeps running, every thread is scheduled, and a weak CAS does
\* not fail spuriously for ever.
FairSpec ==
    /\ Spec
    /\ WF_vars(Tick)
    /\ \A t \in Threads : WF_vars(ThreadStep(t)) /\ SF_vars(CasSucceeds(t))

----------------------------------------------------------------------------
(* Properties *)

\* The values of the variables.  A state behind an id has a timestamp that
\* fits the id's field.
TypeOK ==
    /\ clock \in Nat \ {0}
    /\ state \in Nat
    /\ pc \in [Threads -> {"idle", "clock", "load", "wait", "cas",
                           "clockError", "overflow"}]
    /\ now \in [Threads -> Nat]
    /\ old \in [Threads -> Nat]
    /\ new \in [Threads -> Nat]
    /\ calls \in Nat
    /\ issued \in Seq({s \in Nat : TimeDiffFits(LastTimestamp(s))})
    /\ backs \in Nat

\* The ids that nextId returns increase strictly in the order of the
\* successful compare_exchange, whatever the threads' interleaving, the
\* clock's backward steps and the exhaustion of a millisecond's sequence
\* numbers: they are unique, and an id asked for after another has been
\* returned is larger.
IdsIncrease ==
    \A i, j \in 1 .. Len(issued) : i < j => IdOf(issued[i]) < IdOf(issued[j])

\* parseId gives back the fields of every id that nextId returned.
ParseInverts ==
    \A i \in 1 .. Len(issued) :
        ParseId(IdOf(issued[i])) =
            [timestamp_ms |-> LastTimestamp(issued[i]),
             server_id |-> ServerId,
             sequence |-> LastSequence(issued[i])]

\* With a clock that is set back finitely often every call of nextId returns
\* an id or throws: neither the wait for the next millisecond, nor the wait
\* for a drift, nor the CAS loop holds a thread for ever.
NextIdReturns ==
    \A t \in Threads : pc[t] # "idle" ~> pc[t] = "idle"

============================================================================
