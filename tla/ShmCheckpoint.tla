--------------------------- MODULE ShmCheckpoint ---------------------------
(***************************************************************************)
(* zrt_shm_checkpoint.h: a double-buffered SeqLock in POSIX shared memory. *)
(* One writer process (ShmCheckpoint) and any number of reader processes   *)
(* (ShmCheckpoint::Read and ShmCheckpointReader::Read) share a header      *)
(* (magic, active) and two slots (seq, data).  The writer may crash at any *)
(* point and be started again; the segment survives it.                    *)
(*                                                                         *)
(* A State is a set of machine words that memcpy moves one at a time in an *)
(* unspecified order.  A word holds the number of the Write it came from,  *)
(* 0 for State{} and for the zero pages of a new segment, so that a torn   *)
(* copy is one whose words differ.  Loads and stores take effect in        *)
(* program order: the build targets x86-64, where the hardware keeps the   *)
(* order of loads and of stores and the compiler does not move memcpy      *)
(* across the acquire and release operations around it.                    *)
(***************************************************************************)
EXTENDS Integers, FiniteSets

CONSTANTS Readers,    \* reader processes
          Words,      \* the machine words of a State
          MaxRetry,   \* TryReadSlot's retry limit, 3 in the code
          MaxWrites,  \* bound: calls of Write
          MaxCrashes, \* bound: crashes of the writer process
          MaxResets   \* bound: calls of Reset by the application

ASSUME ConstantsAssumption ==
    /\ Words # {}
    /\ IsFiniteSet(Words)
    /\ MaxRetry \in Nat \ {0}
    /\ MaxWrites \in Nat
    /\ MaxCrashes \in Nat
    /\ MaxResets \in Nat

Slots == {0, 1}
Zero == [w \in Words |-> 0]
Even(n) == n % 2 = 0

VARIABLES
    seg,      \* the POSIX object: "absent", "empty" (size 0), "sized"
    magic,    \* header: does magic hold MAGIC_NUMBER?
    active,   \* header: the slot to read
    seq,      \* slot: seq, odd while the slot is being written
    data,     \* slot: the words of data
    wpc,      \* where the writer process is
    wslot,    \* Write: write_slot; Reset: the slot being cleared
    wold,     \* Write: old_seq
    wleft,    \* words memcpy has still to store
    rpc,      \* where each reader is
    rslot,    \* the slot it is reading
    rsecond,  \* is it on its second slot (other_slot)?
    rretry,   \* TryReadSlot: retry
    rseq1,    \* TryReadSlot: seq1
    rleft,    \* words memcpy has still to load
    rout      \* the caller's State

\* History variables: no guard of the code's actions depends on them, except
\* that the bounded counters stop the environment.
VARIABLES
    written,  \* Writes begun so far, also the number of the last one
    done,     \* the last Write completed since the last Reset, 0 if none
    base,     \* value of written when the last Reset completed
    inverted, \* has a Write begun on a slot that a crash had left odd?
    crashes,  \* crashes so far
    resets,   \* application Resets so far
    rfloor,   \* the oldest Write the current Read may return
    rmust,    \* had a Write completed when the current Read began?
    rflips,   \* Writes completed during the current Read (2 means 2 or more)
    rclean    \* has no step of Reset overlapped the current Read?

shared == <<seg, magic, active, seq, data>>
writer == <<wpc, wslot, wold, wleft>>
reader == <<rpc, rslot, rsecond, rretry, rseq1, rleft, rout>>
whist == <<written, done, base, inverted, crashes, resets>>
rhist == <<rfloor, rmust, rflips, rclean>>
vars == <<shared, writer, reader, whist, rhist>>

Init ==
    /\ seg = "absent"
    /\ magic = FALSE
    /\ active = 0
    /\ seq = [s \in Slots |-> 0]
    /\ data = [s \in Slots |-> Zero]
    /\ wpc = "down"
    /\ wslot = 0
    /\ wold = 0
    /\ wleft = {}
    /\ rpc = [r \in Readers |-> "closed"]
    /\ rslot = [r \in Readers |-> 0]
    /\ rsecond = [r \in Readers |-> FALSE]
    /\ rretry = [r \in Readers |-> 0]
    /\ rseq1 = [r \in Readers |-> 0]
    /\ rleft = [r \in Readers |-> {}]
    /\ rout = [r \in Readers |-> Zero]
    /\ written = 0
    /\ done = 0
    /\ base = 0
    /\ inverted = FALSE
    /\ crashes = 0
    /\ resets = 0
    /\ rfloor = [r \in Readers |-> 0]
    /\ rmust = [r \in Readers |-> FALSE]
    /\ rflips = [r \in Readers |-> 0]
    /\ rclean = [r \in Readers |-> TRUE]

----------------------------------------------------------------------------
(* The writer: Initialize *)

\* Initialize, up to the branch it takes: a missing segment is created, a
\* segment of size 0 cannot be mapped (the exception leaves the object
\* invalid), a segment with the right magic is used as it is, any other is
\* Reset.
WriterOpen ==
    /\ wpc = "down"
    /\ \/ /\ seg = "absent"
          /\ seg' = "empty"
          /\ wpc' = "truncate"
       \/ /\ seg = "empty"
          /\ wpc' = "invalid"
          /\ UNCHANGED seg
       \/ /\ seg = "sized"
          /\ wpc' = IF magic THEN "idle" ELSE "resetMagic"
          /\ UNCHANGED seg
    /\ UNCHANGED <<magic, active, seq, data, wslot, wold, wleft, reader,
                   whist, rhist>>

\* truncate gives the new segment its size; its pages read as zero.
WriterTruncate ==
    /\ wpc = "truncate"
    /\ seg' = "sized"
    /\ wpc' = "resetMagic"
    /\ UNCHANGED <<magic, active, seq, data, wslot, wold, wleft, reader,
                   whist, rhist>>

\* An application whose ShmCheckpoint is invalid stops, to be started again.
WriterGiveUp ==
    /\ wpc = "invalid"
    /\ wpc' = "down"
    /\ UNCHANGED <<shared, wslot, wold, wleft, reader, whist, rhist>>

----------------------------------------------------------------------------
(* The writer: Reset *)

\* A step of Reset overlaps every Read under way.
ResetOverlaps == rclean' = [r \in Readers |-> FALSE]

\* The application calls Reset.
ResetCall ==
    /\ wpc = "idle"
    /\ resets < MaxResets
    /\ resets' = resets + 1
    /\ wpc' = "resetMagic"
    /\ UNCHANGED <<shared, wslot, wold, wleft, reader, written, done, base,
                   inverted, crashes, rhist>>

\* magic and version are stored first.
ResetMagic ==
    /\ wpc = "resetMagic"
    /\ magic' = TRUE
    /\ wpc' = "resetActive"
    /\ done' = 0
    /\ ResetOverlaps
    /\ UNCHANGED <<seg, active, seq, data, wslot, wold, wleft, reader,
                   written, base, inverted, crashes, resets, rfloor, rmust,
                   rflips>>

ResetActive ==
    /\ wpc = "resetActive"
    /\ active' = 0
    /\ wpc' = "resetSeq"
    /\ wslot' = 0
    /\ ResetOverlaps
    /\ UNCHANGED <<seg, magic, seq, data, wold, wleft, reader, whist,
                   rfloor, rmust, rflips>>

ResetSeq ==
    /\ wpc = "resetSeq"
    /\ seq' = [seq EXCEPT ![wslot] = 0]
    /\ wpc' = "resetData"
    /\ wleft' = Words
    /\ ResetOverlaps
    /\ UNCHANGED <<seg, magic, active, data, wslot, wold, reader, whist,
                   rfloor, rmust, rflips>>

\* One word of slots_[wslot].data = State{}; after the last word of slot 0
\* comes slot 1, after the last word of slot 1 Reset returns.
ResetData(w) ==
    /\ wpc = "resetData"
    /\ w \in wleft
    /\ data' = [data EXCEPT ![wslot][w] = 0]
    /\ wleft' = wleft \ {w}
    /\ \/ /\ wleft # {w}
          /\ UNCHANGED <<wpc, wslot, base, inverted>>
       \/ /\ wleft = {w}
          /\ wslot = 0
          /\ wslot' = 1
          /\ wpc' = "resetSeq"
          /\ UNCHANGED <<base, inverted>>
       \/ /\ wleft = {w}
          /\ wslot = 1
          /\ wpc' = "idle"
          /\ base' = written
          /\ inverted' = FALSE
          /\ UNCHANGED wslot
    /\ ResetOverlaps
    /\ UNCHANGED <<seg, magic, active, seq, wold, reader, written, done,
                   crashes, resets, rfloor, rmust, rflips>>

----------------------------------------------------------------------------
(* The writer: Write *)

\* Write loads active and the seq of the other slot, which only the writer
\* stores, and makes that seq odd.
WriteBegin ==
    /\ wpc = "idle"
    /\ written < MaxWrites
    /\ wslot' = 1 - active
    /\ wold' = seq[1 - active]
    /\ seq' = [seq EXCEPT ![1 - active] = @ + 1]
    /\ wleft' = Words
    /\ wpc' = "copy"
    /\ written' = written + 1
    /\ inverted' = (inverted \/ ~Even(seq[1 - active]))
    /\ UNCHANGED <<seg, magic, active, data, reader, done, base, crashes,
                   resets, rhist>>

\* memcpy stores one word.
WriteCopy(w) ==
    /\ wpc = "copy"
    /\ w \in wleft
    /\ data' = [data EXCEPT ![wslot][w] = written]
    /\ wleft' = wleft \ {w}
    /\ wpc' = IF wleft = {w} THEN "seal" ELSE "copy"
    /\ UNCHANGED <<seg, magic, active, seq, wslot, wold, reader, whist, rhist>>

WriteSeal ==
    /\ wpc = "seal"
    /\ seq' = [seq EXCEPT ![wslot] = wold + 2]
    /\ wpc' = "flip"
    /\ UNCHANGED <<seg, magic, active, data, wslot, wold, wleft, reader,
                   whist, rhist>>

\* The store to active publishes the slot and Write returns.
WriteFlip ==
    /\ wpc = "flip"
    /\ active' = wslot
    /\ wpc' = "idle"
    /\ done' = written
    /\ rflips' = [r \in Readers |-> IF rflips[r] = 2 THEN 2 ELSE rflips[r] + 1]
    /\ UNCHANGED <<seg, magic, seq, data, wslot, wold, wleft, reader, written,
                   base, inverted, crashes, resets, rfloor, rmust, rclean>>

\* The writer process dies between any two of its stores; what it has stored
\* stays in the segment.
WriterCrash ==
    /\ wpc # "down"
    /\ crashes < MaxCrashes
    /\ crashes' = crashes + 1
    /\ wpc' = "down"
    /\ wleft' = {}
    /\ UNCHANGED <<shared, wslot, wold, reader, written, done, base, inverted,
                   resets, rhist>>

----------------------------------------------------------------------------
(* A reader *)

\* ShmCheckpointReader::Initialize succeeds only on a mapped segment whose
\* magic is right.
ReaderOpen(r) ==
    /\ rpc[r] = "closed"
    /\ seg = "sized"
    /\ magic
    /\ rpc' = [rpc EXCEPT ![r] = "idle"]
    /\ UNCHANGED <<shared, writer, rslot, rsecond, rretry, rseq1, rleft, rout,
                   whist, rhist>>

\* Mutant: Read starts with the slot that is not active.
ReadBegin_OtherSlot(r) ==
    /\ rpc[r] = "idle"
    /\ rslot' = [rslot EXCEPT ![r] = 1 - active]
    /\ rsecond' = [rsecond EXCEPT ![r] = FALSE]
    /\ rretry' = [rretry EXCEPT ![r] = 0]
    /\ rpc' = [rpc EXCEPT ![r] = "seq1"]
    /\ rfloor' = [rfloor EXCEPT ![r] = IF done = 0 THEN base + 1 ELSE done]
    /\ rmust' = [rmust EXCEPT ![r] = done # 0]
    /\ rflips' = [rflips EXCEPT ![r] = 0]
    /\ rclean' = [rclean EXCEPT ![r] = TRUE]
    /\ UNCHANGED <<shared, writer, rseq1, rleft, rout, whist>>

\* Read loads active and starts with that slot.
ReadBegin(r) ==
    /\ rpc[r] = "idle"
    /\ rslot' = [rslot EXCEPT ![r] = active]
    /\ rsecond' = [rsecond EXCEPT ![r] = FALSE]
    /\ rretry' = [rretry EXCEPT ![r] = 0]
    /\ rpc' = [rpc EXCEPT ![r] = "seq1"]
    /\ rfloor' = [rfloor EXCEPT ![r] = IF done = 0 THEN base + 1 ELSE done]
    /\ rmust' = [rmust EXCEPT ![r] = done # 0]
    /\ rflips' = [rflips EXCEPT ![r] = 0]
    /\ rclean' = [rclean EXCEPT ![r] = TRUE]
    /\ UNCHANGED <<shared, writer, rseq1, rleft, rout, whist>>

\* TryReadSlot returns false: Read goes on to the other slot, or fails.
SlotFails(r) ==
    \/ /\ ~rsecond[r]
       /\ rslot' = [rslot EXCEPT ![r] = 1 - @]
       /\ rsecond' = [rsecond EXCEPT ![r] = TRUE]
       /\ rretry' = [rretry EXCEPT ![r] = 0]
       /\ rpc' = [rpc EXCEPT ![r] = "seq1"]
    \/ /\ rsecond[r]
       /\ rpc' = [rpc EXCEPT ![r] = "failed"]
       /\ UNCHANGED <<rslot, rsecond, rretry>>

\* Mutant: the retry limit is off by one.
NextRetry_OneTooMany(r) ==
    \/ /\ rretry[r] < MaxRetry
       /\ rretry' = [rretry EXCEPT ![r] = @ + 1]
       /\ rpc' = [rpc EXCEPT ![r] = "seq1"]
       /\ UNCHANGED <<rslot, rsecond>>
    \/ /\ rretry[r] = MaxRetry
       /\ SlotFails(r)

\* An attempt at the slot is over: the next of the MaxRetry, if there is one.
NextRetry(r) ==
    \/ /\ rretry[r] + 1 < MaxRetry
       /\ rretry' = [rretry EXCEPT ![r] = @ + 1]
       /\ rpc' = [rpc EXCEPT ![r] = "seq1"]
       /\ UNCHANGED <<rslot, rsecond>>
    \/ /\ rretry[r] + 1 = MaxRetry
       /\ SlotFails(r)

\* Mutant: an odd seq is awaited without counting the attempt.
ReadSeq1_SpinWhileOdd(r) ==
    /\ rpc[r] = "seq1"
    /\ \/ /\ ~Even(seq[rslot[r]])
          /\ UNCHANGED <<rpc, rslot, rsecond, rretry, rseq1, rleft>>
       \/ /\ seq[rslot[r]] = 0
          /\ SlotFails(r)
          /\ UNCHANGED <<rseq1, rleft>>
       \/ /\ Even(seq[rslot[r]])
          /\ seq[rslot[r]] # 0
          /\ rseq1' = [rseq1 EXCEPT ![r] = seq[rslot[r]]]
          /\ rleft' = [rleft EXCEPT ![r] = Words]
          /\ rpc' = [rpc EXCEPT ![r] = "copy"]
          /\ UNCHANGED <<rslot, rsecond, rretry>>
    /\ UNCHANGED <<shared, writer, rout, whist, rhist>>

\* TryReadSlot loads seq1: odd, the attempt is over; 0, the slot was never
\* written; otherwise the copy starts.
ReadSeq1(r) ==
    /\ rpc[r] = "seq1"
    /\ \/ /\ ~Even(seq[rslot[r]])
          /\ NextRetry(r)
          /\ UNCHANGED <<rseq1, rleft>>
       \/ /\ seq[rslot[r]] = 0
          /\ SlotFails(r)
          /\ UNCHANGED <<rseq1, rleft>>
       \/ /\ Even(seq[rslot[r]])
          /\ seq[rslot[r]] # 0
          /\ rseq1' = [rseq1 EXCEPT ![r] = seq[rslot[r]]]
          /\ rleft' = [rleft EXCEPT ![r] = Words]
          /\ rpc' = [rpc EXCEPT ![r] = "copy"]
          /\ UNCHANGED <<rslot, rsecond, rretry>>
    /\ UNCHANGED <<shared, writer, rout, whist, rhist>>

\* memcpy loads one word.
ReadCopy(r, w) ==
    /\ rpc[r] = "copy"
    /\ w \in rleft[r]
    /\ rout' = [rout EXCEPT ![r][w] = data[rslot[r]][w]]
    /\ rleft' = [rleft EXCEPT ![r] = @ \ {w}]
    /\ UNCHANGED <<shared, writer, rpc, rslot, rsecond, rretry, rseq1, whist,
                   rhist>>

\* Mutant: seq2 is checked for parity only, not compared with seq1.
ReadSeq2_ParityOnly(r) ==
    /\ rpc[r] = "copy"
    /\ rleft[r] = {}
    /\ \/ /\ Even(seq[rslot[r]])
          /\ rpc' = [rpc EXCEPT ![r] = "ok"]
          /\ UNCHANGED <<rslot, rsecond, rretry>>
       \/ /\ ~Even(seq[rslot[r]])
          /\ NextRetry(r)
    /\ UNCHANGED <<shared, writer, rseq1, rleft, rout, whist, rhist>>

\* TryReadSlot loads seq2: equal to seq1, the copy is accepted.
ReadSeq2(r) ==
    /\ rpc[r] = "copy"
    /\ rleft[r] = {}
    /\ \/ /\ seq[rslot[r]] = rseq1[r]
          /\ rpc' = [rpc EXCEPT ![r] = "ok"]
          /\ UNCHANGED <<rslot, rsecond, rretry>>
       \/ /\ seq[rslot[r]] # rseq1[r]
          /\ NextRetry(r)
    /\ UNCHANGED <<shared, writer, rseq1, rleft, rout, whist, rhist>>

\* Read returns to its caller, which may call it again with another State.
ReadReturn(r) ==
    /\ rpc[r] \in {"ok", "failed"}
    /\ rpc' = [rpc EXCEPT ![r] = "idle"]
    /\ rout' = [rout EXCEPT ![r] = Zero]
    /\ UNCHANGED <<shared, writer, rslot, rsecond, rretry, rseq1, rleft,
                   whist, rhist>>

----------------------------------------------------------------------------
WriterStep ==
    \/ WriterOpen
    \/ WriterTruncate
    \/ WriterGiveUp
    \/ ResetMagic
    \/ ResetActive
    \/ ResetSeq
    \/ \E w \in Words : ResetData(w)
    \/ \E w \in Words : WriteCopy(w)
    \/ WriteSeal
    \/ WriteFlip

ReadStep(r) ==
    \/ ReadSeq1(r)
    \/ \E w \in Words : ReadCopy(r, w)
    \/ ReadSeq2(r)

Next ==
    \/ WriterStep
    \/ ResetCall
    \/ WriteBegin
    \/ WriterCrash
    \/ \E r \in Readers : ReaderOpen(r) \/ ReadBegin(r) \/ ReadStep(r) \/ ReadReturn(r)

Spec == Init /\ [][Next]_vars

\* A process that has begun an operation keeps taking steps; nobody has to
\* begin one.
FairSpec ==
    /\ Spec
    /\ WF_vars(WriterStep)
    /\ \A r \in Readers : WF_vars(ReadStep(r))

----------------------------------------------------------------------------
(* Properties *)

\* The values of the variables, for every operation the code has.
TypeOK ==
    /\ seg \in {"absent", "empty", "sized"}
    /\ magic \in BOOLEAN
    /\ active \in Slots
    /\ seq \in [Slots -> Nat]
    /\ data \in [Slots -> [Words -> Nat]]
    /\ wpc \in {"down", "truncate", "invalid", "resetMagic", "resetActive",
                "resetSeq", "resetData", "idle", "copy", "seal", "flip"}
    /\ wslot \in Slots
    /\ wold \in Nat
    /\ wleft \in SUBSET Words
    /\ rpc \in [Readers -> {"closed", "idle", "seq1", "copy", "ok", "failed"}]
    /\ rslot \in [Readers -> Slots]
    /\ rsecond \in [Readers -> BOOLEAN]
    /\ rretry \in [Readers -> 0 .. MaxRetry - 1]
    /\ rseq1 \in [Readers -> Nat]
    /\ rleft \in [Readers -> SUBSET Words]
    /\ rout \in [Readers -> [Words -> Nat]]
    /\ written \in Nat
    /\ done \in Nat
    /\ base \in Nat
    /\ inverted \in BOOLEAN
    /\ crashes \in Nat
    /\ resets \in Nat
    /\ rfloor \in [Readers -> Nat]
    /\ rmust \in [Readers -> BOOLEAN]
    /\ rflips \in [Readers -> 0 .. 2]
    /\ rclean \in [Readers -> BOOLEAN]

Untorn(r) == \A w1, w2 \in Words : rout[r][w1] = rout[r][w2]
NotOlder(r) == \A w \in Words : rout[r][w] >= rfloor[r]

\* A Read that returns true returns the words of one Write, never a mixture,
\* whatever the interleaving of the two memcpys (TryReadSlot's comparison of
\* seq1 and seq2), as long as no Reset overlaps the Read and no Write has
\* begun on a slot that a crash left odd.
ReadUntorn ==
    \A r \in Readers :
        rpc[r] = "ok" /\ rclean[r] /\ ~inverted => Untorn(r)

\* Under the same conditions a Read that returns true returns a State at
\* least as new as the last Write that had returned when Read was called,
\* and never one from before a Reset that had returned by then.
ReadFresh ==
    \A r \in Readers :
        rpc[r] = "ok" /\ rclean[r] /\ ~inverted => NotOlder(r)

\* Under the same conditions a Read called after some Write had returned
\* fails only if two more Writes return while it runs: one in progress, or a
\* writer that died in the middle of one, never makes a Read fail.
ReadFailsOnlyWhenOvertaken ==
    \A r \in Readers :
        /\ rpc[r] = "failed"
        /\ rclean[r]
        /\ rmust[r]
        /\ ~inverted
        => rflips[r] = 2

\* A Read that has begun returns: a slot left odd by a writer that died
\* costs MaxRetry attempts and never blocks the reader.
ReadTerminates ==
    \A r \in Readers :
        rpc[r] \in {"seq1", "copy"} ~> rpc[r] \in {"ok", "failed"}

\* What line 34 of the header claims of a crashed writer: the readers' data
\* are never damaged.
CrashNeverTears ==
    \A r \in Readers : rpc[r] = "ok" /\ rclean[r] => Untorn(r)

============================================================================
