------------------------- MODULE ShmCheckpointProofs -------------------------
(***************************************************************************)
(* Proofs about ShmCheckpoint for every number of readers, every size of   *)
(* the State, every retry limit and any number of Writes, crashes and      *)
(* Resets.                                                                 *)
(***************************************************************************)
EXTENDS ShmCheckpoint, TLAPS

----------------------------------------------------------------------------
(* The inductive invariant *)

\* Reset sets the seq of a slot to 0 before it clears the slot, and slot 0
\* before slot 1.
ResetInv ==
    /\ wpc = "resetData" => seq[wslot] = 0
    /\ wpc \in {"resetSeq", "resetData"} /\ wslot = 1 => seq[0] = 0

\* During Write the slot's seq is the old one plus 1, which is odd unless a
\* crash had left the old one odd, and the words memcpy has stored are those
\* of this Write.
WriteInv ==
    /\ wpc \in {"copy", "seal"} => /\ seq[wslot] = wold + 1
                                   /\ ~inverted => Even(wold)
    /\ wpc = "copy" => \A w \in Words \ wleft : data[wslot][w] = written
    /\ wpc = "seal" => \A w \in Words : data[wslot][w] = written

\* A slot whose seq is even and not 0 holds the words of one Write.
SlotWhole(s) ==
    Even(seq[s]) /\ seq[s] # 0 =>
        \A w1, w2 \in Words : data[s][w1] = data[s][w2]

SlotInv == ~inverted => \A s \in Slots : SlotWhole(s)

\* While a reader copies, the slot's seq has not fallen below the seq1 it
\* loaded, and as long as the two are equal the words copied so far are still
\* those of the slot.
CopyFaithful(r) ==
    /\ Even(rseq1[r])
    /\ rseq1[r] # 0
    /\ rseq1[r] <= seq[rslot[r]]
    /\ rseq1[r] = seq[rslot[r]] =>
           \A w \in Words \ rleft[r] : rout[r][w] = data[rslot[r]][w]

ReaderInv ==
    \A r \in Readers :
        rclean[r] /\ ~inverted =>
            /\ rpc[r] = "copy" => CopyFaithful(r)
            /\ rpc[r] = "ok" => Untorn(r)

IInv == TypeOK /\ ResetInv /\ WriteInv /\ SlotInv /\ ReaderInv

----------------------------------------------------------------------------
(* Type correctness *)

\* The slot that Write fills and the one Read tries second are slots.
LEMMA OtherSlot == \A s \in Slots : 1 - s \in Slots
BY DEF Slots

\* State{} and the pages of a new segment are values of a slot's data.
LEMMA ZeroType == Zero \in [Words -> Nat]
BY DEF Zero

\* A machine without the segment and with no process attached is typed.
LEMMA InitTypeOK == Init => TypeOK
<1> SUFFICES ASSUME Init
             PROVE  TypeOK
  OBVIOUS
<1>1. /\ seg \in {"absent", "empty", "sized"} /\ magic \in BOOLEAN
      /\ active \in Slots /\ seq \in [Slots -> Nat]
  BY DEF Init, Slots
<1>2. data \in [Slots -> [Words -> Nat]]
  BY ZeroType DEF Init
<1>3. rretry \in [Readers -> 0 .. MaxRetry - 1]
  BY ConstantsAssumption DEF Init
<1>4. rout \in [Readers -> [Words -> Nat]]
  BY ZeroType DEF Init
<1>5. /\ rslot \in [Readers -> Slots] /\ rsecond \in [Readers -> BOOLEAN]
      /\ rseq1 \in [Readers -> Nat] /\ rleft \in [Readers -> SUBSET Words]
      /\ rpc \in [Readers -> {"closed", "idle", "seq1", "copy", "ok", "failed"}]
  BY DEF Init, Slots
<1>6. /\ rfloor \in [Readers -> Nat] /\ rmust \in [Readers -> BOOLEAN]
      /\ rflips \in [Readers -> 0 .. 2] /\ rclean \in [Readers -> BOOLEAN]
  BY DEF Init
<1>7. /\ wpc = "down" /\ wslot \in Slots /\ wold \in Nat
      /\ wleft \in SUBSET Words
      /\ written \in Nat /\ done \in Nat /\ base \in Nat
      /\ inverted \in BOOLEAN /\ crashes \in Nat /\ resets \in Nat
  BY DEF Init, Slots
<1>. QED
  BY <1>1, <1>2, <1>3, <1>4, <1>5, <1>6, <1>7 DEF TypeOK

\* The writer's steps keep every variable typed.
LEMMA WriterTypeOK ==
    TypeOK /\ (WriterStep \/ ResetCall \/ WriteBegin \/ WriterCrash) => TypeOK'
<1> SUFFICES ASSUME TypeOK,
                    WriterStep \/ ResetCall \/ WriteBegin \/ WriterCrash
             PROVE  TypeOK'
  OBVIOUS
<1> USE DEF TypeOK, shared, writer, reader, whist, rhist
<1>1. CASE WriterOpen
  BY <1>1 DEF WriterOpen
<1>2. CASE WriterTruncate
  BY <1>2 DEF WriterTruncate
<1>3. CASE WriterGiveUp
  BY <1>3 DEF WriterGiveUp
<1>4. CASE ResetMagic
  BY <1>4 DEF ResetMagic, ResetOverlaps
<1>5. CASE ResetActive
  BY <1>5 DEF ResetActive, ResetOverlaps, Slots
<1>6. CASE ResetSeq
  BY <1>6 DEF ResetSeq, ResetOverlaps
<1>7. ASSUME NEW w \in Words, ResetData(w)
      PROVE  TypeOK'
  <2>1. /\ data' = [data EXCEPT ![wslot][w] = 0]
        /\ wleft' = wleft \ {w}
        /\ rclean' = [r \in Readers |-> FALSE]
        /\ UNCHANGED <<seg, magic, active, seq, wold, reader, written, done,
                       crashes, resets, rfloor, rmust, rflips>>
    BY <1>7 DEF ResetData, ResetOverlaps
  <2>2. /\ wpc' \in {"resetData", "resetSeq", "idle"}
        /\ wslot' \in Slots
        /\ base' \in Nat
        /\ inverted' \in BOOLEAN
    BY <1>7 DEF ResetData, Slots
  <2>. QED
    BY <2>1, <2>2
<1>8. ASSUME NEW w \in Words, WriteCopy(w)
      PROVE  TypeOK'
  BY <1>8 DEF WriteCopy
<1>9. CASE WriteSeal
  BY <1>9 DEF WriteSeal
<1>10. CASE WriteFlip
  <2>1. rflips' \in [Readers -> 0 .. 2]
    <3>1. ASSUME NEW r \in Readers
          PROVE  (IF rflips[r] = 2 THEN 2 ELSE rflips[r] + 1) \in 0 .. 2
      <4>1. rflips[r] \in 0 .. 2
        OBVIOUS
      <4>2. \A n \in 0 .. 2 : (IF n = 2 THEN 2 ELSE n + 1) \in 0 .. 2
        OBVIOUS
      <4>. QED
        BY <4>1, <4>2
    <3>. QED
      BY <1>10, <3>1 DEF WriteFlip
  <2>. QED
    BY <1>10, <2>1 DEF WriteFlip
<1>11. CASE ResetCall
  BY <1>11 DEF ResetCall
<1>12. CASE WriteBegin
  BY <1>12 DEF WriteBegin, Slots
<1>13. CASE WriterCrash
  BY <1>13 DEF WriterCrash
<1>. QED
  BY <1>1, <1>2, <1>3, <1>4, <1>5, <1>6, <1>7, <1>8, <1>9, <1>10, <1>11,
     <1>12, <1>13 DEF WriterStep

\* What SlotFails and NextRetry, the two ends of an attempt, do to a reader.
LEMMA RetryType ==
    ASSUME TypeOK, NEW r \in Readers, NextRetry(r) \/ SlotFails(r)
    PROVE  /\ rpc' \in [Readers -> {"closed", "idle", "seq1", "copy", "ok",
                                    "failed"}]
           /\ rpc'[r] \in {"seq1", "failed"}
           /\ \A q \in Readers \ {r} : rpc'[q] = rpc[q]
           /\ rslot' \in [Readers -> Slots]
           /\ \A q \in Readers \ {r} : rslot'[q] = rslot[q]
           /\ rsecond' \in [Readers -> BOOLEAN]
           /\ rretry' \in [Readers -> 0 .. MaxRetry - 1]
<1>1. CASE SlotFails(r)
  <2>1. CASE /\ rslot' = [rslot EXCEPT ![r] = 1 - @]
             /\ rsecond' = [rsecond EXCEPT ![r] = TRUE]
             /\ rretry' = [rretry EXCEPT ![r] = 0]
             /\ rpc' = [rpc EXCEPT ![r] = "seq1"]
    <3>1. rretry' \in [Readers -> 0 .. MaxRetry - 1]
      BY <2>1, ConstantsAssumption DEF TypeOK
    <3>2. 1 - rslot[r] \in Slots
      <4>1. rslot[r] \in Slots
        BY DEF TypeOK
      <4>. QED
        BY <4>1, OtherSlot
    <3>. QED
      BY <2>1, <3>1, <3>2 DEF TypeOK
  <2>2. CASE /\ rpc' = [rpc EXCEPT ![r] = "failed"]
             /\ UNCHANGED <<rslot, rsecond, rretry>>
    BY <2>2 DEF TypeOK
  <2>. QED
    BY <1>1, <2>1, <2>2 DEF SlotFails
<1>2. CASE /\ rretry[r] + 1 < MaxRetry
           /\ rretry' = [rretry EXCEPT ![r] = @ + 1]
           /\ rpc' = [rpc EXCEPT ![r] = "seq1"]
           /\ UNCHANGED <<rslot, rsecond>>
  <2>1. rretry' \in [Readers -> 0 .. MaxRetry - 1]
    BY <1>2, ConstantsAssumption DEF TypeOK
  <2>. QED
    BY <1>2, <2>1 DEF TypeOK
<1>. QED
  BY <1>1, <1>2 DEF NextRetry

\* The readers' steps keep every variable typed.
LEMMA ReaderTypeOK ==
    ASSUME TypeOK, NEW r \in Readers,
           ReaderOpen(r) \/ ReadBegin(r) \/ ReadStep(r) \/ ReadReturn(r)
    PROVE  TypeOK'
<1> USE DEF shared, writer, whist, rhist
<1>1. CASE ReaderOpen(r)
  BY <1>1 DEF ReaderOpen, TypeOK
<1>2. CASE ReadBegin(r)
  BY <1>2, ConstantsAssumption DEF ReadBegin, TypeOK
<1>3. CASE ReadSeq1(r)
  <2>1. CASE (NextRetry(r) \/ SlotFails(r)) /\ UNCHANGED <<rseq1, rleft>>
    BY <1>3, <2>1, RetryType DEF ReadSeq1, TypeOK
  <2>2. CASE /\ rseq1' = [rseq1 EXCEPT ![r] = seq[rslot[r]]]
             /\ rleft' = [rleft EXCEPT ![r] = Words]
             /\ rpc' = [rpc EXCEPT ![r] = "copy"]
             /\ UNCHANGED <<rslot, rsecond, rretry>>
    BY <1>3, <2>2 DEF ReadSeq1, TypeOK
  <2>. QED
    BY <1>3, <2>1, <2>2 DEF ReadSeq1
<1>4. ASSUME NEW w \in Words, ReadCopy(r, w)
      PROVE  TypeOK'
  BY <1>4 DEF ReadCopy, TypeOK
<1>5. CASE ReadSeq2(r)
  <2>1. CASE NextRetry(r)
    BY <1>5, <2>1, RetryType DEF ReadSeq2, TypeOK
  <2>2. CASE /\ rpc' = [rpc EXCEPT ![r] = "ok"]
             /\ UNCHANGED <<rslot, rsecond, rretry>>
    BY <1>5, <2>2 DEF ReadSeq2, TypeOK
  <2>. QED
    BY <1>5, <2>1, <2>2 DEF ReadSeq2
<1>6. CASE ReadReturn(r)
  BY <1>6, ZeroType DEF ReadReturn, TypeOK
<1>. QED
  BY <1>1, <1>2, <1>3, <1>4, <1>5, <1>6 DEF ReadStep

\* Types are kept by every step.
LEMMA NextTypeOK == TypeOK /\ [Next]_vars => TypeOK'
<1>1. TypeOK /\ UNCHANGED vars => TypeOK'
  BY DEF TypeOK, vars, shared, writer, reader, whist, rhist
<1>. QED
  BY <1>1, WriterTypeOK, ReaderTypeOK DEF Next

\* Every variable keeps its values: the writer's and the readers' processes,
\* and the retry counter, which never reaches MaxRetry.
THEOREM TypeCorrect == Spec => []TypeOK
BY InitTypeOK, NextTypeOK, PTL DEF Spec

----------------------------------------------------------------------------
(* A Read that succeeds is not torn *)

\* Write's two increments make an even seq odd and then even again.
LEMMA Parity ==
    ASSUME NEW n \in Nat, Even(n)
    PROVE  ~Even(n + 1) /\ Even(n + 2)
BY DEF Even

\* The steps of Reset, which start from any state of the slots and end with
\* both seqs at 0.
LEMMA ResetSlots ==
    TypeOK /\ ResetInv /\ WriteInv /\ SlotInv
        /\ (ResetCall \/ ResetMagic \/ ResetActive \/ ResetSeq
            \/ \E w \in Words : ResetData(w))
    => ResetInv' /\ WriteInv' /\ SlotInv'
<1> SUFFICES ASSUME TypeOK, ResetInv, WriteInv, SlotInv,
                    \/ ResetCall \/ ResetMagic \/ ResetActive \/ ResetSeq
                    \/ \E w \in Words : ResetData(w)
             PROVE  ResetInv' /\ WriteInv' /\ SlotInv'
  OBVIOUS
<1>1. CASE ResetCall \/ ResetMagic \/ ResetActive
  <2>1. /\ UNCHANGED <<seq, data, inverted>>
        /\ wpc' \in {"resetMagic", "resetActive", "resetSeq"}
        /\ wpc' = "resetSeq" => wslot' = 0
    BY <1>1 DEF ResetCall, ResetMagic, ResetActive, shared, whist
  <2>. QED
    BY <2>1 DEF ResetInv, WriteInv, SlotInv, SlotWhole
<1>2. CASE ResetSeq
  <2>1. /\ seq' = [seq EXCEPT ![wslot] = 0]
        /\ wslot \in Slots
        /\ UNCHANGED <<data, inverted, wslot>>
        /\ wpc = "resetSeq" /\ wpc' = "resetData"
    BY <1>2 DEF ResetSeq, TypeOK, whist
  <2>2. ResetInv'
    BY <2>1 DEF ResetInv, TypeOK
  <2>3. WriteInv'
    BY <2>1 DEF WriteInv
  <2>4. SlotInv'
    BY <2>1 DEF SlotInv, SlotWhole, TypeOK
  <2>. QED
    BY <2>2, <2>3, <2>4
<1>3. ASSUME NEW w \in Words, ResetData(w)
      PROVE  ResetInv' /\ WriteInv' /\ SlotInv'
  <2>1. /\ wpc = "resetData" /\ seq[wslot] = 0 /\ wslot \in Slots
        /\ data' = [data EXCEPT ![wslot][w] = 0]
        /\ seq' = seq
    BY <1>3 DEF ResetData, ResetInv, TypeOK
  <2>2. \A s \in Slots : seq'[s] = 0 \/ data'[s] = data[s]
    BY <2>1 DEF TypeOK
  <2>3. CASE UNCHANGED <<wpc, wslot, inverted>>
    <3>1. ResetInv' /\ WriteInv'
      BY <2>1, <2>3 DEF ResetInv, WriteInv
    <3>2. SlotInv'
      BY <2>1, <2>2, <2>3 DEF SlotInv, SlotWhole
    <3>. QED
      BY <3>1, <3>2
  <2>4. CASE /\ wslot = 0
             /\ wslot' = 1
             /\ wpc' = "resetSeq"
             /\ UNCHANGED inverted
    <3>1. ResetInv' /\ WriteInv'
      BY <2>1, <2>4 DEF ResetInv, WriteInv
    <3>2. SlotInv'
      BY <2>1, <2>2, <2>4 DEF SlotInv, SlotWhole
    <3>. QED
      BY <3>1, <3>2
  <2>5. CASE wslot = 1 /\ wpc' = "idle"
    <3>1. \A s \in Slots : seq'[s] = 0
      BY <2>1, <2>5 DEF ResetInv, Slots
    <3>. QED
      BY <2>5, <3>1 DEF ResetInv, WriteInv, SlotInv, SlotWhole
  <2>. QED
    BY <1>3, <2>3, <2>4, <2>5 DEF ResetData
<1>. QED
  BY <1>1, <1>2, <1>3

\* The steps of Write: the slot's seq is odd until its last word is stored.
LEMMA WriteSlots ==
    TypeOK /\ ResetInv /\ WriteInv /\ SlotInv
        /\ (WriteBegin \/ (\E w \in Words : WriteCopy(w)) \/ WriteSeal
            \/ WriteFlip)
    => ResetInv' /\ WriteInv' /\ SlotInv'
<1> SUFFICES ASSUME TypeOK, ResetInv, WriteInv, SlotInv,
                    \/ WriteBegin \/ WriteSeal \/ WriteFlip
                    \/ \E w \in Words : WriteCopy(w)
             PROVE  ResetInv' /\ WriteInv' /\ SlotInv'
  OBVIOUS
<1>1. CASE WriteBegin
  <2>1. /\ wslot' = 1 - active /\ wslot' \in Slots
        /\ wold' = seq[wslot'] /\ wold' \in Nat
        /\ seq' = [seq EXCEPT ![wslot'] = wold' + 1]
        /\ wpc' = "copy" /\ wleft' = Words /\ data' = data
        /\ inverted' = (inverted \/ ~Even(wold'))
    BY <1>1, OtherSlot DEF WriteBegin, TypeOK
  <2>2. ResetInv'
    BY <2>1 DEF ResetInv
  <2>3. WriteInv'
    BY <2>1 DEF WriteInv, TypeOK
  <2>4. ASSUME ~inverted', NEW s \in Slots
        PROVE  SlotWhole(s)'
    <3>1. CASE s = wslot'
      BY <2>1, <2>4, <3>1, Parity DEF SlotWhole, TypeOK
    <3>2. CASE s # wslot'
      BY <2>1, <2>4, <3>2 DEF SlotInv, SlotWhole, TypeOK
    <3>. QED
      BY <3>1, <3>2
  <2>. QED
    BY <2>2, <2>3, <2>4 DEF SlotInv
<1>2. ASSUME NEW w \in Words, WriteCopy(w)
      PROVE  ResetInv' /\ WriteInv' /\ SlotInv'
  <2>1. /\ wpc = "copy" /\ wslot \in Slots /\ wold \in Nat
        /\ data' = [data EXCEPT ![wslot][w] = written]
        /\ wleft' = wleft \ {w}
        /\ wpc' = IF wleft = {w} THEN "seal" ELSE "copy"
        /\ UNCHANGED <<seq, wslot, wold, written, inverted>>
    BY <1>2 DEF WriteCopy, TypeOK, whist
  <2>2. ResetInv'
    BY <2>1 DEF ResetInv
  <2>3. \A v \in Words : v \notin wleft' => data'[wslot][v] = written
    BY <2>1 DEF WriteInv, TypeOK
  <2>4. WriteInv'
    BY <2>1, <2>3 DEF WriteInv
  <2>5. ASSUME ~inverted, NEW s \in Slots
        PROVE  SlotWhole(s)'
    <3>1. CASE s = wslot
      BY <2>1, <2>5, <3>1, Parity DEF SlotWhole, WriteInv
    <3>2. CASE s # wslot
      BY <2>1, <2>5, <3>2 DEF SlotInv, SlotWhole, TypeOK
    <3>. QED
      BY <3>1, <3>2
  <2>. QED
    BY <2>1, <2>2, <2>4, <2>5 DEF SlotInv
<1>3. CASE WriteSeal
  <2>1. /\ wpc = "seal" /\ wpc' = "flip" /\ wslot \in Slots
        /\ seq' = [seq EXCEPT ![wslot] = wold + 2]
        /\ UNCHANGED <<data, wslot, wold, written, inverted>>
        /\ \A w \in Words : data[wslot][w] = written
    BY <1>3 DEF WriteSeal, WriteInv, TypeOK, whist
  <2>2. SlotInv'
    BY <2>1 DEF SlotInv, SlotWhole, TypeOK
  <2>. QED
    BY <2>1, <2>2 DEF ResetInv, WriteInv
<1>4. CASE WriteFlip
  BY <1>4 DEF WriteFlip, ResetInv, WriteInv, SlotInv, SlotWhole
<1>. QED
  BY <1>1, <1>2, <1>3, <1>4

\* The other steps of the writer change neither the slots nor the Write.
LEMMA WriterElsewhere ==
    ASSUME WriterOpen \/ WriterTruncate \/ WriterGiveUp \/ WriterCrash
    PROVE  /\ UNCHANGED <<seq, data, reader, inverted, rclean>>
           /\ wpc' \in {"truncate", "invalid", "idle", "resetMagic", "down"}
BY DEF WriterOpen, WriterTruncate, WriterGiveUp, WriterCrash, shared, whist,
       rhist

\* Whatever the writer does, a reader's copy stays faithful: a word of the
\* slot changes only while seq is odd, and seq falls only in Reset.
LEMMA WriterKeepsReaders ==
    TypeOK /\ WriteInv /\ ReaderInv
        /\ (WriterStep \/ ResetCall \/ WriteBegin \/ WriterCrash)
    => ReaderInv'
<1> SUFFICES ASSUME TypeOK, WriteInv, ReaderInv,
                    WriterStep \/ ResetCall \/ WriteBegin \/ WriterCrash
             PROVE  ReaderInv'
  OBVIOUS
<1>1. CASE ResetMagic \/ ResetActive \/ ResetSeq \/ \E w \in Words : ResetData(w)
  <2>1. \A r \in Readers : rclean'[r] = FALSE
    BY <1>1 DEF ResetMagic, ResetActive, ResetSeq, ResetData, ResetOverlaps
  <2>. QED
    BY <2>1 DEF ReaderInv
<1>2. ASSUME UNCHANGED <<reader, rclean>>, inverted => inverted',
             \A s \in Slots : seq[s] <= seq'[s],
             ~inverted' => \A s \in Slots :
                 data'[s] = data[s] \/ ~Even(seq[s])
      PROVE  ReaderInv'
  <2> SUFFICES ASSUME NEW r \in Readers, rclean[r], ~inverted'
               PROVE  /\ rpc[r] = "copy" => CopyFaithful(r)'
                      /\ rpc[r] = "ok" => Untorn(r)'
    BY <1>2 DEF ReaderInv, reader
  <2>1. CASE rpc[r] = "copy"
    <3>1. CopyFaithful(r)
      BY <1>2, <2>1 DEF ReaderInv
    <3>2. rseq1[r] \in Nat /\ rslot[r] \in Slots /\ seq[rslot[r]] \in Nat
      BY DEF TypeOK
    <3>3. rseq1[r] <= seq'[rslot[r]]
      <4>1. seq'[rslot[r]] \in Nat
        BY <3>2, WriterTypeOK DEF TypeOK
      <4>. QED
        BY <1>2, <3>1, <3>2, <4>1 DEF CopyFaithful
    <3>4. ASSUME rseq1[r] = seq'[rslot[r]]
          PROVE  /\ rseq1[r] = seq[rslot[r]]
                 /\ data'[rslot[r]] = data[rslot[r]]
      BY <1>2, <3>1, <3>2, <3>4 DEF CopyFaithful
    <3>. QED
      BY <1>2, <2>1, <3>1, <3>3, <3>4 DEF CopyFaithful, reader
  <2>2. CASE rpc[r] = "ok"
    BY <1>2, <2>2 DEF ReaderInv, Untorn, reader
  <2>. QED
    BY <2>1, <2>2
<1>3. CASE WriteBegin
  <2>1. /\ UNCHANGED <<reader, rclean, data>>
        /\ inverted => inverted'
    BY <1>3 DEF WriteBegin, rhist
  <2>2. \A s \in Slots : seq[s] <= seq'[s]
    BY <1>3, OtherSlot DEF WriteBegin, TypeOK
  <2>. QED
    BY <1>2, <2>1, <2>2
<1>4. ASSUME NEW w \in Words, WriteCopy(w)
      PROVE  ReaderInv'
  <2>1. UNCHANGED <<reader, rclean, seq, inverted>>
    BY <1>4 DEF WriteCopy, whist, rhist
  <2>2. \A s \in Slots : s # wslot => data'[s] = data[s]
    BY <1>4 DEF WriteCopy, TypeOK
  <2>3. ~inverted => ~Even(seq[wslot])
    BY <1>4, Parity DEF WriteCopy, WriteInv, TypeOK
  <2>4. \A s \in Slots : seq[s] <= seq'[s]
    BY <2>1 DEF TypeOK
  <2>. QED
    BY <1>2, <2>1, <2>2, <2>3, <2>4
<1>5. CASE WriteSeal
  <2>1. UNCHANGED <<reader, rclean, data, inverted>>
    BY <1>5 DEF WriteSeal, whist, rhist
  <2>2. \A s \in Slots : seq[s] <= seq'[s]
    BY <1>5 DEF WriteSeal, WriteInv, TypeOK
  <2>. QED
    BY <1>2, <2>1, <2>2
<1>6. CASE ResetCall \/ WriteFlip
  <2>1. UNCHANGED <<reader, rclean, seq, data, inverted>>
    BY <1>6 DEF ResetCall, WriteFlip, shared, rhist
  <2>2. \A s \in Slots : seq[s] <= seq'[s]
    BY <2>1 DEF TypeOK
  <2>. QED
    BY <1>2, <2>1, <2>2
<1>7. CASE WriterOpen \/ WriterTruncate \/ WriterGiveUp \/ WriterCrash
  <2>1. UNCHANGED <<reader, rclean, seq, data, inverted>>
    BY <1>7, WriterElsewhere
  <2>2. \A s \in Slots : seq[s] <= seq'[s]
    BY <2>1 DEF TypeOK
  <2>. QED
    BY <1>2, <2>1, <2>2
<1>. QED
  BY <1>1, <1>3, <1>4, <1>5, <1>6, <1>7 DEF WriterStep

\* A reader changes nothing but its own state.
LEMMA ReaderElsewhere ==
    ASSUME NEW r \in Readers,
           ReaderOpen(r) \/ ReadBegin(r) \/ ReadStep(r) \/ ReadReturn(r)
    PROVE  UNCHANGED <<shared, writer, whist>>
BY DEF ReaderOpen, ReadBegin, ReadStep, ReadReturn, ReadSeq1, ReadCopy,
       ReadSeq2

\* What ReaderInv says of one reader.
ReaderPart(r) ==
    rclean[r] /\ ~inverted =>
        /\ rpc[r] = "copy" => CopyFaithful(r)
        /\ rpc[r] = "ok" => Untorn(r)

\* A step that leaves the slots, inverted and what a reader has copied alone
\* keeps that reader's part of ReaderInv.
LEMMA OtherReader ==
    ASSUME NEW q \in Readers, ReaderPart(q),
           UNCHANGED <<seq, data, inverted>>,
           rclean'[q] = rclean[q], rpc'[q] = rpc[q], rslot'[q] = rslot[q],
           rseq1'[q] = rseq1[q], rleft'[q] = rleft[q], rout'[q] = rout[q]
    PROVE  ReaderPart(q)'
BY DEF ReaderPart, CopyFaithful, Untorn

\* A reader outside the copy and not yet successful has nothing to keep.
LEMMA ReaderAtRest ==
    ASSUME NEW q \in Readers, rpc'[q] \notin {"copy", "ok"}
    PROVE  ReaderPart(q)'
BY DEF ReaderPart

\* The reader's own steps: seq1 makes the copy start faithful, and an equal
\* seq2 makes the finished copy whole because the slot is.
LEMMA ReaderKeepsReaders ==
    ASSUME TypeOK, SlotInv, ReaderInv, NEW r \in Readers,
           ReaderOpen(r) \/ ReadBegin(r) \/ ReadStep(r) \/ ReadReturn(r)
    PROVE  ReaderInv'
<1>1. /\ UNCHANGED <<seq, data, inverted>>
      /\ \A q \in Readers : ReaderPart(q)
  BY ReaderElsewhere DEF shared, whist, ReaderInv, ReaderPart
<1> SUFFICES ASSUME NEW q \in Readers
             PROVE  ReaderPart(q)'
  BY DEF ReaderInv, ReaderPart
<1>2. CASE ReaderOpen(r)
  <2>1. CASE q = r
    BY <1>2, <2>1, ReaderAtRest DEF ReaderOpen, TypeOK
  <2>2. CASE q # r
    BY <1>1, <1>2, <2>2, OtherReader DEF ReaderOpen, TypeOK, rhist
  <2>. QED
    BY <2>1, <2>2
<1>3. CASE ReadBegin(r)
  <2>1. CASE q = r
    BY <1>3, <2>1, ReaderAtRest DEF ReadBegin, TypeOK
  <2>2. CASE q # r
    BY <1>1, <1>3, <2>2, OtherReader DEF ReadBegin, TypeOK
  <2>. QED
    BY <2>1, <2>2
<1>4. CASE ReadReturn(r)
  <2>1. CASE q = r
    BY <1>4, <2>1, ReaderAtRest DEF ReadReturn, TypeOK
  <2>2. CASE q # r
    BY <1>1, <1>4, <2>2, OtherReader DEF ReadReturn, TypeOK, rhist
  <2>. QED
    BY <2>1, <2>2
<1>5. ASSUME NextRetry(r) \/ SlotFails(r), UNCHANGED <<rseq1, rleft, rout, rclean>>
      PROVE  ReaderPart(q)'
  <2>1. CASE q = r
    BY <1>5, <2>1, RetryType, ReaderAtRest
  <2>2. CASE q # r
    BY <1>1, <1>5, <2>2, RetryType, OtherReader
  <2>. QED
    BY <2>1, <2>2
<1>6. CASE ReadSeq1(r)
  <2>1. UNCHANGED <<rout, rclean>>
    BY <1>6 DEF ReadSeq1, rhist
  <2>2. CASE (NextRetry(r) \/ SlotFails(r)) /\ UNCHANGED <<rseq1, rleft>>
    BY <1>5, <2>1, <2>2
  <2>3. CASE /\ Even(seq[rslot[r]])
             /\ seq[rslot[r]] # 0
             /\ rseq1' = [rseq1 EXCEPT ![r] = seq[rslot[r]]]
             /\ rleft' = [rleft EXCEPT ![r] = Words]
             /\ rpc' = [rpc EXCEPT ![r] = "copy"]
             /\ UNCHANGED <<rslot, rsecond, rretry>>
    <3>1. CASE q = r
      <4>1. /\ rpc'[r] = "copy" /\ rleft'[r] = Words
            /\ rseq1'[r] = seq[rslot[r]] /\ rslot'[r] = rslot[r]
        BY <2>3 DEF TypeOK
      <4>2. seq[rslot[r]] \in Nat
        BY DEF TypeOK
      <4>3. CopyFaithful(r)'
        BY <1>1, <2>3, <4>1, <4>2 DEF CopyFaithful
      <4>. QED
        BY <3>1, <4>1, <4>3 DEF ReaderPart
    <3>2. CASE q # r
      BY <1>1, <2>1, <2>3, <3>2, OtherReader DEF TypeOK
    <3>. QED
      BY <3>1, <3>2
  <2>. QED
    BY <1>6, <2>2, <2>3 DEF ReadSeq1
<1>7. ASSUME NEW w \in Words, ReadCopy(r, w)
      PROVE  ReaderPart(q)'
  <2>1. CASE q = r
    <3>1. /\ rpc[r] = "copy" /\ rpc' = rpc
          /\ UNCHANGED <<rslot, rseq1, rclean>>
          /\ rout' = [rout EXCEPT ![r][w] = data[rslot[r]][w]]
          /\ rleft' = [rleft EXCEPT ![r] = @ \ {w}]
      BY <1>7 DEF ReadCopy, rhist
    <3>2. /\ \A v \in Words : v \notin rleft'[r] => v = w \/ v \notin rleft[r]
          /\ rout'[r][w] = data[rslot[r]][w]
          /\ \A v \in Words \ {w} : rout'[r][v] = rout[r][v]
      BY <3>1 DEF TypeOK
    <3>3. CopyFaithful(r) => CopyFaithful(r)'
      BY <1>1, <3>1, <3>2 DEF CopyFaithful
    <3>. QED
      BY <1>1, <2>1, <3>1, <3>3 DEF ReaderPart
  <2>2. CASE q # r
    BY <1>1, <1>7, <2>2, OtherReader DEF ReadCopy, TypeOK, rhist
  <2>. QED
    BY <2>1, <2>2
<1>8. CASE ReadSeq2(r)
  <2>1. /\ UNCHANGED <<rseq1, rleft, rout, rclean>>
        /\ rpc[r] = "copy" /\ rleft[r] = {}
    BY <1>8 DEF ReadSeq2, rhist
  <2>2. CASE NextRetry(r)
    BY <1>5, <2>1, <2>2
  <2>3. CASE /\ seq[rslot[r]] = rseq1[r]
             /\ rpc' = [rpc EXCEPT ![r] = "ok"]
             /\ UNCHANGED <<rslot, rsecond, rretry>>
    <3>1. CASE q = r
      <4>1. rpc'[r] = "ok" /\ rslot[r] \in Slots
        BY <2>3 DEF TypeOK
      <4>2. ASSUME rclean[r], ~inverted
            PROVE  Untorn(r)
        <5>1. CopyFaithful(r)
          BY <1>1, <2>1, <4>2 DEF ReaderPart
        <5>2. SlotWhole(rslot[r])
          BY <4>1, <4>2 DEF SlotInv
        <5>. QED
          BY <2>1, <2>3, <5>1, <5>2 DEF CopyFaithful, SlotWhole, Untorn
      <4>. QED
        BY <1>1, <2>1, <3>1, <4>1, <4>2 DEF ReaderPart, Untorn
    <3>2. CASE q # r
      BY <1>1, <2>1, <2>3, <3>2, OtherReader DEF TypeOK
    <3>. QED
      BY <3>1, <3>2
  <2>. QED
    BY <1>8, <2>2, <2>3 DEF ReadSeq2
<1>. QED
  BY <1>2, <1>3, <1>4, <1>6, <1>7, <1>8 DEF ReadStep

\* The invariant holds before any process has attached to the segment.
LEMMA InitIInv == Init => IInv
BY InitTypeOK DEF Init, IInv, ResetInv, WriteInv, SlotInv, SlotWhole, ReaderInv

\* The invariant is inductive.
LEMMA NextIInv == IInv /\ [Next]_vars => IInv'
<1> SUFFICES ASSUME IInv, [Next]_vars
             PROVE  IInv'
  OBVIOUS
<1> USE DEF IInv
<1>1. TypeOK'
  BY NextTypeOK
<1>2. CASE WriterStep \/ ResetCall \/ WriteBegin \/ WriterCrash
  <2>1. ReaderInv'
    BY <1>2, WriterKeepsReaders
  <2>2. CASE WriterOpen \/ WriterTruncate \/ WriterGiveUp \/ WriterCrash
    <3>1. ResetInv' /\ WriteInv' /\ SlotInv'
      BY <2>2, WriterElsewhere DEF ResetInv, WriteInv, SlotInv, SlotWhole
    <3>. QED
      BY <1>1, <2>1, <3>1
  <2>. QED
    BY <1>1, <1>2, <2>1, <2>2, ResetSlots, WriteSlots DEF WriterStep
<1>3. ASSUME NEW r \in Readers,
             ReaderOpen(r) \/ ReadBegin(r) \/ ReadStep(r) \/ ReadReturn(r)
      PROVE  IInv'
  <2>1. ResetInv' /\ WriteInv' /\ SlotInv'
    BY <1>3, ReaderElsewhere
       DEF shared, writer, whist, ResetInv, WriteInv, SlotInv, SlotWhole
  <2>2. ReaderInv'
    BY <1>3, ReaderKeepsReaders
  <2>. QED
    BY <1>1, <2>1, <2>2
<1>4. CASE UNCHANGED vars
  <2>1. ResetInv' /\ WriteInv' /\ SlotInv'
    BY <1>4 DEF vars, shared, writer, whist, ResetInv, WriteInv, SlotInv, SlotWhole
  <2>2. ReaderInv'
    BY <1>4 DEF vars, shared, reader, whist, rhist, ReaderInv, CopyFaithful, Untorn
  <2>. QED
    BY <1>1, <2>1, <2>2
<1>. QED
  BY <1>2, <1>3, <1>4 DEF Next

\* A Read that returns true returns the words of a single Write, for every
\* number of readers and every size of the State, as long as no Reset
\* overlaps it and no Write has begun on a slot that a crash left odd.
THEOREM ReadNeverTorn == Spec => []ReadUntorn
<1>1. IInv => ReadUntorn
  BY DEF IInv, ReaderInv, ReadUntorn
<1>. QED
  BY <1>1, InitIInv, NextIInv, PTL DEF Spec

----------------------------------------------------------------------------
(* How old the slots are *)

\* Can a reader take what slot s holds?
Readable(s) == Even(seq[s]) /\ seq[s] # 0

\* Write fills the slot that is not active.  Once that is sealed it holds
\* this Write.  Reset has forgotten the last Write before it touches a slot.
PhaseInv ==
    /\ base <= written
    /\ done # 0 => base < done /\ done <= written
    /\ wpc \in {"copy", "seal", "flip"} => wslot = 1 - active /\ base < written
    /\ wpc = "flip" => /\ \A w \in Words : data[wslot][w] = written
                       /\ ~inverted => Readable(wslot)
    /\ wpc \in {"resetActive", "resetSeq", "resetData"} => done = 0

\* A slot that can be read is of a Write since the last Reset, and the active
\* one is of the last Write that has returned, if there is one.
SlotAge(s) == Readable(s) => \A w \in Words : data[s][w] > base

ActiveIsDone ==
    done # 0 => Readable(active) /\ \A w \in Words : data[active][w] = done

AgeInv == ~inverted => ActiveIsDone /\ \A s \in Slots : SlotAge(s)

\* The slots that a reader has still to try.  Until the next flip the slot
\* that was active when Read began cannot fail.  After one flip Read will
\* find the active slot second, and after it what can be read is not too old.
Overtaken(r) ==
    /\ rsecond[r] => rflips[r] # 0
    /\ rflips[r] = 0 => rslot[r] = active
    /\ rflips[r] = 1 => rslot[r] = IF rsecond[r] THEN active ELSE 1 - active
    /\ /\ rpc[r] = "copy"
       /\ rslot[r] = active
       /\ rflips[r] = IF rsecond[r] THEN 1 ELSE 0
       => rseq1[r] = seq[active]

FloorInv(r) ==
    /\ rmust[r] => done # 0 /\ rfloor[r] <= done
    /\ ~rmust[r] => rfloor[r] <= base + 1
    /\ rflips[r] # 0 =>
           \A s \in Slots : Readable(s) => \A w \in Words : data[s][w] >= rfloor[r]

FreshPart(r) ==
    rclean[r] /\ ~inverted =>
        /\ FloorInv(r)
        /\ rmust[r] /\ rpc[r] \in {"seq1", "copy"} => Overtaken(r)
        /\ rpc[r] = "ok" => NotOlder(r)
        /\ rpc[r] = "failed" /\ rmust[r] => rflips[r] = 2

FreshInv ==
    /\ IInv /\ PhaseInv /\ AgeInv
    /\ \A r \in Readers : FreshPart(r)

\* Before the first Write there is nothing to read.
LEMMA InitFresh == Init => FreshInv
BY InitIInv
   DEF Init, FreshInv, PhaseInv, AgeInv, ActiveIsDone, SlotAge, Readable,
       FreshPart, FloorInv

\* Reset forgets the last Write, then makes the slots unreadable, and only
\* then counts what was written as gone.
LEMMA ResetAge ==
    ASSUME IInv, PhaseInv, AgeInv,
           ResetCall \/ ResetMagic \/ ResetActive \/ ResetSeq
               \/ \E w \in Words : ResetData(w)
    PROVE  PhaseInv' /\ AgeInv'
<1> USE DEF IInv
<1>1. /\ written \in Nat /\ base \in Nat /\ done \in Nat /\ wslot \in Slots
      /\ seq \in [Slots -> Nat] /\ active \in Slots
  BY DEF TypeOK
<1>2. CASE ResetCall
  <2>1. /\ UNCHANGED <<seq, data, active, written, done, base, inverted>>
        /\ wpc' = "resetMagic"
    BY <1>2 DEF ResetCall, shared
  <2>2. PhaseInv'
    BY <2>1 DEF PhaseInv
  <2>3. AgeInv'
    BY <2>1 DEF AgeInv, ActiveIsDone, SlotAge, Readable
  <2>. QED
    BY <2>2, <2>3
<1>3. CASE ResetMagic \/ ResetActive
  <2>1. /\ UNCHANGED <<seq, data, written, base, inverted>> /\ done' = 0
        /\ wpc' \in {"resetActive", "resetSeq"}
    BY <1>3 DEF ResetMagic, ResetActive, PhaseInv, whist
  <2>2. PhaseInv'
    BY <2>1 DEF PhaseInv
  <2>3. AgeInv'
    BY <2>1 DEF AgeInv, ActiveIsDone, SlotAge, Readable
  <2>. QED
    BY <2>2, <2>3
<1>4. CASE ResetSeq
  <2>1. /\ UNCHANGED <<data, active, written, done, base, inverted>> /\ done = 0
        /\ wpc' = "resetData" /\ seq' = [seq EXCEPT ![wslot] = 0]
    BY <1>4 DEF ResetSeq, PhaseInv, whist
  <2>2. PhaseInv'
    BY <2>1 DEF PhaseInv
  <2>3. ASSUME NEW s \in Slots
        PROVE  Readable(s)' => Readable(s)
    BY <1>1, <2>1, <2>3 DEF Readable
  <2>4. AgeInv'
    BY <2>1, <2>3 DEF AgeInv, ActiveIsDone, SlotAge
  <2>. QED
    BY <2>2, <2>4
<1>5. ASSUME NEW w \in Words, ResetData(w)
      PROVE  PhaseInv' /\ AgeInv'
  <2>1. /\ UNCHANGED <<seq, active, written, done>> /\ done = 0
        /\ data' = [data EXCEPT ![wslot][w] = 0] /\ seq[wslot] = 0
        /\ wslot = 1 => seq[0] = 0
    BY <1>5 DEF ResetData, PhaseInv, ResetInv
  <2>2. \A s \in Slots : Readable(s)' => Readable(s) /\ data'[s] = data[s]
    BY <1>1, <2>1 DEF Readable, TypeOK
  <2>3. CASE UNCHANGED <<base, inverted>> /\ wpc' \in {"resetData", "resetSeq"}
    <3>1. PhaseInv'
      BY <2>1, <2>3 DEF PhaseInv
    <3>2. AgeInv'
      BY <2>1, <2>2, <2>3 DEF AgeInv, ActiveIsDone, SlotAge
    <3>. QED
      BY <3>1, <3>2
  <2>4. CASE wslot = 1 /\ wpc' = "idle" /\ base' = written
    <3>1. PhaseInv'
      BY <1>1, <2>1, <2>4 DEF PhaseInv
    <3>2. \A s \in Slots : ~Readable(s)'
      BY <2>1, <2>4 DEF Slots, Readable
    <3>3. AgeInv'
      BY <2>1, <3>2 DEF AgeInv, ActiveIsDone, SlotAge
    <3>. QED
      BY <3>1, <3>3
  <2>. QED
    BY <1>5, <2>3, <2>4 DEF ResetData
<1>. QED
  BY <1>2, <1>3, <1>4, <1>5

\* Write leaves the active slot alone until the other one holds this Write.
LEMMA WriteAge ==
    ASSUME IInv, PhaseInv, AgeInv,
           WriteBegin \/ (\E w \in Words : WriteCopy(w)) \/ WriteSeal \/ WriteFlip
    PROVE  PhaseInv' /\ AgeInv'
<1> USE DEF IInv
<1>1. /\ written \in Nat /\ base \in Nat /\ done \in Nat /\ wslot \in Slots
      /\ seq \in [Slots -> Nat] /\ active \in Slots /\ 1 - active \in Slots
      /\ wold \in Nat /\ active # 1 - active
  BY OtherSlot DEF TypeOK, Slots
<1>2. CASE WriteBegin
  <2>1. /\ UNCHANGED <<data, active, done, base>> /\ written' = written + 1
        /\ wpc' = "copy" /\ wslot' = 1 - active
        /\ seq' = [seq EXCEPT ![1 - active] = @ + 1]
        /\ ~inverted' => ~inverted /\ Even(seq[1 - active])
    BY <1>2 DEF WriteBegin
  <2>2. PhaseInv'
    BY <1>1, <2>1 DEF PhaseInv
  <2>3. seq'[active] = seq[active]
    BY <1>1, <2>1
  <2>4. ~inverted' => ~Readable(1 - active)'
    BY <1>1, <2>1, Parity DEF Readable
  <2>5. \A s \in Slots : s = active \/ s = 1 - active
    BY <1>1 DEF Slots
  <2>6. AgeInv'
    BY <2>1, <2>3, <2>4, <2>5 DEF AgeInv, ActiveIsDone, SlotAge, Readable
  <2>. QED
    BY <2>2, <2>6
<1>3. ASSUME NEW w \in Words, WriteCopy(w)
      PROVE  PhaseInv' /\ AgeInv'
  <2>1. /\ UNCHANGED <<seq, active, written, done, base, inverted, wslot>>
        /\ wpc = "copy" /\ wpc' \in {"copy", "seal"} /\ wslot = 1 - active
        /\ data' = [data EXCEPT ![wslot][w] = written]
    BY <1>3 DEF WriteCopy, whist, PhaseInv
  <2>2. PhaseInv'
    BY <2>1 DEF PhaseInv
  <2>3. data'[active] = data[active]
    BY <1>1, <2>1 DEF TypeOK
  <2>4. ~inverted => ~Readable(wslot)
    BY <1>1, <2>1, Parity DEF Readable, WriteInv
  <2>5. \A s \in Slots : s = active \/ s = wslot
    BY <1>1, <2>1 DEF Slots
  <2>6. AgeInv'
    BY <2>1, <2>3, <2>4, <2>5 DEF AgeInv, ActiveIsDone, SlotAge, Readable
  <2>. QED
    BY <2>2, <2>6
<1>4. CASE WriteSeal
  <2>1. /\ UNCHANGED <<data, active, written, done, base, inverted, wslot>>
        /\ wpc = "seal" /\ wpc' = "flip" /\ wslot = 1 - active /\ base < written
        /\ seq' = [seq EXCEPT ![wslot] = wold + 2]
        /\ \A w \in Words : data[wslot][w] = written
        /\ ~inverted => Even(wold)
    BY <1>4 DEF WriteSeal, WriteInv, whist, PhaseInv
  <2>2. ~inverted => Readable(wslot)'
    BY <1>1, <2>1, Parity DEF Readable
  <2>3. PhaseInv'
    BY <2>1, <2>2 DEF PhaseInv
  <2>4. seq'[active] = seq[active]
    BY <1>1, <2>1
  <2>5. \A s \in Slots : s = active \/ s = wslot
    BY <1>1, <2>1 DEF Slots
  <2>6. AgeInv'
    BY <2>1, <2>4, <2>5 DEF AgeInv, ActiveIsDone, SlotAge, Readable
  <2>. QED
    BY <2>3, <2>6
<1>5. CASE WriteFlip
  <2>1. /\ UNCHANGED <<seq, data, written, base, inverted, wslot>>
        /\ wpc = "flip" /\ wpc' = "idle" /\ active' = wslot /\ done' = written
        /\ base < written /\ \A w \in Words : data[wslot][w] = written
        /\ ~inverted => Readable(wslot)
    BY <1>5 DEF WriteFlip, PhaseInv
  <2>2. PhaseInv'
    BY <1>1, <2>1 DEF PhaseInv
  <2>3. AgeInv'
    BY <2>1 DEF AgeInv, ActiveIsDone, SlotAge, Readable
  <2>. QED
    BY <2>2, <2>3
<1>. QED
  BY <1>2, <1>3, <1>4, <1>5

\* What FreshPart(r) says of the writer's state changes only in a Reset, in
\* WriteSeal and in WriteFlip, and in WriteBegin for the slot that is not
\* active.
LEMMA WriterKeepsFresh ==
    ASSUME IInv, PhaseInv, AgeInv, NEW r \in Readers, FreshPart(r),
           WriterStep \/ ResetCall \/ WriteBegin \/ WriterCrash
    PROVE  FreshPart(r)'
<1> USE DEF IInv
<1>1. /\ written \in Nat /\ base \in Nat /\ done \in Nat /\ wslot \in Slots
      /\ seq \in [Slots -> Nat] /\ active \in Slots /\ 1 - active \in Slots
      /\ wold \in Nat /\ active # 1 - active
      /\ rfloor[r] \in Nat /\ rflips[r] \in 0 .. 2 /\ rslot[r] \in Slots
      /\ rmust[r] \in BOOLEAN /\ rsecond[r] \in BOOLEAN
      /\ \A s \in Slots, w \in Words : data[s][w] \in Nat
  BY OtherSlot DEF TypeOK, Slots
<1>2. CASE ResetMagic \/ ResetActive \/ ResetSeq \/ \E w \in Words : ResetData(w)
  <2>1. rclean'[r] = FALSE
    BY <1>2 DEF ResetMagic, ResetActive, ResetSeq, ResetData, ResetOverlaps
  <2>. QED
    BY <2>1 DEF FreshPart
<1>3. ASSUME UNCHANGED <<reader, rhist, active, done, base>>, inverted => inverted',
             ~inverted' => seq'[active] = seq[active],
             ~inverted' => \A s \in Slots : Readable(s)' =>
                 \/ Readable(s) /\ data'[s] = data[s]
                 \/ \A w \in Words : data'[s][w] >= rfloor[r]
      PROVE  FreshPart(r)'
  <2> SUFFICES ASSUME rclean[r], ~inverted'
               PROVE  /\ FloorInv(r)'
                      /\ rmust[r] /\ rpc[r] \in {"seq1", "copy"} => Overtaken(r)'
                      /\ rpc[r] = "ok" => NotOlder(r)'
                      /\ rpc[r] = "failed" /\ rmust[r] => rflips[r] = 2
    BY <1>3 DEF FreshPart, reader, rhist
  <2>1. ~inverted /\ UNCHANGED <<rpc, rslot, rsecond, rseq1, rout, rfloor, rmust, rflips>>
    BY <1>3 DEF reader, rhist
  <2>2. FloorInv(r)'
    BY <1>3, <2>1 DEF FreshPart, FloorInv
  <2>3. rmust[r] /\ rpc[r] \in {"seq1", "copy"} => Overtaken(r)'
    BY <1>3, <2>1 DEF FreshPart, Overtaken
  <2>. QED
    BY <2>1, <2>2, <2>3 DEF FreshPart, NotOlder
<1>4. CASE WriterOpen \/ WriterTruncate \/ WriterGiveUp \/ WriterCrash \/ ResetCall
  <2>1. UNCHANGED <<reader, rhist, active, done, base, seq, data, inverted>>
    BY <1>4 DEF WriterOpen, WriterTruncate, WriterGiveUp, WriterCrash, ResetCall,
                shared, whist
  <2>. QED
    BY <1>3, <2>1 DEF Readable
<1>5. CASE WriteBegin
  <2>1. /\ UNCHANGED <<reader, rhist, active, done, base, data>>
        /\ seq' = [seq EXCEPT ![1 - active] = @ + 1]
        /\ ~inverted' => ~inverted /\ Even(seq[1 - active])
    BY <1>5 DEF WriteBegin
  <2>2. seq'[active] = seq[active]
    BY <1>1, <2>1
  <2>3. ~inverted' => ~Readable(1 - active)'
    BY <1>1, <2>1, Parity DEF Readable
  <2>4. \A s \in Slots : s = active \/ s = 1 - active
    BY <1>1 DEF Slots
  <2>. QED
    BY <1>3, <2>1, <2>2, <2>3, <2>4 DEF Readable
<1>6. ASSUME NEW w \in Words, WriteCopy(w)
      PROVE  FreshPart(r)'
  <2>1. /\ UNCHANGED <<reader, rhist, active, done, base, seq, inverted>>
        /\ wpc = "copy" /\ data' = [data EXCEPT ![wslot][w] = written]
    BY <1>6 DEF WriteCopy, whist
  <2>2. ~inverted => ~Readable(wslot)
    BY <1>1, <2>1, Parity DEF Readable, WriteInv
  <2>3. \A s \in Slots : s # wslot => data'[s] = data[s]
    BY <2>1 DEF TypeOK
  <2>. QED
    BY <1>3, <2>1, <2>2, <2>3 DEF Readable
<1>7. CASE WriteSeal
  <2>1. /\ UNCHANGED <<reader, rhist, active, done, base, data, inverted>>
        /\ seq' = [seq EXCEPT ![wslot] = wold + 2]
        /\ wslot = 1 - active /\ base < written
        /\ \A w \in Words : data[wslot][w] = written
    BY <1>7 DEF WriteSeal, WriteInv, whist, PhaseInv
  <2>2. seq'[active] = seq[active]
    BY <1>1, <2>1
  <2>3. CASE ~rclean[r] \/ inverted
    BY <2>1, <2>3 DEF FreshPart, rhist
  <2>4. CASE rclean[r] /\ ~inverted
    <3>1. rfloor[r] <= written
      BY <1>1, <2>1, <2>4 DEF FreshPart, FloorInv, PhaseInv
    <3>2. \A w \in Words : data'[wslot][w] >= rfloor[r]
      BY <1>1, <2>1, <3>1
    <3>3. \A s \in Slots : s = active \/ s = wslot
      BY <1>1, <2>1 DEF Slots
    <3>. QED
      BY <1>3, <2>1, <2>2, <3>2, <3>3 DEF Readable
  <2>. QED
    BY <2>3, <2>4
<1>8. CASE WriteFlip
  <2>1. /\ UNCHANGED <<reader, rfloor, rmust, rclean, base, seq, data, inverted>>
        /\ active' = wslot /\ wslot = 1 - active /\ base < written
        /\ done' = written
        /\ \A w \in Words : data[wslot][w] = written
        /\ rflips'[r] = IF rflips[r] = 2 THEN 2 ELSE rflips[r] + 1
    BY <1>8 DEF WriteFlip, PhaseInv
  <2> SUFFICES ASSUME rclean[r], ~inverted
               PROVE  /\ FloorInv(r)'
                      /\ rmust[r] /\ rpc[r] \in {"seq1", "copy"} => Overtaken(r)'
                      /\ rpc[r] = "ok" => NotOlder(r)'
                      /\ rpc[r] = "failed" /\ rmust[r] => rflips'[r] = 2
    BY <2>1 DEF FreshPart, reader
  <2>2. UNCHANGED <<rpc, rslot, rsecond, rseq1, rout>>
    BY <2>1 DEF reader
  <2>3. rfloor[r] <= written
    BY <1>1, <2>1 DEF FreshPart, FloorInv, PhaseInv
  <2>4. \A s \in Slots : Readable(s) => \A w \in Words : data[s][w] >= rfloor[r]
    <3>1. CASE rmust[r]
      <4>1. \A w \in Words : data[active][w] >= rfloor[r]
        BY <1>1, <3>1 DEF FreshPart, FloorInv, AgeInv, ActiveIsDone
      <4>2. \A s \in Slots : s = active \/ s = wslot
        BY <1>1, <2>1 DEF Slots
      <4>. QED
        BY <1>1, <2>1, <2>3, <4>1, <4>2
    <3>2. CASE ~rmust[r]
      BY <1>1, <3>2 DEF FreshPart, FloorInv, AgeInv, SlotAge
    <3>. QED
      BY <3>1, <3>2
  <2>5. FloorInv(r)'
    <3>1. rmust[r] => done' # 0 /\ rfloor[r] <= done'
      BY <1>1, <2>1, <2>3
    <3>2. ~rmust[r] => rfloor[r] <= base + 1
      BY DEF FreshPart, FloorInv
    <3>. QED
      BY <2>1, <2>4, <3>1, <3>2 DEF FloorInv, Readable
  <2>6. ASSUME rmust[r], rpc[r] \in {"seq1", "copy"}
        PROVE  Overtaken(r)'
    <3>1. Overtaken(r)
      BY <2>6 DEF FreshPart
    <3>2. rflips'[r] # 0 /\ (rflips'[r] = 1 => rflips[r] = 0)
      BY <1>1, <2>1
    <3>3. rflips[r] = 0 => ~rsecond[r] /\ rslot[r] = active /\ active = 1 - active'
      BY <1>1, <2>1, <3>1 DEF Overtaken, Slots
    <3>. QED
      BY <2>2, <3>2, <3>3 DEF Overtaken
  <2>7. rpc[r] = "failed" /\ rmust[r] => rflips'[r] = 2
    BY <2>1 DEF FreshPart
  <2>8. rpc[r] = "ok" => NotOlder(r)'
    BY <2>1, <2>2 DEF FreshPart, NotOlder
  <2>. QED
    BY <2>5, <2>6, <2>7, <2>8
<1>. QED
  BY <1>2, <1>4, <1>5, <1>6, <1>7, <1>8 DEF WriterStep

\* A step that leaves a reader and what FreshPart says of the segment alone
\* keeps that reader's part.
LEMMA OtherFresh ==
    ASSUME NEW q \in Readers, FreshPart(q),
           UNCHANGED <<seq, data, active, done, base, inverted>>,
           rclean'[q] = rclean[q], rpc'[q] = rpc[q], rslot'[q] = rslot[q],
           rsecond'[q] = rsecond[q], rseq1'[q] = rseq1[q], rout'[q] = rout[q],
           rmust'[q] = rmust[q], rfloor'[q] = rfloor[q], rflips'[q] = rflips[q]
    PROVE  FreshPart(q)'
BY DEF FreshPart, FloorInv, Overtaken, NotOlder, Readable

\* An attempt at a slot fails only if that slot is not the active one, or was
\* not when the attempt began.
LEMMA RetryFresh ==
    ASSUME TypeOK, NEW r \in Readers, FreshPart(r), NextRetry(r) \/ SlotFails(r),
           rpc[r] \in {"seq1", "copy"},
           UNCHANGED <<seq, data, active, done, base, inverted, rout, rseq1, rhist>>,
           rclean[r] /\ ~inverted /\ rmust[r] /\ rslot[r] = active =>
               rflips[r] # IF rsecond[r] THEN 1 ELSE 0
    PROVE  FreshPart(r)'
<1>1. /\ rflips[r] \in 0 .. 2 /\ rslot[r] \in Slots /\ active \in Slots
      /\ rsecond[r] \in BOOLEAN
  BY DEF TypeOK
<1>2. UNCHANGED <<rclean, rmust, rfloor, rflips>>
  BY DEF rhist
<1> SUFFICES ASSUME rclean[r], ~inverted
             PROVE  /\ FloorInv(r)'
                    /\ rmust[r] /\ rpc'[r] \in {"seq1", "copy"} => Overtaken(r)'
                    /\ rpc'[r] = "ok" => NotOlder(r)'
                    /\ rpc'[r] = "failed" /\ rmust[r] => rflips[r] = 2
  BY <1>2 DEF FreshPart
<1>3. FloorInv(r)'
  BY <1>2 DEF FreshPart, FloorInv, Readable
<1>4. rpc'[r] \in {"seq1", "failed"}
  BY RetryType
<1>5. ASSUME rmust[r]
      PROVE  /\ rpc'[r] = "seq1" => Overtaken(r)'
             /\ rpc'[r] = "failed" => rflips[r] = 2
  <2>1. Overtaken(r)
    BY <1>5 DEF FreshPart
  <2>2. CASE ~rsecond[r] /\ SlotFails(r)
    <3>1. rflips[r] # 0 /\ (rflips[r] = 1 => rslot[r] = 1 - active)
      BY <1>5, <2>1, <2>2 DEF Overtaken
    <3>2. rslot'[r] = 1 - rslot[r] /\ rsecond'[r] /\ rpc'[r] = "seq1"
      BY <2>2 DEF SlotFails, TypeOK
    <3>3. rflips[r] = 1 => rslot'[r] = active
      BY <1>1, <3>1, <3>2 DEF Slots
    <3>. QED
      BY <1>2, <3>1, <3>2, <3>3 DEF Overtaken
  <2>3. CASE rsecond[r] /\ SlotFails(r)
    <3>1. rflips[r] # 0 /\ rflips[r] # 1
      BY <1>5, <2>1, <2>3 DEF Overtaken
    <3>2. rpc'[r] = "failed"
      BY <2>3 DEF SlotFails, TypeOK
    <3>. QED
      BY <1>1, <3>1, <3>2
  <2>4. CASE UNCHANGED <<rslot, rsecond>> /\ rpc' = [rpc EXCEPT ![r] = "seq1"]
    <3>1. rpc'[r] = "seq1"
      BY <2>4 DEF TypeOK
    <3>. QED
      BY <1>2, <2>1, <2>4, <3>1 DEF Overtaken
  <2>. QED
    BY <2>2, <2>3, <2>4 DEF NextRetry
<1>. QED
  BY <1>3, <1>4, <1>5

\* A reader's own steps.  seq1 is loaded from the active slot, or from one
\* that has been written since Read began.
LEMMA ReaderKeepsFresh ==
    ASSUME FreshInv, NEW r \in Readers,
           ReaderOpen(r) \/ ReadBegin(r) \/ ReadStep(r) \/ ReadReturn(r),
           NEW q \in Readers
    PROVE  FreshPart(q)'
<1>1. /\ TypeOK /\ PhaseInv /\ AgeInv /\ FreshPart(q) /\ FreshPart(r) /\ IInv
      /\ UNCHANGED <<seq, data, active, done, base, inverted>>
  BY ReaderElsewhere DEF FreshInv, IInv, shared, whist
<1>2. /\ done \in Nat /\ base \in Nat /\ active \in Slots
      /\ rflips[r] \in 0 .. 2 /\ rslot[r] \in Slots /\ rfloor[r] \in Nat
      /\ rsecond[r] \in BOOLEAN /\ rmust[r] \in BOOLEAN
      /\ seq \in [Slots -> Nat]
      /\ \A s \in Slots, w \in Words : data[s][w] \in Nat
  BY <1>1 DEF TypeOK
<1>3. CASE ReaderOpen(r) \/ ReadReturn(r)
  <2>1. /\ UNCHANGED <<rslot, rsecond, rseq1, rhist>>
        /\ \A p \in Readers \ {r} : rpc'[p] = rpc[p] /\ rout'[p] = rout[p]
        /\ rpc'[r] = "idle"
    BY <1>1, <1>3 DEF ReaderOpen, ReadReturn, TypeOK
  <2>2. CASE q = r
    BY <1>1, <2>1, <2>2 DEF FreshPart, FloorInv, Readable, rhist
  <2>3. CASE q # r
    BY <1>1, <2>1, <2>3, OtherFresh DEF rhist
  <2>. QED
    BY <2>2, <2>3
<1>4. CASE ReadBegin(r)
  <2>1. CASE q = r
    <3>1. /\ rpc'[r] = "seq1" /\ rslot'[r] = active /\ ~rsecond'[r]
          /\ rfloor'[r] = IF done = 0 THEN base + 1 ELSE done
          /\ rmust'[r] <=> done # 0
          /\ rflips'[r] = 0
      BY <1>1, <1>4 DEF ReadBegin, TypeOK
    <3>2. FloorInv(r)'
      BY <1>1, <1>2, <3>1 DEF FloorInv
    <3>3. Overtaken(r)'
      BY <1>1, <3>1 DEF Overtaken
    <3>. QED
      BY <2>1, <3>1, <3>2, <3>3 DEF FreshPart
  <2>2. CASE q # r
    BY <1>1, <1>4, <2>2, OtherFresh DEF ReadBegin, TypeOK
  <2>. QED
    BY <2>1, <2>2
<1>5. ASSUME NextRetry(r) \/ SlotFails(r), rpc[r] \in {"seq1", "copy"},
             UNCHANGED <<rout, rseq1, rhist>>,
             rclean[r] /\ ~inverted /\ rmust[r] /\ rslot[r] = active =>
                 rflips[r] # IF rsecond[r] THEN 1 ELSE 0
      PROVE  FreshPart(q)'
  <2>1. CASE q = r
    BY <1>1, <1>5, <2>1, RetryFresh
  <2>2. CASE q # r
    <3>1. rpc'[q] = rpc[q] /\ rslot'[q] = rslot[q]
      BY <1>1, <1>5, <2>2, RetryType
    <3>2. rsecond'[q] = rsecond[q]
      BY <1>1, <1>5, <2>2 DEF NextRetry, SlotFails, TypeOK
    <3>. QED
      BY <1>1, <1>5, <3>1, <3>2, OtherFresh DEF rhist
  <2>. QED
    BY <2>1, <2>2
<1>6. CASE ReadSeq1(r)
  <2>1. rpc[r] = "seq1" /\ UNCHANGED <<rout, rhist>>
    BY <1>6 DEF ReadSeq1
  <2>2. CASE (NextRetry(r) \/ SlotFails(r)) /\ UNCHANGED rseq1 /\ ~Readable(rslot[r])
    <3>1. ASSUME rclean[r], ~inverted, rmust[r], rslot[r] = active
          PROVE  FALSE
      BY <1>1, <2>2, <3>1 DEF FreshPart, FloorInv, AgeInv, ActiveIsDone
    <3>. QED
      BY <1>5, <2>1, <2>2, <3>1
  <2>3. CASE /\ rseq1' = [rseq1 EXCEPT ![r] = seq[rslot[r]]]
             /\ rpc' = [rpc EXCEPT ![r] = "copy"]
             /\ UNCHANGED <<rslot, rsecond, rretry>>
    <3>1. CASE q = r
      <4>1. rseq1'[r] = seq[rslot[r]] /\ rpc'[r] = "copy"
        BY <1>1, <2>3 DEF TypeOK
      <4>2. rmust[r] /\ rclean[r] /\ ~inverted => Overtaken(r)'
        BY <1>1, <2>1, <2>3, <4>1 DEF FreshPart, Overtaken, rhist
      <4>3. rclean[r] /\ ~inverted => FloorInv(r)'
        BY <1>1, <2>1 DEF FreshPart, FloorInv, Readable, rhist
      <4>. QED
        BY <1>1, <2>1, <3>1, <4>1, <4>2, <4>3 DEF FreshPart, rhist
    <3>2. CASE q # r
      <4>1. rseq1'[q] = rseq1[q] /\ rpc'[q] = rpc[q]
        BY <1>1, <2>3, <3>2 DEF TypeOK
      <4>. QED
        BY <1>1, <2>1, <2>3, <4>1, OtherFresh DEF rhist
    <3>. QED
      BY <3>1, <3>2
  <2>. QED
    BY <1>6, <2>2, <2>3 DEF ReadSeq1, Readable
<1>7. ASSUME NEW w \in Words, ReadCopy(r, w)
      PROVE  FreshPart(q)'
  <2>1. /\ rpc[r] = "copy" /\ UNCHANGED <<rpc, rslot, rsecond, rseq1, rhist>>
        /\ \A p \in Readers \ {r} : rout'[p] = rout[p]
    BY <1>1, <1>7 DEF ReadCopy, TypeOK
  <2>2. CASE q = r
    BY <1>1, <2>1, <2>2 DEF FreshPart, FloorInv, Overtaken, Readable, rhist
  <2>3. CASE q # r
    BY <1>1, <2>1, <2>3, OtherFresh DEF rhist
  <2>. QED
    BY <2>2, <2>3
<1>8. CASE ReadSeq2(r)
  <2>1. /\ rpc[r] = "copy" /\ rleft[r] = {}
        /\ UNCHANGED <<rout, rseq1, rhist>>
    BY <1>8 DEF ReadSeq2
  <2>2. CASE NextRetry(r) /\ seq[rslot[r]] # rseq1[r]
    <3>1. rclean[r] /\ ~inverted /\ rmust[r] /\ rslot[r] = active =>
              rflips[r] # IF rsecond[r] THEN 1 ELSE 0
      BY <1>1, <2>1, <2>2 DEF FreshPart, Overtaken
    <3>. QED
      BY <1>5, <2>1, <2>2, <3>1
  <2>3. CASE /\ seq[rslot[r]] = rseq1[r]
             /\ rpc' = [rpc EXCEPT ![r] = "ok"]
             /\ UNCHANGED <<rslot, rsecond, rretry>>
    <3>1. CASE q = r
      <4>1. rpc'[r] = "ok"
        BY <1>1, <2>3 DEF TypeOK
      <4>2. ASSUME rclean[r], ~inverted
            PROVE  FloorInv(r)' /\ NotOlder(r)'
        <5>1. CopyFaithful(r)
          BY <1>1, <2>1, <4>2 DEF IInv, ReaderInv
        <5>2. Readable(rslot[r]) /\ \A w \in Words : rout[r][w] = data[rslot[r]][w]
          BY <2>1, <2>3, <5>1 DEF CopyFaithful, Readable
        <5>3. \A w \in Words : data[rslot[r]][w] >= rfloor[r]
          <6>1. CASE rflips[r] # 0
            BY <1>1, <1>2, <4>2, <5>2, <6>1 DEF FreshPart, FloorInv
          <6>2. CASE ~rmust[r]
            BY <1>1, <1>2, <4>2, <5>2, <6>2 DEF FreshPart, FloorInv, AgeInv, SlotAge
          <6>3. CASE rmust[r] /\ rflips[r] = 0
            <7>1. rslot[r] = active
              BY <1>1, <2>1, <4>2, <6>3 DEF FreshPart, Overtaken
            <7>2. done # 0 /\ rfloor[r] <= done
              BY <1>1, <4>2, <6>3 DEF FreshPart, FloorInv
            <7>. QED
              BY <1>1, <1>2, <4>2, <7>1, <7>2 DEF AgeInv, ActiveIsDone
          <6>. QED
            BY <6>1, <6>2, <6>3
        <5>. QED
          BY <1>1, <2>1, <4>2, <5>2, <5>3
             DEF FreshPart, FloorInv, NotOlder, Readable, rhist
      <4>. QED
        BY <1>1, <2>1, <3>1, <4>1, <4>2 DEF FreshPart, rhist
    <3>2. CASE q # r
      <4>1. rpc'[q] = rpc[q]
        BY <1>1, <2>3, <3>2 DEF TypeOK
      <4>. QED
        BY <1>1, <2>1, <2>3, <4>1, OtherFresh DEF rhist
    <3>. QED
      BY <3>1, <3>2
  <2>. QED
    BY <1>8, <2>2, <2>3 DEF ReadSeq2
<1>. QED
  BY <1>3, <1>4, <1>6, <1>7, <1>8 DEF ReadStep

\* Every step keeps FreshInv.
LEMMA NextFresh == FreshInv /\ [Next]_vars => FreshInv'
<1> SUFFICES ASSUME FreshInv, [Next]_vars
             PROVE  FreshInv'
  OBVIOUS
<1>1. IInv'
  BY NextIInv DEF FreshInv
<1>2. CASE WriterStep \/ ResetCall \/ WriteBegin \/ WriterCrash
  <2>1. \A r \in Readers : FreshPart(r)'
    BY <1>2, WriterKeepsFresh DEF FreshInv
  <2>2. CASE WriterOpen \/ WriterTruncate \/ WriterGiveUp \/ WriterCrash
    <3>1. /\ UNCHANGED <<seq, data, active, written, done, base, inverted>>
          /\ wpc' \in {"truncate", "invalid", "idle", "resetMagic", "down"}
      BY <2>2 DEF WriterOpen, WriterTruncate, WriterGiveUp, WriterCrash, shared,
                  whist
    <3>2. PhaseInv'
      BY <3>1 DEF FreshInv, PhaseInv
    <3>3. AgeInv'
      BY <3>1 DEF FreshInv, AgeInv, ActiveIsDone, SlotAge, Readable
    <3>. QED
      BY <1>1, <2>1, <3>2, <3>3 DEF FreshInv
  <2>. QED
    BY <1>1, <1>2, <2>1, <2>2, ResetAge, WriteAge DEF FreshInv, WriterStep
<1>3. ASSUME NEW r \in Readers,
             ReaderOpen(r) \/ ReadBegin(r) \/ ReadStep(r) \/ ReadReturn(r)
      PROVE  FreshInv'
  <2>1. PhaseInv' /\ AgeInv'
    BY <1>3, ReaderElsewhere
       DEF FreshInv, shared, writer, whist, PhaseInv, AgeInv, ActiveIsDone, SlotAge,
           Readable
  <2>. QED
    BY <1>1, <1>3, <2>1, ReaderKeepsFresh DEF FreshInv
<1>4. CASE UNCHANGED vars
  <2>1. UNCHANGED <<seq, data, active, written, done, base, inverted, wpc, wslot,
                    rpc, rslot, rsecond, rseq1, rout, rhist>>
    BY <1>4 DEF vars, shared, writer, reader, whist
  <2>2. PhaseInv' /\ AgeInv'
    BY <2>1 DEF FreshInv, PhaseInv, AgeInv, ActiveIsDone, SlotAge, Readable
  <2>3. \A r \in Readers : FreshPart(r)'
    BY <2>1, OtherFresh DEF FreshInv, rhist
  <2>. QED
    BY <1>1, <2>2, <2>3 DEF FreshInv
<1>. QED
  BY <1>2, <1>3, <1>4 DEF Next

\* A Read that returns true returns a State that is not older than the last
\* Write that had returned when it was called, nor from before a Reset,
\* whatever number of Writes, crashes and Resets came before.
THEOREM ReadNeverStale == Spec => []ReadFresh
<1>1. FreshInv => ReadFresh
  BY DEF FreshInv, FreshPart, ReadFresh
<1>. QED
  BY <1>1, InitFresh, NextFresh, PTL DEF Spec

\* A Read that comes after a Write fails only if two more Writes return while
\* it runs, for every retry limit: TryReadSlot fails on the active slot only
\* if the slot does not stay active.
THEOREM ReadFailsOnlyIfOvertaken == Spec => []ReadFailsOnlyWhenOvertaken
<1>1. FreshInv => ReadFailsOnlyWhenOvertaken
  BY DEF FreshInv, FreshPart, ReadFailsOnlyWhenOvertaken
<1>. QED
  BY <1>1, InitFresh, NextFresh, PTL DEF Spec
==============================================================================
