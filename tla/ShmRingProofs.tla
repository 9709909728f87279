--------------------------- MODULE ShmRingProofs ---------------------------
(***************************************************************************)
(* Proofs about ShmRing for every size of the buffer and of the entries    *)
(* and any number of entries and crashes.                                  *)
(***************************************************************************)
EXTENDS ShmRing, FiniteSetTheorems, TLAPS

----------------------------------------------------------------------------
(* Positions and offsets *)

\* A product grows by at least its second factor with its first factor.
LEMMA ProductGrows ==
    ASSUME NEW x \in Int, NEW y \in Int, NEW k \in Nat, x < y
    PROVE  x * k + k <= y * k
<1> DEFINE d == y - x - 1
<1>1. d \in Nat
  OBVIOUS
<1>2. y * k = (x + 1 + d) * k
  BY <1>1
<1>3. (x + 1 + d) * k = x * k + k + d * k
  BY <1>1
<1>4. d * k \in Nat
  BY <1>1
<1>. QED
  BY <1>2, <1>3, <1>4

\* A position is a number of rounds and an offset in the buffer.
LEMMA OffsetInBuffer ==
    ASSUME NEW p \in Nat
    PROVE  /\ Offset(p) \in 0 .. BufferSize - 1
           /\ p \div BufferSize \in Nat
           /\ p = (p \div BufferSize) * BufferSize + Offset(p)
BY ConstantsAssumption DEF Offset

\* The rounds and the offset are unique.
LEMMA OffsetUnique ==
    ASSUME NEW n \in Nat, NEW r \in 0 .. BufferSize - 1
    PROVE  Offset(n * BufferSize + r) = r
<1>0. BufferSize \in Nat
  BY ConstantsAssumption
<1> DEFINE p == n * BufferSize + r
           m == p \div BufferSize
           s == Offset(p)
<1>1. p \in Nat
  BY <1>0
<1>2. s \in 0 .. BufferSize - 1 /\ m \in Nat /\ p = m * BufferSize + s
  BY <1>1, OffsetInBuffer
<1> HIDE DEF m, s
<1>3. ~(m < n)
  BY <1>0, <1>2, ProductGrows
<1>4. ~(n < m)
  BY <1>0, <1>2, ProductGrows
<1>5. m = n /\ s = r
  BY <1>0, <1>2, <1>3, <1>4
<1>. QED
  BY <1>5 DEF s

\* A piece that fits before the end of the buffer is not broken.
LEMMA OffsetSum ==
    ASSUME NEW p \in Nat, NEW u \in Nat, Offset(p) + u < BufferSize
    PROVE  Offset(p + u) = Offset(p) + u
<1> DEFINE n == p \div BufferSize
           r == Offset(p) + u
<1>0. BufferSize \in Nat
  BY ConstantsAssumption
<1>1. n \in Nat /\ p = n * BufferSize + Offset(p) /\ Offset(p) \in 0 .. BufferSize - 1
  BY OffsetInBuffer
<1>2. r \in 0 .. BufferSize - 1
  BY <1>0, <1>1
<1> HIDE DEF n
<1>3. n * BufferSize \in Nat
  BY <1>0, <1>1
<1>4. p + u = n * BufferSize + r
  BY <1>0, <1>1, <1>3
<1>. QED
  BY <1>0, <1>1, <1>2, <1>4, OffsetUnique

\* Two positions less than the buffer's size apart have different offsets.
LEMMA OffsetsDiffer ==
    ASSUME NEW p \in Nat, NEW q \in Nat, p < q, q - p < BufferSize
    PROVE  Offset(p) # Offset(q)
<1> DEFINE n == p \div BufferSize
           m == q \div BufferSize
<1>0. BufferSize \in Nat
  BY ConstantsAssumption
<1>1. /\ n \in Nat /\ p = n * BufferSize + Offset(p) /\ Offset(p) \in 0 .. BufferSize - 1
      /\ m \in Nat /\ q = m * BufferSize + Offset(q) /\ Offset(q) \in 0 .. BufferSize - 1
  BY OffsetInBuffer
<1> HIDE DEF n, m
<1>2. n * BufferSize \in Nat /\ m * BufferSize \in Nat
  BY <1>0, <1>1
<1> SUFFICES ASSUME Offset(p) = Offset(q)
             PROVE  FALSE
  OBVIOUS
<1>3. CASE n < m
  BY <1>0, <1>1, <1>2, <1>3, ProductGrows
<1>4. CASE m < n
  BY <1>0, <1>1, <1>2, <1>4, ProductGrows
<1>5. CASE m = n
  BY <1>1, <1>5
<1>. QED
  BY <1>1, <1>3, <1>4, <1>5

----------------------------------------------------------------------------
(* The inductive invariant of the producer's side *)

Positions == /\ write_pos \in Nat /\ read_pos \in Nat /\ confirmed_pos \in Nat
             /\ cur \in Nat /\ cend \in Nat
AUnit == [seq : Nat, size : Nat, i : Nat]
Entry == [seq : Nat, pos : Nat, size : Nat]
Header == [seq : Nat, size : Nat, type : BOOLEAN, crc : BOOLEAN]

Types ==
    /\ Positions
    /\ buf \in [0 .. BufferSize - 1 -> AUnit]
    /\ next_seq \in Nat \ {0} /\ pseq \in Nat /\ pi \in Nat /\ want \in Nat
    /\ ppc \in {"idle", "try", "wrap", "wrapPublish", "fill", "publish"}
    /\ log \in Seq(Entry)
    /\ chdr \in Header

\* What Append holds at each of its steps.  It has room for its entry above
\* the confirmed entries, and has stored the first pi units of it.
Producing ==
    /\ ppc # "idle" => want \in HeaderSize .. BufferSize
    /\ ppc \in {"wrap", "wrapPublish", "fill", "publish"} =>
           /\ write_pos - confirmed_pos + want <= BufferSize
           /\ pseq \in 1 .. next_seq - 1
    /\ ppc \in {"wrap", "wrapPublish"} => Offset(write_pos) + want > BufferSize
    /\ ppc \in {"fill", "publish"} =>
           /\ Offset(write_pos) + want <= BufferSize
           /\ pi <= want /\ (ppc = "publish" <=> pi = want)
           /\ \A u \in 0 .. pi - 1 : buf[Offset(write_pos) + u] = Unit(pseq, want, u)

\* A published entry lies below write_pos and before the end of the buffer.
Logged ==
    \A k \in DOMAIN log :
        /\ log[k].pos + log[k].size <= write_pos
        /\ Offset(log[k].pos) + log[k].size <= BufferSize
        /\ log[k].size >= HeaderSize

\* A walk of Confirm or ConfirmBatch starts at confirmed_pos.
Walking == cpc \in {"confirm", "confirmBatch"} => confirmed_pos <= cur

KeepInv == Types /\ Producing /\ Logged /\ Walking /\ UnconfirmedIntact

\* What the producer stores within its room above confirmed_pos does not
\* touch a published piece that is not confirmed.
LEMMA StoreElsewhere ==
    ASSUME Types,
           NEW p \in Nat, NEW n \in Nat, NEW u \in 0 .. n - 1, NEW j \in Nat,
           confirmed_pos <= p, p + n <= write_pos, Offset(p) + n <= BufferSize,
           write_pos - confirmed_pos + j < BufferSize, Offset(write_pos) + j < BufferSize
    PROVE  Offset(write_pos) + j # Offset(p) + u
<1>1. write_pos \in Nat /\ confirmed_pos \in Nat /\ BufferSize \in Nat
  BY ConstantsAssumption DEF Types, Positions
<1>2. Offset(p) \in Nat /\ Offset(write_pos) \in Nat /\ u \in Nat
  BY <1>1, OffsetInBuffer
<1>3. Offset(p + u) = Offset(p) + u
  <2>1. Offset(p) + u < BufferSize
    BY <1>1, <1>2
  <2>. QED
    BY <1>2, <2>1, OffsetSum
<1>4. Offset(write_pos + j) = Offset(write_pos) + j
  BY <1>1, OffsetSum
<1>5. Offset(p + u) # Offset(write_pos + j)
  <2>1. p + u < write_pos + j /\ (write_pos + j) - (p + u) < BufferSize
    BY <1>1, <1>2
  <2>. QED
    BY <1>1, <1>2, <2>1, OffsetsDiffer
<1>. QED
  BY <1>3, <1>4, <1>5

\* Headers are headers, whatever the consumer parses.
LEMMA HeadersAre ==
    ASSUME Types, NEW p \in Nat, NEW h \in Headers(p)
    PROVE  h \in Header
<1>0. BufferSize \in Nat /\ HeaderSize \in Nat
  BY ConstantsAssumption DEF HeaderSize
<1>1. \A o \in Nat : UnitAt(o) \in AUnit
  <2>1. ZeroUnit \in AUnit
    BY DEF ZeroUnit, AUnit
  <2>. QED
    BY <1>0, <2>1 DEF UnitAt, Types
<1>2. Offset(p) \in Nat
  BY <1>0, OffsetInBuffer
<1>3. \A s \in SeqsAt(Offset(p)) : s \in Nat
  <2>1. UnitAt(Offset(p)).seq \in Nat /\ next_seq \in Nat
    BY <1>1, <1>2 DEF AUnit, Types
  <2>. QED
    BY <2>1 DEF SeqsAt
<1>4. MetaAt(Offset(p)) \subseteq [size : Nat, type : BOOLEAN]
  <2>. DEFINE u == UnitAt(Offset(p) + 2)
  <2>1. u.size \in Nat
    BY <1>1, <1>2 DEF AUnit
  <2>2. [size : HeaderSize .. BufferSize, type : BOOLEAN] \subseteq [size : Nat, type : BOOLEAN]
    BY <1>0
  <2>. HIDE DEF u
  <2>3. MetaAt(Offset(p)) \in {{[size |-> u.size, type |-> u.seq # 0]},
                              {[size |-> HeaderSize, type |-> FALSE]},
                              [size : HeaderSize .. BufferSize, type : BOOLEAN]}
    BY DEF MetaAt, u
  <2>4. [size |-> u.size, type |-> u.seq # 0] \in [size : Nat, type : BOOLEAN]
    BY <2>1
  <2>5. [size |-> HeaderSize, type |-> FALSE] \in [size : Nat, type : BOOLEAN]
    BY <1>0
  <2>. QED
    BY <2>2, <2>3, <2>4, <2>5
<1>5. \A z : CrcOK(Offset(p), z) \in BOOLEAN
  BY DEF CrcOK
<1>. QED
  BY <1>3, <1>4, <1>5 DEF Headers, Header

\* An empty ring.
LEMMA InitKeep == Init => KeepInv
<1> SUFFICES ASSUME Init
             PROVE  KeepInv
  OBVIOUS
<1>1. Types
  <2>1. ZeroUnit \in AUnit
    BY DEF ZeroUnit, AUnit
  <2>2. NoHeader \in Header
    BY DEF NoHeader, Header
  <2>3. log \in Seq(Entry)
    BY DEF Init
  <2>. QED
    BY <2>1, <2>2, <2>3 DEF Init, Types, Positions
<1>2. DOMAIN log = {}
  BY DEF Init
<1>. QED
  BY <1>1, <1>2 DEF Init, KeepInv, Producing, Logged, Walking, UnconfirmedIntact

\* What the producer's invariant needs of a step that leaves the producer
\* and the buffer alone.
LEMMA FrameKeep ==
    ASSUME KeepInv, UNCHANGED <<buf, write_pos, next_seq, ppc, want, pseq, pi, log>>,
           confirmed_pos' \in Nat, confirmed_pos <= confirmed_pos'
    PROVE  Producing' /\ Logged' /\ UnconfirmedIntact'
<1>1. write_pos \in Nat /\ confirmed_pos \in Nat /\ want \in Nat /\ BufferSize \in Nat
  BY ConstantsAssumption DEF KeepInv, Types, Positions
<1>2. Producing'
  <2>1. \A w, c, d, n, b \in Nat : c <= d /\ w - c + n <= b => w - d + n <= b
    OBVIOUS
  <2>2. write_pos - confirmed_pos + want <= BufferSize => write_pos - confirmed_pos' + want <= BufferSize
    BY <1>1, <2>1
  <2>. QED
    BY <2>1, <2>2 DEF KeepInv, Producing
<1>3. Logged'
  BY DEF KeepInv, Logged
<1>4. UnconfirmedIntact'
  <2>1. log \in Seq(Entry)
    BY DEF KeepInv, Types
  <2>2. \A k \in DOMAIN log : log[k].pos \in Nat
    <3>1. \A k \in DOMAIN log : log[k] \in Entry
      BY <2>1
    <3>. QED
      BY <3>1 DEF Entry
  <2>3. \A k \in DOMAIN log : log[k].pos >= confirmed_pos' => log[k].pos >= confirmed_pos
    BY <1>1, <2>2
  <2>. QED
    BY <2>3 DEF KeepInv, UnconfirmedIntact
<1>. QED
  BY <1>2, <1>3, <1>4

ConsumerActions ==
    \/ ReadNextCall
    \/ ReadUnconfirmedCall
    \/ \E s \in Nat : ConfirmCall(s)
    \/ \E n \in Nat : ConfirmBatchCall(n)
    \/ ConsumerStep
    \/ ConsumerCrash

ProducerActions ==
    \/ \E z \in Sizes : AppendCall(z)
    \/ ProducerStep
    \/ ProducerCrash

\* The consumer moves confirmed_pos forward only, and leaves what is the
\* producer's alone.
LEMMA ConsumerFrame ==
    ASSUME KeepInv, ConsumerActions
    PROVE  /\ UNCHANGED <<buf, write_pos, next_seq, ppc, want, pseq, pi, log, mode>>
           /\ Positions' /\ chdr' \in Header
           /\ confirmed_pos <= confirmed_pos'
           /\ cpc' \in {"confirm", "confirmBatch"} => confirmed_pos' <= cur'
<1>. USE DEF ConsumerActions
<1>1. UNCHANGED <<buf, write_pos, next_seq, ppc, want, pseq, pi, log, mode>>
  <2>. USE DEF producer, ring, hist
  <2>1. CASE ReadNextScan
    BY <2>1 DEF ReadNextScan
  <2>2. CASE ReadNextCopy
    BY <2>2 DEF ReadNextCopy
  <2>3. CASE ReadUnconfirmedScan
    BY <2>3 DEF ReadUnconfirmedScan
  <2>4. CASE ConfirmScan
    BY <2>4 DEF ConfirmScan
  <2>5. CASE ConfirmBatchScan
    BY <2>5 DEF ConfirmBatchScan
  <2>6. CASE ReadNextCall \/ ReadUnconfirmedCall \/ ConsumerCrash
    BY <2>6 DEF ReadNextCall, ReadUnconfirmedCall, ConsumerCrash
  <2>7. CASE (\E s \in Nat : ConfirmCall(s)) \/ (\E n \in Nat : ConfirmBatchCall(n))
    BY <2>7 DEF ConfirmCall, ConfirmBatchCall
  <2>. QED
    BY <2>1, <2>2, <2>3, <2>4, <2>5, <2>6, <2>7 DEF ConsumerStep
<1>2. Positions /\ chdr \in Header /\ (cpc \in {"confirm", "confirmBatch"} => confirmed_pos <= cur)
  BY DEF KeepInv, Types, Walking
<1>3. /\ Positions' /\ chdr' \in Header
      /\ confirmed_pos <= confirmed_pos'
      /\ cpc' \in {"confirm", "confirmBatch"} => confirmed_pos' <= cur'
  <2>. USE DEF Positions
  <2>0. NoHeader \in Header
    BY DEF NoHeader, Header
  <2>1. \A q \in Nat : \A h \in Headers(q) : h \in Header /\ h.size \in Nat /\ q + h.size \in Nat
    BY HeadersAre DEF KeepInv, Header
  <2>2. CASE ReadNextCall \/ ReadUnconfirmedCall \/ ConsumerCrash
    BY <1>2, <2>0, <2>2 DEF ReadNextCall, ReadUnconfirmedCall, ConsumerCrash, ring
  <2>3. CASE (\E s \in Nat : ConfirmCall(s)) \/ (\E n \in Nat : ConfirmBatchCall(n))
    BY <1>2, <2>3 DEF ConfirmCall, ConfirmBatchCall, ring
  <2>4. CASE ReadNextScan
    BY <1>2, <2>1, <2>4 DEF ReadNextScan
  <2>5. CASE ReadNextCopy
    <3>1. chdr.size \in Nat
      BY <1>2 DEF Header
    <3>. QED
      BY <1>2, <2>0, <2>5, <3>1 DEF ReadNextCopy
  <2>6. CASE ReadUnconfirmedScan
    BY <1>2, <2>1, <2>6 DEF ReadUnconfirmedScan, ring
  <2>7. CASE ConfirmScan
    BY <1>2, <2>1, <2>7 DEF ConfirmScan
  <2>8. CASE ConfirmBatchScan
    BY <1>2, <2>1, <2>8 DEF ConfirmBatchScan
  <2>. QED
    BY <2>2, <2>3, <2>4, <2>5, <2>6, <2>7, <2>8 DEF ConsumerStep
<1>. QED
  BY <1>1, <1>3

\* So the producer's invariant stays.
LEMMA ConsumerKeep ==
    ASSUME KeepInv, ConsumerActions
    PROVE  KeepInv'
<1>1. Types'
  BY ConsumerFrame DEF KeepInv, Types
<1>2. confirmed_pos' \in Nat /\ Walking'
  BY ConsumerFrame DEF Positions, Walking
<1>. QED
  BY <1>1, <1>2, ConsumerFrame, FrameKeep DEF KeepInv

\* The producer stores only where nothing unconfirmed is.
LEMMA ProducerKeep ==
    ASSUME KeepInv, ProducerActions
    PROVE  KeepInv'
<1>. USE DEF ProducerActions
<1>0. /\ BufferSize \in Nat \ {0} /\ HeaderSize = 3 /\ Sizes \subseteq HeaderSize .. BufferSize
      /\ Types /\ Positions
      /\ write_pos \in Nat /\ confirmed_pos \in Nat /\ want \in Nat /\ pi \in Nat /\ next_seq \in Nat \ {0}
      /\ pseq \in Nat
  BY ConstantsAssumption DEF KeepInv, Types, Positions, HeaderSize
<1>1. Offset(write_pos) \in 0 .. BufferSize - 1
  BY <1>0, OffsetInBuffer
<1>2. /\ UNCHANGED <<read_pos, confirmed_pos, cpc, cur, cend, chdr>>
      /\ ProducerStep => UNCHANGED <<want>> \/ AppendPublish
  BY DEF ProducerStep, AppendCall, AppendBegin, WrapMark, WrapPublish, AppendFill, AppendPublish,
         ProducerCrash, ring, consumer
<1>3. Walking'
  BY <1>2 DEF KeepInv, Walking
<1>4. ASSUME UNCHANGED <<buf, write_pos, log>>
      PROVE  Logged' /\ UnconfirmedIntact'
  BY <1>2, <1>4 DEF KeepInv, Logged, UnconfirmedIntact
<1>5. ASSUME NEW z \in Sizes, AppendCall(z)
      PROVE  KeepInv'
  <2>1. /\ want' = z /\ ppc' = "try" /\ z \in HeaderSize .. BufferSize /\ z \in Nat
        /\ UNCHANGED <<buf, write_pos, next_seq, pseq, pi, log>>
    BY <1>0, <1>5 DEF AppendCall, ring
  <2>2. Types'
    BY <1>0, <1>2, <2>1 DEF Types, Positions
  <2>3. Producing'
    BY <2>1 DEF Producing
  <2>. QED
    BY <1>3, <1>4, <2>1, <2>2, <2>3 DEF KeepInv
<1>6. CASE AppendBegin
  <2>1. /\ ppc = "try" /\ write_pos - confirmed_pos + want <= BufferSize
        /\ next_seq' = next_seq + 1 /\ pseq' = next_seq /\ pi' = 0
        /\ ppc' = IF Offset(write_pos) + want > BufferSize THEN "wrap" ELSE "fill"
        /\ UNCHANGED <<buf, write_pos, want, log>>
    BY <1>0, <1>6 DEF AppendBegin, hist
  <2>2. Types'
    BY <1>0, <1>2, <2>1 DEF Types, Positions
  <2>3. Producing'
    <3>1. want \in HeaderSize .. BufferSize
      BY <2>1 DEF KeepInv, Producing
    <3>. QED
      BY <1>0, <1>1, <1>2, <2>1, <3>1 DEF Producing
  <2>. QED
    BY <1>3, <1>4, <2>1, <2>2, <2>3 DEF KeepInv
<1>7. CASE WrapMark
  <2>1. /\ ppc = "wrap" /\ ppc' = "wrapPublish"
        /\ UNCHANGED <<write_pos, next_seq, want, pseq, pi, log>>
        /\ buf' = IF Remaining >= HeaderSize
                  THEN [o \in DOMAIN buf |->
                            IF o \in Offset(write_pos) .. Offset(write_pos) + 2
                            THEN Unit(0, Remaining, o - Offset(write_pos))
                            ELSE buf[o]]
                  ELSE buf
    BY <1>7 DEF WrapMark, hist
  <2>2. buf \in [0 .. BufferSize - 1 -> AUnit] /\ buf' \in [0 .. BufferSize - 1 -> AUnit]
    <3>1. buf \in [0 .. BufferSize - 1 -> AUnit]
      BY <1>0 DEF Types
    <3>2. \A o \in Offset(write_pos) .. Offset(write_pos) + 2 :
              Unit(0, Remaining, o - Offset(write_pos)) \in AUnit
      BY <1>0, <1>1 DEF Unit, AUnit, Remaining
    <3>. QED
      BY <2>1, <3>1, <3>2
  <2>3. Types'
    BY <1>0, <1>2, <2>1, <2>2 DEF Types, Positions
  <2>4. Producing'
    BY <1>2, <2>1 DEF KeepInv, Producing
  <2>5. Logged'
    BY <2>1 DEF KeepInv, Logged
  <2>6. UnconfirmedIntact'
    <3>1. ASSUME NEW k \in DOMAIN log, log[k].pos >= confirmed_pos, NEW u \in 0 .. log[k].size - 1
          PROVE  buf'[Offset(log[k].pos) + u] = buf[Offset(log[k].pos) + u]
      <4>1. log[k] \in Entry
        BY <1>0 DEF Types
      <4>2. /\ log[k].pos \in Nat /\ log[k].size \in Nat /\ u \in Nat
            /\ log[k].pos + log[k].size <= write_pos /\ Offset(log[k].pos) + log[k].size <= BufferSize
        BY <4>1 DEF Entry, KeepInv, Logged
      <4>3. Offset(log[k].pos) + u \in 0 .. BufferSize - 1
        <5>1. Offset(log[k].pos) \in 0 .. BufferSize - 1
          BY <4>2, OffsetInBuffer
        <5>2. u < log[k].size
          BY <4>2
        <5>. QED
          BY <1>0, <4>2, <5>1, <5>2
      <4>4. want <= BufferSize /\ write_pos - confirmed_pos + want <= BufferSize
            /\ Offset(write_pos) + want > BufferSize
        BY <1>0, <2>1 DEF KeepInv, Producing
      <4>5. ASSUME Remaining >= HeaderSize, NEW o \in Offset(write_pos) .. Offset(write_pos) + 2
            PROVE  o # Offset(log[k].pos) + u
        <5>1. PICK j \in 0 .. 2 : o = Offset(write_pos) + j
          <6>1. o - Offset(write_pos) \in 0 .. 2 /\ o = Offset(write_pos) + (o - Offset(write_pos))
            BY <1>0, <1>1
          <6>. QED
            BY <6>1
        <5>2. j < BufferSize - Offset(write_pos) /\ j < want
          BY <1>0, <1>1, <4>4, <4>5, <5>1 DEF Remaining
        <5>3. write_pos - confirmed_pos + j < BufferSize /\ Offset(write_pos) + j < BufferSize
          BY <1>0, <1>1, <4>4, <5>1, <5>2
        <5>. QED
          BY <1>0, <3>1, <4>2, <5>1, <5>3, StoreElsewhere
      <4>. QED
        BY <2>1, <2>2, <4>3, <4>5
    <3>. QED
      BY <1>2, <2>1, <3>1 DEF KeepInv, UnconfirmedIntact
  <2>. QED
    BY <1>3, <2>3, <2>4, <2>5, <2>6 DEF KeepInv
<1>8. CASE WrapPublish
  <2>1. /\ ppc = "wrapPublish" /\ write_pos' = write_pos + Remaining /\ ppc' = "try"
        /\ UNCHANGED <<buf, next_seq, want, pseq, pi, log>>
    BY <1>8 DEF WrapPublish, hist
  <2>2. Remaining \in Nat /\ write_pos' \in Nat /\ write_pos <= write_pos'
    BY <1>0, <1>1, <2>1 DEF Remaining
  <2>3. Types'
    BY <1>0, <1>2, <2>1, <2>2 DEF Types, Positions
  <2>4. Producing'
    BY <2>1 DEF KeepInv, Producing
  <2>5. Logged'
    <3>1. \A k \in DOMAIN log : log[k] \in Entry
      BY <1>0 DEF Types
    <3>2. \A k \in DOMAIN log : log[k].pos + log[k].size <= write_pos => log[k].pos + log[k].size <= write_pos'
      BY <1>0, <2>2, <3>1 DEF Entry
    <3>. QED
      BY <2>1, <3>2 DEF KeepInv, Logged
  <2>6. UnconfirmedIntact'
    BY <1>2, <2>1 DEF KeepInv, UnconfirmedIntact
  <2>. QED
    BY <1>3, <2>3, <2>4, <2>5, <2>6 DEF KeepInv
<1>9. CASE AppendFill
  <2>1. /\ ppc = "fill" /\ pi' = pi + 1
        /\ buf' = [buf EXCEPT ![Offset(write_pos) + pi] = Unit(pseq, want, pi)]
        /\ ppc' = IF pi + 1 = want THEN "publish" ELSE "fill"
        /\ UNCHANGED <<write_pos, next_seq, want, pseq, log>>
    BY <1>9 DEF AppendFill, hist
  <2>2. /\ write_pos - confirmed_pos + want <= BufferSize /\ pseq \in 1 .. next_seq - 1
        /\ Offset(write_pos) + want <= BufferSize /\ pi < want
        /\ want \in HeaderSize .. BufferSize
        /\ \A u \in 0 .. pi - 1 : buf[Offset(write_pos) + u] = Unit(pseq, want, u)
    BY <1>0, <2>1 DEF KeepInv, Producing
  <2>3. Offset(write_pos) + pi \in 0 .. BufferSize - 1
    BY <1>0, <1>1, <2>2
  <2>4. buf \in [0 .. BufferSize - 1 -> AUnit] /\ buf' \in [0 .. BufferSize - 1 -> AUnit]
    <3>1. buf \in [0 .. BufferSize - 1 -> AUnit]
      BY <1>0 DEF Types
    <3>2. Unit(pseq, want, pi) \in AUnit
      BY <1>0 DEF Unit, AUnit
    <3>. QED
      BY <2>1, <3>1, <3>2
  <2>5. Types'
    BY <1>0, <1>2, <2>1, <2>4 DEF Types, Positions
  <2>6. Producing'
    <3>1. \A u \in 0 .. pi'- 1 : buf'[Offset(write_pos) + u] = Unit(pseq, want, u)
      <4>1. ASSUME NEW u \in 0 .. pi' - 1
            PROVE  buf'[Offset(write_pos) + u] = Unit(pseq, want, u)
        <5>1. u = pi \/ u \in 0 .. pi - 1
          BY <1>0, <2>1
        <5>2. Offset(write_pos) + u \in 0 .. BufferSize - 1
          BY <1>0, <1>1, <2>2, <5>1
        <5>3. u # pi => Offset(write_pos) + u # Offset(write_pos) + pi
          BY <1>0, <1>1
        <5>. QED
          BY <2>1, <2>2, <2>4, <5>1, <5>2, <5>3
      <4>. QED
        BY <4>1
    <3>2. pi' <= want /\ (ppc' = "publish" <=> pi' = want) /\ ppc' \in {"fill", "publish"}
      BY <1>0, <2>1, <2>2
    <3>. QED
      BY <1>2, <2>1, <2>2, <3>1, <3>2 DEF Producing
  <2>7. Logged'
    BY <2>1 DEF KeepInv, Logged
  <2>8. UnconfirmedIntact'
    <3>1. ASSUME NEW k \in DOMAIN log, log[k].pos >= confirmed_pos, NEW u \in 0 .. log[k].size - 1
          PROVE  buf'[Offset(log[k].pos) + u] = buf[Offset(log[k].pos) + u]
      <4>1. log[k] \in Entry
        BY <1>0 DEF Types
      <4>2. /\ log[k].pos \in Nat /\ log[k].size \in Nat /\ u \in Nat
            /\ log[k].pos + log[k].size <= write_pos /\ Offset(log[k].pos) + log[k].size <= BufferSize
        BY <4>1 DEF Entry, KeepInv, Logged
      <4>3. Offset(log[k].pos) + u \in 0 .. BufferSize - 1
        <5>1. Offset(log[k].pos) \in 0 .. BufferSize - 1
          BY <4>2, OffsetInBuffer
        <5>2. u < log[k].size
          BY <4>2
        <5>. QED
          BY <1>0, <4>2, <5>1, <5>2
      <4>4. write_pos - confirmed_pos + pi < BufferSize /\ Offset(write_pos) + pi < BufferSize
        BY <1>0, <1>1, <2>2
      <4>5. Offset(write_pos) + pi # Offset(log[k].pos) + u
        BY <1>0, <3>1, <4>2, <4>4, StoreElsewhere
      <4>. QED
        BY <2>1, <2>4, <4>3, <4>5
    <3>. QED
      BY <1>2, <2>1, <3>1 DEF KeepInv, UnconfirmedIntact
  <2>. QED
    BY <1>3, <2>5, <2>6, <2>7, <2>8 DEF KeepInv
<1>10. CASE AppendPublish
  <2>. DEFINE e == [seq |-> pseq, pos |-> write_pos, size |-> want]
  <2>1. /\ ppc = "publish" /\ write_pos' = write_pos + want /\ log' = Append(log, e)
        /\ want' = 0 /\ ppc' = "idle" /\ UNCHANGED <<buf, next_seq, pseq, pi>>
    BY <1>10 DEF AppendPublish
  <2>2. /\ Offset(write_pos) + want <= BufferSize /\ want >= HeaderSize
        /\ \A u \in 0 .. want - 1 : buf[Offset(write_pos) + u] = Unit(pseq, want, u)
    BY <1>0, <2>1 DEF KeepInv, Producing
  <2>3. log \in Seq(Entry) /\ e \in Entry /\ log' \in Seq(Entry)
    BY <1>0, <2>1 DEF Types, Entry
  <2>4. Types'
    BY <1>0, <1>2, <2>1, <2>3 DEF Types, Positions
  <2>5. Producing'
    BY <2>1 DEF Producing
  <2>6. \A k \in DOMAIN log' : (k \in DOMAIN log /\ log'[k] = log[k]) \/ log'[k] = e
    BY <2>1, <2>3
  <2>7. Logged'
    <3>1. \A k \in DOMAIN log : log[k] \in Entry
      BY <2>3
    <3>2. \A k \in DOMAIN log : log[k].pos + log[k].size <= write_pos => log[k].pos + log[k].size <= write_pos'
      BY <1>0, <2>1, <3>1 DEF Entry
    <3>. QED
      BY <1>0, <2>1, <2>2, <2>6, <3>2 DEF KeepInv, Logged
  <2>8. UnconfirmedIntact'
    BY <1>2, <2>1, <2>2, <2>6 DEF KeepInv, UnconfirmedIntact
  <2>. QED
    BY <1>3, <2>4, <2>5, <2>7, <2>8 DEF KeepInv
<1>11. CASE ProducerCrash
  <2>1. ppc' = "idle" /\ want' = 0 /\ UNCHANGED <<buf, write_pos, next_seq, pseq, pi, log>>
    BY <1>11 DEF ProducerCrash, ring
  <2>2. Types'
    BY <1>0, <1>2, <2>1 DEF Types, Positions
  <2>3. Producing'
    BY <2>1 DEF Producing
  <2>. QED
    BY <1>3, <1>4, <2>1, <2>2, <2>3 DEF KeepInv
<1>. QED
  BY <1>5, <1>6, <1>7, <1>8, <1>9, <1>10, <1>11 DEF ProducerStep

\* Every step keeps the producer's invariant.
LEMMA NextKeep == KeepInv /\ [Next]_vars => KeepInv'
<1> SUFFICES ASSUME KeepInv, [Next]_vars
             PROVE  KeepInv'
  OBVIOUS
<1>1. CASE UNCHANGED vars
  <2>1. UNCHANGED <<buf, write_pos, read_pos, confirmed_pos, next_seq, ppc, want, pseq, pi, log,
                    cpc, cur, cend, chdr>>
    BY <1>1 DEF vars, ring, producer, consumer, hist
  <2>2. Types' /\ Walking'
    BY <2>1 DEF KeepInv, Types, Positions, Walking
  <2>3. confirmed_pos \in Nat /\ confirmed_pos <= confirmed_pos'
    BY <2>1 DEF KeepInv, Types, Positions
  <2>. QED
    BY <2>1, <2>2, <2>3, FrameKeep DEF KeepInv
<1>2. CASE Next
  <2>1. next_seq \in Nat /\ MaxCount \in Nat
    BY ConstantsAssumption DEF KeepInv, Types
  <2>2. \A s \in 1 .. next_seq : s \in Nat
    BY <2>1
  <2>3. \A n \in 1 .. MaxCount : n \in Nat
    BY <2>1
  <2>. QED
    BY <1>2, <2>2, <2>3, ConsumerKeep, ProducerKeep DEF Next, ConsumerActions, ProducerActions
<1>. QED
  BY <1>1, <1>2

\* The producer's invariant holds throughout.
LEMMA KeepAlways == Spec => []KeepInv
BY InitKeep, NextKeep, PTL DEF Spec

\* An entry that Append published and nobody confirmed is never touched, for
\* every size of buffer and entries, through wraps and crashes (zrt_shm_ring.h:
\* the space check of Append against confirmed_pos).
THEOREM UnconfirmedStayIntact == Spec => []UnconfirmedIntact
<1>1. KeepInv => UnconfirmedIntact
  BY DEF KeepInv
<1>. QED
  BY <1>1, KeepAlways, PTL

----------------------------------------------------------------------------
(* The inductive invariant of the consumer's side.  Nothing is written      *)
(* where the space at the end of the buffer is too short for the header of  *)
(* a skip marker, and a consumer takes the words it finds there for one: of *)
(* what follows such a rest the invariant says nothing (~unmarked).         *)

\* The end of the k-th entry, the start of the k-th or of the next to come,
\* and the positions a walk can be at after k entries.
End(k) == IF k = 0 THEN 0 ELSE log[k].pos + log[k].size
Start(k) == IF k = Len(log) + 1 THEN write_pos ELSE log[k].pos
On(p, k) == k \in 0 .. Len(log) /\ (p = End(k) \/ p = Start(k + 1))

\* Between the k-th entry and the next is nothing, or a marker up to the end
\* of the buffer.
Marker(k) ==
    /\ Start(k + 1) - End(k) = BufferSize - Offset(End(k))
    /\ Start(k + 1) - End(k) >= HeaderSize
    /\ Offset(Start(k + 1)) = 0
    /\ confirmed_pos <= End(k) =>
           \A j \in 0 .. 2 : buf[Offset(End(k)) + j] = Unit(0, Start(k + 1) - End(k), j)

Tiled ==
    /\ \A k \in 0 .. Len(log) : Start(k + 1) = End(k) \/ Marker(k)
    /\ ppc = "wrapPublish" /\ Remaining >= HeaderSize =>
           \A j \in 0 .. 2 : buf[Offset(write_pos) + j] = Unit(0, Remaining, j)

\* Entries follow each other, and so do their seqs.
Ordered ==
    /\ \A i, k \in DOMAIN log :
           i < k => /\ log[i].pos + log[i].size <= log[k].pos
                    /\ log[i].seq < log[k].seq
    /\ \A k \in DOMAIN log :
           /\ log[k].seq \in 1 .. next_seq - 1
           /\ ppc \in {"wrap", "wrapPublish", "fill", "publish"} => log[k].seq < pseq

\* The first n entries have been handed to the consumer; the last batch holds
\* the entries that follow the n-th.
HandedTo(n) == \A i \in 1 .. n : log[i].seq \in handed
BatchFrom(n) ==
    /\ n + Len(batch) <= Len(log)
    /\ \A i \in 1 .. Len(batch) : batch[i] = log[n + i].seq
    /\ HandedTo(n + Len(batch))

\* A consumer that reads with ReadNext.
NextMode ==
    /\ batch = <<>>
    /\ cpc \in {"idle", "next", "copy", "confirm"}
    /\ Len(delivered) <= Len(log)
    /\ \A k \in 1 .. Len(delivered) : delivered[k] = log[k].seq
    /\ HandedTo(Len(delivered))
    /\ On(read_pos, Len(delivered)) /\ confirmed_pos <= read_pos
    /\ \E c \in 0 .. Len(delivered) : On(confirmed_pos, c)
    /\ cpc = "copy" =>
           /\ Len(delivered) < Len(log) /\ read_pos = log[Len(delivered) + 1].pos
           /\ chdr.seq = log[Len(delivered) + 1].seq /\ chdr.size = log[Len(delivered) + 1].size
    /\ cpc = "confirm" =>
           /\ \E j \in 1 .. Len(delivered) : carg = log[j].seq
           /\ \E k \in 0 .. Len(log) : On(cur, k)

\* A consumer that reads with ReadUnconfirmed and has confirmed c entries.
UnconfirmedMode(c) ==
    /\ delivered = <<>>
    /\ On(confirmed_pos, c) /\ HandedTo(c)
    /\ \/ cpc = "idle" /\ BatchFrom(c)
       \/ /\ cpc = "unconfirmed" /\ BatchFrom(c)
          /\ On(cur, c + Len(batch)) /\ confirmed_pos <= cur
       \/ /\ cpc = "confirm"
          /\ \E j \in 1 .. Len(log) : \E k \in 0 .. j - 1 :
                 carg = log[j].seq /\ log[j].pos < cend /\ On(cur, k) /\ BatchFrom(j)
       \/ /\ cpc = "confirmBatch"
          /\ \E k \in 0 .. Len(log) :
                 /\ carg \in Nat /\ On(cur, k) /\ BatchFrom(k + carg)
                 /\ carg > 0 => log[k + carg].pos < cend

Consuming ==
    /\ delivered \in Seq(Nat) /\ batch \in Seq(Nat)
    /\ mode \in {"next", "unconfirmed"}
    /\ mode = "next" => NextMode
    /\ mode = "unconfirmed" => \E c \in 0 .. Len(log) : UnconfirmedMode(c)
    /\ cpc \in {"unconfirmed", "confirm", "confirmBatch"} => cend <= write_pos

ReadInv == Tiled /\ Ordered /\ Consuming

----------------------------------------------------------------------------
(* What a walk meets *)

\* The entries of the log.
LEMMA LogFacts ==
    ASSUME Types
    PROVE  /\ Len(log) \in Nat /\ DOMAIN log = 1 .. Len(log)
           /\ \A k \in 1 .. Len(log) :
                  log[k].seq \in Nat /\ log[k].pos \in Nat /\ log[k].size \in Nat
<1>1. log \in Seq(Entry)
  BY DEF Types
<1>2. \A k \in 1 .. Len(log) : log[k] \in Entry
  BY <1>1
<1>. QED
  BY <1>1, <1>2 DEF Entry

\* The edges of the entries are in order.
LEMMA Edges ==
    ASSUME KeepInv, Tiled, NEW k \in 0 .. Len(log)
    PROVE  /\ End(k) \in Nat /\ Start(k + 1) \in Nat
           /\ End(k) <= Start(k + 1) /\ Start(k + 1) <= write_pos
           /\ k # 0 => End(k) = log[k].pos + log[k].size /\ log[k].pos < End(k)
           /\ k # Len(log) => Start(k + 1) = log[k + 1].pos /\ k + 1 \in 1 .. Len(log)
                             /\ Start(k + 1) < write_pos
           /\ k = Len(log) => Start(k + 1) = write_pos
<1>0. Len(log) \in Nat /\ k \in Nat /\ k <= Len(log)
  BY LogFacts DEF KeepInv
<1>1. /\ Types /\ Logged /\ write_pos \in Nat /\ HeaderSize = 3
      /\ Len(log) \in Nat /\ DOMAIN log = 1 .. Len(log) /\ k \in Nat
      /\ \A i \in 1 .. Len(log) : log[i].pos \in Nat /\ log[i].size \in Nat
  BY LogFacts DEF KeepInv, Types, Positions, HeaderSize
<1>2. End(k) \in Nat /\ (k # 0 => End(k) = log[k].pos + log[k].size /\ log[k].pos < End(k))
  BY <1>1 DEF End, Logged
<1>3. k = Len(log) => Start(k + 1) = write_pos
  BY <1>1 DEF Start
<1>4. ASSUME k # Len(log)
      PROVE  Start(k + 1) = log[k + 1].pos /\ k + 1 \in 1 .. Len(log) /\ log[k + 1].pos < write_pos
  <2>0. k \in Nat /\ Len(log) \in Nat /\ k < Len(log)
    BY <1>0, <1>4
  <2>1. k + 1 \in 1 .. Len(log) /\ k + 1 # Len(log) + 1
    BY <2>0
  <2>2. Start(k + 1) = log[k + 1].pos
    BY <2>1 DEF Start
  <2>3. log[k + 1].pos + log[k + 1].size <= write_pos /\ log[k + 1].size >= 3
    BY <1>1, <2>1 DEF Logged
  <2>4. log[k + 1].pos < write_pos
    BY <1>1, <2>1, <2>3
  <2>. QED
    BY <2>1, <2>2, <2>4
<1>5. Start(k + 1) \in Nat
  BY <1>1, <1>3, <1>4
<1>6. End(k) <= Start(k + 1)
  BY <1>1, <1>2, <1>5 DEF Tiled, Marker
<1>7. Start(k + 1) <= write_pos
  <2>1. write_pos \in Nat
    BY <1>1
  <2>2. CASE k = Len(log)
    BY <1>3, <2>1, <2>2
  <2>3. CASE k # Len(log)
    BY <1>4, <1>5, <2>1, <2>3
  <2>. QED
    BY <2>2, <2>3
<1>8. k # Len(log) => Start(k + 1) = log[k + 1].pos /\ k + 1 \in 1 .. Len(log) /\ Start(k + 1) < write_pos
  BY <1>4
<1>. QED
  BY <1>2, <1>3, <1>5, <1>6, <1>7, <1>8

\* At an unconfirmed entry the consumer reads its header and its data.
LEMMA EntryHere ==
    ASSUME KeepInv, Ordered, NEW k \in 1 .. Len(log), confirmed_pos <= log[k].pos,
           NEW h \in Headers(log[k].pos)
    PROVE  /\ h.seq = log[k].seq /\ h.size = log[k].size /\ h.type
           /\ Acceptable(h) /\ CopyOf(log[k].pos, h) = h.seq
<1>. DEFINE e == log[k]
            o == Offset(e.pos)
<1>1. /\ e.seq \in Nat \ {0} /\ e.pos \in Nat /\ e.size \in Nat /\ e.size >= 3
      /\ o \in Nat /\ o + e.size <= BufferSize /\ BufferSize \in Nat
  <2>1. Types /\ Logged /\ HeaderSize = 3 /\ BufferSize \in Nat /\ next_seq \in Nat
    BY ConstantsAssumption DEF KeepInv, HeaderSize, Types
  <2>2. k \in DOMAIN log /\ e.seq \in Nat /\ e.pos \in Nat /\ e.size \in Nat
    BY <2>1, LogFacts
  <2>3. o \in 0 .. BufferSize - 1
    BY <2>2, OffsetInBuffer
  <2>. QED
    BY <2>1, <2>2, <2>3 DEF Logged, Ordered
<1>2. \A u \in 0 .. e.size - 1 : UnitAt(o + u) = Unit(e.seq, e.size, u)
  <2>1. k \in DOMAIN log
    BY LogFacts DEF KeepInv
  <2>2. \A u \in 0 .. e.size - 1 : buf[o + u] = Unit(e.seq, e.size, u)
    BY <1>1, <2>1 DEF KeepInv, UnconfirmedIntact
  <2>. QED
    BY <1>1, <2>2 DEF UnitAt
<1>. HIDE DEF e, o
<1>3. /\ UnitAt(o) = Unit(e.seq, e.size, 0) /\ UnitAt(o + 2) = Unit(e.seq, e.size, 2)
  <2>1. 0 \in 0 .. e.size - 1 /\ 2 \in 0 .. e.size - 1 /\ o + 0 = o
    BY <1>1
  <2>2. UnitAt(o + 0) = Unit(e.seq, e.size, 0)
    BY <1>2, <2>1
  <2>. QED
    BY <1>2, <2>1, <2>2
<1>4. SeqsAt(o) = {e.seq} /\ MetaAt(o) = {[size |-> e.size, type |-> TRUE]}
  <2>1. /\ UnitAt(o).i = 0 /\ UnitAt(o).seq = e.seq
        /\ UnitAt(o + 2).i = 2 /\ UnitAt(o + 2).seq = e.seq /\ UnitAt(o + 2).size = e.size
    BY <1>3 DEF Unit
  <2>2. (e.seq # 0) = TRUE
    BY <1>1
  <2>3. SeqsAt(o) = {e.seq}
    BY <2>1 DEF SeqsAt
  <2>4. MetaAt(o) = {[size |-> e.size, type |-> e.seq # 0]}
    BY <2>1 DEF MetaAt
  <2>. QED
    BY <2>2, <2>3, <2>4
<1>5. CrcOK(o, e.size)
  BY <1>1, <1>2, <1>3 DEF CrcOK, Unit, HeaderSize
<1>6. h.seq = e.seq /\ h.size = e.size /\ h.type /\ h.crc
  BY <1>4, <1>5 DEF Headers, e, o
<1>7. CopyOf(e.pos, h) = h.seq
  BY <1>2, <1>6 DEF CopyOf, o
<1>. QED
  BY <1>1, <1>6, <1>7 DEF Acceptable, e

\* At an unconfirmed marker it reads a header to skip.
LEMMA MarkerHere ==
    ASSUME KeepInv, Tiled, NEW k \in 0 .. Len(log), Marker(k), confirmed_pos <= End(k),
           NEW h \in Headers(End(k))
    PROVE  h.seq = 0 /\ ~h.type /\ ~Acceptable(h) /\ h.size \in Nat /\ End(k) + h.size = Start(k + 1)
<1>. DEFINE o == Offset(End(k))
            z == Start(k + 1) - End(k)
<1>1. /\ BufferSize \in Nat /\ End(k) \in Nat /\ Start(k + 1) \in Nat
      /\ o \in 0 .. BufferSize - 1 /\ o + 2 < BufferSize /\ z \in Nat
  <2>1. BufferSize \in Nat /\ End(k) \in Nat /\ Start(k + 1) \in Nat
    BY Edges, ConstantsAssumption
  <2>2. o \in 0 .. BufferSize - 1
    BY <2>1, OffsetInBuffer
  <2>3. z = BufferSize - o /\ z >= 3
    BY DEF Marker, HeaderSize
  <2>. QED
    BY <2>1, <2>2, <2>3
<1>2. /\ UnitAt(o) = Unit(0, z, 0) /\ UnitAt(o + 2) = Unit(0, z, 2)
  <2>1. \A j \in 0 .. 2 : buf[o + j] = Unit(0, z, j)
    BY DEF Marker
  <2>2. buf[o + 0] = Unit(0, z, 0) /\ buf[o + 2] = Unit(0, z, 2)
    BY <2>1
  <2>3. o + 0 = o
    BY <1>1
  <2>. QED
    BY <1>1, <2>2, <2>3 DEF UnitAt
<1>. HIDE DEF o, z
<1>3. SeqsAt(o) = {0} /\ MetaAt(o) = {[size |-> z, type |-> FALSE]}
  <2>1. /\ UnitAt(o).i = 0 /\ UnitAt(o).seq = 0
        /\ UnitAt(o + 2).i = 2 /\ UnitAt(o + 2).seq = 0 /\ UnitAt(o + 2).size = z
    BY <1>2 DEF Unit
  <2>2. SeqsAt(o) = {0}
    BY <2>1 DEF SeqsAt
  <2>3. MetaAt(o) = {[size |-> z, type |-> 0 # 0]}
    BY <2>1 DEF MetaAt
  <2>4. (0 # 0) = FALSE
    OBVIOUS
  <2>. QED
    BY <2>2, <2>3, <2>4
<1>4. h.seq = 0 /\ h.size = z /\ ~h.type
  BY <1>3 DEF Headers, o
<1>5. End(k) + z = Start(k + 1)
  BY <1>1 DEF z
<1>. QED
  BY <1>1, <1>4, <1>5 DEF Acceptable

\* A walk at a position below write_pos meets the next entry, or a marker.
LEMMA WalkStep ==
    ASSUME KeepInv, Tiled, Ordered, NEW p \in Nat, NEW k \in 0 .. Len(log), On(p, k),
           confirmed_pos <= p, p < write_pos, NEW h \in Headers(p)
    PROVE  \/ /\ k + 1 \in 1 .. Len(log) /\ p = log[k + 1].pos
              /\ h.seq = log[k + 1].seq /\ h.size = log[k + 1].size
              /\ h.seq # 0 /\ h.type /\ Acceptable(h) /\ CopyOf(p, h) = h.seq
              /\ p + h.size = End(k + 1) /\ On(p + h.size, k + 1)
           \/ /\ h.seq = 0 /\ ~h.type /\ ~Acceptable(h)
              /\ On(p + h.size, k) /\ p < p + h.size
<1>1. /\ Len(log) \in Nat /\ k \in Nat /\ write_pos \in Nat
      /\ p = End(k) \/ p = Start(k + 1)
  BY LogFacts DEF KeepInv, Types, Positions, On
<1>2. CASE p = Start(k + 1)
  <2>1. k + 1 \in 1 .. Len(log) /\ p = log[k + 1].pos
    BY <1>1, <1>2, Edges
  <2>2. /\ h.seq = log[k + 1].seq /\ h.size = log[k + 1].size /\ h.type
        /\ Acceptable(h) /\ CopyOf(p, h) = h.seq
    BY <2>1, EntryHere
  <2>3. p + h.size = End(k + 1)
    BY <1>1, <2>1, <2>2 DEF End
  <2>. QED
    BY <1>1, <2>1, <2>2, <2>3 DEF On, Acceptable
<1>3. CASE p # Start(k + 1)
  <2>1. p = End(k) /\ Marker(k)
    BY <1>1, <1>3 DEF Tiled
  <2>2. h.seq = 0 /\ ~h.type /\ ~Acceptable(h) /\ h.size \in Nat /\ p + h.size = Start(k + 1)
    BY <2>1, MarkerHere
  <2>3. p < p + h.size
    BY <1>3, <2>1, <2>2, Edges
  <2>. QED
    BY <2>2, <2>3 DEF On
<1>. QED
  BY <1>2, <1>3

\* The positions of a walk grow with the entries it has passed.
LEMMA OnGrows ==
    ASSUME KeepInv, Tiled, Ordered, NEW i \in 0 .. Len(log), NEW k \in 0 .. Len(log), i < k,
           NEW p, NEW q, On(p, i), On(q, k)
    PROVE  p < q /\ p <= log[k].pos
<1>1. Len(log) \in Nat /\ i \in Nat /\ k \in Nat
  BY LogFacts DEF KeepInv
<1>2. /\ i + 1 \in 1 .. Len(log) /\ k \in 1 .. Len(log) /\ DOMAIN log = 1 .. Len(log)
      /\ log[i + 1].pos \in Nat /\ log[i + 1].size \in Nat
      /\ log[k].pos \in Nat /\ log[k].size \in Nat
  <2>1. i + 1 \in 1 .. Len(log) /\ k \in 1 .. Len(log)
    BY <1>1
  <2>. QED
    BY <2>1, LogFacts DEF KeepInv
<1>3. Start(i + 1) = log[i + 1].pos /\ log[i + 1].pos <= log[k].pos
  <2>1. Start(i + 1) = log[i + 1].pos
    BY <1>1, Edges
  <2>2. CASE i + 1 = k
    BY <1>2, <2>1, <2>2
  <2>3. CASE i + 1 # k
    <3>1. i + 1 < k
      BY <1>1, <2>3
    <3>2. log[i + 1].pos + log[i + 1].size <= log[k].pos
      BY <1>2, <3>1 DEF Ordered
    <3>. QED
      BY <1>2, <2>1, <3>2
  <2>. QED
    BY <2>2, <2>3
<1>4. p <= log[k].pos /\ p \in Nat
  <2>1. End(i) \in Nat /\ Start(i + 1) \in Nat /\ End(i) <= Start(i + 1)
    BY Edges
  <2>. QED
    BY <1>2, <1>3, <2>1 DEF On
<1>5. log[k].pos < q /\ q \in Nat
  <2>1. /\ End(k) \in Nat /\ Start(k + 1) \in Nat /\ End(k) <= Start(k + 1)
        /\ log[k].pos < End(k)
    <3>1. k \in 0 .. Len(log) /\ k # 0
      BY <1>1
    <3>. QED
      BY <3>1, Edges
  <2>2. q = End(k) \/ q = Start(k + 1)
    BY DEF On
  <2>. QED
    BY <1>2, <2>1, <2>2
<1>. QED
  BY <1>2, <1>4, <1>5

\* The copy of an unconfirmed entry whose header was read is the entry.
LEMMA CopyHere ==
    ASSUME KeepInv, NEW k \in 1 .. Len(log), confirmed_pos <= log[k].pos,
           NEW h, h.seq = log[k].seq, h.size = log[k].size
    PROVE  CopyOf(log[k].pos, h) = h.seq
<1>. DEFINE e == log[k]
            o == Offset(e.pos)
<1>1. /\ k \in DOMAIN log /\ e.pos \in Nat /\ e.size \in Nat /\ o \in Nat
      /\ BufferSize \in Nat /\ confirmed_pos \in Nat
  <2>1. k \in DOMAIN log /\ e.pos \in Nat /\ e.size \in Nat
    BY LogFacts DEF KeepInv
  <2>. QED
    <3>1. o \in 0 .. BufferSize - 1
      BY <2>1, OffsetInBuffer
    <3>2. BufferSize \in Nat /\ confirmed_pos \in Nat
      BY ConstantsAssumption DEF KeepInv, Types, Positions
    <3>. QED
      BY <2>1, <3>1, <3>2
<1>2. o + e.size <= BufferSize
  BY <1>1 DEF KeepInv, Logged
<1>3. \A u \in 0 .. e.size - 1 : buf[o + u] = Unit(e.seq, e.size, u)
  BY <1>1 DEF KeepInv, UnconfirmedIntact
<1>4. \A u \in 0 .. e.size - 1 : UnitAt(o + u) = Unit(e.seq, e.size, u)
  BY <1>1, <1>2, <1>3 DEF UnitAt
<1>. QED
  BY <1>4 DEF CopyOf

----------------------------------------------------------------------------
(* Every step keeps the consumer's invariant *)

\* An empty ring.
LEMMA InitRead == Init => ReadInv
<1> SUFFICES ASSUME Init
             PROVE  ReadInv
  OBVIOUS
<1>1. /\ log = <<>> /\ Len(log) = 0 /\ DOMAIN log = {} /\ write_pos = 0 /\ confirmed_pos = 0
      /\ read_pos = 0 /\ ppc = "idle" /\ cpc = "idle" /\ mode \in {"next", "unconfirmed"}
      /\ delivered = <<>> /\ batch = <<>> /\ Len(delivered) = 0 /\ Len(batch) = 0
  BY ConstantsAssumption DEF Init
<1>2. End(0) = 0 /\ Start(1) = 0 /\ On(0, 0)
  BY <1>1 DEF End, Start, On
<1>3. Tiled
  BY <1>1, <1>2 DEF Tiled
<1>4. Ordered
  BY <1>1 DEF Ordered
<1>5. NextMode
  BY <1>1, <1>2 DEF NextMode, HandedTo
<1>6. UnconfirmedMode(0)
  BY <1>1, <1>2 DEF UnconfirmedMode, HandedTo, BatchFrom
<1>. QED
  BY <1>1, <1>3, <1>4, <1>5, <1>6 DEF ReadInv, Consuming

\* Entries, markers and positions stay when only confirmed_pos moves.
LEMMA FrameRead ==
    ASSUME KeepInv, ReadInv, UNCHANGED <<buf, write_pos, next_seq, ppc, pseq, log>>,
           confirmed_pos' \in Nat, confirmed_pos <= confirmed_pos'
    PROVE  /\ Tiled' /\ Ordered'
           /\ \A p, k : On(p, k)' <=> On(p, k)
<1>1. \A k : End(k)' = End(k) /\ Start(k)' = Start(k)
  BY DEF End, Start
<1>2. \A p, k : On(p, k)' <=> On(p, k)
  BY <1>1 DEF On
<1>3. \A k \in 0 .. Len(log) : Marker(k) => Marker(k)'
  <2>1. confirmed_pos \in Nat
    BY DEF KeepInv, Types, Positions
  <2>2. \A k \in 0 .. Len(log) : End(k) \in Nat
    BY Edges DEF ReadInv
  <2>3. \A k \in 0 .. Len(log) : confirmed_pos' <= End(k)' => confirmed_pos <= End(k)
    BY <1>1, <2>1, <2>2
  <2>. QED
    BY <1>1, <2>3 DEF Marker
<1>4. Tiled'
  BY <1>1, <1>3 DEF ReadInv, Tiled, Remaining
<1>5. Ordered'
  BY DEF ReadInv, Ordered
<1>. QED
  BY <1>2, <1>4, <1>5


\* A step of a consumer that reads with ReadNext.
LEMMA NextModeKeeps ==
    ASSUME KeepInv, ReadInv, mode = "next", ConsumerActions
    PROVE  /\ NextMode' /\ delivered' \in Seq(Nat) /\ batch' \in Seq(Nat)
           /\ cpc' \in {"unconfirmed", "confirm", "confirmBatch"} => cend' <= write_pos'
<1>0. PICK n \in Nat : n = Len(delivered)
  BY DEF ReadInv, Consuming
<1>1. /\ n = Len(delivered) /\ batch = <<>> /\ cpc \in {"idle", "next", "copy", "confirm"}
      /\ delivered \in Seq(Nat) /\ n \in Nat /\ n <= Len(log)
      /\ \A k \in 1 .. n : delivered[k] = log[k].seq
      /\ HandedTo(n) /\ On(read_pos, n) /\ confirmed_pos <= read_pos
      /\ cpc = "confirm" => cend <= write_pos
      /\ Tiled /\ Ordered /\ NextMode
  BY <1>0 DEF ReadInv, Consuming, NextMode
<1>2. /\ read_pos \in Nat /\ write_pos \in Nat /\ confirmed_pos \in Nat /\ cur \in Nat /\ cend \in Nat
      /\ Len(log) \in Nat /\ n \in 0 .. Len(log)
  BY <1>1, LogFacts DEF KeepInv, Types, Positions
<1>3. PICK c \in 0 .. n : On(confirmed_pos, c)
  BY <1>1 DEF NextMode
<1>4. /\ UNCHANGED <<write_pos, log>>
      /\ \A p, k : On(p, k)' <=> On(p, k)
  <2>1. confirmed_pos' \in Nat
    BY ConsumerFrame DEF Positions
  <2>. QED
    BY <2>1, ConsumerFrame, FrameRead
<1>5. UNCHANGED <<handed, delivered>> => (HandedTo(n)' /\ Len(delivered)' = n)
  BY <1>1, <1>4 DEF HandedTo
\* A step that returns nothing to the application and confirms nothing.
<1>6. ASSUME UNCHANGED <<handed, delivered, batch, confirmed_pos>>,
             On(read_pos', n), confirmed_pos <= read_pos',
             cpc' \in {"idle", "next", "copy", "confirm"},
             cpc' = "copy" =>
                 /\ n < Len(log) /\ read_pos' = log[n + 1].pos
                 /\ chdr'.seq = log[n + 1].seq /\ chdr'.size = log[n + 1].size,
             cpc' = "confirm" =>
                 /\ \E j \in 1 .. n : carg' = log[j].seq
                 /\ \E k \in 0 .. Len(log) : On(cur', k)
                 /\ cend' <= write_pos
      PROVE  /\ NextMode' /\ delivered' \in Seq(Nat) /\ batch' \in Seq(Nat)
             /\ cpc' \in {"unconfirmed", "confirm", "confirmBatch"} => cend' <= write_pos'
  <2>1. NextMode'
    BY <1>1, <1>3, <1>4, <1>5, <1>6 DEF NextMode
  <2>. QED
    BY <1>1, <1>4, <1>6, <2>1
<1>7. CASE ReadNextCall
  BY <1>1, <1>6, <1>7 DEF ReadNextCall, ring, hist
<1>8. CASE ReadNextScan
  <2>1. /\ cpc = "next" /\ UNCHANGED <<handed, delivered, batch, confirmed_pos>>
    BY <1>8 DEF ReadNextScan, hist
  <2>2. CASE read_pos >= write_pos
    <3>1. cpc' = "idle" /\ read_pos' = read_pos
      BY <1>2, <1>8, <2>2 DEF ReadNextScan
    <3>. QED
      BY <1>1, <1>6, <2>1, <3>1
  <2>3. CASE ~(read_pos >= write_pos)
    <3>1. read_pos < write_pos
      BY <1>2, <2>3
    <3>2. PICK h \in Headers(read_pos) :
              \/ /\ ~Acceptable(h)
                 /\ read_pos' = read_pos + h.size
                 /\ UNCHANGED <<cpc, chdr>>
              \/ /\ Acceptable(h)
                 /\ chdr' = h
                 /\ cpc' = "copy"
                 /\ UNCHANGED read_pos
      BY <1>8, <2>3 DEF ReadNextScan
    <3>3. CASE Acceptable(h)
      <4>1. /\ n + 1 \in 1 .. Len(log) /\ read_pos = log[n + 1].pos
            /\ h.seq = log[n + 1].seq /\ h.size = log[n + 1].size
        BY <1>1, <1>2, <3>1, <3>3, WalkStep
      <4>2. n < Len(log)
        BY <1>2, <4>1
      <4>. QED
        BY <1>1, <1>6, <2>1, <3>2, <3>3, <4>1, <4>2
    <3>4. CASE ~Acceptable(h)
      <4>1. On(read_pos + h.size, n) /\ read_pos < read_pos + h.size
        BY <1>1, <1>2, <3>1, <3>4, WalkStep
      <4>2. confirmed_pos <= read_pos + h.size
        <5>1. h.size \in Nat
          BY <1>2, HeadersAre DEF KeepInv, Header
        <5>. QED
          BY <1>1, <1>2, <5>1
      <4>. QED
        BY <1>1, <1>6, <2>1, <3>2, <3>4, <4>1, <4>2
    <3>. QED
      BY <3>3, <3>4
  <2>. QED
    BY <2>2, <2>3
<1>9. CASE ReadNextCopy
  <2>1. /\ cpc = "copy" /\ cpc' = "idle" /\ UNCHANGED <<batch, confirmed_pos>>
        /\ delivered' = Append(delivered, CopyOf(read_pos, chdr))
        /\ handed' = handed \cup {chdr.seq}
        /\ read_pos' = read_pos + chdr.size
    BY <1>9 DEF ReadNextCopy
  <2>2. /\ n < Len(log) /\ read_pos = log[n + 1].pos
        /\ chdr.seq = log[n + 1].seq /\ chdr.size = log[n + 1].size
    BY <2>1, <1>1 DEF NextMode
  <2>3. n + 1 \in 1 .. Len(log) /\ n + 1 \in 0 .. Len(log)
    BY <1>2, <2>2
  <2>4. CopyOf(read_pos, chdr) = log[n + 1].seq
    BY <1>1, <2>2, <2>3, CopyHere
  <2>5. read_pos' = End(n + 1)
    BY <1>2, <2>1, <2>2 DEF End
  <2>6. log[n + 1].seq \in Nat /\ log[n + 1].size \in Nat
    BY <2>3, LogFacts DEF KeepInv
  <2>7. delivered' \in Seq(Nat) /\ Len(delivered') = n + 1
    BY <1>1, <2>1, <2>4, <2>6
  <2>8. \A k \in 1 .. n + 1 : delivered'[k] = log[k].seq
    BY <1>1, <2>1, <2>4
  <2>9. HandedTo(n + 1)'
    <3>1. \A k \in 1 .. n : log[k].seq \in handed'
      BY <1>1, <2>1 DEF HandedTo
    <3>2. log[n + 1].seq \in handed'
      BY <2>1, <2>2
    <3>3. \A k \in 1 .. n + 1 : log[k].seq \in handed'
      BY <1>2, <3>1, <3>2
    <3>. QED
      BY <1>4, <3>3 DEF HandedTo
  <2>10. On(read_pos', n + 1) /\ confirmed_pos <= read_pos'
    BY <1>1, <1>2, <2>1, <2>2, <2>3, <2>5, <2>6 DEF On
  <2>11. On(read_pos, n + 1)'
    BY <1>4, <2>10
  <2>12. c \in 0 .. Len(delivered') /\ On(confirmed_pos, c)'
    BY <1>2, <1>3, <1>4, <2>1, <2>7
  <2>13. HandedTo(Len(delivered))' /\ On(read_pos, Len(delivered))'
    BY <2>7, <2>9, <2>11 DEF HandedTo, On
  <2>14. n + 1 <= Len(log)
    BY <1>2, <2>2
  <2>15. NextMode'
    BY <1>1, <1>4, <2>1, <2>7, <2>8, <2>10, <2>12, <2>13, <2>14 DEF NextMode
  <2>. QED
    BY <1>1, <2>1, <2>7, <2>15
<1>10. CASE \E s \in Nat : ConfirmCall(s)
  <2>1. PICK s \in Nat : ConfirmCall(s)
    BY <1>10
  <2>2. PICK k \in DOMAIN delivered : delivered[k] = s /\ UNCHANGED batch
    BY <1>1, <2>1 DEF ConfirmCall
  <2>3. /\ UNCHANGED <<handed, delivered, confirmed_pos, read_pos>> /\ cpc' = "confirm"
        /\ carg' = s /\ cur' = confirmed_pos /\ cend' = write_pos
    BY <2>1 DEF ConfirmCall, ring, hist
  <2>4. k \in 1 .. n /\ carg' = log[k].seq
    BY <1>1, <2>2, <2>3
  <2>5. c \in 0 .. Len(log) /\ On(cur', c)
    BY <1>2, <1>3, <2>3
  <2>. QED
    BY <1>1, <1>2, <1>6, <2>2, <2>3, <2>4, <2>5
<1>11. CASE ConfirmScan
  <2>1. /\ cpc = "confirm" /\ UNCHANGED <<handed, delivered, batch, read_pos, cend>>
    BY <1>11 DEF ConfirmScan, hist
  <2>2. PICK j \in 1 .. n : carg = log[j].seq
    BY <1>1, <2>1 DEF NextMode
  <2>3. PICK k \in 0 .. Len(log) : On(cur, k)
    BY <1>1, <2>1 DEF NextMode
  <2>4. CASE cpc' = "idle" /\ confirmed_pos' = confirmed_pos
    BY <1>1, <1>6, <2>1, <2>4
  <2>5. CASE ~(cpc' = "idle" /\ confirmed_pos' = confirmed_pos)
    <3>1. PICK h \in Headers(cur) :
              /\ cur < cend
              /\ \/ /\ h.seq = carg
                    /\ confirmed_pos' = cur + h.size
                    /\ cpc' = "idle"
                 \/ /\ cur' = cur + h.size
                    /\ UNCHANGED <<confirmed_pos, cpc, carg>>
      BY <1>11, <2>5 DEF ConfirmScan
    <3>2. confirmed_pos <= cur /\ cur < write_pos
      BY <1>1, <1>2, <2>1, <3>1 DEF KeepInv, Walking
    <3>3. \/ /\ k + 1 \in 1 .. Len(log)
             /\ h.seq = log[k + 1].seq /\ h.seq # 0
             /\ On(cur + h.size, k + 1)
          \/ h.seq = 0 /\ On(cur + h.size, k)
      BY <1>1, <1>2, <2>3, <3>2, WalkStep
    <3>4. CASE h.seq = carg /\ confirmed_pos' = cur + h.size /\ cpc' = "idle"
      <4>1. j \in DOMAIN log /\ log[j].seq \in 1 .. next_seq - 1 /\ DOMAIN log = 1 .. Len(log)
        BY <1>1, <1>2, LogFacts DEF KeepInv, Ordered
      <4>2. k + 1 \in DOMAIN log /\ log[k + 1].seq = log[j].seq /\ On(confirmed_pos', k + 1)
        BY <2>2, <3>3, <3>4, <4>1
      <4>3. k + 1 = j
        <5>1. next_seq \in Nat /\ log[k + 1].seq \in Nat
          BY <4>1, <4>2, LogFacts DEF KeepInv, Types
        <5>2. /\ k + 1 < j => log[k + 1].seq < log[j].seq
              /\ j < k + 1 => log[j].seq < log[k + 1].seq
          BY <1>1, <4>1, <4>2 DEF Ordered
        <5>. QED
          <6>1. k \in Nat /\ j \in Nat
            BY <1>1, <4>1
          <6>. QED
            BY <4>2, <5>1, <5>2, <6>1
      <4>4. confirmed_pos' <= read_pos
        <5>1. CASE j = n
          <6>1. h.seq # 0
            BY <2>2, <3>4, <4>1
          <6>2. cur + h.size = End(k + 1)
            BY <1>1, <1>2, <2>3, <3>2, <6>1, WalkStep
          <6>3. confirmed_pos' = End(n)
            BY <3>4, <4>3, <5>1, <6>2
          <6>4. End(n) \in Nat /\ Start(n + 1) \in Nat /\ End(n) <= Start(n + 1)
            BY <1>1, <1>2, Edges
          <6>5. read_pos = End(n) \/ read_pos = Start(n + 1)
            BY <1>1 DEF On
          <6>. QED
            BY <6>3, <6>4, <6>5
        <5>2. CASE j # n
          <6>1. j < n /\ j \in 0 .. Len(log)
            BY <1>2, <5>2
          <6>2. confirmed_pos' < read_pos
            BY <1>1, <1>2, <4>2, <4>3, <6>1, OnGrows
          <6>3. confirmed_pos' \in Nat
            BY ConsumerFrame DEF Positions
          <6>. QED
            BY <1>2, <6>2, <6>3
        <5>. QED
          BY <5>1, <5>2
      <4>5. On(confirmed_pos, j)' /\ On(read_pos, n)'
        BY <1>1, <1>4, <2>1, <4>2, <4>3
      <4>6. j \in 0 .. n
        BY <1>2
      <4>. QED
        BY <1>1, <1>4, <1>5, <2>1, <3>4, <4>4, <4>5, <4>6 DEF NextMode
    <3>5. CASE cur' = cur + h.size /\ UNCHANGED <<confirmed_pos, cpc, carg>>
      <4>1. \E i \in 0 .. Len(log) : On(cur', i)
        <5>1. k + 1 \in 1 .. Len(log) => k + 1 \in 0 .. Len(log)
          BY <1>2
        <5>. QED
          BY <3>3, <3>5, <5>1
      <4>2. cend' <= write_pos
        BY <1>1, <2>1
      <4>. QED
        BY <1>1, <1>6, <2>1, <2>2, <3>5, <4>1, <4>2
    <3>. QED
      BY <3>1, <3>4, <3>5
  <2>. QED
    BY <2>4, <2>5
<1>12. CASE ConsumerCrash
  <2>1. UNCHANGED <<handed, delivered, confirmed_pos, read_pos>> /\ cpc' = "idle" /\ batch' = batch
    BY <1>1, <1>12 DEF ConsumerCrash, ring, hist
  <2>. QED
    BY <1>1, <1>6, <2>1
<1>13. ~ReadUnconfirmedCall /\ ~ReadUnconfirmedScan /\ ~ConfirmBatchScan
  BY <1>1 DEF ReadUnconfirmedCall, ReadUnconfirmedScan, ConfirmBatchScan
<1>14. \A i \in Nat : ~ConfirmBatchCall(i)
  BY <1>1 DEF ConfirmBatchCall
<1>. QED
  BY <1>7, <1>8, <1>9, <1>10, <1>11, <1>12, <1>13, <1>14 DEF ConsumerActions, ConsumerStep


\* The tail of a batch.
LEMMA BatchTail ==
    ASSUME Types, batch \in Seq(Nat), NEW c \in 0 .. Len(log), BatchFrom(c),
           NEW m \in 1 .. Len(batch)
    PROVE  /\ c + m \in 1 .. Len(log) /\ batch[m] = log[c + m].seq
           /\ SubSeq(batch, m + 1, Len(batch)) \in Seq(Nat)
           /\ (UNCHANGED <<log, handed>> /\ batch' = SubSeq(batch, m + 1, Len(batch)))
                  => BatchFrom(c + m)'
<1>1. /\ Len(log) \in Nat /\ c \in Nat /\ m \in Nat /\ Len(batch) \in Nat
      /\ c + Len(batch) <= Len(log) /\ \A i \in 1 .. Len(batch) : batch[i] = log[c + i].seq
  BY LogFacts DEF BatchFrom
<1>2. c + m \in 1 .. Len(log) /\ batch[m] = log[c + m].seq
  BY <1>1
<1>. DEFINE t == SubSeq(batch, m + 1, Len(batch))
<1>3. t \in Seq(Nat) /\ Len(t) = Len(batch) - m /\ \A i \in 1 .. Len(t) : t[i] = batch[m + i]
  BY <1>1
<1>4. ASSUME UNCHANGED <<log, handed>>, batch' = t
      PROVE  BatchFrom(c + m)'
  <2>. HIDE DEF t
  <2>1. c + m + Len(t) <= Len(log) /\ c + m + Len(t) = c + Len(batch)
    BY <1>1, <1>3
  <2>2. ASSUME NEW i \in 1 .. Len(t)
        PROVE  t[i] = log[c + m + i].seq
    <3>0. i \in Nat /\ i >= 1 /\ i <= Len(batch) - m /\ t[i] = batch[m + i]
      BY <1>1, <1>3
    <3>1. m + i \in 1 .. Len(batch) /\ c + (m + i) = c + m + i /\ t[i] = batch[m + i]
      BY <1>1, <3>0
    <3>2. batch[m + i] = log[c + (m + i)].seq
      BY <1>1, <3>1
    <3>. QED
      BY <3>1, <3>2
  <2>3. \A i \in 1 .. c + m + Len(t) : log[i].seq \in handed
    BY <2>1 DEF BatchFrom, HandedTo
  <2>. QED
    BY <1>4, <2>1, <2>2, <2>3 DEF BatchFrom, HandedTo
<1>. QED
  BY <1>2, <1>3, <1>4

\* A step of a consumer that reads with ReadUnconfirmed.
LEMMA UnconfirmedModeKeeps ==
    ASSUME KeepInv, ReadInv, mode = "unconfirmed", ConsumerActions
    PROVE  /\ \E c \in 0 .. Len(log') : UnconfirmedMode(c)'
           /\ delivered' \in Seq(Nat) /\ batch' \in Seq(Nat)
           /\ cpc' \in {"unconfirmed", "confirm", "confirmBatch"} => cend' <= write_pos'
<1>1. /\ delivered \in Seq(Nat) /\ batch \in Seq(Nat) /\ Types
      /\ cpc \in {"unconfirmed", "confirm", "confirmBatch"} => cend <= write_pos
      /\ Tiled /\ Ordered
  BY DEF KeepInv, ReadInv, Consuming
<1>2. PICK c \in 0 .. Len(log) : UnconfirmedMode(c)
  BY DEF ReadInv, Consuming
<1>3. /\ delivered = <<>> /\ On(confirmed_pos, c) /\ HandedTo(c)
      /\ cpc \in {"idle", "unconfirmed", "confirm", "confirmBatch"}
  BY <1>2 DEF UnconfirmedMode
<1>4. /\ write_pos \in Nat /\ confirmed_pos \in Nat /\ cur \in Nat /\ cend \in Nat
      /\ Len(log) \in Nat /\ c \in Nat /\ Len(batch) \in Nat /\ DOMAIN log = 1 .. Len(log)
  BY <1>1, LogFacts DEF Types, Positions
<1>5. /\ UNCHANGED <<write_pos, log>>
      /\ \A p, k : On(p, k)' <=> On(p, k)
  <2>1. confirmed_pos' \in Nat
    BY ConsumerFrame DEF Positions
  <2>. QED
    BY <2>1, ConsumerFrame, FrameRead
<1>6. UNCHANGED handed => \A i : HandedTo(i)' <=> HandedTo(i)
  BY <1>5 DEF HandedTo
<1>7. UNCHANGED <<handed, batch>> => \A i : BatchFrom(i)' <=> BatchFrom(i)
  BY <1>5 DEF BatchFrom, HandedTo
<1>8. CASE ReadUnconfirmedCall
  <2>1. /\ UNCHANGED <<confirmed_pos, delivered, handed>> /\ cpc' = "unconfirmed"
        /\ cur' = confirmed_pos /\ cend' = write_pos /\ batch' = <<>>
    BY <1>8 DEF ReadUnconfirmedCall, ring, hist
  <2>2. On(confirmed_pos, c)' /\ HandedTo(c)'
    BY <1>3, <1>5, <1>6, <2>1
  <2>3. Len(batch') = 0 /\ c + 0 = c
    BY <1>4, <2>1
  <2>4. BatchFrom(c)' /\ On(cur, c + Len(batch))'
    BY <1>4, <1>5, <2>1, <2>2, <2>3 DEF BatchFrom, HandedTo, On
  <2>5. UnconfirmedMode(c)'
    BY <1>3, <1>4, <2>1, <2>2, <2>4 DEF UnconfirmedMode
  <2>. QED
    BY <1>1, <1>4, <1>5, <2>1, <2>5
<1>9. CASE ReadUnconfirmedScan
  <2>. DEFINE n == c + Len(batch)
  <2>1. /\ cpc = "unconfirmed" /\ UNCHANGED <<confirmed_pos, delivered, cend>>
    BY <1>9 DEF ReadUnconfirmedScan, ring, hist
  <2>2. BatchFrom(c) /\ On(cur, n) /\ confirmed_pos <= cur
    BY <1>2, <2>1 DEF UnconfirmedMode
  <2>3. CASE cpc' = "idle" /\ UNCHANGED <<cur, batch, handed>>
    <3>1. On(confirmed_pos, c)' /\ HandedTo(c)' /\ BatchFrom(c)'
      BY <1>3, <1>5, <1>6, <1>7, <2>1, <2>2, <2>3
    <3>2. UnconfirmedMode(c)'
      BY <1>3, <2>1, <2>3, <3>1 DEF UnconfirmedMode
    <3>. QED
      BY <1>1, <1>5, <2>1, <2>3, <3>2
  <2>4. CASE ~(cpc' = "idle" /\ UNCHANGED <<cur, batch, handed>>)
    <3>1. PICK h \in Headers(cur) :
              /\ cur < cend /\ cpc' = cpc
              /\ cur' = cur + h.size
              /\ \/ /\ ~Acceptable(h)
                    /\ UNCHANGED <<batch, handed>>
                 \/ /\ Acceptable(h)
                    /\ batch' = Append(batch, CopyOf(cur, h))
                    /\ handed' = handed \cup {h.seq}
      BY <1>9, <2>4 DEF ReadUnconfirmedScan
    <3>2. cur < write_pos /\ n \in 0 .. Len(log)
      BY <1>1, <1>4, <2>1, <2>2, <3>1 DEF BatchFrom
    <3>3. cend' <= write_pos'
      BY <1>1, <1>5, <2>1
    <3>4. confirmed_pos' <= cur'
      <4>1. h.size \in Nat
        BY <1>4, HeadersAre DEF KeepInv, Header
      <4>. QED
        BY <1>4, <2>1, <2>2, <3>1, <4>1
    <3>5. CASE ~Acceptable(h)
      <4>1. On(cur', n)
        BY <1>1, <1>4, <2>2, <3>1, <3>2, <3>5, WalkStep
      <4>2. UNCHANGED <<batch, handed>>
        BY <3>1, <3>5
      <4>3. On(confirmed_pos, c)' /\ HandedTo(c)' /\ BatchFrom(c)' /\ On(cur, c + Len(batch))'
        BY <1>3, <1>5, <1>6, <1>7, <2>1, <2>2, <4>1, <4>2
      <4>4. UnconfirmedMode(c)'
        BY <1>3, <2>1, <3>1, <3>4, <4>3 DEF UnconfirmedMode
      <4>. QED
        BY <1>1, <1>5, <2>1, <3>3, <4>2, <4>4
    <3>6. CASE Acceptable(h)
      <4>1. /\ n + 1 \in 1 .. Len(log) /\ h.seq = log[n + 1].seq /\ CopyOf(cur, h) = h.seq
            /\ On(cur', n + 1)
        BY <1>1, <1>4, <2>2, <3>1, <3>2, <3>6, WalkStep
      <4>2. log[n + 1].seq \in Nat
        BY <1>1, <4>1, LogFacts
      <4>3. batch' = Append(batch, log[n + 1].seq) /\ handed' = handed \cup {log[n + 1].seq}
        BY <3>1, <3>6, <4>1
      <4>4. /\ batch' \in Seq(Nat) /\ Len(batch') = Len(batch) + 1
            /\ c + Len(batch') = n + 1
            /\ \A i \in 1 .. Len(batch) : batch'[i] = batch[i]
            /\ batch'[Len(batch) + 1] = log[n + 1].seq
        BY <1>1, <1>4, <4>2, <4>3
      <4>5. \A i \in 1 .. Len(batch') : batch'[i] = log[c + i].seq
        <5>1. \A i \in 1 .. Len(batch) : batch[i] = log[c + i].seq
          BY <2>2 DEF BatchFrom
        <5>2. \A i \in 1 .. Len(batch) + 1 : i \in 1 .. Len(batch) \/ i = Len(batch) + 1
          BY <1>4
        <5>3. c + (Len(batch) + 1) = n + 1
          BY <1>4
        <5>. QED
          BY <4>4, <5>1, <5>2, <5>3
      <4>6. \A i \in 1 .. n + 1 : log[i].seq \in handed'
        <5>1. \A i \in 1 .. n : log[i].seq \in handed
          BY <2>2 DEF BatchFrom, HandedTo
        <5>2. \A i \in 1 .. n + 1 : i \in 1 .. n \/ i = n + 1
          BY <3>2
        <5>. QED
          BY <4>3, <5>1, <5>2
      <4>7. BatchFrom(c)'
        <5>1. n + 1 <= Len(log)
          BY <4>1, <1>4
        <5>. QED
          BY <1>5, <4>4, <4>5, <4>6, <5>1 DEF BatchFrom, HandedTo
      <4>8. HandedTo(c)'
        BY <1>3, <1>5, <4>3 DEF HandedTo
      <4>9. On(cur, c + Len(batch))'
        <5>1. On(cur', c + Len(batch'))
          BY <4>1, <4>4
        <5>. QED
          BY <1>5, <5>1 DEF On, End, Start
      <4>10. On(confirmed_pos, c)'
        BY <1>3, <1>5, <2>1
      <4>11. UnconfirmedMode(c)'
        BY <1>3, <2>1, <3>1, <3>4, <4>7, <4>8, <4>9, <4>10 DEF UnconfirmedMode
      <4>. QED
        BY <1>1, <1>5, <2>1, <3>3, <4>4, <4>11
    <3>. QED
      BY <3>5, <3>6
  <2>. QED
    BY <2>3, <2>4

<1>10. CASE \E s \in Nat : ConfirmCall(s)
  <2>1. PICK s \in Nat : ConfirmCall(s)
    BY <1>10
  <2>2. PICK m \in 1 .. Len(batch) : batch[m] = s /\ batch' = SubSeq(batch, m + 1, Len(batch))
    <3>1. DOMAIN delivered = {} /\ DOMAIN batch = 1 .. Len(batch)
      BY <1>1, <1>3
    <3>. QED
      BY <2>1, <3>1 DEF ConfirmCall
  <2>3. /\ cpc = "idle" /\ cpc' = "confirm" /\ carg' = s
        /\ UNCHANGED <<confirmed_pos, delivered, handed>>
        /\ cur' = confirmed_pos /\ cend' = write_pos
    BY <2>1 DEF ConfirmCall, ring, hist
  <2>4. BatchFrom(c)
    BY <1>2, <2>3 DEF UnconfirmedMode
  <2>5. PICK j \in Nat : j = c + m
    BY <1>4
  <2>6. /\ j \in 1 .. Len(log) /\ carg' = log[j].seq /\ batch' \in Seq(Nat)
    BY <1>1, <2>2, <2>3, <2>4, <2>5, BatchTail
  <2>7. BatchFrom(j)'
    BY <1>1, <1>5, <2>2, <2>3, <2>4, <2>5, BatchTail
  <2>8. log[j].pos < cend'
    <3>1. log[j].pos + log[j].size <= write_pos /\ log[j].size >= 3 /\ log[j].pos \in Nat /\ log[j].size \in Nat
      BY <1>1, <1>4, <2>6, LogFacts DEF KeepInv, Logged, HeaderSize
    <3>. QED
      BY <1>4, <2>3, <3>1
  <2>9. c \in 0 .. j - 1
    BY <1>4, <2>5
  <2>10. On(confirmed_pos, c)' /\ HandedTo(c)' /\ On(cur, c)'
    BY <1>3, <1>5, <1>6, <2>3
  <2>11. UnconfirmedMode(c)'
    BY <1>3, <1>5, <2>3, <2>6, <2>7, <2>8, <2>9, <2>10 DEF UnconfirmedMode
  <2>. QED
    BY <1>1, <1>4, <1>5, <2>3, <2>6, <2>11
<1>11. CASE ConfirmScan
  <2>1. cpc = "confirm" /\ UNCHANGED <<batch, delivered, handed, cend>>
    BY <1>11 DEF ConfirmScan, hist
  <2>0. PICK j \in 1 .. Len(log) : \E k \in 0 .. j - 1 :
            carg = log[j].seq /\ log[j].pos < cend /\ On(cur, k) /\ BatchFrom(j)
    BY <1>2, <2>1 DEF UnconfirmedMode
  <2>2. PICK k \in 0 .. j - 1 :
            carg = log[j].seq /\ log[j].pos < cend /\ On(cur, k) /\ BatchFrom(j)
    BY <2>0
  <2>3. /\ j \in Nat /\ k \in Nat /\ k < j /\ k \in 0 .. Len(log) /\ k + 1 \in 1 .. Len(log)
        /\ j \in 0 .. Len(log) /\ log[j].pos \in Nat
    BY <1>1, <1>4, <2>2, LogFacts
  <2>4. cur <= log[j].pos /\ cur < cend /\ cur < write_pos /\ confirmed_pos <= cur
    <3>1. On(End(j), j)
      BY <2>3 DEF On
    <3>2. cur <= log[j].pos
      BY <1>1, <2>2, <2>3, <3>1, OnGrows
    <3>3. confirmed_pos <= cur
      BY <2>1 DEF KeepInv, Walking
    <3>. QED
      BY <1>1, <1>4, <2>1, <2>2, <2>3, <3>2, <3>3
  <2>5. PICK h \in Headers(cur) :
            \/ /\ h.seq = carg
               /\ confirmed_pos' = cur + h.size
               /\ cpc' = "idle"
               /\ UNCHANGED cur
            \/ h.seq > carg
            \/ /\ h.seq < carg
               /\ cur' = cur + h.size
               /\ UNCHANGED <<confirmed_pos, cpc, carg>>
    <3>1. ~(cur >= cend)
      BY <1>4, <2>4
    <3>. QED
      BY <1>11, <3>1 DEF ConfirmScan
  <2>6. \/ /\ h.seq = log[k + 1].seq /\ On(cur + h.size, k + 1)
        \/ h.seq = 0 /\ On(cur + h.size, k)
    BY <1>1, <1>4, <2>2, <2>3, <2>4, WalkStep
  <2>7. /\ log[j].seq \in Nat \ {0} /\ log[k + 1].seq \in Nat
        /\ k + 1 = j \/ log[k + 1].seq < log[j].seq
    <3>1. next_seq \in Nat /\ log[j].seq \in 1 .. next_seq - 1 /\ log[k + 1].seq \in 1 .. next_seq - 1
      BY <1>1, <1>4, <2>3 DEF Types, Ordered
    <3>2. k + 1 < j => log[k + 1].seq < log[j].seq
      BY <1>1, <1>4, <2>3 DEF Ordered
    <3>. QED
      BY <2>3, <3>1, <3>2
  <2>8. HandedTo(j)
    <3>1. Len(batch) \in Nat /\ j + Len(batch) >= j
      BY <1>4, <2>3
    <3>. QED
      BY <2>2, <2>3, <3>1 DEF BatchFrom, HandedTo
  <2>9. CASE h.seq = carg /\ confirmed_pos' = cur + h.size /\ cpc' = "idle"
    <3>1. k + 1 = j /\ On(confirmed_pos', j)
      BY <2>2, <2>6, <2>7, <2>9
    <3>2. On(confirmed_pos, j)' /\ HandedTo(j)' /\ BatchFrom(j)'
      BY <1>5, <1>6, <1>7, <2>1, <2>2, <2>8, <3>1
    <3>3. UnconfirmedMode(j)'
      BY <1>3, <2>1, <2>9, <3>2 DEF UnconfirmedMode
    <3>. QED
      BY <1>1, <1>5, <2>1, <2>3, <2>9, <3>3
  <2>10. CASE h.seq < carg /\ cur' = cur + h.size /\ UNCHANGED <<confirmed_pos, cpc, carg>>
    <3>1. PICK i \in 0 .. j - 1 : On(cur', i)
      <4>1. CASE h.seq = log[k + 1].seq /\ On(cur + h.size, k + 1)
        <5>1. k + 1 # j
          BY <2>2, <2>7, <2>10, <4>1
        <5>2. k + 1 \in 0 .. j - 1
          BY <2>3, <5>1
        <5>. QED
          BY <2>10, <4>1, <5>2
      <4>2. CASE h.seq = 0 /\ On(cur + h.size, k)
        BY <2>2, <2>10, <4>2
      <4>. QED
        BY <2>6, <4>1, <4>2
    <3>2. On(confirmed_pos, c)' /\ HandedTo(c)' /\ BatchFrom(j)' /\ On(cur, i)'
      BY <1>3, <1>5, <1>6, <1>7, <2>1, <2>2, <2>10, <3>1
    <3>3. carg' = log'[j].seq /\ log'[j].pos < cend' /\ j \in 1 .. Len(log')
      BY <1>5, <2>1, <2>2, <2>10
    <3>4. UnconfirmedMode(c)'
      BY <1>3, <2>1, <2>10, <3>1, <3>2, <3>3 DEF UnconfirmedMode
    <3>. QED
      BY <1>1, <1>5, <2>1, <3>4
  <2>11. ~(h.seq > carg)
    BY <2>2, <2>6, <2>7
  <2>. QED
    BY <2>5, <2>9, <2>10, <2>11
<1>12. CASE \E m \in Nat : ConfirmBatchCall(m)
  <2>1. PICK m \in 1 .. Len(batch) : ConfirmBatchCall(m)
    BY <1>12 DEF ConfirmBatchCall
  <2>2. /\ cpc = "idle" /\ cpc' = "confirmBatch" /\ carg' = m
        /\ UNCHANGED <<confirmed_pos, delivered, handed>>
        /\ cur' = confirmed_pos /\ cend' = write_pos
        /\ batch' = SubSeq(batch, m + 1, Len(batch))
    BY <2>1 DEF ConfirmBatchCall, ring, hist
  <2>3. BatchFrom(c)
    BY <1>2, <2>2 DEF UnconfirmedMode
  <2>4. PICK j \in Nat : j = c + m
    BY <1>4
  <2>5. j \in 1 .. Len(log) /\ batch' \in Seq(Nat) /\ BatchFrom(j)'
    BY <1>1, <1>5, <2>2, <2>3, <2>4, BatchTail
  <2>6. log[j].pos < cend'
    <3>1. log[j].pos + log[j].size <= write_pos /\ log[j].size >= 3 /\ log[j].pos \in Nat /\ log[j].size \in Nat
      BY <1>1, <1>4, <2>5, LogFacts DEF KeepInv, Logged, HeaderSize
    <3>2. cend' = write_pos /\ write_pos \in Nat
      BY <1>4, <2>2
    <3>. QED
      BY <3>1, <3>2
  <2>7. c + carg' = j /\ carg' \in Nat
    BY <1>4, <2>2, <2>4
  <2>8. BatchFrom(c + carg)' /\ log'[c + carg'].pos < cend'
    BY <1>5, <2>5, <2>6, <2>7 DEF BatchFrom, HandedTo
  <2>9. On(confirmed_pos, c)' /\ HandedTo(c)' /\ On(cur, c)' /\ c \in 0 .. Len(log')
    BY <1>3, <1>5, <1>6, <2>2
  <2>10. UnconfirmedMode(c)'
    BY <1>3, <2>2, <2>7, <2>8, <2>9 DEF UnconfirmedMode
  <2>. QED
    BY <1>1, <1>4, <1>5, <2>2, <2>5, <2>9, <2>10
<1>13. CASE ConfirmBatchScan
  <2>1. cpc = "confirmBatch" /\ UNCHANGED <<batch, delivered, handed, cend>>
    BY <1>13 DEF ConfirmBatchScan, hist
  <2>2. PICK k \in 0 .. Len(log) :
            /\ carg \in Nat /\ On(cur, k) /\ BatchFrom(k + carg)
            /\ carg > 0 => log[k + carg].pos < cend
    BY <1>2, <2>1 DEF UnconfirmedMode
  <2>3. confirmed_pos <= cur
    BY <2>1 DEF KeepInv, Walking
  <2>4. k \in Nat /\ k + carg \in 0 .. Len(log)
    BY <1>4, <2>2 DEF BatchFrom
  <2>5. CASE carg = 0
    <3>1. confirmed_pos' = cur /\ cpc' = "idle"
      BY <1>13, <2>5 DEF ConfirmBatchScan
    <3>2. BatchFrom(k) /\ On(cur, k)
      BY <2>2, <2>4, <2>5
    <3>3. HandedTo(k)
      BY <1>4, <2>4, <3>2 DEF BatchFrom, HandedTo
    <3>4. On(confirmed_pos, k)' /\ HandedTo(k)' /\ BatchFrom(k)'
      BY <1>5, <1>6, <1>7, <2>1, <3>1, <3>2, <3>3
    <3>5. UnconfirmedMode(k)'
      BY <1>3, <2>1, <3>1, <3>4 DEF UnconfirmedMode
    <3>. QED
      BY <1>1, <1>5, <2>1, <3>1, <3>5
  <2>6. CASE carg # 0
    <3>1. carg > 0 /\ k < k + carg
      BY <2>2, <2>4, <2>6
    <3>2. PICK j \in 1 .. Len(log) : j = k + carg /\ BatchFrom(j) /\ log[j].pos < cend
      <4>1. k + carg \in 1 .. Len(log)
        BY <1>4, <2>2, <2>4, <3>1
      <4>. QED
        BY <2>2, <3>1, <4>1
    <3>3. cur < cend /\ cur < write_pos
      <4>1. On(End(j), j) /\ j \in 0 .. Len(log)
        BY <1>4 DEF On
      <4>2. cur <= log[j].pos
        BY <1>1, <2>2, <3>1, <3>2, <4>1, OnGrows
      <4>3. log[j].pos \in Nat
        BY <1>1, LogFacts
      <4>. QED
        BY <1>1, <1>4, <2>1, <3>2, <4>2, <4>3
    <3>4. PICK h \in Headers(cur) :
              /\ cur' = cur + h.size
              /\ carg' = IF h.seq # 0 /\ h.type THEN carg - 1 ELSE carg
              /\ UNCHANGED <<confirmed_pos, cpc>>
      <4>1. ~(cur >= cend) /\ ~(carg = 0)
        BY <1>4, <2>6, <3>3
      <4>. QED
        BY <1>13, <4>1 DEF ConfirmBatchScan
    <3>5. PICK i \in 0 .. Len(log) : On(cur', i) /\ i + carg' = j /\ carg' \in Nat
      <4>1. \/ /\ k + 1 \in 1 .. Len(log) /\ h.seq # 0 /\ h.type
               /\ On(cur + h.size, k + 1)
            \/ h.seq = 0 /\ On(cur + h.size, k)
        BY <1>1, <1>4, <2>2, <2>3, <3>3, WalkStep
      <4>2. CASE k + 1 \in 1 .. Len(log) /\ h.seq # 0 /\ h.type /\ On(cur + h.size, k + 1)
        <5>1. carg' = carg - 1 /\ cur' = cur + h.size
          BY <3>4, <4>2
        <5>2. k \in Nat /\ carg \in Nat /\ carg > 0 /\ j = k + carg /\ k + 1 \in 1 .. Len(log)
          BY <2>2, <3>1, <3>2, <4>2
        <5>3. k + 1 \in 0 .. Len(log) /\ (k + 1) + carg' = j /\ carg' \in Nat
          BY <1>4, <5>1, <5>2
        <5>. QED
          BY <4>2, <5>1, <5>3
      <4>3. CASE h.seq = 0 /\ On(cur + h.size, k)
        BY <2>2, <3>2, <3>4, <4>3
      <4>. QED
        BY <4>1, <4>2, <4>3
    <3>6. On(confirmed_pos, c)' /\ HandedTo(c)' /\ On(cur, i)' /\ BatchFrom(j)'
      BY <1>3, <1>5, <1>6, <1>7, <2>1, <3>2, <3>4, <3>5
    <3>7. BatchFrom(i + carg)' /\ (carg' > 0 => log'[i + carg'].pos < cend')
      BY <1>5, <2>1, <3>2, <3>5, <3>6 DEF BatchFrom, HandedTo
    <3>8. UnconfirmedMode(c)'
      BY <1>3, <1>5, <2>1, <3>4, <3>5, <3>6, <3>7 DEF UnconfirmedMode
    <3>. QED
      BY <1>1, <1>5, <2>1, <3>8
  <2>. QED
    BY <2>5, <2>6
<1>14. CASE ConsumerCrash
  <2>1. UNCHANGED <<handed, delivered, confirmed_pos>> /\ cpc' = "idle" /\ batch' = <<>>
    BY <1>14 DEF ConsumerCrash, ring, hist
  <2>2. On(confirmed_pos, c)' /\ HandedTo(c)' /\ Len(batch') = 0 /\ c + 0 = c
    BY <1>3, <1>4, <1>5, <1>6, <2>1
  <2>3. BatchFrom(c)'
    BY <1>4, <1>5, <2>1, <2>2 DEF BatchFrom, HandedTo
  <2>4. UnconfirmedMode(c)'
    BY <1>3, <2>1, <2>2, <2>3 DEF UnconfirmedMode
  <2>. QED
    BY <1>1, <1>5, <2>1, <2>4
<1>15. ~ReadNextCall /\ ~ReadNextScan /\ ~ReadNextCopy
  BY <1>3 DEF ReadNextCall, ReadNextScan, ReadNextCopy
<1>. QED
  BY <1>8, <1>9, <1>10, <1>11, <1>12, <1>13, <1>14, <1>15 DEF ConsumerActions, ConsumerStep


\* What the consumer knows stays when the log and write_pos grow.
LEMMA GrowRead ==
    ASSUME KeepInv, ReadInv,
           UNCHANGED <<consumer, read_pos, confirmed_pos, delivered, handed, mode>>,
           Len(log') \in Nat, Len(log) <= Len(log'),
           \A k \in 1 .. Len(log) : log'[k] = log[k],
           write_pos' \in Nat, write_pos <= write_pos',
           \A p, k : On(p, k) => On(p, k)'
    PROVE  Consuming'
<1>1. /\ UNCHANGED <<cpc, cur, cend, chdr, carg, batch, read_pos, confirmed_pos, delivered, handed, mode>>
      /\ delivered \in Seq(Nat) /\ batch \in Seq(Nat) /\ Len(delivered) \in Nat /\ Len(batch) \in Nat
      /\ mode \in {"next", "unconfirmed"} /\ Len(log) \in Nat /\ write_pos \in Nat /\ cend \in Nat
      /\ Consuming
  BY LogFacts DEF consumer, KeepInv, Types, Positions, ReadInv, Consuming
<1>2. ASSUME NEW n \in Nat, n <= Len(log), HandedTo(n)
      PROVE  HandedTo(n)'
  <2>1. \A i \in 1 .. n : i \in 1 .. Len(log)
    BY <1>1, <1>2
  <2>. QED
    BY <1>1, <1>2, <2>1 DEF HandedTo
<1>3. ASSUME NEW n \in Nat, BatchFrom(n)
      PROVE  BatchFrom(n)'
  <2>1. n + Len(batch) \in Nat /\ n + Len(batch) <= Len(log) /\ n + Len(batch) <= Len(log')
    BY <1>1, <1>3 DEF BatchFrom
  <2>2. HandedTo(n + Len(batch))'
    BY <1>1, <1>2, <1>3, <2>1 DEF BatchFrom, HandedTo
  <2>3. \A i \in 1 .. Len(batch) : batch[i] = log'[n + i].seq
    <3>1. \A i \in 1 .. Len(batch) : n + i \in 1 .. Len(log)
      BY <1>1, <2>1
    <3>. QED
      BY <1>3, <3>1 DEF BatchFrom
  <2>. QED
    BY <1>1, <2>1, <2>2, <2>3 DEF BatchFrom
<1>4. cpc' \in {"unconfirmed", "confirm", "confirmBatch"} => cend' <= write_pos'
  BY <1>1 DEF Consuming
<1>5. ASSUME mode = "next"
      PROVE  NextMode'
  <2>1. NextMode
    BY <1>1, <1>5 DEF Consuming
  <2>. PICK d \in Nat : d = Len(delivered)
    BY <1>1
  <2>2. d <= Len(log) /\ HandedTo(d) /\ HandedTo(d)' /\ Len(delivered') = d
    BY <1>1, <1>2, <2>1 DEF NextMode
  <2>3. \A k \in 1 .. d : log'[k] = log[k] /\ k \in 1 .. Len(log)
    BY <1>1, <2>2
  <2>4. \A k \in 1 .. d : delivered'[k] = log'[k].seq
    BY <1>1, <2>1, <2>3 DEF NextMode
  <2>5. d <= Len(log')
    BY <1>1, <2>2
  <2>6. On(read_pos, d)' /\ confirmed_pos' <= read_pos'
    BY <1>1, <2>1 DEF NextMode
  <2>7. \E c \in 0 .. d : On(confirmed_pos, c)'
    BY <1>1, <2>1 DEF NextMode
  <2>8. cpc' = "copy" =>
            /\ d < Len(log') /\ read_pos' = log'[d + 1].pos
            /\ chdr'.seq = log'[d + 1].seq /\ chdr'.size = log'[d + 1].size
    <3>1. d < Len(log) => d < Len(log') /\ log'[d + 1] = log[d + 1]
      BY <1>1
    <3>. QED
      BY <1>1, <2>1, <3>1 DEF NextMode
  <2>9. cpc' = "confirm" => \E j \in 1 .. d : carg' = log'[j].seq
    BY <1>1, <2>1, <2>3 DEF NextMode
  <2>10. cpc' = "confirm" => \E k \in 0 .. Len(log') : On(cur, k)'
    <3>1. \A k \in 0 .. Len(log) : k \in 0 .. Len(log')
      BY <1>1
    <3>. QED
      BY <1>1, <2>1, <3>1 DEF NextMode
  <2>11. HandedTo(Len(delivered))' /\ On(read_pos, Len(delivered))'
    BY <2>2, <2>6 DEF HandedTo, On
  <2>. QED
    BY <1>1, <2>1, <2>2, <2>4, <2>5, <2>6, <2>7, <2>8, <2>9, <2>10, <2>11 DEF NextMode
<1>6. ASSUME NEW c \in 0 .. Len(log), UnconfirmedMode(c)
      PROVE  c \in 0 .. Len(log') /\ UnconfirmedMode(c)'
  <2>1. c \in Nat /\ c <= Len(log) /\ c \in 0 .. Len(log')
    BY <1>1
  <2>2. delivered' = <<>> /\ On(confirmed_pos, c)' /\ HandedTo(c)'
    BY <1>1, <1>2, <1>6, <2>1 DEF UnconfirmedMode
  <2>3. CASE cpc = "idle" /\ BatchFrom(c)
    BY <1>1, <1>3, <2>1, <2>2, <2>3 DEF UnconfirmedMode
  <2>4. CASE cpc = "unconfirmed" /\ BatchFrom(c) /\ On(cur, c + Len(batch)) /\ confirmed_pos <= cur
    <3>1. BatchFrom(c)' /\ On(cur, c + Len(batch))'
      <4>1. PICK n : n = c + Len(batch)
        OBVIOUS
      <4>2. On(cur, n)' /\ c + Len(batch') = n
        BY <1>1, <2>4, <4>1
      <4>. QED
        BY <1>3, <2>1, <2>4, <4>2 DEF On
    <3>. QED
      BY <1>1, <2>2, <2>4, <3>1 DEF UnconfirmedMode
  <2>5. CASE /\ cpc = "confirm"
             /\ \E j \in 1 .. Len(log) : \E k \in 0 .. j - 1 :
                    carg = log[j].seq /\ log[j].pos < cend /\ On(cur, k) /\ BatchFrom(j)
    <3>1. PICK j \in 1 .. Len(log) : \E k \in 0 .. j - 1 :
                    carg = log[j].seq /\ log[j].pos < cend /\ On(cur, k) /\ BatchFrom(j)
      BY <2>5
    <3>2. PICK k \in 0 .. j - 1 :
                    carg = log[j].seq /\ log[j].pos < cend /\ On(cur, k) /\ BatchFrom(j)
      BY <3>1
    <3>3. j \in 1 .. Len(log') /\ log'[j] = log[j] /\ j \in Nat
      BY <1>1
    <3>4. On(cur, k)' /\ BatchFrom(j)' /\ carg' = log'[j].seq /\ log'[j].pos < cend'
      BY <1>1, <1>3, <3>2, <3>3
    <3>. QED
      BY <1>1, <2>2, <2>5, <3>3, <3>4 DEF UnconfirmedMode
  <2>6. CASE /\ cpc = "confirmBatch"
             /\ \E k \in 0 .. Len(log) :
                    /\ carg \in Nat /\ On(cur, k) /\ BatchFrom(k + carg)
                    /\ carg > 0 => log[k + carg].pos < cend
    <3>1. PICK k \in 0 .. Len(log) :
                    /\ carg \in Nat /\ On(cur, k) /\ BatchFrom(k + carg)
                    /\ carg > 0 => log[k + carg].pos < cend
      BY <2>6
    <3>2. PICK j \in Nat : j = k + carg /\ BatchFrom(j)
      BY <1>1, <3>1
    <3>3. j <= Len(log) /\ k \in 0 .. Len(log')
      BY <1>1, <3>2 DEF BatchFrom
    <3>4. carg > 0 => log'[j].pos < cend
      BY <1>1, <3>1, <3>2, <3>3
    <3>5. BatchFrom(j)' /\ On(cur, k)' /\ k + carg' = j
      BY <1>1, <1>3, <3>1, <3>2
    <3>6. BatchFrom(k + carg)' /\ (carg' > 0 => log'[k + carg'].pos < cend')
      BY <1>1, <3>4, <3>5 DEF BatchFrom, HandedTo
    <3>. QED
      BY <1>1, <2>2, <2>6, <3>1, <3>3, <3>5, <3>6 DEF UnconfirmedMode
  <2>. QED
    BY <1>6, <2>1, <2>3, <2>4, <2>5, <2>6 DEF UnconfirmedMode
<1>. QED
  BY <1>1, <1>4, <1>5, <1>6 DEF Consuming


\* The space up to the end of the buffer ends at a multiple of its size.
LEMMA OffsetAtEnd ==
    ASSUME NEW p \in Nat
    PROVE  Offset(p + (BufferSize - Offset(p))) = 0
<1>. DEFINE n == p \div BufferSize
<1>1. /\ BufferSize \in Nat \ {0} /\ n \in Nat /\ p = n * BufferSize + Offset(p)
      /\ Offset(p) \in 0 .. BufferSize - 1
  BY OffsetInBuffer, ConstantsAssumption
<1>. HIDE DEF n
<1>2. (n + 1) * BufferSize = n * BufferSize + BufferSize /\ n * BufferSize \in Nat
  BY <1>1
<1>3. p + (BufferSize - Offset(p)) = (n + 1) * BufferSize + 0
  BY <1>1, <1>2
<1>4. 0 \in 0 .. BufferSize - 1 /\ n + 1 \in Nat
  BY <1>1
<1>. QED
  BY <1>3, <1>4, OffsetUnique

\* A published marker that is not confirmed is not touched by a store of
\* the producer.
LEMMA MarkerStays ==
    ASSUME KeepInv, Tiled, NEW k \in 0 .. Len(log), Marker(k),
           UNCHANGED <<log, write_pos, confirmed_pos>>,
           \A o : (\E j \in Nat : /\ write_pos - confirmed_pos + j < BufferSize
                                  /\ Offset(write_pos) + j < BufferSize
                                  /\ o = Offset(write_pos) + j)
                  \/ buf'[o] = buf[o] \/ o \notin 0 .. BufferSize - 1
    PROVE  Marker(k)'
<1>1. End(k)' = End(k) /\ Start(k + 1)' = Start(k + 1)
  BY DEF End, Start
<1>2. /\ End(k) \in Nat /\ Start(k + 1) \in Nat /\ End(k) <= Start(k + 1) /\ Start(k + 1) <= write_pos
      /\ BufferSize \in Nat /\ Types /\ Offset(End(k)) \in 0 .. BufferSize - 1
  BY Edges, OffsetInBuffer, ConstantsAssumption DEF KeepInv
<1>. DEFINE z == Start(k + 1) - End(k)
<1>3. z \in Nat /\ z = BufferSize - Offset(End(k)) /\ z >= 3 /\ End(k) + z <= write_pos
  <2>1. z = BufferSize - Offset(End(k)) /\ z >= 3
    BY DEF Marker, HeaderSize
  <2>2. write_pos \in Nat
    BY <1>2 DEF Types, Positions
  <2>. QED
    BY <1>2, <2>1, <2>2
<1>. HIDE DEF z
<1>4. ASSUME confirmed_pos <= End(k), NEW j \in 0 .. 2
      PROVE  buf'[Offset(End(k)) + j] = buf[Offset(End(k)) + j]
  <2>1. j \in 0 .. z - 1 /\ Offset(End(k)) + z <= BufferSize
    <3>1. Offset(End(k)) \in Nat /\ BufferSize \in Nat
      BY <1>2
    <3>. QED
      BY <1>3, <3>1
  <2>2. \A i \in Nat : (write_pos - confirmed_pos + i < BufferSize /\ Offset(write_pos) + i < BufferSize)
                       => Offset(write_pos) + i # Offset(End(k)) + j
    BY <1>2, <1>3, <1>4, <2>1, StoreElsewhere
  <2>3. Offset(End(k)) + j \in 0 .. BufferSize - 1
    <3>1. \A a, b \in Nat : \A i \in 0 .. 2 : a < b /\ b - a >= 3 => a + i \in 0 .. b - 1
      OBVIOUS
    <3>2. Offset(End(k)) \in Nat /\ Offset(End(k)) < BufferSize /\ BufferSize - Offset(End(k)) >= 3
      BY <1>2, <1>3
    <3>. QED
      BY <1>2, <3>1, <3>2
  <2>. QED
    BY <2>2, <2>3
<1>. QED
  BY <1>1, <1>4 DEF Marker


\* A step of the producer that does not leave a rest without a marker.
LEMMA ProducerRead ==
    ASSUME KeepInv, ReadInv, ProducerActions, ~unmarked'
    PROVE  ReadInv'
<1>1. /\ Types /\ Tiled /\ Ordered /\ HeaderSize = 3 /\ BufferSize \in Nat \ {0}
      /\ write_pos \in Nat /\ confirmed_pos \in Nat /\ want \in Nat /\ pi \in Nat /\ next_seq \in Nat \ {0}
      /\ pseq \in Nat /\ Len(log) \in Nat /\ DOMAIN log = 1 .. Len(log) /\ log \in Seq(Entry)
      /\ buf \in [0 .. BufferSize - 1 -> AUnit]
  BY LogFacts, ConstantsAssumption DEF KeepInv, ReadInv, Types, Positions, HeaderSize
<1>2. Offset(write_pos) \in 0 .. BufferSize - 1
  BY <1>1, OffsetInBuffer
<1>3. UNCHANGED <<consumer, read_pos, confirmed_pos, delivered, handed, mode>>
  BY DEF ProducerActions, ProducerStep, AppendCall, AppendBegin, WrapMark, WrapPublish, AppendFill,
         AppendPublish, ProducerCrash, ring, hist
\* Steps that publish nothing.
<1>4. ASSUME UNCHANGED <<log, write_pos>>
      PROVE  /\ Consuming'
             /\ \A k : End(k)' = End(k) /\ Start(k)' = Start(k)
  <2>1. \A k : End(k)' = End(k) /\ Start(k)' = Start(k)
    BY <1>4 DEF End, Start
  <2>2. \A p, k : On(p, k) => On(p, k)'
    BY <1>4, <2>1 DEF On
  <2>3. Len(log') \in Nat /\ Len(log) <= Len(log') /\ write_pos' \in Nat /\ write_pos <= write_pos'
    BY <1>1, <1>4
  <2>4. \A k \in 1 .. Len(log) : log'[k] = log[k]
    BY <1>4
  <2>. QED
    BY <1>3, <2>1, <2>2, <2>3, <2>4, GrowRead
\* Steps that store nothing either.
<1>5. ASSUME UNCHANGED <<log, write_pos, buf>>, ppc' # "wrapPublish"
      PROVE  Tiled' /\ Consuming'
  <2>1. \A k \in 0 .. Len(log) : Marker(k) => Marker(k)'
    BY <1>3, <1>4, <1>5 DEF Marker
  <2>. QED
    BY <1>1, <1>4, <1>5, <2>1 DEF Tiled
<1>6. \A k \in DOMAIN log : log[k].seq \in 1 .. next_seq - 1
  BY <1>1 DEF Ordered
<1>7. ASSUME NEW z \in Sizes, AppendCall(z)
      PROVE  ReadInv'
  <2>1. UNCHANGED <<log, write_pos, buf, next_seq, pseq>> /\ ppc' = "try"
    BY <1>7 DEF AppendCall, ring
  <2>2. Ordered'
    BY <1>1, <2>1 DEF Ordered
  <2>. QED
    BY <1>5, <2>1, <2>2 DEF ReadInv
<1>8. CASE AppendBegin
  <2>1. UNCHANGED <<log, write_pos, buf>> /\ next_seq' = next_seq + 1 /\ pseq' = next_seq
        /\ ppc' \in {"wrap", "fill"}
    BY <1>8 DEF AppendBegin, hist
  <2>2. \A k \in DOMAIN log : log[k].seq \in 1 .. next_seq' - 1 /\ log[k].seq < pseq'
    BY <1>1, <1>6, <2>1
  <2>3. Ordered'
    BY <1>1, <2>1, <2>2 DEF Ordered
  <2>. QED
    BY <1>5, <2>1, <2>3 DEF ReadInv
<1>9. CASE ProducerCrash
  <2>1. UNCHANGED <<log, write_pos, buf, next_seq, pseq>> /\ ppc' = "idle"
    BY <1>9 DEF ProducerCrash, ring
  <2>2. Ordered'
    BY <1>1, <2>1 DEF Ordered
  <2>. QED
    BY <1>5, <2>1, <2>2 DEF ReadInv
<1>10. CASE WrapMark /\ Remaining < HeaderSize
  <2>1. /\ ppc' = "wrapPublish"
        /\ UNCHANGED <<buf, write_pos, confirmed_pos, next_seq, pseq, log>>
    BY <1>1, <1>2, <1>3, <1>10 DEF WrapMark, hist, Remaining
  <2>2. \A k \in 0 .. Len(log) : Marker(k) => Marker(k)'
    BY <1>4, <2>1 DEF Marker
  <2>3. Remaining' < HeaderSize
    BY <1>10, <2>1 DEF Remaining
  <2>4. Tiled'
    BY <1>1, <1>2, <1>4, <2>1, <2>2, <2>3 DEF Tiled, Remaining
  <2>5. ppc = "wrap"
    BY <1>10 DEF WrapMark
  <2>6. Ordered'
    BY <1>1, <2>1, <2>5 DEF Ordered
  <2>. QED
    BY <1>4, <2>1, <2>4, <2>6 DEF ReadInv
<1>14. CASE WrapMark /\ Remaining >= HeaderSize
  <2>1. /\ ppc = "wrap" /\ ppc' = "wrapPublish"
        /\ UNCHANGED <<write_pos, confirmed_pos, next_seq, pseq, log>>
    BY <1>3, <1>14 DEF WrapMark, hist
  <2>2. Remaining >= 3 /\ Remaining = BufferSize - Offset(write_pos)
    BY <1>1, <1>14 DEF Remaining
  <2>3. buf' = [o \in 0 .. BufferSize - 1 |->
                    IF o \in Offset(write_pos) .. Offset(write_pos) + 2
                    THEN Unit(0, Remaining, o - Offset(write_pos))
                    ELSE buf[o]]
    <3>1. DOMAIN buf = 0 .. BufferSize - 1
      BY <1>1
    <3>2. Remaining >= HeaderSize
      BY <1>1, <2>2
    <3>. QED
      BY <1>14, <3>1, <3>2 DEF WrapMark
  <2>4. want >= 3 /\ write_pos - confirmed_pos + want <= BufferSize
    BY <1>1, <2>1 DEF KeepInv, Producing
  <2>5. \A o : (\E j \in Nat : /\ write_pos - confirmed_pos + j < BufferSize
                               /\ Offset(write_pos) + j < BufferSize
                               /\ o = Offset(write_pos) + j)
               \/ buf'[o] = buf[o] \/ o \notin 0 .. BufferSize - 1
    <3>1. SUFFICES ASSUME NEW o \in 0 .. BufferSize - 1,
                          o \in Offset(write_pos) .. Offset(write_pos) + 2
                   PROVE  \E j \in Nat : /\ write_pos - confirmed_pos + j < BufferSize
                                         /\ Offset(write_pos) + j < BufferSize
                                         /\ o = Offset(write_pos) + j
      BY <2>3
    <3>2. PICK j \in 0 .. 2 : o = Offset(write_pos) + j
      <4>1. o - Offset(write_pos) \in 0 .. 2 /\ o = Offset(write_pos) + (o - Offset(write_pos))
        BY <1>2, <3>1
      <4>. QED
        BY <4>1
    <3>3. j \in Nat /\ write_pos - confirmed_pos + j < BufferSize /\ Offset(write_pos) + j < BufferSize
      BY <1>1, <1>2, <2>2, <2>4
    <3>. QED
      BY <3>2, <3>3
  <2>6. \A k \in 0 .. Len(log) : Marker(k) => Marker(k)'
    BY <1>1, <2>1, <2>5, MarkerStays
  <2>7. \A j \in 0 .. 2 : buf'[Offset(write_pos) + j] = Unit(0, Remaining, j)
    <3>1. SUFFICES ASSUME NEW j \in 0 .. 2
                   PROVE  buf'[Offset(write_pos) + j] = Unit(0, Remaining, j)
      OBVIOUS
    <3>2. /\ Offset(write_pos) + j \in 0 .. BufferSize - 1
          /\ Offset(write_pos) + j \in Offset(write_pos) .. Offset(write_pos) + 2
          /\ (Offset(write_pos) + j) - Offset(write_pos) = j
      BY <1>1, <1>2, <2>2
    <3>. QED
      BY <2>3, <3>2
  <2>8. Tiled'
    BY <1>1, <1>4, <2>1, <2>6, <2>7 DEF Tiled, Remaining
  <2>9. Ordered'
    BY <1>1, <2>1 DEF Ordered
  <2>. QED
    BY <1>4, <2>1, <2>8, <2>9 DEF ReadInv
<1>11. CASE WrapPublish
  <2>. PICK n \in Nat : n = Len(log)
    BY <1>1
  <2>1. /\ ppc = "wrapPublish" /\ ppc' = "try" /\ write_pos' = write_pos + Remaining
        /\ UNCHANGED <<buf, next_seq, pseq, log>>
    BY <1>11 DEF WrapPublish, hist
  <2>2. Remaining >= 3 /\ Remaining = BufferSize - Offset(write_pos) /\ Remaining \in Nat
    <3>1. ~(Remaining < HeaderSize)
      BY <1>11 DEF WrapPublish
    <3>. QED
      BY <1>1, <1>2, <3>1 DEF Remaining
  <2>3. Offset(write_pos) # 0
    BY <1>1, <2>1 DEF KeepInv, Producing
  <2>4. Start(n + 1) = write_pos /\ End(n) = write_pos
    <3>1. Start(n + 1) = write_pos
      BY DEF Start
    <3>. QED
      BY <1>1, <2>3, <3>1 DEF Tiled, Marker
  <2>5. write_pos' \in Nat /\ write_pos <= write_pos' /\ Offset(write_pos') = 0
    BY <1>1, <2>1, <2>2, OffsetAtEnd
  <2>6. /\ \A k : End(k)' = End(k)
        /\ \A k \in 0 .. n - 1 : Start(k + 1)' = Start(k + 1)
        /\ Start(n + 1)' = write_pos'
    <3>1. \A k : End(k)' = End(k)
      BY <2>1 DEF End
    <3>2. \A k \in 0 .. n - 1 : k + 1 # n + 1
      OBVIOUS
    <3>3. Start(n + 1)' = write_pos'
      BY <2>1 DEF Start
    <3>. QED
      BY <2>1, <3>1, <3>2, <3>3 DEF Start
  <2>7. Marker(n)'
    <3>1. /\ Start(n + 1)' - End(n)' = BufferSize - Offset(End(n)')
          /\ Start(n + 1)' - End(n)' = Remaining
      BY <1>1, <2>1, <2>2, <2>4, <2>6
    <3>2. \A j \in 0 .. 2 : buf[Offset(write_pos) + j] = Unit(0, Remaining, j)
      BY <1>1, <2>1, <2>2 DEF Tiled
    <3>. QED
      BY <1>1, <2>1, <2>2, <2>4, <2>5, <2>6, <3>1, <3>2 DEF Marker
  <2>8. \A k \in 0 .. n - 1 : Marker(k) => Marker(k)'
    BY <1>3, <2>1, <2>6 DEF Marker
  <2>9. Tiled'
    <3>1. \A k \in 0 .. n : k \in 0 .. n - 1 \/ k = n
      OBVIOUS
    <3>2. \A k \in 0 .. n - 1 : Start(k + 1)' = End(k)' \/ Marker(k)'
      BY <1>1, <2>6, <2>8 DEF Tiled
    <3>. QED
      BY <2>1, <2>7, <3>1, <3>2 DEF Tiled
  <2>10. Ordered'
    BY <1>1, <2>1 DEF Ordered
  <2>11. Consuming'
    <3>1. ASSUME NEW p, NEW k, On(p, k)
          PROVE  On(p, k)'
      <4>1. k \in 0 .. n /\ (p = End(k) \/ p = Start(k + 1))
        BY <3>1 DEF On
      <4>2. CASE k = n
        <5>1. p = End(k)'
          BY <2>4, <2>6, <4>1, <4>2
        <5>. QED
          BY <2>1, <4>1, <5>1 DEF On
      <4>3. CASE k # n
        <5>1. k \in 0 .. n - 1
          BY <4>1, <4>3
        <5>2. p = End(k)' \/ p = Start(k + 1)'
          BY <2>6, <4>1, <5>1
        <5>. QED
          BY <2>1, <4>1, <5>2 DEF On
      <4>. QED
        BY <4>2, <4>3
    <3>2. Len(log') \in Nat /\ Len(log) <= Len(log') /\ \A k \in 1 .. Len(log) : log'[k] = log[k]
      BY <1>1, <2>1
    <3>. QED
      BY <1>3, <2>5, <3>1, <3>2, GrowRead
  <2>. QED
    BY <2>9, <2>10, <2>11 DEF ReadInv
<1>12. CASE AppendFill
  <2>1. /\ ppc = "fill" /\ ppc' \in {"publish", "fill"}
        /\ buf' = [buf EXCEPT ![Offset(write_pos) + pi] = Unit(pseq, want, pi)]
        /\ UNCHANGED <<write_pos, confirmed_pos, next_seq, pseq, log>>
    BY <1>3, <1>12 DEF AppendFill, hist
  <2>2. /\ Offset(write_pos) + want <= BufferSize /\ pi < want
        /\ write_pos - confirmed_pos + want <= BufferSize
    BY <1>1, <2>1 DEF KeepInv, Producing
  <2>3. \A o : (\E j \in Nat : /\ write_pos - confirmed_pos + j < BufferSize
                               /\ Offset(write_pos) + j < BufferSize
                               /\ o = Offset(write_pos) + j)
               \/ buf'[o] = buf[o] \/ o \notin 0 .. BufferSize - 1
    <3>1. write_pos - confirmed_pos + pi < BufferSize /\ Offset(write_pos) + pi < BufferSize
      BY <1>1, <1>2, <2>2
    <3>2. \A o \in 0 .. BufferSize - 1 : o = Offset(write_pos) + pi \/ buf'[o] = buf[o]
      BY <1>1, <2>1
    <3>. QED
      BY <1>1, <3>1, <3>2
  <2>4. \A k \in 0 .. Len(log) : Marker(k) => Marker(k)'
    BY <1>1, <2>1, <2>3, MarkerStays
  <2>5. Tiled'
    BY <1>1, <1>4, <2>1, <2>4 DEF Tiled
  <2>6. Ordered'
    BY <1>1, <2>1 DEF Ordered
  <2>. QED
    BY <1>4, <2>1, <2>5, <2>6 DEF ReadInv
<1>13. CASE AppendPublish
  <2>. PICK n \in Nat : n = Len(log)
    BY <1>1
  <2>. DEFINE e == [seq |-> pseq, pos |-> write_pos, size |-> want]
  <2>1. /\ ppc = "publish" /\ write_pos' = write_pos + want /\ log' = Append(log, e)
        /\ ppc' = "idle" /\ UNCHANGED <<buf, next_seq, pseq>>
    BY <1>13 DEF AppendPublish
  <2>2. /\ Len(log') = n + 1 /\ DOMAIN log' = 1 .. n + 1
        /\ \A k \in 1 .. n : log'[k] = log[k]
        /\ log'[n + 1] = e /\ e.seq = pseq /\ e.pos = write_pos /\ e.size = want
    BY <1>1, <2>1
  <2>. HIDE DEF e
  <2>3. /\ \A k \in 0 .. n : End(k)' = End(k) /\ Start(k + 1)' = Start(k + 1)
        /\ End(n + 1)' = write_pos' /\ Start(n + 2)' = write_pos'
    <3>1. \A k \in 0 .. n : End(k)' = End(k)
      <4>1. \A k \in 0 .. n : k = 0 \/ k \in 1 .. n
        OBVIOUS
      <4>. QED
        BY <2>2, <4>1 DEF End
    <3>2. \A k \in 0 .. n : Start(k + 1)' = Start(k + 1)
      <4>1. SUFFICES ASSUME NEW k \in 0 .. n
                     PROVE  Start(k + 1)' = Start(k + 1)
        OBVIOUS
      <4>2. Start(k + 1)' = log'[k + 1].pos
        <5>1. k + 1 # (n + 1) + 1
          OBVIOUS
        <5>. QED
          BY <2>2, <5>1 DEF Start
      <4>3. CASE k = n
        BY <2>2, <4>2, <4>3 DEF Start
      <4>4. CASE k # n
        <5>1. k + 1 \in 1 .. n /\ k + 1 # n + 1
          BY <4>4
        <5>. QED
          BY <2>2, <4>2, <5>1 DEF Start
      <4>. QED
        BY <4>3, <4>4
    <3>3. n + 1 # 0 /\ n + 2 = (n + 1) + 1
      OBVIOUS
    <3>4. End(n + 1)' = write_pos'
      BY <2>1, <2>2, <3>3 DEF End
    <3>5. Start(n + 2)' = write_pos'
      BY <2>2, <3>3 DEF Start
    <3>. QED
      BY <3>1, <3>2, <3>4, <3>5
  <2>4. \A k \in 0 .. n + 1 : k \in 0 .. n \/ k = n + 1
    OBVIOUS
  <2>5. \A k \in 0 .. n : Marker(k) => Marker(k)'
    BY <1>3, <2>1, <2>3 DEF Marker
  <2>6. Tiled'
    <3>1. \A k \in 0 .. n : Start(k + 1)' = End(k)' \/ Marker(k)'
      BY <1>1, <2>3, <2>5 DEF Tiled
    <3>2. Start((n + 1) + 1)' = End(n + 1)'
      BY <2>3
    <3>. QED
      BY <2>1, <2>2, <2>4, <3>1, <3>2 DEF Tiled
  <2>7. Ordered'
    <3>1. \A i \in 1 .. n : log[i].pos + log[i].size <= write_pos /\ log[i].seq < pseq
      BY <1>1, <2>1 DEF KeepInv, Logged, Ordered
    <3>2. pseq \in 1 .. next_seq - 1
      BY <2>1 DEF KeepInv, Producing
    <3>3. ASSUME NEW i \in 1 .. n + 1, NEW k \in 1 .. n + 1, i < k
          PROVE  log'[i].pos + log'[i].size <= log'[k].pos /\ log'[i].seq < log'[k].seq
      <4>1. i \in 1 .. n
        BY <3>3
      <4>2. CASE k = n + 1
        BY <2>2, <3>1, <4>1, <4>2
      <4>3. CASE k # n + 1
        <5>1. k \in 1 .. n
          BY <4>3
        <5>. QED
          BY <1>1, <2>2, <3>3, <4>1, <5>1 DEF Ordered
      <4>. QED
        BY <4>2, <4>3
    <3>4. \A k \in 1 .. n + 1 : log'[k].seq \in 1 .. next_seq - 1
      <4>1. \A k \in 1 .. n + 1 : k \in 1 .. n \/ k = n + 1
        OBVIOUS
      <4>. QED
        BY <1>1, <1>6, <2>2, <3>2, <4>1
    <3>. QED
      BY <2>1, <2>2, <3>3, <3>4 DEF Ordered
  <2>8. Consuming'
    <3>1. ASSUME NEW p, NEW k, On(p, k)
          PROVE  On(p, k)'
      <4>1. k \in 0 .. n /\ (p = End(k) \/ p = Start(k + 1))
        BY <3>1 DEF On
      <4>2. k \in 0 .. Len(log') /\ (p = End(k)' \/ p = Start(k + 1)')
        BY <2>2, <2>3, <4>1
      <4>. QED
        BY <4>2 DEF On
    <3>2. Len(log') \in Nat /\ Len(log) <= Len(log') /\ \A k \in 1 .. Len(log) : log'[k] = log[k]
      BY <2>2
    <3>3. write_pos' \in Nat /\ write_pos <= write_pos'
      BY <1>1, <2>1
    <3>. QED
      BY <1>3, <3>1, <3>2, <3>3, GrowRead
  <2>. QED
    BY <2>6, <2>7, <2>8 DEF ReadInv
<1>15. Remaining < HeaderSize \/ Remaining >= HeaderSize
  BY <1>1, <1>2 DEF Remaining
<1>. QED
  BY <1>7, <1>8, <1>9, <1>10, <1>11, <1>12, <1>13, <1>14, <1>15 DEF ProducerActions, ProducerStep


\* Every step that does not leave a rest without a marker keeps the
\* consumer's invariant.
LEMMA NextRead == KeepInv /\ ReadInv /\ ~unmarked' /\ [Next]_vars => ReadInv'
<1> SUFFICES ASSUME KeepInv, ReadInv, ~unmarked', [Next]_vars
             PROVE  ReadInv'
  OBVIOUS
<1>1. CASE UNCHANGED vars
  <2>1. /\ UNCHANGED <<buf, write_pos, confirmed_pos, next_seq, ppc, pseq, log>>
        /\ UNCHANGED <<consumer, read_pos, delivered, handed, mode>>
    BY <1>1 DEF vars, ring, producer, hist
  <2>2. /\ write_pos \in Nat /\ confirmed_pos \in Nat /\ Len(log) \in Nat
    BY LogFacts DEF KeepInv, Types, Positions
  <2>3. confirmed_pos' \in Nat /\ confirmed_pos <= confirmed_pos'
    BY <2>1, <2>2
  <2>4. Tiled' /\ Ordered' /\ \A p, k : On(p, k) => On(p, k)'
    BY <2>1, <2>3, FrameRead
  <2>5. /\ Len(log') \in Nat /\ Len(log) <= Len(log') /\ write_pos' \in Nat /\ write_pos <= write_pos'
        /\ \A k \in 1 .. Len(log) : log'[k] = log[k]
    BY <2>1, <2>2
  <2>6. Consuming'
    BY <2>1, <2>4, <2>5, GrowRead
  <2>. QED
    BY <2>4, <2>6 DEF ReadInv
<1>2. CASE ConsumerActions
  <2>1. Tiled' /\ Ordered'
    <3>1. confirmed_pos' \in Nat
      BY <1>2, ConsumerFrame DEF Positions
    <3>. QED
      BY <1>2, <3>1, ConsumerFrame, FrameRead
  <2>2. UNCHANGED mode /\ mode \in {"next", "unconfirmed"}
    BY <1>2, ConsumerFrame DEF ReadInv, Consuming
  <2>3. Consuming'
    <3>1. CASE mode = "next"
      BY <1>2, <2>2, <3>1, NextModeKeeps DEF Consuming
    <3>2. CASE mode = "unconfirmed"
      BY <1>2, <2>2, <3>2, UnconfirmedModeKeeps DEF Consuming
    <3>. QED
      BY <2>2, <3>1, <3>2
  <2>. QED
    BY <2>1, <2>3 DEF ReadInv
<1>3. CASE ProducerActions
  BY <1>3, ProducerRead
<1>4. CASE Next
  <2>1. next_seq \in Nat /\ MaxCount \in Nat
    BY ConstantsAssumption DEF KeepInv, Types
  <2>2. \A s \in 1 .. next_seq : s \in Nat
    BY <2>1
  <2>3. \A n \in 1 .. MaxCount : n \in Nat
    BY <2>1
  <2>. QED
    BY <1>2, <1>3, <1>4, <2>2, <2>3 DEF Next, ConsumerActions, ProducerActions
<1>. QED
  BY <1>1, <1>4

\* A rest without a marker is not forgotten.
LEMMA UnmarkedStays == unmarked /\ [Next]_vars => unmarked'
<1> SUFFICES ASSUME unmarked, [Next]_vars
             PROVE  unmarked'
  OBVIOUS
<1>1. CASE UNCHANGED vars
  BY <1>1 DEF vars, hist
<1>2. CASE ConsumerStep
  BY <1>2 DEF ConsumerStep, ReadNextScan, ReadNextCopy, ReadUnconfirmedScan, ConfirmScan,
              ConfirmBatchScan, hist
<1>3. CASE ProducerStep
  BY <1>3 DEF ProducerStep, AppendBegin, WrapMark, WrapPublish, AppendFill, AppendPublish, hist
<1>4. CASE ProducerCrash \/ ConsumerCrash \/ ReadNextCall \/ ReadUnconfirmedCall
  BY <1>4 DEF ProducerCrash, ConsumerCrash, ReadNextCall, ReadUnconfirmedCall, hist
<1>5. ASSUME NEW z \in Sizes, AppendCall(z)
      PROVE  unmarked'
  BY <1>5 DEF AppendCall
<1>6. ASSUME NEW s, ConfirmCall(s)
      PROVE  unmarked'
  BY <1>6 DEF ConfirmCall, hist
<1>7. ASSUME NEW n, ConfirmBatchCall(n)
      PROVE  unmarked'
  BY <1>7 DEF ConfirmBatchCall, hist
<1>. QED
  BY <1>1, <1>2, <1>3, <1>4, <1>5, <1>6, <1>7 DEF Next

\* Both invariants hold throughout, the consumer's until a rest is left
\* without a marker.
LEMMA ReadAlways == Spec => [](KeepInv /\ (~unmarked => ReadInv))
<1>1. Init => KeepInv /\ (~unmarked => ReadInv)
  BY InitKeep, InitRead
<1>2. KeepInv /\ (~unmarked => ReadInv) /\ [Next]_vars => KeepInv' /\ (~unmarked' => ReadInv')
  BY NextKeep, NextRead, UnmarkedStays
<1>. QED
  BY <1>1, <1>2, PTL DEF Spec

----------------------------------------------------------------------------
(* What the consumer is promised *)

\* For any sizes of the buffer and of the entries, ReadNext returns the
\* appended entries in their order, none lost, none twice and none damaged,
\* across wraps and crashes of both, until Append wraps where the rest of the
\* buffer is too short for a marker's header.
THEOREM ReadNextInOrder == Spec => []DeliveredInOrder
<1>1. KeepInv /\ (~unmarked => ReadInv) => DeliveredInOrder
  <2> SUFFICES ASSUME KeepInv, ReadInv
               PROVE  DeliveredInOrder
    BY DEF DeliveredInOrder
  <2>1. /\ delivered \in Seq(Nat) /\ DOMAIN delivered = 1 .. Len(delivered) /\ Len(log) \in Nat
        /\ mode \in {"next", "unconfirmed"}
    BY LogFacts DEF KeepInv, ReadInv, Consuming
  <2>2. CASE mode = "next"
    BY <2>1, <2>2 DEF ReadInv, Consuming, NextMode, DeliveredInOrder
  <2>3. CASE mode = "unconfirmed"
    <3>1. delivered = <<>>
      BY <2>3 DEF ReadInv, Consuming, UnconfirmedMode
    <3>. QED
      BY <2>1, <3>1 DEF DeliveredInOrder
  <2>. QED
    BY <2>1, <2>2, <2>3
<1>. QED
  BY <1>1, ReadAlways, PTL

\* The entries that start below a position of a walk are the ones it passed.
LEMMA EntriesPassed ==
    ASSUME KeepInv, ReadInv, NEW k \in 0 .. Len(log), NEW p, On(p, k)
    PROVE  EntriesBelow(p) = k
<1>1. /\ Len(log) \in Nat /\ k \in Nat /\ k <= Len(log) /\ DOMAIN log = 1 .. Len(log)
      /\ \A j \in 1 .. Len(log) : log[j].pos \in Nat
      /\ Tiled /\ Ordered
  BY LogFacts DEF KeepInv, ReadInv
<1>2. ASSUME NEW j \in 1 .. Len(log)
      PROVE  log[j].pos < p <=> j <= k
  <2>1. p \in Nat
    BY Edges DEF ReadInv, On
  <2>2. CASE j <= k
    <3>1. j - 1 \in 0 .. Len(log) /\ j - 1 < k /\ j - 1 # Len(log) /\ (j - 1) + 1 = j
      BY <1>1, <2>2
    <3>2. Start((j - 1) + 1) = log[(j - 1) + 1].pos
      BY <1>1, <3>1, Edges
    <3>3. On(log[j].pos, j - 1)
      BY <3>1, <3>2 DEF On
    <3>. QED
      BY <1>1, <2>2, <3>1, <3>3, OnGrows
  <2>3. CASE ~(j <= k)
    <3>1. k < j /\ j \in 0 .. Len(log) /\ On(End(j), j)
      BY <1>1, <2>3 DEF On
    <3>2. p <= log[j].pos
      BY <1>1, <3>1, OnGrows
    <3>. QED
      BY <1>1, <2>1, <2>3, <3>2
  <2>. QED
    BY <2>2, <2>3
<1>3. {j \in DOMAIN log : log[j].pos < p} = 1 .. k
  BY <1>1, <1>2
<1>4. Cardinality(1 .. k) = k
  BY <1>1, FS_Interval
<1>. QED
  BY <1>3, <1>4 DEF EntriesBelow

\* Up to the same moment, what ReadUnconfirmed has collected is exactly the
\* published entries from confirmed_pos to where its loop is, in order.
THEOREM ReadUnconfirmedComplete == Spec => []RecoveryComplete
<1>1. KeepInv /\ (~unmarked => ReadInv) => RecoveryComplete
  <2> SUFFICES ASSUME KeepInv, ReadInv, cpc = "unconfirmed"
               PROVE  /\ batch = [k \in 1 .. EntriesBelow(cur) - EntriesBelow(confirmed_pos) |->
                                      log[EntriesBelow(confirmed_pos) + k].seq]
    BY DEF RecoveryComplete
  <2>1. batch \in Seq(Nat) /\ mode = "unconfirmed" /\ Len(log) \in Nat
    BY LogFacts DEF KeepInv, ReadInv, Consuming, NextMode
  <2>2. PICK c \in 0 .. Len(log) : UnconfirmedMode(c)
    BY <2>1 DEF ReadInv, Consuming
  <2>3. /\ On(confirmed_pos, c) /\ On(cur, c + Len(batch))
        /\ c + Len(batch) <= Len(log)
        /\ \A i \in 1 .. Len(batch) : batch[i] = log[c + i].seq
    BY <2>2 DEF UnconfirmedMode, BatchFrom
  <2>4. c + Len(batch) \in 0 .. Len(log) /\ Len(batch) \in Nat /\ c \in Nat
    BY <2>1, <2>3
  <2>5. EntriesBelow(confirmed_pos) = c /\ EntriesBelow(cur) = c + Len(batch)
    BY <2>3, <2>4, EntriesPassed
  <2>6. (c + Len(batch)) - c = Len(batch)
    BY <2>4
  <2>7. batch = [k \in 1 .. Len(batch) |-> log[c + k].seq]
    BY <2>1, <2>3
  <2>. QED
    BY <2>5, <2>6, <2>7
<1>. QED
  BY <1>1, ReadAlways, PTL

\* Up to the same moment, Confirm and ConfirmBatch give the producer only the
\* space of entries that the consumer has been handed.
THEOREM ConfirmedOnlyHanded == Spec => []ConfirmedWereHanded
<1>1. KeepInv /\ (~unmarked => ReadInv) => ConfirmedWereHanded
  <2> SUFFICES ASSUME KeepInv, ReadInv, NEW j \in DOMAIN log, log[j].pos < confirmed_pos
               PROVE  log[j].seq \in handed
    BY DEF ConfirmedWereHanded
  <2>1. Len(log) \in Nat /\ DOMAIN log = 1 .. Len(log) /\ mode \in {"next", "unconfirmed"}
    BY LogFacts DEF KeepInv, ReadInv, Consuming
  <2>2. PICK c \in 0 .. Len(log) : On(confirmed_pos, c) /\ HandedTo(c)
    <3>1. CASE mode = "unconfirmed"
      BY <3>1 DEF ReadInv, Consuming, UnconfirmedMode
    <3>2. CASE mode = "next"
      <4>1. /\ Len(delivered) \in Nat /\ Len(delivered) <= Len(log) /\ HandedTo(Len(delivered))
        BY <3>2 DEF ReadInv, Consuming, NextMode
      <4>2. PICK c \in 0 .. Len(delivered) : On(confirmed_pos, c)
        BY <3>2 DEF ReadInv, Consuming, NextMode
      <4>3. c \in 0 .. Len(log) /\ HandedTo(c)
        BY <2>1, <4>1, <4>2 DEF HandedTo
      <4>. QED
        BY <4>2, <4>3
    <3>. QED
      BY <2>1, <3>1, <3>2
  <2>3. j <= c
    <3>1. SUFFICES ASSUME ~(j <= c)
                   PROVE  FALSE
      OBVIOUS
    <3>2. c < j /\ j \in 0 .. Len(log) /\ On(End(j), j)
      BY <2>1, <3>1 DEF On
    <3>3. confirmed_pos <= log[j].pos
      BY <2>2, <3>2, OnGrows DEF ReadInv
    <3>4. confirmed_pos \in Nat /\ log[j].pos \in Nat
      BY <2>1, LogFacts DEF KeepInv, Types, Positions
    <3>. QED
      BY <3>3, <3>4
  <2>. QED
    BY <2>1, <2>2, <2>3 DEF HandedTo
<1>. QED
  BY <1>1, ReadAlways, PTL

============================================================================
