--------------------------- MODULE ShmOpenProofs ---------------------------
(***************************************************************************)
(* Proofs about ShmOpen for any number of processes, segments, words,      *)
(* stops and resets.                                                       *)
(***************************************************************************)
EXTENDS ShmOpen, TLAPS

----------------------------------------------------------------------------
(* The values of the variables *)

RingSteps == {"resetWritePos", "resetReadPos", "resetConfirmedPos", "resetNextSeq", "memset"}
ResetSteps == {"resetHeader", "resetValue"} \cup RingSteps

Steps == {"down", "remove", "create", "truncate", "map", "check", "ready", "invalid",
          "construct", "store", "find", "load"} \cup ResetSteps

Types ==
    /\ prog \in Programs
    /\ made \in 0 .. MaxSegments
    /\ name \in 0 .. made
    /\ sized \subseteq 1 .. made
    /\ magic \subseteq sized
    /\ pc \in [Procs -> Steps]
    /\ seg \in [Procs -> 0 .. made]
    /\ isNew \in [Procs -> BOOLEAN]
    /\ asked \in [Procs -> BOOLEAN]
    /\ early \in [Procs -> BOOLEAN]
    /\ calm \in [Procs -> BOOLEAN]
    /\ raced \in BOOLEAN /\ disturbed \in BOOLEAN
    /\ items \in 0 .. MaxItems /\ stops \in Nat
    /\ stored \subseteq Nat

SegmentTypes ==
    /\ write_pos \in [Segments -> Nat]
    /\ read_pos \in [Segments -> Nat]
    /\ confirmed_pos \in [Segments -> Nat]
    /\ next_seq \in [Segments -> Nat]
    /\ buffer \in [Segments -> [Positions -> [seq : Nat, item : Nat]]]
    /\ value \in [Segments -> [Words -> Int]]

CopyTypes ==
    /\ source \in [Procs -> Nat]
    /\ todo \in [Procs -> SUBSET Words]
    /\ out \in [Procs -> SUBSET Int]
    /\ floor \in [Procs -> Nat]

\* A process has a segment once it has opened or created one, and one that
\* was mapped has its size.
Opened ==
    \A p \in Procs :
        /\ pc[p] \in {"truncate", "find", "load", "map"} => seg[p] # None
        /\ pc[p] \in {"check", "ready", "construct", "store"} \cup ResetSteps => seg[p] \in sized
        /\ asked[p] => pc[p] \in ResetSteps

TypeInv == Types /\ SegmentTypes /\ CopyTypes /\ Opened

LEMMA Updated ==
    ASSUME NEW S, NEW T, NEW f \in [S -> T], NEW s, NEW t \in T
    PROVE  [f EXCEPT ![s] = t] \in [S -> T]
  OBVIOUS

LEMMA InitTypes == Init => TypeInv
<1> SUFFICES ASSUME Init
             PROVE  TypeInv
  OBVIOUS
<1>. USE DEF Init, None, Default, Blank
<1>1. MaxSegments \in Nat /\ 0 \in 0 .. MaxSegments /\ 0 \in 0 .. MaxItems
  BY BoundsAssumption
<1>2. pc \in [Procs -> Steps] /\ isNew \in [Procs -> BOOLEAN] /\ asked \in [Procs -> BOOLEAN]
  BY DEF Steps
<1>3. early \in [Procs -> BOOLEAN] /\ calm \in [Procs -> BOOLEAN] /\ seg \in [Procs -> 0 .. made]
  OBVIOUS
<1>4. Types
  <2>1. /\ prog \in Programs /\ made = 0 /\ name = 0 /\ sized = {} /\ magic = {} /\ raced = FALSE
        /\ disturbed = FALSE /\ items = 0 /\ stops = 0 /\ stored = {}
    OBVIOUS
  <2>. HIDE DEF Init
  <2>2. /\ made \in 0 .. MaxSegments /\ name \in 0 .. made /\ sized \subseteq 1 .. made
        /\ magic \subseteq sized /\ items \in 0 .. MaxItems /\ stops \in Nat /\ stored \subseteq Nat
    BY <1>1, <2>1
  <2>. QED
    BY <1>2, <1>3, <2>1, <2>2 DEF Types
<1>5. SegmentTypes
  <2>1. /\ write_pos \in [Segments -> Nat] /\ read_pos \in [Segments -> Nat]
        /\ confirmed_pos \in [Segments -> Nat] /\ next_seq \in [Segments -> Nat]
    OBVIOUS
  <2>2. [k \in Positions |-> Zeros] \in [Positions -> [seq : Nat, item : Nat]]
    BY DEF Zeros
  <2>3. [w \in Words |-> -1] \in [Words -> Int]
    OBVIOUS
  <2>. QED
    BY <2>1, <2>2, <2>3 DEF SegmentTypes
<1>6. CopyTypes
  BY DEF CopyTypes
<1>7. Opened
  BY DEF Opened, ResetSteps, RingSteps
<1>. QED
  BY <1>4, <1>5, <1>6, <1>7 DEF TypeInv


LEMMA OpeningTypes ==
    ASSUME TypeInv, NEW p \in Procs,
           Open(p) \/ Remove(p) \/ Create(p) \/ Truncate(p) \/ Map(p) \/ Check(p) \/ Retry(p)
    PROVE  TypeInv'
<1>. USE DEF TypeInv, None, Goto
<1>0. MaxSegments \in Nat
  BY BoundsAssumption
<1>1. SegmentTypes' /\ CopyTypes'
  BY DEF Open, Remove, Create, Truncate, Map, Check, Retry, SegmentTypes, CopyTypes, segments, ring,
         copy, history, reading
<1>2. CASE Open(p)
  <2>1. /\ pc[p] = "down" /\ pc' \in [Procs -> Steps] /\ \A q \in Procs \ {p} : pc'[q] = pc[q]
        /\ pc'[p] \in {"remove", "map"} /\ (pc'[p] = "map" => seg'[p] # 0)
        /\ seg' = [seg EXCEPT ![p] = name] /\ isNew' \in [Procs -> BOOLEAN]
        /\ early' \in [Procs -> BOOLEAN] /\ raced' \in BOOLEAN
        /\ UNCHANGED <<prog, posix, magic, asked, calm, disturbed, items, stops, stored>>
    BY <1>2 DEF Open, Began, Types, Steps, segments, told, reading
  <2>2. Types'
    BY <2>1 DEF Types, posix
  <2>3. Opened'
    BY <2>1 DEF Opened, Types, posix, ResetSteps, RingSteps
  <2>. QED
    BY <1>1, <2>2, <2>3
<1>3. CASE Remove(p)
  BY <1>0, <1>1, <1>3 DEF Remove, segments, history, told, opening, reading, Types, Opened, Steps, ResetSteps, RingSteps
<1>4. CASE Create(p)
  <2>1. CASE name = None /\ made < MaxSegments /\ made' = made + 1
    <3>1. /\ name' = made + 1 /\ seg' = [seg EXCEPT ![p] = made + 1]
          /\ isNew' = [isNew EXCEPT ![p] = TRUE] /\ pc' = [pc EXCEPT ![p] = "truncate"]
          /\ pc[p] = "create"
          /\ UNCHANGED <<prog, sized, magic, asked, early, calm, raced, disturbed, items, stops, stored>>
      BY <1>0, <1>4, <2>1 DEF Create, Types, segments, history, told, opening, reading
    <3>2. made \in Nat /\ made + 1 \in 0 .. MaxSegments /\ made + 1 \in 0 .. made + 1
          /\ 0 .. made \subseteq 0 .. made + 1 /\ 1 .. made \subseteq 1 .. made + 1
      BY <1>0, <2>1 DEF Types
    <3>3. seg' \in [Procs -> 0 .. made + 1]
      BY <3>1, <3>2 DEF Types
    <3>4. Types'
      BY <2>1, <3>1, <3>2, <3>3 DEF Types, Steps
    <3>5. Opened'
      BY <3>1, <3>2 DEF Types, Opened, ResetSteps, RingSteps
    <3>. QED
      BY <1>1, <3>4, <3>5
  <2>2. CASE pc' = [pc EXCEPT ![p] = "invalid"] /\ UNCHANGED <<made, name, seg, isNew>>
    BY <1>0, <1>1, <1>4, <2>2 DEF Create, segments, history, told, opening, reading, Types, Opened, Steps,
                                  ResetSteps, RingSteps
  <2>. QED
    BY <1>4, <2>1, <2>2 DEF Create
<1>5. CASE Truncate(p)
  <2>1. /\ pc[p] = "truncate" /\ sized' = sized \cup {seg[p]}
        /\ pc' \in [Procs -> Steps] /\ \A q \in Procs \ {p} : pc'[q] = pc[q]
        /\ pc'[p] \in {"construct", "map"}
        /\ UNCHANGED <<prog, name, made, magic, seg, isNew, asked, early, calm, raced, disturbed,
                       items, stops, stored>>
    BY <1>5 DEF Truncate, Types, Steps, segments, history, told, opening, reading
  <2>2. seg[p] \in 1 .. made
    BY <2>1 DEF Types, Opened
  <2>3. Types'
    BY <2>1, <2>2 DEF Types
  <2>4. Opened'
    BY <2>1, <2>2 DEF Types, Opened, ResetSteps, RingSteps
  <2>. QED
    BY <1>1, <2>3, <2>4
<1>6. CASE Map(p) \/ Check(p)
  <2>1. /\ UNCHANGED <<prog, posix, magic, seg, asked, early, calm, raced, disturbed, items, stops, stored>>
        /\ isNew' \in [Procs -> BOOLEAN]
        /\ pc' \in [Procs -> Steps] /\ \A q \in Procs \ {p} : pc'[q] = pc[q]
        /\ pc'[p] \in {"check", "invalid", "resetHeader", "ready"} /\ pc[p] \in {"map", "check"}
        /\ pc'[p] # "invalid" => seg[p] \in sized
    BY <1>6 DEF Map, Check, Types, Opened, Steps, ResetSteps, segments, history, told, opening, reading
  <2>2. Types'
    BY <2>1 DEF Types, posix
  <2>3. Opened'
    BY <2>1 DEF Opened, Types, posix, ResetSteps, RingSteps
  <2>. QED
    BY <1>1, <2>2, <2>3
<1>7. CASE Retry(p)
  BY <1>0, <1>1, <1>7 DEF Retry, posix, segments, history, told, opening, reading, Types, Opened, Steps,
                          ResetSteps, RingSteps
<1>. QED
  BY <1>2, <1>3, <1>4, <1>5, <1>6, <1>7

LEMMA ResettingTypes ==
    ASSUME TypeInv, NEW p \in Procs,
           \/ ResetHeader(p) \/ ResetWritePos(p) \/ ResetReadPos(p) \/ ResetConfirmedPos(p)
           \/ ResetNextSeq(p) \/ Memset(p) \/ StoreWord(p)
    PROVE  TypeInv'
<1>. USE DEF TypeInv, None, Goto
<1>1. seg[p] \in sized /\ seg[p] \in Segments
  <2>1. pc[p] \in ResetSteps \cup {"store"}
    BY DEF ResetHeader, ResetWritePos, ResetReadPos, ResetConfirmedPos, ResetNextSeq, Memset,
           StoreWord, ResetSteps, RingSteps
  <2>. QED
    BY <2>1, BoundsAssumption DEF Opened, Types, Segments
<1>2. /\ pc' \in [Procs -> Steps] /\ \A q \in Procs \ {p} : pc'[q] = pc[q]
      /\ asked' \in [Procs -> BOOLEAN] /\ \A q \in Procs \ {p} : asked'[q] = asked[q]
      /\ pc'[p] \in {"ready", "store", "down"} \cup ResetSteps
      /\ asked'[p] => asked[p] /\ pc'[p] \in ResetSteps
      /\ stored' \subseteq Nat
      /\ UNCHANGED <<prog, posix, seg, isNew, early, calm, raced, disturbed, items, stops, floor, out>>
  <2>1. CASE ResetHeader(p)
    BY <2>1 DEF ResetHeader, history, told, opening, reading, Types, Opened, Steps, ResetSteps, RingSteps, copy
  <2>2. CASE ResetWritePos(p) \/ ResetReadPos(p) \/ ResetConfirmedPos(p) \/ ResetNextSeq(p)
    BY <2>2 DEF ResetWritePos, ResetReadPos, ResetConfirmedPos, ResetNextSeq, history, told, opening,
                reading, Types, Opened, Steps, ResetSteps, RingSteps, copy
  <2>3. CASE Memset(p)
    <3>1. /\ pc[p] = "memset" /\ UNCHANGED <<prog, posix, seg, isNew, early, calm, raced, disturbed,
                                            items, stops, floor, out, stored>>
          /\ \/ pc' = [pc EXCEPT ![p] = "ready"] /\ asked' = [asked EXCEPT ![p] = FALSE]
             \/ UNCHANGED <<pc, asked>>
      BY <2>3 DEF Memset, opening, reading, copy
    <3>. QED
      BY <3>1 DEF Types, Opened, Steps, ResetSteps, RingSteps
  <2>4. CASE StoreWord(p)
    <3>1. /\ pc[p] \in {"resetValue", "store"}
          /\ UNCHANGED <<prog, posix, seg, isNew, early, calm, raced, disturbed, items, stops, floor, out>>
          /\ \/ /\ \E l \in {"down", "ready"} : pc' = [pc EXCEPT ![p] = l]
                /\ asked' = [asked EXCEPT ![p] = FALSE] /\ stored' \in {stored, {source[p]}}
             \/ UNCHANGED <<pc, asked, stored>>
      BY <2>4 DEF StoreWord, opening, reading
    <3>2. {source[p]} \subseteq Nat
      BY DEF CopyTypes
    <3>. QED
      BY <3>1, <3>2 DEF Types, Opened, Steps, ResetSteps, RingSteps
  <2>. QED
    BY <2>1, <2>2, <2>3, <2>4
<1>3. magic' \in {magic, magic \cup {seg[p]}}
  BY DEF ResetHeader, ResetWritePos, ResetReadPos, ResetConfirmedPos, ResetNextSeq, Memset, StoreWord
<1>4. Types'
  BY <1>1, <1>2, <1>3 DEF Types, posix
<1>5. Opened'
  BY <1>1, <1>2 DEF Opened, posix, ResetSteps, RingSteps
<1>6. SegmentTypes'
  <2>1. CASE ResetHeader(p)
    BY <2>1 DEF ResetHeader, SegmentTypes, ring
  <2>2. CASE ResetWritePos(p) \/ ResetReadPos(p) \/ ResetConfirmedPos(p) \/ ResetNextSeq(p)
    <3>1. \A t \in {0, 1} : /\ [write_pos EXCEPT ![seg[p]] = t] \in [Segments -> Nat]
                             /\ [read_pos EXCEPT ![seg[p]] = t] \in [Segments -> Nat]
                             /\ [confirmed_pos EXCEPT ![seg[p]] = t] \in [Segments -> Nat]
                             /\ [next_seq EXCEPT ![seg[p]] = t] \in [Segments -> Nat]
      BY Updated DEF SegmentTypes
    <3>2. UNCHANGED <<buffer, value>>
      BY <2>2 DEF ResetWritePos, ResetReadPos, ResetConfirmedPos, ResetNextSeq
    <3>3. /\ write_pos' \in [Segments -> Nat] /\ read_pos' \in [Segments -> Nat]
          /\ confirmed_pos' \in [Segments -> Nat] /\ next_seq' \in [Segments -> Nat]
      <4>1. /\ write_pos' \in {write_pos, [write_pos EXCEPT ![seg[p]] = 0]}
            /\ read_pos' \in {read_pos, [read_pos EXCEPT ![seg[p]] = 0]}
            /\ confirmed_pos' \in {confirmed_pos, [confirmed_pos EXCEPT ![seg[p]] = 0]}
            /\ next_seq' \in {next_seq, [next_seq EXCEPT ![seg[p]] = 1]}
        BY <2>2 DEF ResetWritePos, ResetReadPos, ResetConfirmedPos, ResetNextSeq
      <4>. QED
        BY <3>1, <4>1 DEF SegmentTypes
    <3>. QED
      BY <3>2, <3>3 DEF SegmentTypes
  <2>3. CASE Memset(p)
    <3>1. PICK cleared \in SUBSET Positions :
            buffer' = [buffer EXCEPT ![seg[p]] =
                         [k \in Positions |-> IF k \in cleared THEN Zeros ELSE buffer[seg[p]][k]]]
      BY <2>3 DEF Memset
    <3>2. [k \in Positions |-> IF k \in cleared THEN Zeros ELSE buffer[seg[p]][k]]
            \in [Positions -> [seq : Nat, item : Nat]]
      <4>1. buffer[seg[p]] \in [Positions -> [seq : Nat, item : Nat]]
        BY <1>1 DEF SegmentTypes
      <4>2. Zeros \in [seq : Nat, item : Nat]
        BY DEF Zeros
      <4>. QED
        BY <4>1, <4>2
    <3>3. buffer' \in [Segments -> [Positions -> [seq : Nat, item : Nat]]]
      BY <3>1, <3>2 DEF SegmentTypes
    <3>. QED
      BY <2>3, <3>3 DEF Memset, SegmentTypes
  <2>4. CASE StoreWord(p)
    <3>1. PICK w \in todo[p] : value' = [value EXCEPT ![seg[p]][w] = source[p]]
      BY <2>4 DEF StoreWord
    <3>2. source[p] \in Int
      BY DEF CopyTypes
    <3>3. value' \in [Segments -> [Words -> Int]]
      BY <3>1, <3>2 DEF SegmentTypes
    <3>. QED
      BY <2>4, <3>3 DEF StoreWord, SegmentTypes, ring
  <2>. QED
    BY <2>1, <2>2, <2>3, <2>4
<1>7. CopyTypes'
  <2>1. CASE ResetHeader(p)
    BY <1>2, <2>1 DEF ResetHeader, CopyTypes, copy, Default
  <2>2. CASE \/ ResetWritePos(p) \/ ResetReadPos(p) \/ ResetConfirmedPos(p) \/ ResetNextSeq(p)
             \/ Memset(p)
    BY <1>2, <2>2 DEF ResetWritePos, ResetReadPos, ResetConfirmedPos, ResetNextSeq, Memset, CopyTypes, copy
  <2>3. CASE StoreWord(p)
    BY <1>2, <2>3 DEF StoreWord, CopyTypes
  <2>. QED
    BY <2>1, <2>2, <2>3
<1>. QED
  BY <1>4, <1>5, <1>6, <1>7

LEMMA UsingTypes ==
    ASSUME TypeInv, NEW p \in Procs,
           Append(p) \/ ReadNext(p) \/ Confirm(p) \/ Write(p) \/ Reset(p) \/ Stop(p)
    PROVE  TypeInv'
<1>. USE DEF TypeInv, None, Goto
<1>1. pc[p] = "ready" => seg[p] \in Segments
  BY BoundsAssumption DEF Opened, Types, Segments
<1>2. CASE Append(p) \/ ReadNext(p) \/ Confirm(p)
  <2>1. /\ pc[p] = "ready"
        /\ UNCHANGED <<prog, posix, magic, value, pc, seg, isNew, copy, asked, stops, opening, reading>>
        /\ disturbed' \in BOOLEAN
    BY <1>2 DEF Append, ReadNext, Confirm, Called, Types
  <2>2. items' \in 0 .. MaxItems /\ items' \in Nat
    <3>1. CASE Append(p)
      BY <3>1, BoundsAssumption DEF Append, Types
    <3>2. CASE ReadNext(p) \/ Confirm(p)
      BY <3>2, BoundsAssumption DEF ReadNext, Confirm, Types
    <3>. QED
      BY <1>2, <3>1, <3>2
  <2>3. stored' \subseteq Nat
    <3>1. stored' \subseteq stored \cup {items'}
      <4>1. CASE Append(p)
        BY <4>1 DEF Append
      <4>2. CASE ReadNext(p)
        BY <4>2 DEF ReadNext
      <4>3. CASE Confirm(p)
        BY <4>3 DEF Confirm
      <4>. QED
        BY <1>2, <4>1, <4>2, <4>3
    <3>. QED
      BY <2>2, <3>1 DEF Types
  <2>4. Types' /\ CopyTypes' /\ Opened'
    <3>1. Types'
      BY <2>1, <2>2, <2>3 DEF Types, posix, opening, reading
    <3>2. CopyTypes' /\ Opened'
      BY <2>1 DEF CopyTypes, Opened, posix, copy, reading
    <3>. QED
      BY <3>1, <3>2
  <2>5. SegmentTypes'
    <3>1. CASE Append(p)
      <4>1. /\ next_seq' = [next_seq EXCEPT ![seg[p]] = next_seq[seg[p]] + 1]
            /\ write_pos' = [write_pos EXCEPT ![seg[p]] = write_pos[seg[p]] + 1]
            /\ buffer' = [buffer EXCEPT ![seg[p]][write_pos[seg[p]]] =
                            [seq |-> next_seq[seg[p]], item |-> items']]
            /\ UNCHANGED <<read_pos, confirmed_pos>>
        BY <3>1 DEF Append
      <4>2. next_seq[seg[p]] \in Nat /\ write_pos[seg[p]] \in Nat
        BY <1>1, <2>1 DEF SegmentTypes
      <4>3. next_seq' \in [Segments -> Nat] /\ write_pos' \in [Segments -> Nat]
        <5>1. next_seq[seg[p]] + 1 \in Nat /\ write_pos[seg[p]] + 1 \in Nat
          BY <4>2
        <5>. QED
          BY <4>1, <5>1, Updated DEF SegmentTypes
      <4>4. [seq |-> next_seq[seg[p]], item |-> items'] \in [seq : Nat, item : Nat]
        BY <2>2, <4>2
      <4>5. buffer' \in [Segments -> [Positions -> [seq : Nat, item : Nat]]]
        BY <4>1, <4>4 DEF SegmentTypes
      <4>. QED
        BY <2>1, <4>1, <4>3, <4>5 DEF SegmentTypes
    <3>2. CASE ReadNext(p)
      <4>1. read_pos[seg[p]] \in Nat
        BY <1>1, <2>1 DEF SegmentTypes
      <4>. QED
        <5>1. read_pos[seg[p]] + 1 \in Nat
          BY <4>1
        <5>2. read_pos' = [read_pos EXCEPT ![seg[p]] = read_pos[seg[p]] + 1]
          BY <3>2 DEF ReadNext
        <5>3. read_pos' \in [Segments -> Nat]
          BY <5>1, <5>2, Updated DEF SegmentTypes
        <5>. QED
          BY <3>2, <5>3 DEF ReadNext, SegmentTypes
    <3>3. CASE Confirm(p)
      <4>1. read_pos[seg[p]] \in Nat /\ confirmed_pos[seg[p]] \in Nat
        BY <1>1, <2>1 DEF SegmentTypes
      <4>2. PICK k \in confirmed_pos[seg[p]] .. read_pos[seg[p]] - 1 :
               confirmed_pos' = [confirmed_pos EXCEPT ![seg[p]] = k + 1]
        BY <3>3 DEF Confirm
      <4>3. k + 1 \in Nat
        BY <4>1
      <4>4. confirmed_pos' \in [Segments -> Nat]
        BY <4>2, <4>3 DEF SegmentTypes
      <4>. QED
        BY <3>3, <4>4 DEF Confirm, SegmentTypes
    <3>. QED
      BY <1>2, <3>1, <3>2, <3>3
  <2>. QED
    BY <2>4, <2>5
<1>3. CASE Write(p) \/ Reset(p)
  <2>1. /\ pc[p] = "ready" /\ UNCHANGED <<prog, posix, segments, seg, isNew, stops, opening, reading, out>>
        /\ disturbed' \in BOOLEAN /\ stored' = {} /\ items' \in 0 .. MaxItems
        /\ pc' \in [Procs -> Steps] /\ \A q \in Procs \ {p} : pc'[q] = pc[q]
        /\ pc'[p] \in {"store", "resetHeader", "resetValue"}
        /\ asked' \in [Procs -> BOOLEAN] /\ (\A q \in Procs \ {p} : asked'[q] = asked[q])
        /\ asked'[p] => pc'[p] \in ResetSteps
    <3>1. CASE Write(p)
      BY <3>1, BoundsAssumption DEF Write, Called, Types, Opened, Steps, ResetSteps, RingSteps
    <3>2. CASE Reset(p)
      BY <3>2 DEF Reset, Called, Types, Steps, ResetSteps, RingSteps, copy
    <3>. QED
      BY <1>3, <3>1, <3>2
  <2>2. SegmentTypes'
    BY <2>1 DEF SegmentTypes, segments, ring
  <2>3. Types'
    BY <2>1 DEF Types, posix, opening, reading, segments
  <2>4. Opened'
    BY <2>1 DEF Opened, posix, ResetSteps, RingSteps
  <2>5. CopyTypes'
    <3>1. source' \in [Procs -> Nat] /\ todo' \in [Procs -> SUBSET Words]
      <4>1. CASE Write(p)
        <5>1. items' \in Nat
          BY <2>1
        <5>. QED
          BY <4>1, <5>1 DEF Write, CopyTypes
      <4>2. CASE Reset(p)
        BY <4>2 DEF Reset, CopyTypes, copy, Default
      <4>. QED
        BY <1>3, <4>1, <4>2
    <3>. QED
      BY <2>1, <3>1 DEF CopyTypes, reading
  <2>. QED
    BY <2>2, <2>3, <2>4, <2>5
<1>4. CASE Stop(p)
  <2>1. /\ pc' = [pc EXCEPT ![p] = "down"] /\ seg' = [seg EXCEPT ![p] = 0]
        /\ asked' = [asked EXCEPT ![p] = FALSE] /\ calm' = [calm EXCEPT ![p] = FALSE]
        /\ early' = [early EXCEPT ![p] = FALSE] /\ isNew' = [isNew EXCEPT ![p] = FALSE]
        /\ todo' = [todo EXCEPT ![p] = {}] /\ out' = [out EXCEPT ![p] = {}]
        /\ source' = [source EXCEPT ![p] = 0]
        /\ stops' = stops + 1 /\ disturbed' \in BOOLEAN
        /\ UNCHANGED <<prog, posix, segments, items, stored, raced, floor>>
    BY <1>4 DEF Stop, Default, Types
  <2>2. SegmentTypes' /\ CopyTypes'
    BY <2>1 DEF SegmentTypes, CopyTypes, segments, ring
  <2>3. Types'
    <3>1. 0 \in 0 .. made
      BY DEF Types
    <3>2. /\ pc' \in [Procs -> Steps] /\ seg' \in [Procs -> 0 .. made]
          /\ asked' \in [Procs -> BOOLEAN] /\ calm' \in [Procs -> BOOLEAN]
          /\ early' \in [Procs -> BOOLEAN] /\ isNew' \in [Procs -> BOOLEAN] /\ stops' \in Nat
      BY <2>1, <3>1 DEF Types, Steps
    <3>. QED
      BY <2>1, <3>2 DEF Types, posix, segments
  <2>4. Opened'
    BY <2>1 DEF Opened, Types, posix, ResetSteps, RingSteps
  <2>. QED
    BY <2>2, <2>3, <2>4
<1>. QED
  BY <1>2, <1>3, <1>4

LEMMA HandingTypes ==
    ASSUME TypeInv, NEW p \in Procs,
           WriteShm(p) \/ Construct(p) \/ ReadShm(p) \/ Find(p) \/ LoadWord(p)
    PROVE  TypeInv'
<1>. USE DEF TypeInv, None, Goto
<1>1. UNCHANGED <<prog, posix, magic, ring, isNew, asked, disturbed, stored, stops, early, raced>>
  BY DEF WriteShm, Construct, ReadShm, Find, LoadWord, segments, history, told, opening
<1>2. /\ pc' \in [Procs -> Steps] /\ \A q \in Procs \ {p} : pc'[q] = pc[q]
      /\ pc'[p] \in {"remove", "store", "down", "find", "load"} /\ ~asked[p]
      /\ pc'[p] = "store" => seg[p] \in sized /\ seg' = seg
      /\ pc'[p] = "find" => seg'[p] # 0
      /\ pc'[p] = "load" => seg[p] # 0 /\ seg' = seg
      /\ seg' \in [Procs -> 0 .. made] /\ \A q \in Procs \ {p} : seg'[q] = seg[q]
      /\ items' \in 0 .. MaxItems /\ calm' \in [Procs -> BOOLEAN]
  <2>1. CASE WriteShm(p)
    BY <2>1, BoundsAssumption DEF WriteShm, reading, Types, Opened, Steps, ResetSteps, RingSteps
  <2>2. CASE Construct(p)
    BY <2>2 DEF Construct, history, told, reading, Types, Opened, Steps, ResetSteps, RingSteps
  <2>3. CASE ReadShm(p)
    BY <2>3 DEF ReadShm, told, Types, Opened, Steps, ResetSteps, RingSteps
  <2>4. CASE Find(p)
    BY <2>4 DEF Find, Returned, told, Types, Opened, Steps, ResetSteps, RingSteps
  <2>5. CASE LoadWord(p)
    BY <2>5 DEF LoadWord, Returned, told, Types, Opened, Steps, ResetSteps, RingSteps
  <2>. QED
    BY <2>1, <2>2, <2>3, <2>4, <2>5
<1>3. Types'
  BY <1>1, <1>2 DEF Types, posix
<1>4. Opened'
  BY <1>1, <1>2 DEF Opened, Types, posix, ResetSteps, RingSteps
<1>5. SegmentTypes'
  <2>1. value' \in [Segments -> [Words -> Int]]
    <3>1. CASE Construct(p)
      <4>1. [w \in Words |-> 0] \in [Words -> Int]
        OBVIOUS
      <4>. QED
        BY <3>1, <4>1 DEF Construct, Default, SegmentTypes
    <3>2. CASE WriteShm(p) \/ ReadShm(p) \/ Find(p) \/ LoadWord(p)
      BY <3>2 DEF WriteShm, ReadShm, Find, LoadWord, SegmentTypes, segments
    <3>. QED
      BY <3>1, <3>2
  <2>. QED
    BY <1>1, <2>1 DEF SegmentTypes, ring
<1>6. CopyTypes'
  <2>1. items \in Nat
    BY DEF Types
  <2>2. CASE WriteShm(p) \/ Construct(p)
    BY <2>1, <2>2 DEF WriteShm, Construct, CopyTypes, copy, history, reading
  <2>3. CASE ReadShm(p)
    <3>1. PICK f : /\ floor' = [floor EXCEPT ![p] = f]
                   /\ f = IF stored = {} THEN 0 ELSE CHOOSE i \in stored : TRUE
      BY <2>3 DEF ReadShm, Default
    <3>2. f \in Nat
      BY <3>1 DEF Types
    <3>. QED
      BY <2>3, <3>1, <3>2 DEF ReadShm, CopyTypes
  <2>4. CASE Find(p)
    BY <2>4 DEF Find, Returned, CopyTypes
  <2>5. CASE LoadWord(p)
    <3>1. PICK w \in todo[p] : /\ out' = [out EXCEPT ![p] = out[p] \cup {value[seg[p]][w]}]
                               /\ todo' = [todo EXCEPT ![p] = todo[p] \ {w}]
      BY <2>5 DEF LoadWord
    <3>2. value[seg[p]][w] \in Int
      <4>1. w \in Words /\ seg[p] \in Segments
        BY <2>5, <3>1, BoundsAssumption DEF LoadWord, CopyTypes, Opened, Types, Segments
      <4>. QED
        BY <4>1 DEF SegmentTypes
    <3>. QED
      BY <2>5, <3>1, <3>2 DEF LoadWord, CopyTypes
  <2>. QED
    BY <2>2, <2>3, <2>4, <2>5
<1>. QED
  BY <1>3, <1>4, <1>5, <1>6

THEOREM TypesHold == Spec => []TypeInv
<1>1. Init => TypeInv
  BY InitTypes
<1>2. TypeInv /\ [Next]_vars => TypeInv'
  <2> SUFFICES ASSUME TypeInv, [Next]_vars
               PROVE  TypeInv'
    OBVIOUS
  <2>1. CASE UNCHANGED vars
    BY <2>1 DEF vars, posix, segments, ring, copy, history, told, opening, reading, TypeInv, Types,
                SegmentTypes, CopyTypes, Opened
  <2>2. CASE Next
    BY <2>2, OpeningTypes, ResettingTypes, UsingTypes, HandingTypes DEF Next
  <2>. QED
    BY <2>1, <2>2
<1>. QED
  BY <1>1, <1>2, PTL DEF Spec

----------------------------------------------------------------------------
(* Processes that share a segment. A process is settled when the segment    *)
(* it has opened was initialised before, and first when it is about to      *)
(* initialise one: until two of the latter meet (raced), a first process is *)
(* alone, and everything else is settled on the named segment.              *)

Sharing == \A p \in Procs : Shares(p)

Settled(p) == pc[p] = "ready" \/ Busy(p) \/ (Opening(p) /\ ~early[p])
First(p) == Opening(p) /\ early[p]

Named ==
    \A p \in Procs : Settled(p) =>
        /\ seg[p] = name /\ name \in magic
        /\ Opening(p) => pc[p] \in {"map", "check"} /\ ~isNew[p]

Alone ==
    \A p, q \in Procs : First(p) /\ p # q => pc[q] \in {"down", "invalid"}

Initialising ==
    \A p \in Procs : First(p) =>
        /\ pc[p] \notin {"construct", "find", "load"}
        /\ pc[p] \in {"remove", "create"} => name = None
        /\ pc[p] = "truncate" => seg[p] = name /\ name \notin sized /\ isNew[p]
        /\ pc[p] = "map" => /\ seg[p] = name /\ name # None
                            /\ name \notin magic
                            /\ isNew[p] => name \in sized
        /\ pc[p] \in {"check", "resetHeader"} => seg[p] = name /\ name \notin magic
        /\ pc[p] \in RingSteps \cup {"resetValue"} => seg[p] = name /\ name \in magic

\* What a crash between create_only and truncate leaves behind.
Abandoned ==
    /\ \A p \in Procs :
         pc[p] = "invalid" => stops > 0 /\ name # None /\ name \notin sized
    /\ \A p, q \in Procs : pc[p] = "truncate" => pc[q] # "invalid"
    /\ name # None /\ name \notin sized =>
         stops > 0 \/ \E p \in Procs : pc[p] = "truncate"

ShareInv ==
    Sharing /\ ~raced => Named /\ Alone /\ Initialising /\ Abandoned

LEMMA InitShare == Init => ShareInv
  BY DEF Init, ShareInv, Named, Alone, Initialising, Abandoned, Settled, First, Opening, Busy, None

\* A process that begins to open while nobody is initialising the segment
\* finds it initialised, or is alone.
LEMMA OpenShares ==
    ASSUME TypeInv, Sharing, ~raced', ShareInv, NEW p \in Procs, Open(p)
    PROVE  Named' /\ Alone' /\ Initialising' /\ Abandoned'
<1>. USE DEF None, Busy
<1>1. /\ pc[p] = "down" /\ seg' = [seg EXCEPT ![p] = name] /\ isNew' = [isNew EXCEPT ![p] = FALSE]
      /\ pc' = [pc EXCEPT ![p] = IF name = 0 THEN "remove" ELSE "map"]
      /\ early' = [early EXCEPT ![p] = name \notin magic]
      /\ UNCHANGED <<prog, name, made, sized, magic, stops, asked>>
  BY DEF Open, Goto, Began, posix, segments, told
<1>2. ~raced /\ \A q \in Procs \ {p} : Opening(q) => ~early[q]
  BY DEF Open, Began
<1>3. Named /\ Alone /\ Initialising /\ Abandoned
  BY <1>2 DEF ShareInv
<1>4. /\ pc'[p] = (IF name = 0 THEN "remove" ELSE "map") /\ seg'[p] = name /\ ~isNew'[p]
      /\ (early'[p] <=> name \notin magic) /\ ~asked[p]
  BY <1>1 DEF TypeInv, Types, Opened, ResetSteps, RingSteps
<1>5. \A q \in Procs \ {p} : /\ pc'[q] = pc[q] /\ seg'[q] = seg[q] /\ isNew'[q] = isNew[q]
                              /\ early'[q] = early[q]
  BY <1>1 DEF TypeInv, Types
<1>6. 0 \notin magic
  BY DEF TypeInv, Types
<1>7. \A q \in Procs \ {p} : ~First(q)'
  BY <1>1, <1>2, <1>5 DEF First, Opening
<1>8. First(p)' <=> name \notin magic
  BY <1>1, <1>4, <1>6 DEF First, Opening
<1>9. Named'
  <2>1. ASSUME NEW q \in Procs \ {p}, Settled(q)'
        PROVE  Settled(q)
    BY <1>1, <1>5, <2>1 DEF Settled, Opening
  <2>2. ASSUME NEW q \in Procs \ {p}, Settled(q)'
        PROVE  /\ seg'[q] = name' /\ name' \in magic'
               /\ Opening(q)' => pc'[q] \in {"map", "check"} /\ ~isNew'[q]
    BY <1>1, <1>3, <1>5, <2>1, <2>2 DEF Named, Opening
  <2>3. Settled(p)' => name \in magic /\ pc'[p] = "map"
    BY <1>1, <1>4, <1>6 DEF Settled, Opening
  <2>. QED
    BY <1>1, <1>4, <2>2, <2>3 DEF Named
<1>10. Alone'
  <2>1. ASSUME name \notin magic, NEW q \in Procs \ {p}
        PROVE  pc'[q] \in {"down", "invalid"}
    <3>1. ~Settled(q)
      BY <1>3, <2>1 DEF Named
    <3>2. ~Opening(q)
      BY <1>2, <3>1 DEF Settled
    <3>. QED
      BY <1>5, <3>1, <3>2 DEF Settled, Opening
  <2>. QED
    BY <1>7, <1>8, <2>1 DEF Alone
<1>11. Initialising'
  BY <1>1, <1>4, <1>7, <1>8 DEF Initialising, RingSteps
<1>12. Abandoned'
  BY <1>1, <1>3, <1>4, <1>5 DEF Abandoned
<1>. QED
  BY <1>9, <1>10, <1>11, <1>12

\* The other steps of Initialize: those of a process that is first, which
\* ends settled on the segment it has initialised, and those of a process
\* that finds it initialised.
LEMMA RemoveShares ==
    ASSUME TypeInv, Sharing, ~raced, ShareInv, NEW p \in Procs, Remove(p)
    PROVE  Named' /\ Alone' /\ Initialising' /\ Abandoned'
<1>. USE DEF None, Busy
<1>1. /\ pc[p] = "remove" /\ pc' = [pc EXCEPT ![p] = "create"] /\ name' = 0
      /\ UNCHANGED <<prog, made, sized, magic, seg, isNew, stops, asked, early>>
  BY DEF Remove, Goto, history, told, opening, segments
<1>2. Named /\ Alone /\ Initialising /\ Abandoned
  BY DEF ShareInv
<1>3. pc'[p] = "create" /\ \A q \in Procs \ {p} : pc'[q] = pc[q]
  BY <1>1 DEF TypeInv, Types
<1>4. First(p) /\ ~asked[p]
  BY <1>1, <1>2 DEF TypeInv, Opened, Named, Settled, First, Opening, ResetSteps, RingSteps
<1>5. name' = name
  BY <1>1, <1>2, <1>4 DEF Initialising
<1>6. \A q \in Procs : /\ (First(q)' <=> First(q)) /\ (Settled(q)' <=> Settled(q))
                       /\ (Opening(q)' <=> Opening(q))
  BY <1>1, <1>3 DEF First, Settled, Opening
<1>7. Named' /\ Alone'
  BY <1>1, <1>2, <1>3, <1>4, <1>5, <1>6 DEF Named, Alone
<1>8. Initialising' /\ Abandoned'
  BY <1>1, <1>2, <1>3, <1>4, <1>5, <1>6 DEF Initialising, Abandoned, RingSteps
<1>. QED
  BY <1>7, <1>8

LEMMA CreateShares ==
    ASSUME TypeInv, Sharing, ~raced, ShareInv, NEW p \in Procs, Create(p)
    PROVE  Named' /\ Alone' /\ Initialising' /\ Abandoned'
<1>. USE DEF None, Busy
<1>1. Named /\ Alone /\ Initialising /\ Abandoned
  BY DEF ShareInv
<1>2. pc[p] = "create"
  BY DEF Create
<1>3. First(p) /\ ~asked[p] /\ name = 0
  BY <1>1, <1>2 DEF TypeInv, Opened, Named, Settled, First, Opening, Initialising, ResetSteps, RingSteps
<1>4. /\ made' = made + 1 /\ name' = made + 1 /\ seg' = [seg EXCEPT ![p] = made + 1]
      /\ isNew' = [isNew EXCEPT ![p] = TRUE] /\ pc' = [pc EXCEPT ![p] = "truncate"]
      /\ UNCHANGED <<prog, sized, magic, stops, asked, early>>
  BY <1>3 DEF Create, Goto, history, told, opening, segments
<1>5. pc'[p] = "truncate" /\ seg'[p] = made + 1 /\ isNew'[p]
  BY <1>4 DEF TypeInv, Types
<1>6. \A q \in Procs \ {p} : pc'[q] = pc[q] /\ seg'[q] = seg[q] /\ isNew'[q] = isNew[q]
  BY <1>4 DEF TypeInv, Types
<1>7. made + 1 \notin sized /\ made + 1 # 0 /\ made + 1 \notin magic /\ 0 \notin magic
  BY DEF TypeInv, Types
<1>8. \A q \in Procs \ {p} : pc[q] = "down"
  BY <1>1, <1>3 DEF Alone, Abandoned
<1>9. \A q \in Procs \ {p} : ~asked[q]
  BY <1>8 DEF TypeInv, Opened, ResetSteps, RingSteps
<1>10. First(p)' /\ ~Settled(p)' /\ \A q \in Procs \ {p} : ~First(q)' /\ ~Settled(q)'
  BY <1>3, <1>4, <1>5, <1>6, <1>8, <1>9 DEF First, Settled, Opening
<1>11. Named' /\ Alone'
  BY <1>6, <1>8, <1>10 DEF Named, Alone
<1>12. Initialising'
  BY <1>4, <1>5, <1>7, <1>10 DEF Initialising, RingSteps
<1>13. Abandoned'
  BY <1>1, <1>3, <1>4, <1>5, <1>6, <1>7, <1>8 DEF Abandoned
<1>. QED
  BY <1>11, <1>12, <1>13

LEMMA TruncateShares ==
    ASSUME TypeInv, Sharing, ~raced, ShareInv, NEW p \in Procs, Truncate(p)
    PROVE  Named' /\ Alone' /\ Initialising' /\ Abandoned'
<1>. USE DEF None, Busy
<1>1. Named /\ Alone /\ Initialising /\ Abandoned
  BY DEF ShareInv
<1>2. /\ pc[p] = "truncate" /\ sized' = sized \cup {seg[p]} /\ pc' = [pc EXCEPT ![p] = "map"]
      /\ UNCHANGED <<prog, name, made, magic, seg, isNew, stops, asked, early>>
  BY DEF Truncate, Goto, history, told, opening, segments, Sharing, Shares
<1>3. First(p) /\ ~asked[p] /\ seg[p] = name /\ name # 0 /\ isNew[p]
  BY <1>1, <1>2 DEF TypeInv, Opened, Named, Settled, First, Opening, Initialising, ResetSteps, RingSteps
<1>4. name \notin magic
  BY <1>1, <1>2, <1>3 DEF Initialising, TypeInv, Types
<1>5. pc'[p] = "map" /\ \A q \in Procs \ {p} : pc'[q] = pc[q]
  BY <1>2 DEF TypeInv, Types
<1>6. \A q \in Procs \ {p} : pc[q] = "down" /\ ~asked[q]
  BY <1>1, <1>2, <1>3 DEF Alone, Abandoned, TypeInv, Opened, ResetSteps, RingSteps
<1>7. First(p)' /\ ~Settled(p)' /\ \A q \in Procs \ {p} : ~First(q)' /\ ~Settled(q)'
  BY <1>2, <1>3, <1>5, <1>6 DEF First, Settled, Opening
<1>8. Named' /\ Alone'
  BY <1>5, <1>6, <1>7 DEF Named, Alone
<1>9. Initialising'
  BY <1>2, <1>3, <1>4, <1>5, <1>7 DEF Initialising, RingSteps
<1>10. Abandoned'
  BY <1>1, <1>2, <1>3, <1>5, <1>6 DEF Abandoned
<1>. QED
  BY <1>8, <1>9, <1>10

\* A segment without its size has no magic number either, and only a crash
\* has left one to a process that did not create it.
LEMMA MapShares ==
    ASSUME TypeInv, Sharing, ~raced, ShareInv, NEW p \in Procs, Map(p)
    PROVE  Named' /\ Alone' /\ Initialising' /\ Abandoned'
<1>. USE DEF None, Busy
<1>1. Named /\ Alone /\ Initialising /\ Abandoned
  BY DEF ShareInv
<1>2. /\ pc[p] = "map" /\ pc' = [pc EXCEPT ![p] = IF seg[p] \in sized THEN "check" ELSE "invalid"]
      /\ UNCHANGED <<prog, name, made, sized, magic, seg, isNew, stops, asked, early>>
  BY DEF Map, Goto, history, told, opening, segments, posix
<1>3. /\ pc'[p] = (IF seg[p] \in sized THEN "check" ELSE "invalid")
      /\ \A q \in Procs \ {p} : pc'[q] = pc[q]
  BY <1>2 DEF TypeInv, Types
<1>4. ~asked[p] /\ seg[p] = name /\ name # 0 /\ magic \subseteq sized
  BY <1>1, <1>2 DEF TypeInv, Types, Opened, Named, Settled, First, Opening, Initialising, ResetSteps,
                    RingSteps
<1>5. CASE seg[p] \in sized
  <2>1. pc'[p] = "check"
    BY <1>3, <1>5
  <2>2. \A q \in Procs : /\ (First(q)' <=> First(q)) /\ (Settled(q)' <=> Settled(q))
                         /\ (Opening(q)' <=> Opening(q))
    BY <1>2, <1>3, <2>1 DEF First, Settled, Opening
  <2>3. Named' /\ Alone'
    BY <1>1, <1>2, <1>3, <2>1, <2>2 DEF Named, Alone
  <2>4. Initialising'
    BY <1>1, <1>2, <1>3, <2>1, <2>2 DEF Initialising, RingSteps
  <2>5. Abandoned'
    BY <1>1, <1>2, <1>3, <2>1, <2>2 DEF Abandoned
  <2>. QED
    BY <2>3, <2>4, <2>5
<1>6. CASE seg[p] \notin sized
  <2>1. pc'[p] = "invalid"
    BY <1>3, <1>6
  <2>2. First(p) /\ name \notin sized
    BY <1>1, <1>2, <1>4, <1>6 DEF Named, Settled, First, Opening
  <2>3. \A q \in Procs \ {p} : pc[q] \in {"down", "invalid"} /\ ~asked[q]
    BY <1>1, <2>2 DEF Alone, TypeInv, Opened, ResetSteps, RingSteps
  <2>4. stops > 0
    BY <1>1, <1>2, <1>4, <2>2, <2>3 DEF Abandoned
  <2>5. \A q \in Procs : ~First(q)' /\ ~Settled(q)'
    BY <1>2, <1>3, <1>4, <2>1, <2>3 DEF First, Settled, Opening
  <2>6. Named' /\ Alone' /\ Initialising'
    BY <2>5 DEF Named, Alone, Initialising
  <2>7. Abandoned'
    BY <1>1, <1>2, <1>3, <1>4, <2>1, <2>2, <2>3, <2>4 DEF Abandoned
  <2>. QED
    BY <2>6, <2>7
<1>. QED
  BY <1>5, <1>6

LEMMA CheckShares ==
    ASSUME TypeInv, Sharing, ~raced, ShareInv, NEW p \in Procs, Check(p)
    PROVE  Named' /\ Alone' /\ Initialising' /\ Abandoned'
<1>. USE DEF Busy
<1>1. Named /\ Alone /\ Initialising /\ Abandoned
  BY DEF ShareInv
<1>2. /\ pc[p] = "check"
      /\ pc' = [pc EXCEPT ![p] = IF isNew[p] \/ seg[p] \notin magic THEN "resetHeader" ELSE "ready"]
      /\ isNew' = [isNew EXCEPT ![p] = FALSE]
      /\ UNCHANGED <<prog, name, made, sized, magic, seg, stops, asked, early>>
  BY DEF Check, NeedsReset, Goto, history, told, opening, segments, posix
<1>3. /\ pc'[p] = (IF isNew[p] \/ seg[p] \notin magic THEN "resetHeader" ELSE "ready")
      /\ \A q \in Procs \ {p} : pc'[q] = pc[q] /\ isNew'[q] = isNew[q]
  BY <1>2 DEF TypeInv, Types
<1>4. ~asked[p] /\ seg[p] = name
  BY <1>1, <1>2 DEF TypeInv, Opened, Named, Settled, First, Opening, Initialising, ResetSteps, RingSteps
<1>5. CASE First(p)
  <2>1. name \notin magic /\ pc'[p] = "resetHeader"
    BY <1>1, <1>2, <1>3, <1>4, <1>5 DEF Initialising
  <2>2. \A q \in Procs : /\ (First(q)' <=> First(q)) /\ (Settled(q)' <=> Settled(q))
                         /\ (Opening(q)' <=> Opening(q))
    BY <1>2, <1>3, <2>1 DEF First, Settled, Opening
  <2>3. Named' /\ Alone'
    BY <1>1, <1>2, <1>3, <1>5, <2>1, <2>2 DEF Named, Alone, First, Settled
  <2>4. Initialising'
    BY <1>1, <1>2, <1>3, <1>4, <1>5, <2>1, <2>2 DEF Initialising, RingSteps, Alone
  <2>5. Abandoned'
    BY <1>1, <1>2, <1>3, <2>1 DEF Abandoned
  <2>. QED
    BY <2>3, <2>4, <2>5
<1>6. CASE ~First(p)
  <2>1. Settled(p) /\ ~isNew[p] /\ name \in magic
    BY <1>1, <1>2, <1>4, <1>6 DEF First, Settled, Opening, Named
  <2>2. pc'[p] = "ready"
    BY <1>3, <1>4, <2>1
  <2>3. \A q \in Procs : (First(q)' <=> First(q)) /\ (Settled(q)' <=> Settled(q))
    BY <1>2, <1>3, <1>6, <2>1, <2>2 DEF First, Settled, Opening
  <2>4. Named' /\ Alone'
    <3>1. \A q \in Procs : ~First(q)
      BY <1>1, <1>2, <1>6 DEF Alone
    <3>2. \A q \in Procs \ {p} : Opening(q)' <=> Opening(q)
      BY <1>2, <1>3 DEF Opening
    <3>3. ~Opening(p)'
      BY <2>2 DEF Opening
    <3>. QED
      BY <1>1, <1>2, <1>3, <1>4, <2>1, <2>3, <3>1, <3>2, <3>3 DEF Named, Alone
  <2>5. Initialising'
    <3>1. \A q \in Procs : ~First(q)
      BY <1>1, <1>2, <1>6 DEF Alone
    <3>. QED
      BY <2>3, <3>1 DEF Initialising
  <2>6. Abandoned'
    BY <1>1, <1>2, <1>3, <2>2 DEF Abandoned
  <2>. QED
    BY <2>4, <2>5, <2>6
<1>. QED
  BY <1>5, <1>6

LEMMA ResetHeaderShares ==
    ASSUME TypeInv, Sharing, ~raced, ShareInv, NEW p \in Procs, ResetHeader(p)
    PROVE  Named' /\ Alone' /\ Initialising' /\ Abandoned'
<1>. USE DEF Busy
<1>1. Named /\ Alone /\ Initialising /\ Abandoned
  BY DEF ShareInv
<1>2. /\ pc[p] = "resetHeader" /\ magic' = magic \cup {seg[p]}
      /\ UNCHANGED <<prog, name, made, sized, seg, isNew, stops, asked, early>>
  BY DEF ResetHeader, Goto, history, told, opening, posix
<1>3. pc'[p] \in {"resetWritePos", "resetValue"} /\ \A q \in Procs \ {p} : pc'[q] = pc[q]
  BY DEF ResetHeader, Goto, TypeInv, Types
<1>4. \A q \in Procs : /\ (First(q)' <=> First(q)) /\ (Settled(q)' <=> Settled(q))
                       /\ (Opening(q)' <=> Opening(q))
  BY <1>2, <1>3 DEF First, Settled, Opening
<1>5. seg[p] = name /\ name \in sized
  BY <1>1, <1>2 DEF TypeInv, Opened, Named, Settled, First, Opening, Initialising, ResetSteps
<1>6. Abandoned'
  BY <1>1, <1>2, <1>3, <1>5 DEF Abandoned
<1>7. CASE First(p)
  <2>1. name \notin magic
    BY <1>1, <1>2, <1>7 DEF Initialising
  <2>2. \A q \in Procs \ {p} : ~Settled(q) /\ ~First(q)
    BY <1>1, <1>7, <2>1 DEF Named, Alone, First, Opening
  <2>3. Named' /\ Alone'
    BY <1>1, <1>2, <1>3, <1>4, <1>7, <2>2 DEF Named, Alone, First, Settled
  <2>4. Initialising'
    BY <1>2, <1>3, <1>4, <1>5, <2>1, <2>2 DEF Initialising, RingSteps
  <2>. QED
    BY <1>6, <2>3, <2>4
<1>8. CASE ~First(p)
  <2>1. asked[p] /\ name \in magic
    BY <1>1, <1>2, <1>8 DEF First, Settled, Opening, Named
  <2>2. magic' = magic
    BY <1>2, <1>5, <2>1
  <2>3. \A q \in Procs : ~First(q)
    BY <1>1, <1>2, <1>8 DEF Alone
  <2>4. Named' /\ Alone' /\ Initialising'
    BY <1>1, <1>2, <1>3, <1>4, <1>5, <2>1, <2>2, <2>3 DEF Named, Alone, Initialising
  <2>. QED
    BY <1>6, <2>4
<1>. QED
  BY <1>7, <1>8

\* The stores that follow the magic number: the process goes on with the
\* next, or it is ready.
LEMMA ResetShares ==
    ASSUME TypeInv, Sharing, ~raced, ShareInv, NEW p \in Procs,
           \/ ResetWritePos(p) \/ ResetReadPos(p) \/ ResetConfirmedPos(p) \/ ResetNextSeq(p)
           \/ Memset(p) \/ StoreWord(p)
    PROVE  Named' /\ Alone' /\ Initialising' /\ Abandoned'
<1>. USE DEF Busy
<1>1. Named /\ Alone /\ Initialising /\ Abandoned
  BY DEF ShareInv
<1>2. /\ pc[p] \in RingSteps \cup {"resetValue", "store"}
      /\ UNCHANGED <<prog, name, made, sized, magic, seg, isNew, stops, early>>
  BY DEF ResetWritePos, ResetReadPos, ResetConfirmedPos, ResetNextSeq, Memset, StoreWord, RingSteps,
         history, opening, posix
<1>3. /\ \A q \in Procs \ {p} : pc'[q] = pc[q] /\ asked'[q] = asked[q]
      /\ \/ pc'[p] = "ready" /\ ~asked'[p]
         \/ pc'[p] \in RingSteps /\ pc[p] \in RingSteps /\ asked'[p] = asked[p]
         \/ pc'[p] = pc[p] /\ asked'[p] = asked[p]
  <2>1. CASE ResetWritePos(p) \/ ResetReadPos(p) \/ ResetConfirmedPos(p) \/ ResetNextSeq(p)
    BY <2>1 DEF ResetWritePos, ResetReadPos, ResetConfirmedPos, ResetNextSeq, Goto, RingSteps, history,
                told, TypeInv, Types
  <2>2. CASE Memset(p)
    <3>1. \/ pc' = [pc EXCEPT ![p] = "ready"] /\ asked' = [asked EXCEPT ![p] = FALSE]
          \/ UNCHANGED <<pc, asked>>
      BY <2>2 DEF Memset, Goto
    <3>. QED
      BY <3>1 DEF TypeInv, Types
  <2>3. CASE StoreWord(p)
    <3>1. \/ pc' = [pc EXCEPT ![p] = "ready"] /\ asked' = [asked EXCEPT ![p] = FALSE]
          \/ UNCHANGED <<pc, asked>>
      BY <2>3 DEF StoreWord, Goto, Sharing, Shares
    <3>. QED
      BY <3>1 DEF TypeInv, Types
  <2>. QED
    BY <2>1, <2>2, <2>3
<1>4. seg[p] = name /\ name \in magic
  BY <1>1, <1>2 DEF Named, Settled, First, Opening, Initialising, RingSteps
<1>5. Abandoned'
  BY <1>1, <1>2, <1>3 DEF Abandoned, RingSteps
<1>6. \A q \in Procs \ {p} : /\ (First(q)' <=> First(q)) /\ (Settled(q)' <=> Settled(q))
                             /\ (Opening(q)' <=> Opening(q))
  BY <1>2, <1>3 DEF First, Settled, Opening
<1>7. \A q \in Procs \ {p} : ~First(q)
  BY <1>1, <1>2 DEF Alone, RingSteps
<1>8. First(p)' => First(p) /\ pc'[p] \in RingSteps \cup {"resetValue"}
  BY <1>2, <1>3 DEF First, Opening, RingSteps
<1>9. Settled(p)' => ~Opening(p)'
  BY <1>1, <1>2, <1>3 DEF Settled, Opening, Named, RingSteps
<1>10. Named'
  BY <1>1, <1>2, <1>3, <1>4, <1>6, <1>9 DEF Named
<1>11. Alone'
  BY <1>1, <1>3, <1>6, <1>7, <1>8 DEF Alone
<1>12. Initialising'
  BY <1>2, <1>4, <1>6, <1>7, <1>8 DEF Initialising, RingSteps
<1>. QED
  BY <1>5, <1>10, <1>11, <1>12

\* Calls of a process that is ready and so settled.
LEMMA CallShares ==
    ASSUME TypeInv, Sharing, ~raced, ShareInv, NEW p \in Procs,
           Append(p) \/ ReadNext(p) \/ Confirm(p) \/ Write(p) \/ Reset(p)
    PROVE  Named' /\ Alone' /\ Initialising' /\ Abandoned'
<1>. USE DEF Busy
<1>1. Named /\ Alone /\ Initialising /\ Abandoned
  BY DEF ShareInv
<1>2. /\ pc[p] = "ready"
      /\ UNCHANGED <<prog, name, made, sized, magic, seg, isNew, stops, early>>
  BY DEF Append, ReadNext, Confirm, Write, Reset, posix, opening, segments
<1>3. /\ \A q \in Procs \ {p} : pc'[q] = pc[q] /\ asked'[q] = asked[q]
      /\ pc'[p] \in {"ready", "store"} \/ (asked'[p] /\ pc'[p] \in {"resetHeader", "resetValue"})
  <2>1. CASE Append(p) \/ ReadNext(p) \/ Confirm(p)
    BY <1>2, <2>1 DEF Append, ReadNext, Confirm
  <2>2. CASE Write(p)
    BY <2>2 DEF Write, Goto, TypeInv, Types
  <2>3. CASE Reset(p)
    BY <2>3 DEF Reset, Goto, TypeInv, Types
  <2>. QED
    BY <2>1, <2>2, <2>3
<1>4. seg[p] = name /\ name \in magic
  BY <1>1, <1>2 DEF Named, Settled
<1>5. \A q \in Procs : ~First(q)
  BY <1>1, <1>2 DEF Alone, First, Opening
<1>6. /\ \A q \in Procs : ~First(q)' /\ (Settled(q)' <=> Settled(q))
      /\ \A q \in Procs \ {p} : Opening(q)' <=> Opening(q)
      /\ ~Opening(p)'
  BY <1>2, <1>3, <1>5 DEF First, Settled, Opening
<1>7. Named' /\ Alone' /\ Initialising'
  BY <1>1, <1>2, <1>3, <1>4, <1>6 DEF Named, Alone, Initialising
<1>8. Abandoned'
  BY <1>1, <1>2, <1>3 DEF Abandoned
<1>. QED
  BY <1>7, <1>8

LEMMA RetryShares ==
    ASSUME TypeInv, Sharing, ~raced, ShareInv, NEW p \in Procs, Retry(p)
    PROVE  Named' /\ Alone' /\ Initialising' /\ Abandoned'
<1>. USE DEF Busy
<1>1. Named /\ Alone /\ Initialising /\ Abandoned
  BY DEF ShareInv
<1>2. /\ pc[p] = "invalid" /\ pc' = [pc EXCEPT ![p] = "down"]
      /\ UNCHANGED <<prog, name, made, sized, magic, seg, isNew, stops, asked, early>>
  BY DEF Retry, Goto, history, told, opening, segments, posix
<1>3. pc'[p] = "down" /\ \A q \in Procs \ {p} : pc'[q] = pc[q]
  BY <1>2 DEF TypeInv, Types
<1>4. \A q \in Procs : /\ (First(q)' <=> First(q)) /\ (Settled(q)' <=> Settled(q))
                       /\ (Opening(q)' <=> Opening(q))
  BY <1>2, <1>3 DEF First, Settled, Opening
<1>5. ~asked[p] /\ ~First(p) /\ ~Settled(p)
  BY <1>2 DEF TypeInv, Opened, First, Settled, Opening, ResetSteps, RingSteps
<1>6. Named' /\ Alone' /\ Initialising'
  BY <1>1, <1>2, <1>3, <1>4, <1>5 DEF Named, Alone, Initialising
<1>7. Abandoned'
  BY <1>1, <1>2, <1>3 DEF Abandoned
<1>. QED
  BY <1>6, <1>7

LEMMA StopShares ==
    ASSUME TypeInv, Sharing, ~raced, ShareInv, NEW p \in Procs, Stop(p)
    PROVE  Named' /\ Alone' /\ Initialising' /\ Abandoned'
<1>. USE DEF Busy
<1>1. Named /\ Alone /\ Initialising /\ Abandoned
  BY DEF ShareInv
<1>2. /\ pc' = [pc EXCEPT ![p] = "down"] /\ seg' = [seg EXCEPT ![p] = None]
      /\ asked' = [asked EXCEPT ![p] = FALSE] /\ stops' = stops + 1
      /\ early' = [early EXCEPT ![p] = FALSE] /\ isNew' = [isNew EXCEPT ![p] = FALSE]
      /\ UNCHANGED <<prog, name, made, sized, magic>>
  BY DEF Stop, Goto, posix, segments
<1>3. /\ pc'[p] = "down" /\ ~asked'[p] /\ stops' > 0
      /\ \A q \in Procs \ {p} : /\ pc'[q] = pc[q] /\ asked'[q] = asked[q] /\ seg'[q] = seg[q]
                                /\ early'[q] = early[q] /\ isNew'[q] = isNew[q]
  BY <1>2 DEF TypeInv, Types
<1>4. ~First(p)' /\ ~Settled(p)'
  BY <1>3 DEF First, Settled, Opening
<1>5. \A q \in Procs \ {p} : /\ (First(q)' <=> First(q)) /\ (Settled(q)' <=> Settled(q))
                             /\ (Opening(q)' <=> Opening(q))
  BY <1>2, <1>3 DEF First, Settled, Opening
<1>6. Named' /\ Alone'
  BY <1>1, <1>2, <1>3, <1>4, <1>5 DEF Named, Alone
<1>7. Initialising'
  BY <1>1, <1>2, <1>3, <1>4, <1>5 DEF Initialising
<1>8. Abandoned'
  BY <1>1, <1>2, <1>3 DEF Abandoned
<1>. QED
  BY <1>6, <1>7, <1>8

\* The steps of WriteShm and ReadShm are not taken on a shared segment.
LEMMA SharingSteps ==
    ASSUME TypeInv, Sharing, ~raced, ShareInv, NEW p \in Procs
    PROVE  ~(WriteShm(p) \/ ReadShm(p) \/ Construct(p) \/ Find(p) \/ LoadWord(p))
<1> SUFFICES ASSUME WriteShm(p) \/ ReadShm(p) \/ Construct(p) \/ Find(p) \/ LoadWord(p)
             PROVE  FALSE
  OBVIOUS
<1>1. Named /\ Initialising
  BY DEF ShareInv
<1>2. pc[p] \in {"construct", "find", "load"}
  BY DEF WriteShm, ReadShm, Construct, Find, LoadWord, Sharing, Shares
<1>. QED
  BY <1>1, <1>2 DEF Named, Initialising, Settled, First, Opening, Busy, TypeInv, Opened, ResetSteps,
                    RingSteps

\* No process changes its program.
LEMMA SameProgram == [Next]_vars => prog' = prog
<1> SUFFICES ASSUME [Next]_vars
             PROVE  prog' = prog
  OBVIOUS
<1>1. CASE UNCHANGED vars
  BY <1>1 DEF vars
<1>2. ASSUME NEW p \in Procs,
             Open(p) \/ Remove(p) \/ Create(p) \/ Truncate(p) \/ Map(p) \/ Check(p) \/ Retry(p) \/ Stop(p)
      PROVE  prog' = prog
  BY <1>2 DEF Open, Remove, Create, Truncate, Map, Check, Retry, Stop
<1>3. ASSUME NEW p \in Procs,
             \/ ResetHeader(p) \/ ResetWritePos(p) \/ ResetReadPos(p)
             \/ ResetConfirmedPos(p) \/ ResetNextSeq(p) \/ Memset(p) \/ StoreWord(p)
      PROVE  prog' = prog
  BY <1>3 DEF ResetHeader, ResetWritePos, ResetReadPos, ResetConfirmedPos, ResetNextSeq, Memset, StoreWord
<1>4. ASSUME NEW p \in Procs,
             \/ Append(p) \/ ReadNext(p) \/ Confirm(p) \/ Write(p) \/ Reset(p)
             \/ WriteShm(p) \/ Construct(p) \/ ReadShm(p) \/ Find(p) \/ LoadWord(p)
      PROVE  prog' = prog
  BY <1>4 DEF Append, ReadNext, Confirm, Write, Reset, WriteShm, Construct, ReadShm, Find, LoadWord
<1>. QED
  BY <1>1, <1>2, <1>3, <1>4 DEF Next

LEMMA NextShares ==
    ASSUME TypeInv, ShareInv, [Next]_vars
    PROVE  ShareInv'
<1> SUFFICES ASSUME Sharing', ~raced'
             PROVE  Named' /\ Alone' /\ Initialising' /\ Abandoned'
  BY DEF ShareInv
<1>1. Sharing
  BY SameProgram DEF Sharing, Shares
<1>2. CASE UNCHANGED vars
  <2>1. /\ UNCHANGED <<name, sized, magic, pc, seg, isNew, asked, early, stops>> /\ ~raced
    BY <1>2 DEF vars, posix, segments, history, told, opening
  <2>2. \A q \in Procs : /\ (First(q)' <=> First(q)) /\ (Settled(q)' <=> Settled(q))
                         /\ (Opening(q)' <=> Opening(q))
    BY <2>1 DEF First, Settled, Opening, Busy
  <2>3. Named /\ Alone /\ Initialising /\ Abandoned
    BY <1>1, <2>1 DEF ShareInv
  <2>. QED
    BY <2>1, <2>2, <2>3 DEF Named, Alone, Initialising, Abandoned
<1>3. CASE Next
  <2>1. PICK p \in Procs :
             \/ Open(p) \/ Remove(p) \/ Create(p) \/ Truncate(p) \/ Map(p)
             \/ Check(p) \/ ResetHeader(p) \/ ResetWritePos(p) \/ ResetReadPos(p)
             \/ ResetConfirmedPos(p) \/ ResetNextSeq(p) \/ Memset(p) \/ StoreWord(p)
             \/ Append(p) \/ ReadNext(p) \/ Confirm(p) \/ Write(p) \/ Reset(p)
             \/ Retry(p) \/ Stop(p)
             \/ WriteShm(p) \/ ReadShm(p) \/ Construct(p) \/ Find(p) \/ LoadWord(p)
    BY <1>3 DEF Next
  <2>2. CASE Open(p)
    BY <1>1, <2>2, OpenShares
  <2>3. CASE ~Open(p)
    <3>1. ~raced
      BY <2>1, <2>3 DEF Remove, Create, Truncate, Map, Check, ResetHeader, ResetWritePos, ResetReadPos,
              ResetConfirmedPos, ResetNextSeq, Memset, StoreWord, Append, ReadNext, Confirm, Write, Reset,
              Retry, Stop, WriteShm, Construct, ReadShm, Find, LoadWord, history, opening
    <3>. QED
      BY <1>1, <2>1, <2>3, <3>1, RemoveShares, CreateShares, TruncateShares, MapShares, CheckShares,
         ResetHeaderShares, ResetShares, CallShares, RetryShares, StopShares, SharingSteps
  <2>. QED
    BY <2>2, <2>3
<1>. QED
  BY <1>2, <1>3

LEMMA ShareInvHolds == Spec => []ShareInv
<1>1. Init => ShareInv
  BY InitShare
<1>2. TypeInv /\ ShareInv /\ [Next]_vars => ShareInv'
  BY NextShares
<1>. QED
  BY <1>1, <1>2, TypesHold, PTL DEF Spec

\* Either all processes share a segment, or none does.
LEMMA SharingAll ==
    ASSUME TypeInv
    PROVE  (\E p \in Procs : Shares(p)) => Sharing
  BY ProgramsAssumption DEF TypeInv, Types, Shares, Sharing

\* As long as no two processes initialise at once, all that have opened the
\* name use the segment it is bound to (Initialize of zrt_shm_ring.h and
\* zrt_shm_direct.h).
THEOREM OneSegmentHolds == Spec => []OneSegment
<1>1. TypeInv /\ ShareInv => OneSegment
  <2> SUFFICES ASSUME TypeInv, ShareInv, ~raced, NEW p \in Procs, Shares(p)
               PROVE  /\ pc[p] = "ready" => seg[p] = name /\ name \in magic
                      /\ pc[p] = "invalid" => stops > 0 /\ name \notin sized
    BY DEF OneSegment
  <2>1. Named /\ Abandoned
    BY SharingAll DEF ShareInv
  <2>. QED
    BY <2>1 DEF Named, Abandoned, Settled
<1>. QED
  BY <1>1, TypesHold, ShareInvHolds, PTL

----------------------------------------------------------------------------
(* What the segment keeps. A segment without the magic number is as blank   *)
(* as it was made; one that a process is initialising holds nothing yet;    *)
(* and one that the application resets is cleared field by field, with      *)
(* nobody else at work on it. In between, the entries of a ring from        *)
(* confirmed_pos on are the items stored, in order, and a DirectShm holds   *)
(* the item stored last.                                                    *)

\* Which steps belong to which program.
Kinds ==
    \A p \in Procs :
        /\ pc[p] \in RingSteps => prog[p] = "ShmRing"
        /\ pc[p] \in {"resetValue", "store"} => prog[p] # "ShmRing"
        /\ pc[p] = "construct" => prog[p] = "WriteShm"

LEMMA NextKinds == TypeInv /\ Kinds /\ [Next]_vars => Kinds'
<1> SUFFICES ASSUME TypeInv, Kinds, [Next]_vars
             PROVE  Kinds'
  OBVIOUS
<1>1. prog' = prog
  BY SameProgram
<1>2. CASE UNCHANGED vars
  BY <1>2 DEF vars, Kinds
<1>3. ASSUME NEW p \in Procs, NEW l, Goto(p, l),
             /\ l \in RingSteps => prog[p] = "ShmRing"
             /\ l \in {"resetValue", "store"} => prog[p] # "ShmRing"
             /\ l = "construct" => prog[p] = "WriteShm"
      PROVE  Kinds'
  BY <1>1, <1>3 DEF Kinds, Goto, TypeInv, Types
<1>4. ASSUME NEW p \in Procs,
             \/ Open(p) \/ Remove(p) \/ Create(p) \/ Truncate(p) \/ Map(p)
             \/ Check(p) \/ Retry(p) \/ Stop(p) \/ WriteShm(p) \/ ReadShm(p) \/ Find(p)
      PROVE  Kinds'
  <2>1. \E l \in {"remove", "map", "create", "truncate", "invalid", "construct", "check", "resetHeader",
                  "ready", "down", "find", "load"} :
            Goto(p, l) /\ (l = "construct" => prog[p] = "WriteShm")
    BY <1>4 DEF Open, Remove, Create, Truncate, Map, Check, Retry, Stop, WriteShm, ReadShm, Find, Returned
  <2>. QED
    BY <1>3, <2>1 DEF RingSteps
<1>5. ASSUME NEW p \in Procs,
             \/ ResetHeader(p) \/ ResetWritePos(p) \/ ResetReadPos(p)
             \/ ResetConfirmedPos(p) \/ ResetNextSeq(p)
             \/ Write(p) \/ Reset(p) \/ Construct(p)
      PROVE  Kinds'
  <2>1. \E l \in RingSteps \cup {"resetHeader", "resetValue", "store"} :
            /\ Goto(p, l)
            /\ l \in RingSteps => prog[p] = "ShmRing"
            /\ l \in {"resetValue", "store"} => prog[p] # "ShmRing"
    BY <1>5 DEF ResetHeader, ResetWritePos, ResetReadPos, ResetConfirmedPos, ResetNextSeq,
                Write, Reset, Construct, Kinds, RingSteps
  <2>. QED
    BY <1>3, <2>1 DEF RingSteps
<1>6. ASSUME NEW p \in Procs,
             \/ Memset(p) \/ StoreWord(p) \/ LoadWord(p) \/ Append(p) \/ ReadNext(p) \/ Confirm(p)
      PROVE  Kinds'
  <2>1. CASE UNCHANGED pc
    BY <1>1, <2>1 DEF Kinds
  <2>2. CASE pc' # pc
    <3>1. \E l \in {"ready", "down"} : Goto(p, l)
      BY <1>6, <2>2 DEF Memset, StoreWord, LoadWord, Append, ReadNext, Confirm, Returned
    <3>. QED
      BY <1>3, <3>1 DEF RingSteps
  <2>. QED
    BY <2>1, <2>2
<1>. QED
  BY <1>2, <1>4, <1>5, <1>6 DEF Next

OneBusy == \A p, q \in Procs : Busy(p) /\ Busy(q) => p = q

Rings == \A p \in Procs : prog[p] = "ShmRing"
Directs == \A p \in Procs : prog[p] = "DirectShm"

Fresh == \A s \in Segments \ magic : write_pos[s] = 0 /\ read_pos[s] = 0 /\ confirmed_pos[s] = 0

Starting ==
    \A p \in Procs : First(p) /\ pc[p] \in RingSteps =>
        /\ stored = {}
        /\ write_pos[name] = 0 /\ read_pos[name] = 0 /\ confirmed_pos[name] = 0

Clearing ==
    \A p \in Procs : asked[p] =>
        /\ stored = {}
        /\ pc[p] \in RingSteps \ {"resetWritePos"} => write_pos[name] = 0
        /\ pc[p] \in {"resetConfirmedPos", "resetNextSeq", "memset"} => read_pos[name] = 0
        /\ pc[p] \in {"resetNextSeq", "memset"} => confirmed_pos[name] = 0

\* The entries from confirmed_pos on: in the order of their numbers, among
\* them all that is stored ...
Ordered(s) ==
    /\ write_pos[s] <= items
    /\ \A k \in confirmed_pos[s] .. write_pos[s] - 1 : buffer[s][k].item \in 1 .. items
    /\ \A j, k \in confirmed_pos[s] .. write_pos[s] - 1 :
         j < k => buffer[s][j].item < buffer[s][k].item
    /\ \A i \in stored : \E k \in confirmed_pos[s] .. write_pos[s] - 1 :
         buffer[s][k].seq # 0 /\ buffer[s][k].item = i

\* ... and nothing else.
Exact(s) ==
    /\ confirmed_pos[s] <= read_pos[s] /\ read_pos[s] <= write_pos[s]
    /\ \A k \in confirmed_pos[s] .. write_pos[s] - 1 :
         buffer[s][k].seq # 0 => buffer[s][k].item \in stored

RingKept ==
    /\ Fresh /\ Starting /\ Clearing
    /\ name \notin magic => stored = {}
    /\ name \in magic => Ordered(name)
    /\ name \in magic /\ (\A p \in Procs : ~asked[p]) => Exact(name)

ValueKept ==
    /\ name \notin magic => stored = {}
    /\ \A p \in Procs : First(p) /\ pc[p] = "resetValue" => stored = {}
    /\ \A p \in Procs : Busy(p) => stored = {}
    /\ \A p \in Procs : pc[p] = "store" =>
         /\ source[p] \in 1 .. items
         /\ \A w \in Words \ todo[p] : value[name][w] = source[p]
    /\ stored # {} => \E i \in 1 .. items : stored = {i} /\ \A w \in Words : value[name][w] = i

KeptInv ==
    Sharing /\ ~raced /\ ~disturbed =>
        OneBusy /\ (Rings => RingKept) /\ (Directs => ValueKept)

LEMMA InitKept == Init => KeptInv
<1> SUFFICES ASSUME Init
             PROVE  OneBusy /\ RingKept /\ ValueKept
  BY DEF KeptInv
<1>1. /\ \A p \in Procs : pc[p] = "down" /\ ~asked[p]
      /\ name = 0 /\ magic = {} /\ stored = {}
      /\ \A s \in Segments : write_pos[s] = 0 /\ read_pos[s] = 0 /\ confirmed_pos[s] = 0
  BY DEF Init, None
<1>. HIDE DEF Init
<1>2. OneBusy
  BY <1>1 DEF OneBusy, Busy
<1>3. RingKept
  BY <1>1 DEF RingKept, Fresh, Starting, Clearing, RingSteps
<1>4. ValueKept
  BY <1>1 DEF ValueKept, Busy
<1>. QED
  BY <1>2, <1>3, <1>4

\* Steps of Initialize before the segment is written, and Retry: the name may
\* come to a new segment, as blank as it was made.
LEMMA OpeningKept ==
    ASSUME TypeInv, Sharing, ~raced, ShareInv, Kinds, OneBusy,
           Rings => RingKept, Directs => ValueKept, NEW p \in Procs,
           Open(p) \/ Remove(p) \/ Create(p) \/ Truncate(p) \/ Map(p) \/ Check(p) \/ Retry(p)
    PROVE  OneBusy' /\ (Rings => RingKept') /\ (Directs => ValueKept')
<1>1. Named /\ Alone /\ Initialising
  BY DEF ShareInv
<1>2. /\ UNCHANGED <<magic, ring, value, source, todo, items, stored, asked>>
      /\ pc[p] \in {"down", "remove", "create", "truncate", "map", "check", "invalid"}
  BY DEF Open, Remove, Create, Truncate, Map, Check, Retry, segments, copy, told, history
<1>3. /\ \A q \in Procs \ {p} : pc'[q] = pc[q] /\ seg'[q] = seg[q]
      /\ pc'[p] \notin RingSteps \cup {"store", "resetValue"}
  <2>1. \E l \in {"remove", "map", "create", "truncate", "invalid", "construct", "check", "resetHeader",
                  "ready", "down"} : Goto(p, l)
    BY DEF Open, Remove, Create, Truncate, Map, Check, Retry
  <2>2. \A q \in Procs \ {p} : seg'[q] = seg[q]
    BY DEF Open, Remove, Create, Truncate, Map, Check, Retry, TypeInv, Types
  <2>. QED
    BY <2>1, <2>2 DEF Goto, TypeInv, Types, RingSteps
<1>4. ~asked[p]
  BY <1>2 DEF TypeInv, Opened, ResetSteps, RingSteps
<1>5. /\ \A q \in Procs : Busy(q)' <=> Busy(q)
      /\ \A q \in Procs \ {p} : First(q)' => Opening(q)
  BY <1>2, <1>3, <1>4 DEF Busy, First, Opening
<1>6. OneBusy'
  BY <1>5 DEF OneBusy
<1>7. name' = name \/ (name \notin magic /\ name' \notin magic)
  <2>1. CASE Remove(p) \/ Create(p)
    <3>1. First(p)
      BY <1>1, <1>4, <2>1 DEF Remove, Create, Named, Settled, First, Opening, Busy
    <3>2. name = 0
      BY <1>1, <2>1, <3>1 DEF Remove, Create, Initialising, None
    <3>3. 0 \notin magic /\ made + 1 \notin magic
      BY DEF TypeInv, Types
    <3>. QED
      BY <2>1, <3>2, <3>3 DEF Remove, Create, None
  <2>2. CASE Open(p) \/ Truncate(p) \/ Map(p) \/ Check(p) \/ Retry(p)
    BY <2>2 DEF Open, Truncate, Map, Check, Retry, posix
  <2>. QED
    BY <2>1, <2>2
<1>8. \A q \in Procs : asked[q] \/ (First(q)' /\ pc'[q] \in RingSteps \cup {"resetValue"}) \/ pc[q] = "store"
                        => name' = name /\ q # p
  <2> SUFFICES ASSUME NEW q \in Procs,
                      asked[q] \/ (First(q)' /\ pc'[q] \in RingSteps \cup {"resetValue"}) \/ pc[q] = "store"
               PROVE  name' = name /\ q # p
    OBVIOUS
  <2>1. q # p
    BY <1>2, <1>3, <1>4
  <2>2. name \in magic
    <3>1. CASE Busy(q)
      BY <1>1, <3>1 DEF Named, Settled
    <3>2. CASE ~Busy(q)
      <4>1. Opening(q) /\ pc[q] \in RingSteps \cup {"resetValue"}
        BY <1>3, <1>5, <2>1, <3>2 DEF Busy
      <4>. QED
        BY <1>1, <4>1 DEF Named, Settled, First, Initialising, RingSteps
    <3>. QED
      BY <3>1, <3>2
  <2>. QED
    BY <1>7, <2>1, <2>2
<1>9. \A q \in Procs \ {p} : (First(q)' <=> First(q))
  <2>1. \A q \in Procs \ {p} : early'[q] = early[q]
    BY DEF Open, Began, Remove, Create, Truncate, Map, Check, Retry, history, opening, TypeInv, Types
  <2>. QED
    BY <1>2, <1>3, <2>1 DEF First, Opening, Busy
<1>10. ASSUME Rings
       PROVE  RingKept'
  <2>1. Fresh' /\ (name' \notin magic' => stored' = {})
    BY <1>2, <1>7, <1>10 DEF RingKept, Fresh, ring
  <2>2. Starting' /\ Clearing'
    <3>1. Starting'
      BY <1>2, <1>3, <1>8, <1>9, <1>10 DEF RingKept, Starting, ring
    <3>2. Clearing'
      BY <1>2, <1>3, <1>8, <1>10 DEF RingKept, Clearing, ring
    <3>. QED
      BY <3>1, <3>2
  <2>3. name' \in magic' => Ordered(name)' /\ ((\A q \in Procs : ~asked'[q]) => Exact(name)')
    BY <1>2, <1>7, <1>10 DEF RingKept, Ordered, Exact, ring
  <2>. QED
    BY <2>1, <2>2, <2>3 DEF RingKept
<1>11. ASSUME Directs
       PROVE  ValueKept'
  <2>1. name' \notin magic' => stored' = {}
    BY <1>2, <1>7, <1>11 DEF ValueKept
  <2>2. \A q \in Procs : First(q)' /\ pc'[q] = "resetValue" => stored' = {}
    BY <1>2, <1>3, <1>8, <1>9, <1>11 DEF ValueKept
  <2>3. \A q \in Procs : Busy(q)' => stored' = {}
    BY <1>2, <1>5, <1>11 DEF ValueKept
  <2>4. \A q \in Procs : pc'[q] = "store" =>
         /\ source'[q] \in 1 .. items'
         /\ \A w \in Words \ todo'[q] : value'[name'][w] = source'[q]
    <3>1. \A q \in Procs : pc'[q] = "store" => pc[q] = "store" /\ name' = name
      BY <1>3, <1>8
    <3>. QED
      BY <1>2, <1>11, <3>1 DEF ValueKept
  <2>5. stored' # {} => \E i \in 1 .. items' : stored' = {i} /\ \A w \in Words : value'[name'][w] = i
    <3>1. stored # {} => name' = name
      BY <1>7, <1>11 DEF ValueKept
    <3>. QED
      BY <1>2, <1>11, <3>1 DEF ValueKept
  <2>. QED
    BY <2>1, <2>2, <2>3, <2>4, <2>5 DEF ValueKept
<1>. QED
  BY <1>6, <1>10, <1>11

\* The magic number: a fresh segment is taken as it is.
LEMMA ResetHeaderKept ==
    ASSUME TypeInv, Sharing, ~raced, ShareInv, Kinds, OneBusy,
           Rings => RingKept, Directs => ValueKept, NEW p \in Procs, ResetHeader(p)
    PROVE  OneBusy' /\ (Rings => RingKept') /\ (Directs => ValueKept')
<1>1. Named /\ Alone /\ Initialising
  BY DEF ShareInv
<1>2. /\ pc[p] = "resetHeader" /\ magic' = magic \cup {seg[p]}
      /\ UNCHANGED <<name, ring, value, items, stored, asked, early>>
      /\ \A q \in Procs \ {p} : pc'[q] = pc[q] /\ source'[q] = source[q] /\ todo'[q] = todo[q]
      /\ pc'[p] = IF prog[p] = "ShmRing" THEN "resetWritePos" ELSE "resetValue"
  BY DEF ResetHeader, Goto, posix, history, told, opening, copy, TypeInv, Types, CopyTypes
<1>3. seg[p] = name /\ name \in Segments
  <2>1. seg[p] = name
    BY <1>1, <1>2 DEF Named, Settled, First, Opening, Initialising
  <2>. QED
    BY <1>2, <2>1, BoundsAssumption DEF TypeInv, Types, Opened, ResetSteps, Segments
<1>4. \A q \in Procs : Busy(q)' <=> Busy(q)
  BY <1>2 DEF Busy
<1>5. OneBusy'
  BY <1>4 DEF OneBusy
<1>6. \A q \in Procs : First(q)' <=> First(q)
  BY <1>2, <1>4 DEF First, Opening
<1>7. First(p) => name \notin magic /\ \A q \in Procs \ {p} : ~Busy(q) /\ ~First(q)
  BY <1>1, <1>2 DEF Initialising, Alone, First, Opening, Named, Settled
<1>8. ~First(p) => name \in magic /\ asked[p] /\ magic' = magic /\ \A q \in Procs : ~First(q)
  BY <1>1, <1>2, <1>3 DEF First, Opening, Busy, Named, Settled, Alone
<1>9. ASSUME Rings
      PROVE  RingKept'
  <2>1. Fresh'
    BY <1>2, <1>9 DEF RingKept, Fresh, ring
  <2>2. stored = {}
    BY <1>7, <1>8, <1>9 DEF RingKept, Clearing
  <2>3. First(p) => write_pos[name] = 0 /\ read_pos[name] = 0 /\ confirmed_pos[name] = 0
    BY <1>3, <1>7, <1>9 DEF RingKept, Fresh
  <2>4. Starting'
    BY <1>2, <1>6, <1>7, <1>8, <2>2, <2>3 DEF Starting, ring
  <2>5. Clearing'
    BY <1>2, <1>9, <2>2 DEF RingKept, Clearing, RingSteps, ring
  <2>6. Ordered(name)' /\ ((\A q \in Procs : ~asked'[q]) => Exact(name)')
    <3>1. CASE First(p)
      <4>1. write_pos'[name'] = 0 /\ read_pos'[name'] = 0 /\ confirmed_pos'[name'] = 0 /\ stored' = {}
        BY <1>2, <2>2, <2>3, <3>1 DEF ring
      <4>2. items' \in Nat
        BY <1>2 DEF TypeInv, Types
      <4>. QED
        BY <4>1, <4>2 DEF Ordered, Exact
    <3>2. CASE ~First(p)
      BY <1>2, <1>8, <1>9, <3>2 DEF RingKept, Ordered, ring
    <3>. QED
      BY <3>1, <3>2
  <2>. QED
    BY <1>2, <1>3, <2>1, <2>2, <2>4, <2>5, <2>6 DEF RingKept
<1>10. ASSUME Directs
       PROVE  ValueKept'
  <2>1. stored = {}
    BY <1>7, <1>8, <1>10 DEF ValueKept, Busy
  <2>2. \A q \in Procs : pc'[q] = "store" =>
         /\ source'[q] \in 1 .. items'
         /\ \A w \in Words \ todo'[q] : value'[name'][w] = source'[q]
    BY <1>2, <1>10 DEF ValueKept
  <2>. QED
    BY <1>2, <2>1, <2>2 DEF ValueKept
<1>. QED
  BY <1>5, <1>9, <1>10

\* The stores of a ring's Reset, one after the other.
LEMMA RingStoreKept ==
    ASSUME TypeInv, Sharing, ~raced, ShareInv, Kinds, OneBusy,
           Rings => RingKept, Directs => ValueKept, NEW p \in Procs,
           \/ ResetWritePos(p) \/ ResetReadPos(p) \/ ResetConfirmedPos(p) \/ ResetNextSeq(p)
           \/ Memset(p)
    PROVE  OneBusy' /\ (Rings => RingKept') /\ (Directs => ValueKept')
<1>1. Named /\ Alone /\ Initialising
  BY DEF ShareInv
<1>2. /\ pc[p] \in RingSteps
      /\ UNCHANGED <<name, magic, value, items, stored, early, source, todo>>
  BY DEF ResetWritePos, ResetReadPos, ResetConfirmedPos, ResetNextSeq, Memset, RingSteps, posix, copy,
         history, told, opening
<1>3. /\ \A q \in Procs \ {p} : pc'[q] = pc[q] /\ asked'[q] = asked[q]
      /\ \/ pc'[p] \in RingSteps /\ asked'[p] = asked[p]
         \/ pc'[p] = "ready" /\ ~asked'[p] /\ pc[p] = "memset"
  <2>1. CASE ResetWritePos(p) \/ ResetReadPos(p) \/ ResetConfirmedPos(p) \/ ResetNextSeq(p)
    BY <2>1 DEF ResetWritePos, ResetReadPos, ResetConfirmedPos, ResetNextSeq, Goto, RingSteps, history,
                told, TypeInv, Types
  <2>2. CASE Memset(p)
    <3>1. /\ pc[p] = "memset"
          /\ \/ pc' = [pc EXCEPT ![p] = "ready"] /\ asked' = [asked EXCEPT ![p] = FALSE]
             \/ UNCHANGED <<pc, asked>>
      BY <2>2 DEF Memset, Goto
    <3>. QED
      BY <1>2, <3>1 DEF TypeInv, Types
  <2>. QED
    BY <2>1, <2>2
<1>4. seg[p] = name /\ name \in magic /\ name \in Segments
  <2>1. seg[p] = name /\ name \in magic
    BY <1>1, <1>2 DEF Named, Settled, First, Opening, Initialising, RingSteps
  <2>. QED
    BY <2>1, BoundsAssumption DEF TypeInv, Types, Segments
<1>5. prog[p] = "ShmRing"
  BY <1>2 DEF Kinds
<1>6. \A q \in Procs : Busy(q)' => Busy(q)
  BY <1>2, <1>3 DEF Busy, RingSteps
<1>7. OneBusy'
  BY <1>6 DEF OneBusy
<1>8. First(p) \/ asked[p]
  BY <1>1, <1>2 DEF Named, Settled, First, Opening, Busy, RingSteps
<1>9. \A q \in Procs \ {p} : ~asked[q] /\ ~First(q)
  <2>1. CASE First(p)
    BY <1>1, <2>1 DEF Alone, First, Opening, TypeInv, Opened, ResetSteps, RingSteps
  <2>2. CASE asked[p]
    BY <1>1, <1>2, <2>2 DEF OneBusy, Busy, Alone, First, RingSteps
  <2>. QED
    BY <1>8, <2>1, <2>2
<1>10. ASSUME Rings
       PROVE  RingKept'
  <2>1. /\ stored = {} /\ Ordered(name)
        /\ First(p) => write_pos[name] = 0 /\ read_pos[name] = 0 /\ confirmed_pos[name] = 0
        /\ pc[p] # "resetWritePos" => write_pos[name] = 0
        /\ pc[p] \in {"resetConfirmedPos", "resetNextSeq", "memset"} => read_pos[name] = 0
        /\ pc[p] \in {"resetNextSeq", "memset"} => confirmed_pos[name] = 0
        /\ First(p) => Exact(name)
    <3>1. RingKept
      BY <1>10
    <3>2. First(p) => \A q \in Procs : ~asked[q]
      BY <1>9 DEF First, Opening, Busy
    <3>. QED
      BY <1>2, <1>4, <1>8, <3>1, <3>2 DEF RingKept, Starting, Clearing, RingSteps
  <2>2. /\ \/ pc[p] = "resetWritePos" /\ write_pos'[name] = 0 /\ pc'[p] = "resetReadPos"
           \/ pc[p] # "resetWritePos" /\ write_pos'[name] = write_pos[name]
        /\ \/ pc[p] = "resetReadPos" /\ read_pos'[name] = 0 /\ pc'[p] = "resetConfirmedPos"
           \/ pc[p] # "resetReadPos" /\ read_pos'[name] = read_pos[name]
        /\ \/ pc[p] = "resetConfirmedPos" /\ confirmed_pos'[name] = 0 /\ pc'[p] = "resetNextSeq"
           \/ pc[p] # "resetConfirmedPos" /\ confirmed_pos'[name] = confirmed_pos[name]
        /\ pc[p] = "resetNextSeq" => pc'[p] = "memset"
        /\ pc[p] = "memset" => pc'[p] \in {"memset", "ready"}
    <3>1. CASE ResetWritePos(p) \/ ResetReadPos(p) \/ ResetConfirmedPos(p) \/ ResetNextSeq(p)
      BY <1>4, <3>1 DEF ResetWritePos, ResetReadPos, ResetConfirmedPos, ResetNextSeq, Goto, TypeInv, Types,
                        SegmentTypes
    <3>2. CASE Memset(p)
      <4>1. /\ pc[p] = "memset" /\ UNCHANGED <<write_pos, read_pos, confirmed_pos>>
            /\ pc' = [pc EXCEPT ![p] = "ready"] \/ UNCHANGED pc
        BY <3>2 DEF Memset, Goto
      <4>. QED
        BY <4>1 DEF TypeInv, Types
    <3>. QED
      BY <3>1, <3>2
  <2>3. \A s \in Segments \ {name} :
          write_pos'[s] = write_pos[s] /\ read_pos'[s] = read_pos[s] /\ confirmed_pos'[s] = confirmed_pos[s]
    BY <1>4 DEF ResetWritePos, ResetReadPos, ResetConfirmedPos, ResetNextSeq, Memset, TypeInv, SegmentTypes
  <2>4. Fresh'
    <3>1. Fresh
      BY <1>10 DEF RingKept
    <3>. QED
      BY <1>2, <1>4, <2>3, <3>1 DEF Fresh
  <2>5. Starting'
    <3>1. \A q \in Procs \ {p} : ~First(q)'
      BY <1>2, <1>3, <1>9 DEF First, Opening, Busy
    <3>2. First(p)' => First(p)
      BY <1>2, <1>3 DEF First, Opening, Busy, RingSteps
    <3>. QED
      BY <1>2, <2>1, <2>2, <3>1, <3>2 DEF Starting
  <2>6. Clearing'
    <3>1. \A q \in Procs \ {p} : ~asked'[q]
      BY <1>3, <1>9
    <3>. QED
      BY <1>2, <1>3, <2>1, <2>2, <3>1 DEF Clearing, RingSteps
  <2>7. write_pos[name] \in Nat /\ write_pos'[name] \in Nat /\ items \in Nat /\ confirmed_pos'[name] \in Nat
    BY <1>4, <2>2 DEF TypeInv, Types, SegmentTypes
  <2>8. Ordered(name)'
    <3>1. CASE write_pos'[name] = 0
      BY <1>2, <2>1, <2>7, <3>1 DEF Ordered
    <3>2. CASE write_pos'[name] # 0
      <4>1. FALSE
        BY <2>1, <2>2, <3>2
      <4>. QED
        BY <4>1
    <3>. QED
      BY <3>1, <3>2
  <2>9. ASSUME \A q \in Procs : ~asked'[q]
        PROVE  Exact(name)'
    <3>1. write_pos'[name] = 0 /\ read_pos'[name] = 0 /\ confirmed_pos'[name] = 0
      <4>1. CASE First(p)
        BY <2>1, <2>2, <4>1
      <4>2. CASE ~First(p)
        <5>1. pc'[p] = "ready" /\ pc[p] = "memset"
          BY <1>3, <1>8, <2>9, <4>2
        <5>. QED
          BY <2>1, <2>2, <5>1
      <4>. QED
        BY <4>1, <4>2
    <3>. QED
      BY <1>2, <3>1 DEF Exact
  <2>. QED
    BY <1>2, <1>4, <2>1, <2>4, <2>5, <2>6, <2>8, <2>9 DEF RingKept
<1>11. ~Directs
  BY <1>5 DEF Directs
<1>. QED
  BY <1>7, <1>10, <1>11

\* The words of a DirectShm; the last one of Write makes the item stored.
LEMMA StoreWordKept ==
    ASSUME TypeInv, Sharing, ~raced, ShareInv, Kinds, OneBusy,
           Rings => RingKept, Directs => ValueKept, NEW p \in Procs, StoreWord(p)
    PROVE  OneBusy' /\ (Rings => RingKept') /\ (Directs => ValueKept')
<1>1. Named /\ Alone /\ Initialising
  BY DEF ShareInv
<1>2. /\ pc[p] \in {"resetValue", "store"}
      /\ UNCHANGED <<name, magic, ring, items, early, source>>
  BY DEF StoreWord, posix, opening
<1>3. PICK w \in todo[p] : /\ value' = [value EXCEPT ![seg[p]][w] = source[p]]
                           /\ todo' = [todo EXCEPT ![p] = todo[p] \ {w}]
  BY DEF StoreWord
<1>4. /\ todo'[p] = todo[p] \ {w} /\ w \in Words
      /\ \A q \in Procs \ {p} : todo'[q] = todo[q]
  BY <1>3 DEF TypeInv, CopyTypes
<1>5. \/ /\ todo[p] \ {w} = {} /\ pc' = [pc EXCEPT ![p] = "ready"] /\ asked' = [asked EXCEPT ![p] = FALSE]
         /\ stored' = IF pc[p] = "store" THEN {source[p]} ELSE stored
      \/ UNCHANGED <<pc, asked, stored>>
  BY <1>4 DEF StoreWord, Goto, Sharing, Shares
<1>6. seg[p] = name /\ name \in magic /\ name \in Segments
  <2>1. seg[p] = name /\ name \in magic
    BY <1>1, <1>2 DEF Named, Settled, First, Opening, Busy, Initialising
  <2>. QED
    BY <2>1, BoundsAssumption DEF TypeInv, Types, Segments
<1>7. prog[p] # "ShmRing"
  BY <1>2 DEF Kinds
<1>8. /\ \A q \in Procs : Busy(q)' => Busy(q)
      /\ \A q \in Procs \ {p} : pc'[q] = pc[q] /\ asked'[q] = asked[q]
  BY <1>5 DEF Busy, TypeInv, Types
<1>9. OneBusy'
  BY <1>8 DEF OneBusy
<1>10. First(p) \/ Busy(p)
  BY <1>1, <1>2 DEF Named, Settled, First, Opening, Busy
<1>11. \A q \in Procs \ {p} : ~Busy(q) /\ ~First(q)
  <2>1. CASE First(p)
    BY <1>1, <2>1 DEF Alone, First, Opening, Busy, TypeInv, Opened, ResetSteps, RingSteps
  <2>2. CASE Busy(p)
    BY <1>1, <1>2, <2>2 DEF OneBusy, Alone, First
  <2>. QED
    BY <1>10, <2>1, <2>2
<1>12. /\ value'[name][w] = source[p]
       /\ \A v \in Words \ {w} : value'[name][v] = value[name][v]
  BY <1>3, <1>4, <1>6 DEF TypeInv, SegmentTypes
<1>13. ASSUME Directs
       PROVE  ValueKept'
  <2>1. /\ stored = {}
        /\ pc[p] = "store" => /\ source[p] \in 1 .. items
                              /\ \A v \in Words \ todo[p] : value[name][v] = source[p]
    BY <1>2, <1>10, <1>13 DEF ValueKept, First, Opening, Busy
  <2>2. \A q \in Procs \ {p} : ~Busy(q)' /\ ~First(q)'
    BY <1>2, <1>8, <1>11 DEF First, Opening, Busy
  <2>3. CASE UNCHANGED <<pc, asked, stored>>
    <3>1. \A v \in Words \ todo'[p] : pc[p] = "store" => value'[name][v] = source[p]
      BY <1>4, <1>12, <2>1
    <3>2. \A q \in Procs : pc'[q] = "store" => q = p
      BY <2>2 DEF Busy
    <3>3. \A q \in Procs : pc'[q] = "store" =>
           /\ source'[q] \in 1 .. items'
           /\ \A v \in Words \ todo'[q] : value'[name'][v] = source'[q]
      BY <1>2, <2>1, <2>3, <3>1, <3>2
    <3>. QED
      BY <2>1, <2>3, <3>3 DEF ValueKept
  <2>4. CASE /\ todo[p] \ {w} = {} /\ pc' = [pc EXCEPT ![p] = "ready"]
             /\ asked' = [asked EXCEPT ![p] = FALSE]
             /\ stored' = IF pc[p] = "store" THEN {source[p]} ELSE stored
    <3>1. pc'[p] = "ready" /\ ~asked'[p]
      BY <2>4 DEF TypeInv, Types
    <3>2. \A q \in Procs : ~Busy(q)' /\ ~First(q)'
      BY <2>2, <3>1 DEF Busy, First, Opening
    <3>3. pc[p] = "store" => \A v \in Words : value'[name][v] = source[p]
      BY <1>12, <2>1, <2>4
    <3>4. stored' # {} => \E i \in 1 .. items' : stored' = {i} /\ \A v \in Words : value'[name'][v] = i
      BY <1>2, <2>1, <2>4, <3>3
    <3>. QED
      BY <1>2, <1>6, <3>2, <3>4 DEF ValueKept, Busy
  <2>. QED
    BY <1>5, <2>3, <2>4
<1>14. ~Rings
  BY <1>7 DEF Rings
<1>. QED
  BY <1>9, <1>13, <1>14

\* Calls of the application: nobody else is busy, and nobody is initialising
\* the segment.
LEMMA Undisturbed ==
    ASSUME TypeInv, Sharing, ~raced, ShareInv, NEW p \in Procs, ~disturbed', Called(p), pc[p] = "ready"
    PROVE  /\ ~disturbed /\ seg[p] = name /\ name \in magic /\ name \in Segments
           /\ \A q \in Procs : ~Busy(q) /\ ~asked[q] /\ ~First(q)
<1>1. Named /\ Alone
  BY DEF ShareInv
<1>2. ~disturbed /\ \A q \in Procs \ {p} : ~Busy(q)
  BY DEF Called
<1>3. ~Busy(p) /\ ~First(p)
  BY DEF Busy, First, Opening, TypeInv, Opened, ResetSteps, RingSteps
<1>4. seg[p] = name /\ name \in magic
  BY <1>1 DEF Named, Settled
<1>5. name \in Segments
  BY <1>4, BoundsAssumption DEF TypeInv, Types, Segments
<1>6. \A q \in Procs : ~First(q)
  BY <1>1, <1>3 DEF Alone
<1>. QED
  BY <1>2, <1>3, <1>4, <1>5, <1>6 DEF Busy

LEMMA AppendKept ==
    ASSUME TypeInv, Sharing, ~raced, ShareInv, OneBusy, Rings => RingKept, ~disturbed',
           NEW p \in Procs, Append(p)
    PROVE  OneBusy' /\ (Rings => RingKept') /\ ~Directs
<1>1. /\ pc[p] = "ready" /\ prog[p] = "ShmRing" /\ items < MaxItems /\ items' = items + 1
      /\ UNCHANGED <<name, magic, read_pos, confirmed_pos, pc, asked, early>>
  BY DEF Append, posix, opening
<1>2. /\ seg[p] = name /\ name \in magic /\ name \in Segments
      /\ \A q \in Procs : ~Busy(q) /\ ~asked[q] /\ ~First(q)
  BY <1>1, Undisturbed DEF Append
<1>3. \A q \in Procs : ~Busy(q)' /\ ~asked'[q] /\ ~First(q)'
  BY <1>1, <1>2 DEF Busy, First, Opening
<1>4. ASSUME Rings
      PROVE  RingKept'
  <2>. DEFINE pos == write_pos[name]
              low == confirmed_pos[name]
              sq == next_seq[name]
  <2>1. RingKept /\ Ordered(name) /\ Exact(name)
    BY <1>2, <1>4 DEF RingKept
  <2>2. pos \in Nat /\ low \in Nat /\ read_pos[name] \in Nat /\ items \in Nat /\ MaxItems \in Nat
    BY <1>2, BoundsAssumption DEF TypeInv, Types, SegmentTypes
  <2>3. pos <= items /\ low <= read_pos[name] /\ read_pos[name] <= pos /\ pos \in Positions
    BY <1>1, <2>1, <2>2 DEF Ordered, Exact, Positions
  <2>4. /\ buffer' = [buffer EXCEPT ![name][pos] = [seq |-> sq, item |-> items']]
        /\ write_pos' = [write_pos EXCEPT ![name] = pos + 1]
        /\ stored' = IF sq = 0 THEN stored ELSE stored \cup {items'}
    BY <1>2 DEF Append
  <2>5. /\ write_pos'[name] = pos + 1
        /\ \A s \in Segments \ {name} : write_pos'[s] = write_pos[s]
        /\ buffer'[name][pos].item = items' /\ buffer'[name][pos].seq = sq
        /\ \A k \in Positions \ {pos} : buffer'[name][k] = buffer[name][k]
    BY <1>2, <2>3, <2>4 DEF TypeInv, SegmentTypes
  <2>. HIDE DEF pos, low, sq
  <2>6. \A k \in low .. pos : k # pos => /\ k \in low .. pos - 1
                                          /\ buffer'[name][k] = buffer[name][k]
                                          /\ buffer[name][k].item \in 1 .. items
    BY <1>1, <2>1, <2>2, <2>3, <2>5 DEF Ordered, Positions, low, pos
  <2>7. low .. pos - 1 \subseteq low .. pos /\ pos \in low .. pos
    BY <2>2, <2>3
  <2>8. Ordered(name)'
    <3>1. write_pos'[name] - 1 = pos /\ write_pos'[name] <= items'
      BY <1>1, <2>2, <2>3, <2>5
    <3>2. \A k \in low .. pos : buffer'[name][k].item \in 1 .. items'
      <4>1. items' \in 1 .. items' /\ \A i \in 1 .. items : i \in 1 .. items'
        BY <1>1, <2>2
      <4>. QED
        BY <2>5, <2>6, <4>1
    <3>3. \A j, k \in low .. pos : j < k => buffer'[name][j].item < buffer'[name][k].item
      <4> SUFFICES ASSUME NEW j \in low .. pos, NEW k \in low .. pos, j < k
                   PROVE  buffer'[name][j].item < buffer'[name][k].item
        OBVIOUS
      <4>1. j # pos
        BY <2>2
      <4>2. CASE k = pos
        <5>1. buffer'[name][j].item \in 1 .. items
          BY <2>6, <4>1
        <5>. QED
          BY <1>1, <2>2, <2>5, <4>2, <5>1
      <4>3. CASE k # pos
        BY <2>1, <2>6, <4>1, <4>3 DEF Ordered, low, pos
      <4>. QED
        BY <4>2, <4>3
    <3>4. \A i \in stored' : \E k \in low .. pos : buffer'[name][k].seq # 0 /\ buffer'[name][k].item = i
      <4> SUFFICES ASSUME NEW i \in stored'
                   PROVE  \E k \in low .. pos : buffer'[name][k].seq # 0 /\ buffer'[name][k].item = i
        OBVIOUS
      <4>1. CASE i \in stored
        <5>1. PICK k \in low .. pos - 1 : buffer[name][k].seq # 0 /\ buffer[name][k].item = i
          BY <2>1, <4>1 DEF Ordered, low, pos
        <5>2. k # pos /\ k \in low .. pos
          BY <2>2, <5>1
        <5>. QED
          BY <2>6, <5>1, <5>2
      <4>2. CASE i \notin stored
        BY <2>4, <2>5, <2>7, <4>2
      <4>. QED
        BY <4>1, <4>2
    <3>. QED
      BY <1>1, <3>1, <3>2, <3>3, <3>4 DEF Ordered, low
  <2>9. Exact(name)'
    <3>1. write_pos'[name] - 1 = pos /\ read_pos[name] <= write_pos'[name] /\ low <= read_pos[name]
      BY <2>2, <2>3, <2>5
    <3>2. \A k \in low .. pos : buffer'[name][k].seq # 0 => buffer'[name][k].item \in stored'
      <4> SUFFICES ASSUME NEW k \in low .. pos, buffer'[name][k].seq # 0
                   PROVE  buffer'[name][k].item \in stored'
        OBVIOUS
      <4>1. CASE k = pos
        BY <2>4, <2>5, <4>1
      <4>2. CASE k # pos
        BY <2>1, <2>4, <2>6, <4>2 DEF Exact, low, pos
      <4>. QED
        BY <4>1, <4>2
    <3>. QED
      BY <1>1, <3>1, <3>2 DEF Exact, low
  <2>10. Fresh'
    <3>1. Fresh
      BY <2>1 DEF RingKept
    <3>. QED
      BY <1>1, <1>2, <2>5, <3>1 DEF Fresh
  <2>. QED
    BY <1>1, <1>2, <1>3, <2>8, <2>9, <2>10 DEF RingKept, Starting, Clearing
<1>. QED
  BY <1>1, <1>3, <1>4 DEF OneBusy, Directs

LEMMA ReadNextKept ==
    ASSUME TypeInv, Sharing, ~raced, ShareInv, OneBusy, Rings => RingKept, ~disturbed',
           NEW p \in Procs, ReadNext(p)
    PROVE  OneBusy' /\ (Rings => RingKept') /\ ~Directs
<1>1. /\ pc[p] = "ready" /\ prog[p] = "ShmRing"
      /\ UNCHANGED <<name, magic, write_pos, confirmed_pos, buffer, pc, asked, early, items, stored>>
  BY DEF ReadNext, posix, opening
<1>2. /\ seg[p] = name /\ name \in magic /\ name \in Segments
      /\ \A q \in Procs : ~Busy(q) /\ ~asked[q] /\ ~First(q)
  BY <1>1, Undisturbed DEF ReadNext
<1>3. \A q \in Procs : ~Busy(q)' /\ ~asked'[q] /\ ~First(q)'
  BY <1>1, <1>2 DEF Busy, First, Opening
<1>4. ASSUME Rings
      PROVE  RingKept'
  <2>1. RingKept /\ Ordered(name) /\ Exact(name)
    BY <1>2, <1>4 DEF RingKept
  <2>2. /\ read_pos[name] < write_pos[name] /\ read_pos'[name] = read_pos[name] + 1
        /\ \A s \in Segments \ {name} : read_pos'[s] = read_pos[s]
        /\ read_pos[name] \in Nat /\ write_pos[name] \in Nat /\ confirmed_pos[name] \in Nat
    BY <1>2 DEF ReadNext, TypeInv, SegmentTypes
  <2>3. confirmed_pos[name] <= read_pos'[name] /\ read_pos'[name] <= write_pos[name]
    BY <2>1, <2>2 DEF Exact
  <2>4. Exact(name)' /\ Ordered(name)'
    BY <1>1, <2>1, <2>3 DEF Exact, Ordered
  <2>5. Fresh'
    <3>1. Fresh
      BY <2>1 DEF RingKept
    <3>. QED
      BY <1>1, <1>2, <2>2, <3>1 DEF Fresh
  <2>. QED
    BY <1>1, <1>2, <1>3, <2>4, <2>5 DEF RingKept, Starting, Clearing
<1>. QED
  BY <1>1, <1>3, <1>4 DEF OneBusy, Directs

LEMMA ConfirmKept ==
    ASSUME TypeInv, Sharing, ~raced, ShareInv, OneBusy, Rings => RingKept, ~disturbed',
           NEW p \in Procs, Confirm(p)
    PROVE  OneBusy' /\ (Rings => RingKept') /\ ~Directs
<1>1. /\ pc[p] = "ready" /\ prog[p] = "ShmRing"
      /\ UNCHANGED <<name, magic, write_pos, read_pos, buffer, pc, asked, early, items>>
  BY DEF Confirm, posix, opening
<1>2. /\ seg[p] = name /\ name \in magic /\ name \in Segments
      /\ \A q \in Procs : ~Busy(q) /\ ~asked[q] /\ ~First(q)
  BY <1>1, Undisturbed DEF Confirm
<1>3. \A q \in Procs : ~Busy(q)' /\ ~asked'[q] /\ ~First(q)'
  BY <1>1, <1>2 DEF Busy, First, Opening
<1>4. ASSUME Rings
      PROVE  RingKept'
  <2>. DEFINE low == confirmed_pos[name]
              top == write_pos[name] - 1
              item(k) == buffer[name][k].item
  <2>1. RingKept /\ Ordered(name) /\ Exact(name)
    BY <1>2, <1>4 DEF RingKept
  <2>2. PICK k \in low .. read_pos[name] - 1 :
           /\ k < write_pos[name]
           /\ confirmed_pos' = [confirmed_pos EXCEPT ![name] = k + 1]
           /\ stored' = {i \in stored : i > item(k)}
    BY <1>2 DEF Confirm
  <2>3. read_pos[name] \in Nat /\ write_pos[name] \in Nat /\ low \in Nat
    BY <1>2 DEF TypeInv, SegmentTypes
  <2>4. /\ confirmed_pos'[name] = k + 1
        /\ \A s \in Segments \ {name} : confirmed_pos'[s] = confirmed_pos[s]
    BY <1>2, <2>2 DEF TypeInv, SegmentTypes
  <2>5. k \in low .. top /\ k + 1 <= read_pos[name] /\ k + 1 .. top \subseteq low .. top
    BY <2>2, <2>3
  <2>6. /\ \A j \in low .. top : item(j) \in 1 .. items
        /\ \A i, j \in low .. top : i < j => item(i) < item(j)
        /\ \A i \in stored : \E j \in low .. top : buffer[name][j].seq # 0 /\ item(j) = i
        /\ \A j \in low .. top : buffer[name][j].seq # 0 => item(j) \in stored
    BY <2>1 DEF Ordered, Exact
  <2>7. write_pos[name] <= items /\ read_pos[name] <= write_pos[name] /\ items \in Nat
    BY <2>1 DEF Ordered, Exact, TypeInv, Types
  <2>. HIDE DEF low, top, item
  <2>8. \A i \in stored' : \E j \in k + 1 .. top : buffer[name][j].seq # 0 /\ item(j) = i
    <3> SUFFICES ASSUME NEW i \in stored'
                 PROVE  \E j \in k + 1 .. top : buffer[name][j].seq # 0 /\ item(j) = i
      OBVIOUS
    <3>1. PICK j \in low .. top : buffer[name][j].seq # 0 /\ item(j) = i
      BY <2>2, <2>6
    <3>2. item(j) > item(k)
      BY <2>2, <3>1
    <3>3. item(j) \in Int /\ item(k) \in Int
      BY <2>5, <2>6, <2>7
    <3>4. ~(j < k) /\ j # k
      BY <2>5, <2>6, <3>1, <3>2, <3>3
    <3>5. j \in k + 1 .. top
      BY <2>3, <2>5, <3>1, <3>4
    <3>. QED
      BY <3>1, <3>5
  <2>9. \A j \in k + 1 .. top : buffer[name][j].seq # 0 => item(j) \in stored'
    <3> SUFFICES ASSUME NEW j \in k + 1 .. top, buffer[name][j].seq # 0
                 PROVE  item(j) \in stored'
      OBVIOUS
    <3>1. j \in low .. top /\ k < j
      BY <2>3, <2>5
    <3>2. item(k) < item(j) /\ item(j) \in stored
      BY <2>5, <2>6, <3>1
    <3>. QED
      BY <2>2, <2>5, <2>6, <2>7, <3>1, <3>2
  <2>10. Ordered(name)'
    <3>1. /\ \A j \in k + 1 .. top : item(j) \in 1 .. items
          /\ \A i, j \in k + 1 .. top : i < j => item(i) < item(j)
      BY <2>5, <2>6
    <3>. QED
      BY <1>1, <2>4, <2>7, <2>8, <3>1 DEF Ordered, top, item
  <2>11. Exact(name)'
    BY <1>1, <2>4, <2>5, <2>7, <2>9 DEF Exact, top, item
  <2>12. Fresh'
    <3>1. Fresh
      BY <2>1 DEF RingKept
    <3>. QED
      BY <1>1, <1>2, <2>4, <3>1 DEF Fresh
  <2>. QED
    BY <1>1, <1>2, <1>3, <2>10, <2>11, <2>12 DEF RingKept, Starting, Clearing
<1>. QED
  BY <1>1, <1>3, <1>4 DEF OneBusy, Directs

\* Write and Reset: the items stored are given up, and the process is the only
\* one that is busy.
LEMMA BeginKept ==
    ASSUME TypeInv, Sharing, ~raced, ShareInv, OneBusy,
           Rings => RingKept, Directs => ValueKept, ~disturbed', NEW p \in Procs, Write(p) \/ Reset(p)
    PROVE  OneBusy' /\ (Rings => RingKept') /\ (Directs => ValueKept')
<1>1. /\ pc[p] = "ready" /\ stored' = {}
      /\ UNCHANGED <<name, magic, ring, value, early>>
      /\ Called(p)
  BY DEF Write, Reset, posix, opening, segments
<1>2. /\ seg[p] = name /\ name \in magic /\ name \in Segments
      /\ \A q \in Procs : ~Busy(q) /\ ~asked[q] /\ ~First(q)
  BY <1>1, Undisturbed
<1>3. \A q \in Procs \ {p} : pc'[q] = pc[q] /\ asked'[q] = asked[q]
  BY DEF Write, Reset, Goto, TypeInv, Types
<1>4. \/ /\ Write(p) /\ pc'[p] = "store" /\ ~asked'[p] /\ prog[p] = "DirectShm"
         /\ items' = items + 1 /\ source'[p] = items' /\ todo'[p] = Words
      \/ /\ Reset(p) /\ pc'[p] \in {"resetHeader", "resetValue"} /\ asked'[p] /\ items' = items
  <2>1. CASE Write(p)
    BY <1>2, <2>1 DEF Write, Goto, TypeInv, Types, CopyTypes
  <2>2. CASE Reset(p)
    BY <2>2 DEF Reset, Goto, TypeInv, Types
  <2>. QED
    BY <2>1, <2>2
<1>5. Busy(p)' /\ \A q \in Procs \ {p} : ~Busy(q)' /\ ~asked'[q] /\ pc'[q] # "store"
  BY <1>2, <1>3, <1>4 DEF Busy
<1>6. \A q \in Procs : ~First(q)'
  BY <1>1, <1>2, <1>3, <1>5 DEF First, Opening, Busy
<1>7. OneBusy'
  BY <1>5 DEF OneBusy
<1>8. ASSUME Rings
      PROVE  RingKept'
  <2>1. asked'[p] /\ pc'[p] \notin RingSteps /\ items' = items
    BY <1>4, <1>8 DEF Rings, RingSteps
  <2>2. Fresh /\ Ordered(name)
    BY <1>2, <1>8 DEF RingKept
  <2>3. Fresh' /\ Ordered(name)'
    BY <1>1, <2>1, <2>2 DEF Fresh, Ordered, ring
  <2>4. Starting' /\ Clearing'
    BY <1>1, <1>5, <1>6, <2>1 DEF Starting, Clearing, RingSteps
  <2>. QED
    BY <1>1, <1>2, <2>1, <2>3, <2>4 DEF RingKept
<1>9. ASSUME Directs
      PROVE  ValueKept'
  <2>1. \A q \in Procs : pc'[q] = "store" =>
           /\ source'[q] \in 1 .. items'
           /\ \A w \in Words \ todo'[q] : value'[name'][w] = source'[q]
    <3>1. items \in Nat
      BY DEF TypeInv, Types
    <3>2. pc'[p] = "store" => source'[p] \in 1 .. items' /\ todo'[p] = Words
      BY <1>4, <3>1
    <3>. QED
      BY <1>5, <3>2
  <2>. QED
    BY <1>1, <1>2, <2>1 DEF ValueKept
<1>. QED
  BY <1>7, <1>8, <1>9

\* A process stops: nothing in the segment changes, and it has not left a
\* Reset of a ring half done.
LEMMA StopKept ==
    ASSUME TypeInv, Sharing, ~raced, ShareInv, OneBusy,
           Rings => RingKept, Directs => ValueKept, ~disturbed', NEW p \in Procs, Stop(p)
    PROVE  OneBusy' /\ (Rings => RingKept') /\ (Directs => ValueKept')
<1>1. /\ UNCHANGED <<name, magic, ring, value, items, stored>>
      /\ prog[p] = "ShmRing" => ~asked[p]
  BY DEF Stop, posix, segments
<1>2. /\ pc'[p] = "down" /\ ~asked'[p]
      /\ \A q \in Procs \ {p} : /\ pc'[q] = pc[q] /\ asked'[q] = asked[q] /\ early'[q] = early[q]
                                /\ source'[q] = source[q] /\ todo'[q] = todo[q]
  BY DEF Stop, Goto, TypeInv, Types, CopyTypes
<1>3. /\ ~Busy(p)' /\ ~First(p)'
      /\ \A q \in Procs \ {p} : (Busy(q)' <=> Busy(q)) /\ (First(q)' <=> First(q))
  BY <1>2 DEF Busy, First, Opening
<1>4. OneBusy'
  BY <1>3 DEF OneBusy
<1>5. ASSUME Rings
      PROVE  RingKept'
  <2>1. RingKept /\ ~asked[p]
    BY <1>1, <1>5 DEF Rings
  <2>2. \A q \in Procs : asked'[q] = asked[q] \/ (q = p /\ ~asked'[q])
    BY <1>2
  <2>3. (\A q \in Procs : ~asked'[q]) => \A q \in Procs : ~asked[q]
    BY <1>2, <2>1
  <2>4. Fresh' /\ Starting' /\ Clearing'
    BY <1>1, <1>2, <1>3, <2>1 DEF RingKept, Fresh, Starting, Clearing, RingSteps, ring
  <2>5. /\ name \in magic => Ordered(name)'
        /\ name \in magic /\ (\A q \in Procs : ~asked'[q]) => Exact(name)'
    BY <1>1, <2>1, <2>3 DEF RingKept, Ordered, Exact, ring
  <2>. QED
    BY <1>1, <2>1, <2>4, <2>5 DEF RingKept
<1>6. ASSUME Directs
      PROVE  ValueKept'
  BY <1>1, <1>2, <1>3, <1>6 DEF ValueKept
<1>. QED
  BY <1>4, <1>5, <1>6

LEMMA NextKept ==
    ASSUME TypeInv, ShareInv, Kinds, KeptInv, [Next]_vars
    PROVE  KeptInv'
<1> SUFFICES ASSUME Sharing', ~raced', ~disturbed'
             PROVE  OneBusy' /\ (Rings' => RingKept') /\ (Directs' => ValueKept')
  BY DEF KeptInv
<1>1. Sharing /\ (Rings' <=> Rings) /\ (Directs' <=> Directs)
  BY SameProgram DEF Sharing, Shares, Rings, Directs
<1>2. CASE UNCHANGED vars
  <2>1. /\ UNCHANGED <<name, magic, ring, value, source, todo, pc, items, stored, asked, early, raced, disturbed>>
    BY <1>2 DEF vars, posix, segments, copy, history, told, opening
  <2>2. OneBusy /\ (Rings => RingKept) /\ (Directs => ValueKept)
    BY <1>1, <2>1 DEF KeptInv
  <2>3. \A q \in Procs : (Busy(q)' <=> Busy(q)) /\ (First(q)' <=> First(q))
    BY <2>1 DEF Busy, First, Opening
  <2>4. OneBusy'
    BY <2>2, <2>3 DEF OneBusy
  <2>5. Rings => RingKept'
    BY <2>1, <2>2, <2>3 DEF RingKept, Fresh, Starting, Clearing, Ordered, Exact, ring
  <2>6. Directs => ValueKept'
    BY <2>1, <2>2, <2>3 DEF ValueKept
  <2>. QED
    BY <1>1, <2>4, <2>5, <2>6
<1>3. CASE Next
  <2>1. PICK p \in Procs :
             \/ Open(p) \/ Remove(p) \/ Create(p) \/ Truncate(p) \/ Map(p)
             \/ Check(p) \/ ResetHeader(p) \/ ResetWritePos(p) \/ ResetReadPos(p)
             \/ ResetConfirmedPos(p) \/ ResetNextSeq(p) \/ Memset(p) \/ StoreWord(p)
             \/ Append(p) \/ ReadNext(p) \/ Confirm(p) \/ Write(p) \/ Reset(p)
             \/ Retry(p) \/ Stop(p)
             \/ WriteShm(p) \/ ReadShm(p) \/ Construct(p) \/ Find(p) \/ LoadWord(p)
    BY <1>3 DEF Next
  <2>2. ~raced
    <3>1. CASE Open(p)
      BY <3>1 DEF Open, Began
    <3>2. CASE ~Open(p)
      BY <2>1, <3>2 DEF Remove, Create, Truncate, Map, Check, ResetHeader, ResetWritePos, ResetReadPos,
              ResetConfirmedPos, ResetNextSeq, Memset, StoreWord, Append, ReadNext, Confirm, Write, Reset,
              Retry, Stop, WriteShm, Construct, ReadShm, Find, LoadWord, history, opening
    <3>. QED
      BY <3>1, <3>2
  <2>3. ~disturbed
    <3>1. CASE Append(p) \/ ReadNext(p) \/ Confirm(p) \/ Write(p) \/ Reset(p)
      BY <3>1 DEF Append, ReadNext, Confirm, Write, Reset, Called
    <3>2. CASE Stop(p)
      BY <3>2 DEF Stop
    <3>3. CASE ~(Append(p) \/ ReadNext(p) \/ Confirm(p) \/ Write(p) \/ Reset(p) \/ Stop(p))
      BY <2>1, <3>3 DEF Open, Remove, Create, Truncate, Map, Check, ResetHeader, ResetWritePos,
              ResetReadPos, ResetConfirmedPos, ResetNextSeq, Memset, StoreWord, Retry,
              WriteShm, Construct, ReadShm, Find, LoadWord, history, told
    <3>. QED
      BY <3>1, <3>2, <3>3
  <2>4. OneBusy /\ (Rings => RingKept) /\ (Directs => ValueKept)
    BY <1>1, <2>2, <2>3 DEF KeptInv
  <2>5. OneBusy' /\ (Rings => RingKept') /\ (Directs => ValueKept')
    <3>1. CASE Open(p) \/ Remove(p) \/ Create(p) \/ Truncate(p) \/ Map(p) \/ Check(p) \/ Retry(p)
      BY <1>1, <2>2, <2>4, <3>1, OpeningKept
    <3>2. CASE ResetHeader(p)
      BY <1>1, <2>2, <2>4, <3>2, ResetHeaderKept
    <3>3. CASE \/ ResetWritePos(p) \/ ResetReadPos(p) \/ ResetConfirmedPos(p) \/ ResetNextSeq(p)
               \/ Memset(p)
      BY <1>1, <2>2, <2>4, <3>3, RingStoreKept
    <3>4. CASE StoreWord(p)
      BY <1>1, <2>2, <2>4, <3>4, StoreWordKept
    <3>5. CASE Append(p) \/ ReadNext(p) \/ Confirm(p)
      BY <1>1, <2>2, <2>4, <3>5, AppendKept, ReadNextKept, ConfirmKept
    <3>6. CASE Write(p) \/ Reset(p)
      BY <1>1, <2>2, <2>4, <3>6, BeginKept
    <3>7. CASE Stop(p)
      BY <1>1, <2>2, <2>4, <3>7, StopKept
    <3>. QED
      BY <1>1, <2>1, <2>2, <3>1, <3>2, <3>3, <3>4, <3>5, <3>6, <3>7, SharingSteps
  <2>. QED
    BY <1>1, <2>5
<1>. QED
  BY <1>2, <1>3

LEMMA KindsHold == Spec => []Kinds
<1>1. Init => Kinds
  BY DEF Init, Kinds, RingSteps
<1>2. TypeInv /\ Kinds /\ [Next]_vars => Kinds'
  BY NextKinds
<1>. QED
  BY <1>1, <1>2, TypesHold, PTL DEF Spec

LEMMA KeptInvHolds == Spec => []KeptInv
<1>1. Init => KeptInv
  BY InitKept
<1>2. TypeInv /\ ShareInv /\ Kinds /\ KeptInv /\ [Next]_vars => KeptInv'
  BY NextKept
<1>. QED
  BY <1>1, <1>2, TypesHold, ShareInvHolds, KindsHold, PTL DEF Spec

\* What the application was told is stored stays in the segment over exits,
\* crashes and restarts at any store of Initialize, and a ring holds nothing
\* else (Initialize and Reset of zrt_shm_ring.h and zrt_shm_direct.h).
THEOREM RestartKeepsHolds == Spec => []RestartKeeps
<1>1. TypeInv /\ ShareInv /\ KeptInv => RestartKeeps
  <2> SUFFICES ASSUME TypeInv, ShareInv, KeptInv, ~raced, ~disturbed, NEW p \in Procs, Shares(p)
               PROVE  /\ stored # {} => name # None
                      /\ prog[p] = "ShmRing" /\ name # None =>
                            /\ stored \subseteq Unconfirmed(name)
                            /\ (\A q \in Procs : ~asked[q]) =>
                                  /\ Unconfirmed(name) \subseteq stored
                                  /\ confirmed_pos[name] <= read_pos[name]
                                  /\ read_pos[name] <= write_pos[name]
                      /\ prog[p] = "DirectShm" /\ name # None => stored \subseteq Held(name)
    BY DEF RestartKeeps, Shares
  <2>1. Sharing /\ (prog[p] = "ShmRing" => Rings) /\ (prog[p] = "DirectShm" => Directs)
    BY SharingAll, ProgramsAssumption DEF Rings, Directs, TypeInv, Types, Shares
  <2>2. (Rings => RingKept) /\ (Directs => ValueKept)
    BY <2>1 DEF KeptInv
  <2>3. name \notin magic => stored = {}
    BY <2>1, <2>2 DEF RingKept, ValueKept, Shares
  <2>4. stored # {} => name # None
    <3>1. None \notin magic
      BY DEF None, TypeInv, Types
    <3>. QED
      BY <2>3, <3>1
  <2>5. ASSUME Rings, name # None
        PROVE  /\ stored \subseteq Unconfirmed(name)
               /\ (\A q \in Procs : ~asked[q]) =>
                     /\ Unconfirmed(name) \subseteq stored
                     /\ confirmed_pos[name] <= read_pos[name]
                     /\ read_pos[name] <= write_pos[name]
    <3>1. RingKept /\ name \in Segments
      BY <2>2, <2>5, BoundsAssumption DEF TypeInv, Types, Segments, None
    <3>2. CASE name \in magic
      BY <3>1, <3>2 DEF RingKept, Ordered, Exact, Unconfirmed
    <3>3. CASE name \notin magic
      <4>1. write_pos[name] = 0 /\ read_pos[name] = 0 /\ confirmed_pos[name] = 0 /\ stored = {}
        BY <3>1, <3>3 DEF RingKept, Fresh
      <4>2. Unconfirmed(name) = {}
        BY <4>1 DEF Unconfirmed
      <4>. QED
        BY <4>1, <4>2
    <3>. QED
      BY <3>2, <3>3
  <2>6. ASSUME Directs
        PROVE  stored \subseteq Held(name)
    BY <2>2, <2>6 DEF ValueKept, Held
  <2>. QED
    BY <2>1, <2>4, <2>5, <2>6
<1>. QED
  BY <1>1, TypesHold, ShareInvHolds, KeptInvHolds, PTL

----------------------------------------------------------------------------
(* One WriteShm and its ReadShm. Only the writer's own segment changes, and *)
(* each of its words once from blank to that of T() and once to that of the *)
(* item: so all words of a segment that are neither are of one item, and    *)
(* once the last one is stored the named segment holds that item alone.     *)

OneWriter ==
    /\ \A p \in Procs : prog[p] \in {"WriteShm", "ReadShm"}
    /\ \A p, q \in Procs : prog[p] = "WriteShm" /\ prog[q] = "WriteShm" => p = q

Empty(s) == \A w \in Words : value[s][w] = Blank
Full(s, i) == \A w \in Words : value[s][w] = i
NotBefore(s, i) == \A w \in Words : value[s][w] <= 0 \/ value[s][w] >= i

Placed ==
    \A p \in Procs :
        /\ pc[p] \in {"down", "remove", "create", "truncate", "construct", "store", "find", "load"}
        /\ pc[p] \in {"find", "load"} => prog[p] = "ReadShm"
        /\ pc[p] \notin {"down", "find", "load"} =>
             prog[p] = "WriteShm" /\ items > 0 /\ items \notin stored
        /\ pc[p] = "create" => name = None
        /\ pc[p] \in {"truncate", "construct"} => seg[p] = name /\ Empty(name)
        /\ pc[p] = "store" =>
             /\ seg[p] = name /\ source[p] = items
             /\ \A w \in Words : value[name][w] = IF w \in todo[p] THEN Default ELSE items

Contents ==
    /\ \A s \in Segments : s > made => Empty(s)
    /\ \A s \in Segments, w \in Words : value[s][w] \in {Blank, Default} \cup 1 .. items
    /\ \A s \in Segments, v, w \in Words : value[s][v] > 0 /\ value[s][w] > 0 => value[s][v] = value[s][w]
    /\ stored = {} \/ \E i \in 1 .. items : stored = {i}
    /\ name # None => items > 0 /\ \A i \in stored : NotBefore(name, i)
    /\ items \in stored => name # None /\ Full(name, items)

Reading ==
    \A p \in Procs : prog[p] = "ReadShm" =>
        /\ floor[p] \in 0 .. items
        /\ pc[p] \in {"find", "load"} =>
             /\ NotBefore(seg[p], floor[p])
             /\ calm[p] => floor[p] > 0 /\ Full(seg[p], floor[p])
        /\ pc[p] = "find" => out[p] = {}
        /\ pc[p] = "load" =>
             /\ \A w \in Words : value[seg[p]][w] # Blank
             /\ \A x \in out[p] : x = Default \/ \E w \in Words : value[seg[p]][w] = x
             /\ calm[p] => out[p] \subseteq {floor[p]}

HandInv == OneWriter => Placed /\ Contents /\ Reading /\ ReadShmCurrent

LEMMA InitHand == Init => HandInv
<1> SUFFICES ASSUME Init
             PROVE  Placed /\ Contents /\ Reading /\ ReadShmCurrent
  BY DEF HandInv
<1>1. /\ \A p \in Procs : pc[p] = "down" /\ floor[p] = 0 /\ out[p] = {} /\ ~calm[p]
      /\ name = 0 /\ stored = {} /\ items = 0
      /\ \A s \in Segments, w \in Words : value[s][w] = Blank
  BY DEF Init, None, Default
<1>. HIDE DEF Init
<1>2. Placed /\ Reading
  BY <1>1 DEF Placed, Reading
<1>3. Contents
  BY <1>1 DEF Contents, None, Empty, Blank
<1>4. ReadShmCurrent
  <2>1. 0 \in 0 .. MaxItems
    BY BoundsAssumption
  <2>. QED
    BY <1>1, <2>1 DEF ReadShmCurrent
<1>. QED
  BY <1>2, <1>3, <1>4

LEMMA WriteHands ==
    ASSUME TypeInv, OneWriter, HandInv, NEW w \in Procs, WriteShm(w)
    PROVE  Placed' /\ Contents' /\ Reading' /\ ReadShmCurrent'
<1>1. Placed /\ Contents /\ Reading /\ ReadShmCurrent
  BY DEF HandInv
<1>2. /\ prog[w] = "WriteShm" /\ pc[w] = "down" /\ items' = items + 1
      /\ pc' = [pc EXCEPT ![w] = "remove"]
      /\ UNCHANGED <<prog, name, made, value, seg, source, todo, out, stored, floor, calm>>
  BY DEF WriteShm, Goto, posix, segments, copy, reading
<1>3. pc'[w] = "remove" /\ \A q \in Procs \ {w} : pc'[q] = pc[q]
  BY <1>2 DEF TypeInv, Types
<1>4. items \in Nat /\ (\A i \in stored : i \in 1 .. items) /\ \A i \in 1 .. items : i \in 1 .. items + 1
  BY <1>1 DEF TypeInv, Types, Contents
<1>5. items + 1 \notin stored
  BY <1>4
<1>6. \A q \in Procs \ {w} : prog[q] = "ReadShm" /\ pc[q] \in {"down", "find", "load"}
  BY <1>1, <1>2 DEF OneWriter, Placed
<1>7. Placed'
  BY <1>1, <1>2, <1>3, <1>4, <1>5, <1>6 DEF Placed
<1>8. Contents'
  <2>1. /\ \A s \in Segments : s > made => Empty(s)'
        /\ name # None => items' > 0 /\ \A i \in stored : NotBefore(name, i)'
    BY <1>1, <1>2, <1>4 DEF Contents, Empty, NotBefore
  <2>2. \A s \in Segments, v \in Words : value[s][v] \in {Blank, Default} \cup 1 .. items + 1
    BY <1>1, <1>4 DEF Contents
  <2>3. stored = {} \/ \E i \in 1 .. items + 1 : stored = {i}
    BY <1>1, <1>4 DEF Contents
  <2>. QED
    BY <1>1, <1>2, <1>5, <2>1, <2>2, <2>3 DEF Contents
<1>9. Reading'
  <2>1. \A q \in Procs : prog[q] = "ReadShm" => q # w /\ floor[q] \in 0 .. items + 1
    BY <1>1, <1>2, <1>4 DEF Reading
  <2>. QED
    BY <1>1, <1>2, <1>3, <2>1 DEF Reading, NotBefore, Full
<1>10. ReadShmCurrent'
  BY <1>1, <1>2, <1>3 DEF ReadShmCurrent
<1>. QED
  BY <1>7, <1>8, <1>9, <1>10

\* The writer on its way to a segment of its own.
LEMMA MoveHands ==
    ASSUME TypeInv, OneWriter, HandInv, NEW w \in Procs,
           Remove(w) \/ Create(w) \/ Truncate(w)
    PROVE  Placed' /\ Contents' /\ Reading' /\ ReadShmCurrent'
<1>. USE DEF None
<1>1. Placed /\ Contents /\ Reading /\ ReadShmCurrent
  BY DEF HandInv
<1>2. /\ pc[w] \in {"remove", "create", "truncate"}
      /\ UNCHANGED <<prog, value, source, todo, out, items, stored, floor, calm>>
  BY DEF Remove, Create, Truncate, history, told, reading, copy, segments
<1>3. prog[w] = "WriteShm" /\ items > 0 /\ items \notin stored
  BY <1>1, <1>2 DEF Placed
<1>4. \A q \in Procs \ {w} : prog[q] = "ReadShm" /\ pc[q] \in {"down", "find", "load"}
  BY <1>1, <1>3 DEF OneWriter, Placed
<1>5. /\ \A q \in Procs \ {w} : pc'[q] = pc[q] /\ seg'[q] = seg[q]
      /\ \/ pc'[w] = "create" /\ name' = 0 /\ made' = made
         \/ pc'[w] = "truncate" /\ seg'[w] = name' /\ name' = made + 1 /\ made' = made + 1
                               /\ made < MaxSegments
         \/ pc'[w] = "construct" /\ seg'[w] = name' /\ name' = name /\ made' = made
                                /\ Empty(name)
  <2>1. CASE Remove(w)
    BY <2>1 DEF Remove, Goto, TypeInv, Types
  <2>2. CASE Create(w)
    <3>1. name = 0
      BY <1>1, <2>2 DEF Create, Placed
    <3>. QED
      BY <2>2, <3>1 DEF Create, Goto, TypeInv, Types
  <2>3. CASE Truncate(w)
    BY <1>1, <1>3, <2>3 DEF Truncate, Goto, TypeInv, Types, Placed
  <2>. QED
    BY <2>1, <2>2, <2>3
<1>6. made \in Nat /\ items \in Nat /\ (name' # 0 => Empty(name'))
  <2>1. made \in Nat /\ items \in Nat
    BY DEF TypeInv, Types
  <2>2. made < MaxSegments => made + 1 \in Segments
    BY <2>1, BoundsAssumption DEF Segments
  <2>3. made < MaxSegments => Empty(made + 1)
    BY <1>1, <2>1, <2>2 DEF Contents
  <2>. QED
    BY <1>5, <2>1, <2>3
<1>7. Placed'
  BY <1>1, <1>2, <1>3, <1>4, <1>5, <1>6 DEF Placed, Empty
<1>8. Contents'
  <2>1. \A s \in Segments : s > made' => s > made
    BY <1>5, <1>6 DEF Segments
  <2>2. \A s \in Segments : s > made' => Empty(s)'
    BY <1>1, <1>2, <2>1 DEF Contents, Empty
  <2>3. name' # 0 => \A i \in stored : NotBefore(name, i)'
    BY <1>2, <1>6 DEF NotBefore, Empty, Blank
  <2>. QED
    BY <1>1, <1>2, <1>3, <2>2, <2>3 DEF Contents
<1>9. Reading'
  <2>1. \A q \in Procs : prog[q] = "ReadShm" => q # w
    BY <1>3
  <2>. QED
    BY <1>1, <1>2, <1>5, <2>1 DEF Reading, NotBefore, Full
<1>10. ReadShmCurrent'
  BY <1>1, <1>2, <1>3, <1>5 DEF ReadShmCurrent
<1>. QED
  BY <1>7, <1>8, <1>9, <1>10

\* A reader that has the writer's segment open finds more in it now: the
\* T(), or a word of an item that is newer than anything it may expect.
LEMMA ConstructHands ==
    ASSUME TypeInv, OneWriter, HandInv, NEW w \in Procs, Construct(w)
    PROVE  Placed' /\ Contents' /\ Reading' /\ ReadShmCurrent'
<1>. USE DEF None, Default
<1>1. Placed /\ Contents /\ Reading /\ ReadShmCurrent
  BY DEF HandInv
<1>2. /\ pc[w] = "construct"
      /\ UNCHANGED <<prog, name, made, seg, out, items, stored, floor, calm>>
  BY DEF Construct, history, told, reading, posix
<1>3. /\ prog[w] = "WriteShm" /\ items > 0 /\ items \notin stored /\ items \in Nat
      /\ seg[w] = name /\ Empty(name)
  BY <1>1, <1>2 DEF Placed, TypeInv, Types
<1>4. \A q \in Procs \ {w} : prog[q] = "ReadShm" /\ pc[q] \in {"down", "find", "load"}
  BY <1>1, <1>3 DEF OneWriter, Placed
<1>5. name \in 1 .. made /\ name \in Segments
  BY <1>2, <1>3, BoundsAssumption DEF TypeInv, Types, Opened, Segments
<1>6. /\ value' = [value EXCEPT ![name] = [v \in Words |-> 0]]
      /\ source'[w] = items /\ todo'[w] = Words /\ pc'[w] = "store"
      /\ \A q \in Procs \ {w} : pc'[q] = pc[q]
  BY <1>3 DEF Construct, Goto, TypeInv, Types, CopyTypes
<1>7. (\A v \in Words : value'[name][v] = 0) /\ \A s \in Segments \ {name} : value'[s] = value[s]
  BY <1>5, <1>6 DEF TypeInv, SegmentTypes
<1>8. Placed'
  BY <1>2, <1>3, <1>4, <1>6, <1>7 DEF Placed
<1>9. Contents'
  <2>1. \A s \in Segments : s > made => Empty(s)'
    <3>1. \A s \in Segments : s > made => s # name
      BY <1>5 DEF TypeInv, Types, Segments
    <3>. QED
      BY <1>1, <1>7, <3>1 DEF Contents, Empty
  <2>2. /\ \A s \in Segments, v \in Words : value'[s][v] \in {Blank, 0} \cup 1 .. items
        /\ \A s \in Segments, u, v \in Words :
             value'[s][u] > 0 /\ value'[s][v] > 0 => value'[s][u] = value'[s][v]
    BY <1>1, <1>7 DEF Contents
  <2>3. \A i \in stored : NotBefore(name, i)'
    BY <1>2, <1>7 DEF NotBefore
  <2>. QED
    BY <1>1, <1>2, <1>3, <1>5, <2>1, <2>2, <2>3 DEF Contents
<1>10. Reading'
  <2> SUFFICES ASSUME NEW q \in Procs, prog[q] = "ReadShm", pc'[q] \in {"find", "load"}
               PROVE  /\ NotBefore(seg[q], floor[q])'
                      /\ calm[q] => floor[q] > 0 /\ Full(seg[q], floor[q])'
                      /\ pc'[q] = "find" => out[q] = {}
                      /\ pc'[q] = "load" =>
                           /\ \A v \in Words : value'[seg[q]][v] # Blank
                           /\ \A x \in out[q] : x = 0 \/ \E v \in Words : value'[seg[q]][v] = x
                           /\ calm[q] => out[q] \subseteq {floor[q]}
    BY <1>1, <1>2 DEF Reading
  <2>1. pc'[q] = pc[q] /\ seg[q] \in Segments /\ seg'[q] = seg[q] /\ floor'[q] = floor[q]
    <3>1. q # w
      BY <1>3
    <3>2. pc'[q] = pc[q]
      BY <1>6, <3>1
    <3>. QED
      BY <1>2, <3>2, BoundsAssumption DEF TypeInv, Types, Opened, Segments
  <2>2. /\ NotBefore(seg[q], floor[q])
        /\ calm[q] => floor[q] > 0 /\ Full(seg[q], floor[q])
        /\ pc[q] = "find" => out[q] = {}
        /\ pc[q] = "load" =>
             /\ \A v \in Words : value[seg[q]][v] # Blank
             /\ \A x \in out[q] : x = 0 \/ \E v \in Words : value[seg[q]][v] = x
             /\ calm[q] => out[q] \subseteq {floor[q]}
    BY <1>1, <2>1 DEF Reading
  <2>3. CASE seg[q] = name
    <3>1. ~calm[q] /\ pc[q] # "load"
      BY <1>3, <2>2, <2>3, BoundsAssumption DEF Empty, Full, Blank
    <3>. QED
      BY <1>7, <2>1, <2>2, <2>3, <3>1 DEF NotBefore
  <2>4. CASE seg[q] # name
    <3>1. value'[seg[q]] = value[seg[q]]
      BY <1>7, <2>1, <2>4
    <3>. QED
      BY <2>1, <2>2, <3>1 DEF NotBefore, Full
  <2>. QED
    BY <2>3, <2>4
<1>11. ReadShmCurrent'
  BY <1>1, <1>2, <1>3, <1>6 DEF ReadShmCurrent
<1>. QED
  BY <1>8, <1>9, <1>10, <1>11

LEMMA StoreHands ==
    ASSUME TypeInv, OneWriter, HandInv, NEW w \in Procs, StoreWord(w)
    PROVE  Placed' /\ Contents' /\ Reading' /\ ReadShmCurrent'
<1>. USE DEF None, Default
<1>1. Placed /\ Contents /\ Reading /\ ReadShmCurrent
  BY DEF HandInv
<1>2. /\ pc[w] = "store"
      /\ UNCHANGED <<prog, name, made, seg, source, out, items, floor, calm>>
  BY <1>1 DEF StoreWord, Placed, reading, posix
<1>3. /\ prog[w] = "WriteShm" /\ items > 0 /\ items \notin stored /\ items \in Nat
      /\ seg[w] = name /\ source[w] = items
      /\ \A v \in Words : value[name][v] = IF v \in todo[w] THEN 0 ELSE items
  BY <1>1, <1>2 DEF Placed, TypeInv, Types
<1>4. \A q \in Procs \ {w} : prog[q] = "ReadShm" /\ pc[q] \in {"down", "find", "load"}
  BY <1>1, <1>3 DEF OneWriter, Placed
<1>5. name \in 1 .. made /\ name \in Segments
  <2>1. name \in sized
    BY <1>2, <1>3 DEF TypeInv, Opened
  <2>. QED
    BY <2>1, BoundsAssumption DEF TypeInv, Types, Segments
<1>6. PICK u \in todo[w] :
        /\ value' = [value EXCEPT ![name][u] = items]
        /\ todo' = [todo EXCEPT ![w] = todo[w] \ {u}]
  BY <1>3 DEF StoreWord
<1>7. /\ u \in Words /\ todo'[w] = todo[w] \ {u} /\ \A q \in Procs \ {w} : todo'[q] = todo[q]
      /\ value'[name][u] = items /\ value[name][u] = 0
      /\ \A v \in Words \ {u} : value'[name][v] = value[name][v]
      /\ \A s \in Segments \ {name} : value'[s] = value[s]
  BY <1>3, <1>5, <1>6 DEF TypeInv, SegmentTypes, CopyTypes
<1>8. \/ todo'[w] = {} /\ pc'[w] = "down" /\ stored' = {items}
      \/ pc'[w] = "store" /\ stored' = stored
  <2>1. \/ todo'[w] = {} /\ pc' = [pc EXCEPT ![w] = "down"] /\ stored' = {source[w]}
        \/ UNCHANGED <<pc, stored>>
    BY <1>2, <1>3 DEF StoreWord, Goto
  <2>. QED
    BY <1>2, <1>3, <2>1 DEF TypeInv, Types
<1>9. \A q \in Procs \ {w} : pc'[q] = pc[q]
  BY DEF StoreWord, Goto, TypeInv, Types
<1>10. \A v \in Words : value'[name][v] = IF v \in todo'[w] THEN 0 ELSE items
  BY <1>3, <1>7
<1>11. Placed'
  <2>1. \A q \in Procs \ {w} : prog'[q] = "ReadShm" /\ pc'[q] \in {"down", "find", "load"}
    BY <1>2, <1>4, <1>9
  <2>2. pc'[w] = "store" => items' \notin stored'
    BY <1>2, <1>3, <1>8
  <2>3. pc'[w] \in {"down", "store"}
    BY <1>8
  <2>. QED
    BY <1>2, <1>3, <1>10, <2>1, <2>2, <2>3 DEF Placed
<1>12. Contents'
  <2>1. \A s \in Segments : s > made => Empty(s)'
    <3>1. \A s \in Segments : s > made => s # name
      BY <1>5 DEF TypeInv, Types, Segments
    <3>. QED
      BY <1>1, <1>7, <3>1 DEF Contents, Empty
  <2>2. items \in 1 .. items
    BY <1>3
  <2>3. \A s \in Segments, v \in Words : value'[s][v] \in {Blank, 0} \cup 1 .. items
    BY <1>1, <1>7, <1>10, <2>2 DEF Contents
  <2>4. \A s \in Segments, x, v \in Words :
             value'[s][x] > 0 /\ value'[s][v] > 0 => value'[s][x] = value'[s][v]
    BY <1>1, <1>7, <1>10 DEF Contents
  <2>5. stored' = {} \/ \E i \in 1 .. items : stored' = {i}
    BY <1>1, <1>8, <2>2 DEF Contents
  <2>6. \A i \in stored' : i \in 1 .. items
    BY <2>5
  <2>7. \A i \in stored' : NotBefore(name, i)'
    BY <1>2, <1>3, <1>10, <2>6 DEF NotBefore
  <2>8. items \in stored' => Full(name, items)'
    BY <1>2, <1>3, <1>8, <1>10 DEF Full
  <2>. QED
    BY <1>2, <1>3, <1>5, <2>1, <2>3, <2>4, <2>5, <2>7, <2>8 DEF Contents
<1>13. Reading'
  <2> SUFFICES ASSUME NEW q \in Procs, prog[q] = "ReadShm", pc'[q] \in {"find", "load"}
               PROVE  /\ NotBefore(seg[q], floor[q])'
                      /\ calm[q] => floor[q] > 0 /\ Full(seg[q], floor[q])'
                      /\ pc'[q] = "find" => out[q] = {}
                      /\ pc'[q] = "load" =>
                           /\ \A v \in Words : value'[seg[q]][v] # Blank
                           /\ \A x \in out[q] : x = 0 \/ \E v \in Words : value'[seg[q]][v] = x
                           /\ calm[q] => out[q] \subseteq {floor[q]}
    BY <1>1, <1>2 DEF Reading
  <2>1. pc'[q] = pc[q] /\ seg[q] \in Segments /\ seg'[q] = seg[q] /\ floor'[q] = floor[q]
    <3>1. q # w
      BY <1>3
    <3>2. pc'[q] = pc[q]
      BY <1>9, <3>1
    <3>. QED
      BY <1>2, <3>2, BoundsAssumption DEF TypeInv, Types, Opened, Segments
  <2>2. /\ NotBefore(seg[q], floor[q]) /\ floor[q] \in 0 .. items
        /\ calm[q] => floor[q] > 0 /\ Full(seg[q], floor[q])
        /\ pc[q] = "find" => out[q] = {}
        /\ pc[q] = "load" =>
             /\ \A v \in Words : value[seg[q]][v] # Blank
             /\ \A x \in out[q] : x = 0 \/ \E v \in Words : value[seg[q]][v] = x
             /\ calm[q] => out[q] \subseteq {floor[q]}
    BY <1>1, <2>1 DEF Reading
  <2>3. CASE seg[q] = name
    <3>1. ~calm[q]
      BY <1>7, <2>2, <2>3 DEF Full
    <3>2. NotBefore(seg[q], floor[q])'
      BY <1>3, <1>10, <2>1, <2>2, <2>3 DEF NotBefore
    <3>3. \A v \in Words : value'[name][v] # Blank
      BY <1>3, <1>10 DEF Blank
    <3>4. ASSUME pc[q] = "load", NEW x \in out[q], x # 0
          PROVE  \E v \in Words : value'[name][v] = x
      <4>1. PICK v \in Words : value[name][v] = x
        BY <2>2, <2>3, <3>4
      <4>2. v # u
        BY <1>7, <3>4, <4>1
      <4>. QED
        BY <1>7, <4>1, <4>2
    <3>. QED
      BY <2>1, <2>2, <2>3, <3>1, <3>2, <3>3, <3>4
  <2>4. CASE seg[q] # name
    <3>1. value'[seg[q]] = value[seg[q]]
      BY <1>7, <2>1, <2>4
    <3>. QED
      BY <2>1, <2>2, <3>1 DEF NotBefore, Full
  <2>. QED
    BY <2>3, <2>4
<1>14. ReadShmCurrent'
  BY <1>1, <1>2, <1>3, <1>9 DEF ReadShmCurrent
<1>. QED
  BY <1>11, <1>12, <1>13, <1>14

\* ReadShm opens what the name is bound to; when no WriteShm is under way,
\* that is the segment with the item stored last.
LEMMA ReadHands ==
    ASSUME TypeInv, OneWriter, HandInv, NEW r \in Procs, ReadShm(r)
    PROVE  Placed' /\ Contents' /\ Reading' /\ ReadShmCurrent'
<1>. USE DEF None, Default
<1>1. Placed /\ Contents /\ Reading /\ ReadShmCurrent
  BY DEF HandInv
<1>2. /\ prog[r] = "ReadShm" /\ pc[r] = "down"
      /\ pc' = [pc EXCEPT ![r] = IF name = 0 THEN "down" ELSE "find"]
      /\ seg' = [seg EXCEPT ![r] = name]
      /\ calm' = [calm EXCEPT ![r] = items \in {0} \cup stored]
      /\ out' = [out EXCEPT ![r] = {}]
      /\ UNCHANGED <<prog, name, made, value, source, todo, items, stored>>
  BY DEF ReadShm, Goto, posix, segments, told
<1>3. PICK f : /\ floor' = [floor EXCEPT ![r] = f]
               /\ f = IF stored = {} THEN 0 ELSE CHOOSE i \in stored : TRUE
  BY DEF ReadShm
<1>4. items \in Nat
  BY DEF TypeInv, Types
<1>5. f \in 0 .. items /\ (stored = {} => f = 0) /\ (stored # {} => f > 0 /\ stored = {f})
  <2>1. CASE stored = {}
    BY <1>3, <1>4, <2>1
  <2>2. CASE stored # {}
    <3>1. PICK i \in 1 .. items : stored = {i}
      BY <1>1, <2>2 DEF Contents
    <3>2. (CHOOSE k \in {i} : TRUE) = i
      OBVIOUS
    <3>3. f = i
      BY <1>3, <3>1, <3>2
    <3>. QED
      BY <1>4, <3>1, <3>3
  <2>. QED
    BY <2>1, <2>2
<1>6. /\ pc'[r] = (IF name = 0 THEN "down" ELSE "find") /\ seg'[r] = name /\ out'[r] = {}
      /\ floor'[r] = f /\ (calm'[r] <=> items = 0 \/ items \in stored)
  BY <1>2, <1>3 DEF TypeInv, Types, CopyTypes
<1>7. \A q \in Procs \ {r} : /\ pc'[q] = pc[q] /\ seg'[q] = seg[q] /\ out'[q] = out[q]
                              /\ floor'[q] = floor[q] /\ calm'[q] = calm[q]
  BY <1>2, <1>3 DEF TypeInv, Types, CopyTypes
<1>8. Placed'
  BY <1>1, <1>2, <1>6, <1>7 DEF Placed, Empty
<1>9. Contents'
  BY <1>1, <1>2 DEF Contents, Empty, NotBefore, Full
<1>10. name # 0 => items > 0 /\ NotBefore(name, f)
  <2>1. CASE stored = {}
    <3>1. name # 0 => name \in Segments
      BY BoundsAssumption DEF TypeInv, Types, Segments
    <3>2. name # 0 => NotBefore(name, 0)
      BY <1>1, <3>1 DEF Contents, NotBefore, Blank
    <3>. QED
      BY <1>1, <1>5, <2>1, <3>2 DEF Contents
  <2>2. CASE stored # {}
    BY <1>1, <1>5, <2>2 DEF Contents
  <2>. QED
    BY <2>1, <2>2
<1>11. items \in stored => name # 0 /\ Full(name, f) /\ f > 0
  BY <1>1, <1>5 DEF Contents
<1>12. items = 0 => f = 0
  BY <1>5
<1>13. Reading'
  <2>1. ASSUME NEW q \in Procs \ {r}, prog'[q] = "ReadShm"
        PROVE  /\ floor'[q] \in 0 .. items'
               /\ pc'[q] \in {"find", "load"} =>
                    /\ NotBefore(seg[q], floor[q])'
                    /\ calm'[q] => floor'[q] > 0 /\ Full(seg[q], floor[q])'
               /\ pc'[q] = "find" => out'[q] = {}
               /\ pc'[q] = "load" =>
                    /\ \A w \in Words : value'[seg'[q]][w] # Blank
                    /\ \A x \in out'[q] : x = Default \/ \E w \in Words : value'[seg'[q]][w] = x
                    /\ calm'[q] => out'[q] \subseteq {floor'[q]}
    BY <1>1, <1>2, <1>7, <2>1 DEF Reading, NotBefore, Full
  <2>2. ASSUME pc'[r] = "find"
        PROVE  /\ NotBefore(seg[r], floor[r])'
               /\ calm'[r] => f > 0 /\ Full(seg[r], floor[r])'
    <3>1. name # 0 /\ items > 0 /\ NotBefore(name, f)
      BY <1>6, <1>10, <2>2
    <3>2. calm'[r] => f > 0 /\ Full(name, f)
      BY <1>6, <1>11, <3>1
    <3>. QED
      BY <1>2, <1>6, <3>1, <3>2 DEF NotBefore, Full
  <2>3. pc'[r] \in {"down", "find"}
    BY <1>6
  <2>. QED
    BY <1>2, <1>5, <1>6, <2>1, <2>2, <2>3 DEF Reading
<1>14. ReadShmCurrent'
  <2>1. ASSUME NEW q \in Procs \ {r}, prog'[q] = "ReadShm" /\ pc'[q] = "down"
        PROVE  /\ \E i \in floor'[q] .. MaxItems : out'[q] \subseteq {Default, i}
               /\ calm'[q] => out'[q] = IF floor'[q] = Default THEN {} ELSE {floor'[q]}
    <3>1. /\ \E i \in floor[q] .. MaxItems : out[q] \subseteq {Default, i}
          /\ calm[q] => out[q] = IF floor[q] = Default THEN {} ELSE {floor[q]}
      BY <1>1, <1>2, <1>7, <2>1 DEF ReadShmCurrent
    <3>. QED
      BY <1>7, <3>1
  <2>2. pc'[r] = "down" /\ calm'[r] => f = 0
    BY <1>4, <1>6, <1>11, <1>12
  <2>3. f \in f .. MaxItems
    BY <1>5, BoundsAssumption DEF TypeInv, Types
  <2>. QED
    BY <1>2, <1>6, <2>1, <2>2, <2>3 DEF ReadShmCurrent
<1>. QED
  BY <1>8, <1>9, <1>13, <1>14

\* The call fails on a segment that is not filled yet, and copies the words
\* of one that is.
LEMMA FindHands ==
    ASSUME TypeInv, OneWriter, HandInv, NEW r \in Procs, Find(r)
    PROVE  Placed' /\ Contents' /\ Reading' /\ ReadShmCurrent'
<1>. USE DEF None, Default
<1>1. Placed /\ Contents /\ Reading /\ ReadShmCurrent
  BY DEF HandInv
<1>2. /\ pc[r] = "find"
      /\ UNCHANGED <<prog, name, made, value, seg, source, out, items, stored, floor>>
  BY DEF Find, posix, segments, told
<1>3. /\ prog[r] = "ReadShm" /\ NotBefore(seg[r], floor[r]) /\ floor[r] \in 0 .. items /\ out[r] = {}
      /\ calm[r] => floor[r] > 0 /\ Full(seg[r], floor[r])
  BY <1>1, <1>2 DEF Placed, Reading
<1>4. /\ \A q \in Procs \ {r} : pc'[q] = pc[q] /\ calm'[q] = calm[q] /\ todo'[q] = todo[q]
      /\ \/ /\ pc'[r] = "down" /\ (calm'[r] => calm[r])
            /\ \E w \in Words : value[seg[r]][w] = Blank
         \/ /\ pc'[r] = "load" /\ calm' = calm
            /\ \A w \in Words : value[seg[r]][w] # Blank
  <2>1. CASE \E w \in Words : value[seg[r]][w] = Blank
    BY <2>1 DEF Find, Returned, Goto, TypeInv, Types
  <2>2. CASE ~\E w \in Words : value[seg[r]][w] = Blank
    BY <2>2 DEF Find, Goto, TypeInv, Types, CopyTypes
  <2>. QED
    BY <2>1, <2>2
<1>5. (\E w \in Words : value[seg[r]][w] = Blank) => ~calm[r]
  BY <1>3 DEF Full, Blank
<1>6. Placed'
  BY <1>1, <1>2, <1>3, <1>4 DEF Placed, Empty
<1>7. Contents'
  BY <1>1, <1>2 DEF Contents, Empty, NotBefore, Full
<1>8. Reading'
  BY <1>1, <1>2, <1>3, <1>4 DEF Reading, NotBefore, Full
<1>9. ReadShmCurrent'
  <2>1. floor[r] \in floor[r] .. MaxItems
    BY <1>3, BoundsAssumption DEF TypeInv, Types
  <2>. QED
    BY <1>1, <1>2, <1>3, <1>4, <1>5, <2>1 DEF ReadShmCurrent
<1>. QED
  BY <1>6, <1>7, <1>8, <1>9

\* What it copies are words of T() or of the one item of the segment.
LEMMA LoadHands ==
    ASSUME TypeInv, OneWriter, HandInv, NEW r \in Procs, LoadWord(r)
    PROVE  Placed' /\ Contents' /\ Reading' /\ ReadShmCurrent'
<1>. USE DEF None, Default
<1>1. Placed /\ Contents /\ Reading /\ ReadShmCurrent
  BY DEF HandInv
<1>2. /\ pc[r] = "load"
      /\ UNCHANGED <<prog, name, made, value, seg, source, items, stored, floor>>
  BY DEF LoadWord, posix, segments, told
<1>3. PICK w \in todo[r] : /\ out' = [out EXCEPT ![r] = out[r] \cup {value[seg[r]][w]}]
                           /\ todo' = [todo EXCEPT ![r] = todo[r] \ {w}]
  BY DEF LoadWord
<1>4. /\ w \in Words /\ out'[r] = out[r] \cup {value[seg[r]][w]}
      /\ \A q \in Procs \ {r} : out'[q] = out[q] /\ todo'[q] = todo[q]
  BY <1>3 DEF TypeInv, CopyTypes
<1>5. seg[r] \in Segments
  BY <1>2, BoundsAssumption DEF TypeInv, Types, Opened, Segments
<1>6. /\ prog[r] = "ReadShm" /\ NotBefore(seg[r], floor[r]) /\ floor[r] \in 0 .. items
      /\ calm[r] => floor[r] > 0 /\ Full(seg[r], floor[r]) /\ out[r] \subseteq {floor[r]}
      /\ \A v \in Words : value[seg[r]][v] # Blank
      /\ \A x \in out[r] : x = 0 \/ \E v \in Words : value[seg[r]][v] = x
  BY <1>1, <1>2 DEF Placed, Reading
<1>7. /\ \A q \in Procs \ {r} : pc'[q] = pc[q] /\ calm'[q] = calm[q]
      /\ pc'[r] \in {"down", "load"} /\ (calm'[r] => calm[r])
      /\ pc'[r] = "load" => calm'[r] = calm[r]
  <2>1. CASE todo'[r] = {}
    BY <2>1 DEF LoadWord, Returned, Goto, TypeInv, Types
  <2>2. CASE todo'[r] # {}
    BY <1>2, <2>2 DEF LoadWord
  <2>. QED
    BY <2>1, <2>2
<1>8. /\ \A x \in out'[r] : x = 0 \/ \E v \in Words : value[seg[r]][v] = x
      /\ calm[r] => out'[r] = {floor[r]}
  BY <1>4, <1>6 DEF Full
<1>9. Placed'
  BY <1>1, <1>2, <1>4, <1>6, <1>7 DEF Placed, Empty
<1>10. Contents'
  BY <1>1, <1>2 DEF Contents, Empty, NotBefore, Full
<1>11. Reading'
  <2>1. ASSUME NEW q \in Procs \ {r}, prog'[q] = "ReadShm"
        PROVE  /\ floor'[q] \in 0 .. items'
               /\ pc'[q] \in {"find", "load"} =>
                    /\ NotBefore(seg[q], floor[q])'
                    /\ calm'[q] => floor'[q] > 0 /\ Full(seg[q], floor[q])'
               /\ pc'[q] = "find" => out'[q] = {}
               /\ pc'[q] = "load" =>
                    /\ \A v \in Words : value'[seg'[q]][v] # Blank
                    /\ \A x \in out'[q] : x = Default \/ \E v \in Words : value'[seg'[q]][v] = x
                    /\ calm'[q] => out'[q] \subseteq {floor'[q]}
    BY <1>1, <1>2, <1>4, <1>7, <2>1 DEF Reading, NotBefore, Full
  <2>. QED
    BY <1>2, <1>6, <1>7, <1>8, <2>1 DEF Reading, NotBefore, Full
<1>12. \E i \in floor[r] .. MaxItems : out'[r] \subseteq {0, i}
  <2>1. items \in Nat /\ items <= MaxItems /\ MaxItems \in Nat
    BY BoundsAssumption DEF TypeInv, Types
  <2>2. \A v \in Words : value[seg[r]][v] \in {0} \cup 1 .. items
    BY <1>1, <1>5, <1>6 DEF Contents
  <2>3. CASE \E v \in Words : value[seg[r]][v] > 0
    <3>1. PICK v \in Words : value[seg[r]][v] > 0
      BY <2>3
    <3>2. PICK i : i = value[seg[r]][v]
      OBVIOUS
    <3>3. i \in 1 .. items
      BY <2>1, <2>2, <3>1, <3>2
    <3>4. i \in floor[r] .. MaxItems
      BY <1>6, <2>1, <3>1, <3>2, <3>3 DEF NotBefore
    <3>5. \A u \in Words : value[seg[r]][u] \in {0, i}
      <4> TAKE u \in Words
      <4>1. CASE value[seg[r]][u] > 0
        BY <1>1, <1>5, <3>1, <3>2, <4>1 DEF Contents
      <4>2. CASE ~(value[seg[r]][u] > 0)
        BY <2>1, <2>2, <4>2
      <4>. QED
        BY <4>1, <4>2
    <3>. QED
      BY <1>8, <3>4, <3>5
  <2>4. CASE ~\E v \in Words : value[seg[r]][v] > 0
    <3>1. \A u \in Words : value[seg[r]][u] = 0
      BY <2>1, <2>2, <2>4
    <3>2. floor[r] \in floor[r] .. MaxItems
      BY <1>6, <2>1
    <3>. QED
      BY <1>8, <3>1, <3>2
  <2>. QED
    BY <2>3, <2>4
<1>13. ReadShmCurrent'
  <2>1. ASSUME NEW q \in Procs \ {r}, prog'[q] = "ReadShm" /\ pc'[q] = "down"
        PROVE  /\ \E i \in floor'[q] .. MaxItems : out'[q] \subseteq {Default, i}
               /\ calm'[q] => out'[q] = IF floor'[q] = Default THEN {} ELSE {floor'[q]}
    BY <1>1, <1>2, <1>4, <1>7, <2>1 DEF ReadShmCurrent
  <2>2. calm'[r] => floor[r] # 0 /\ out'[r] = {floor[r]}
    BY <1>6, <1>7, <1>8
  <2>. QED
    BY <1>2, <1>12, <2>1, <2>2 DEF ReadShmCurrent
<1>. QED
  BY <1>9, <1>10, <1>11, <1>13

LEMMA StopHands ==
    ASSUME TypeInv, OneWriter, HandInv, NEW p \in Procs, Stop(p)
    PROVE  Placed' /\ Contents' /\ Reading' /\ ReadShmCurrent'
<1>. USE DEF Default
<1>1. Placed /\ Contents /\ Reading /\ ReadShmCurrent
  BY DEF HandInv
<1>2. /\ pc' = [pc EXCEPT ![p] = "down"] /\ seg' = [seg EXCEPT ![p] = None]
      /\ calm' = [calm EXCEPT ![p] = FALSE] /\ out' = [out EXCEPT ![p] = {}]
      /\ source' = [source EXCEPT ![p] = 0] /\ todo' = [todo EXCEPT ![p] = {}]
      /\ UNCHANGED <<prog, name, made, value, items, stored, floor>>
  BY DEF Stop, Goto, posix, segments
<1>3. /\ pc'[p] = "down" /\ ~calm'[p] /\ out'[p] = {}
      /\ \A q \in Procs \ {p} : /\ pc'[q] = pc[q] /\ seg'[q] = seg[q] /\ calm'[q] = calm[q]
                                /\ out'[q] = out[q] /\ source'[q] = source[q] /\ todo'[q] = todo[q]
  BY <1>2 DEF TypeInv, Types, CopyTypes
<1>4. Placed'
  BY <1>1, <1>2, <1>3 DEF Placed, Empty
<1>5. Contents'
  BY <1>1, <1>2 DEF Contents, Empty, NotBefore, Full
<1>6. Reading'
  BY <1>1, <1>2, <1>3 DEF Reading, NotBefore, Full
<1>7. ReadShmCurrent'
  <2>1. prog[p] = "ReadShm" => floor[p] \in floor[p] .. MaxItems
    BY <1>1, BoundsAssumption DEF Reading, TypeInv, Types
  <2>. QED
    BY <1>1, <1>2, <1>3, <2>1 DEF ReadShmCurrent
<1>. QED
  BY <1>4, <1>5, <1>6, <1>7

LEMMA NextHands ==
    ASSUME TypeInv, HandInv, [Next]_vars
    PROVE  HandInv'
<1> SUFFICES ASSUME OneWriter'
             PROVE  Placed' /\ Contents' /\ Reading' /\ ReadShmCurrent'
  BY DEF HandInv
<1>1. OneWriter
  <2>1. prog' = prog
    BY SameProgram
  <2>. QED
    BY <2>1 DEF OneWriter
<1>2. Placed /\ Contents /\ Reading /\ ReadShmCurrent
  BY <1>1 DEF HandInv
<1>3. CASE UNCHANGED vars
  <2>1. UNCHANGED <<prog, name, made, value, pc, seg, source, todo, out, items, stored, floor, calm>>
    BY <1>3 DEF vars, history, told, reading, posix, segments, copy
  <2>2. Placed'
    BY <1>2, <2>1 DEF Placed, Empty
  <2>3. Contents'
    BY <1>2, <2>1 DEF Contents, Empty, NotBefore, Full
  <2>4. Reading'
    BY <1>2, <2>1 DEF Reading, NotBefore, Full
  <2>5. ReadShmCurrent'
    BY <1>2, <2>1 DEF ReadShmCurrent
  <2>. QED
    BY <2>2, <2>3, <2>4, <2>5
<1>4. ASSUME NEW p \in Procs,
             \/ WriteShm(p) \/ Remove(p) \/ Create(p) \/ Truncate(p) \/ Construct(p)
             \/ StoreWord(p) \/ ReadShm(p) \/ Find(p) \/ LoadWord(p) \/ Stop(p)
      PROVE  Placed' /\ Contents' /\ Reading' /\ ReadShmCurrent'
  BY <1>1, <1>4, WriteHands, MoveHands, ConstructHands, StoreHands, ReadHands, FindHands, LoadHands, StopHands
<1>5. ASSUME NEW p \in Procs,
             \/ Open(p) \/ Map(p) \/ Check(p) \/ ResetHeader(p) \/ ResetWritePos(p) \/ ResetReadPos(p)
             \/ ResetConfirmedPos(p) \/ ResetNextSeq(p) \/ Memset(p)
             \/ Append(p) \/ ReadNext(p) \/ Confirm(p) \/ Write(p) \/ Reset(p) \/ Retry(p)
      PROVE  FALSE
  <2>1. prog[p] \in {"WriteShm", "ReadShm"}
    BY <1>1 DEF OneWriter
  <2>2. pc[p] \in {"map", "check", "resetHeader"} \cup RingSteps
    BY <1>5, <2>1 DEF Open, Map, Check, ResetHeader, ResetWritePos, ResetReadPos, ResetConfirmedPos,
                      ResetNextSeq, Memset, Append, ReadNext, Confirm, Write, Reset, Retry, RingSteps
  <2>. QED
    BY <1>2, <2>2 DEF Placed, RingSteps
<1>. QED
  BY <1>3, <1>4, <1>5 DEF Next

\* What ReadShm returns holds words of T() and of one item that is not older
\* than the last one completely written when it was called, and of just that
\* item when no WriteShm overlaps it (zrt_shm.h).
THEOREM ReadShmCurrentHolds == Spec => []ReadShmCurrent
<1>1. Init => HandInv
  BY InitHand
<1>2. TypeInv /\ HandInv /\ [Next]_vars => HandInv'
  BY NextHands
<1>3. TypeInv /\ HandInv => ReadShmCurrent
  <2>1. TypeInv => OneWriter \/ \A p \in Procs : Shares(p)
    BY ProgramsAssumption DEF TypeInv, Types, OneWriter, Shares
  <2>. QED
    BY <2>1 DEF HandInv, ReadShmCurrent, Shares
<1>. QED
  BY <1>1, <1>2, <1>3, TypesHold, PTL DEF Spec

=============================================================================
