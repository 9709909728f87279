-------------------------- MODULE UniqueKeyProofs --------------------------
(***************************************************************************)
(* Proofs about the classes that make and that keep unique keys.           *)
(* Snowflake: for every number of threads, every width of the bit fields,  *)
(* every setting of the drift thresholds and every clock.  Bmic: for any   *)
(* nodes, values, members of the two indexes and Epsilon.                  *)
(***************************************************************************)
EXTENDS Snowflake, Bmic, SequenceTheorems, FiniteSetTheorems,
        WellFoundedInduction, TLAPS

----------------------------------------------------------------------------
(* Arithmetic of bit fields *)

\* A product grows by at least its second factor with its first factor.
LEMMA ProductGrows ==
    ASSUME NEW x \in Int, NEW y \in Int, NEW k \in Nat, x < y
    PROVE  x * k + k <= y * k
<1> DEFINE d == y - x - 1
<1>1. d \in Nat
  OBVIOUS
<1>2. y * k = (x + 1 + d) * k
  BY <1>1
<1>3. (x + 1 + d) * k = x * k + k + d * k
  BY <1>1
<1>4. d * k \in Nat
  BY <1>1
<1>. QED
  BY <1>2, <1>3, <1>4

\* Quotient and remainder are unique.
LEMMA DivModUnique ==
    ASSUME NEW d \in Nat \ {0}, NEW q \in Nat, NEW r \in 0 .. d - 1
    PROVE  /\ (q * d + r) \div d = q
           /\ (q * d + r) % d = r
<1> DEFINE n == q * d + r
           p == n \div d
           m == n % d
<1>1. n \in Nat
  OBVIOUS
<1>2. /\ p \in Nat /\ m \in 0 .. d - 1
      /\ n = p * d + m
  BY <1>1
<1> HIDE DEF p, m
<1>3. ~(p < q)
  BY <1>2, ProductGrows
<1>4. ~(q < p)
  BY <1>2, ProductGrows
<1>5. p = q /\ m = r
  BY <1>2, <1>3, <1>4
<1>. QED
  BY <1>5 DEF p, m

\* The two fields of a state make it up, and the second is below SeqSize.
LEMMA PackFields ==
    ASSUME NEW s \in Nat
    PROVE  /\ LastTimestamp(s) \in Nat
           /\ LastSequence(s) \in 0 .. SeqSize - 1
           /\ s = Pack(LastTimestamp(s), LastSequence(s))
BY ConstantsAssumption DEF LastTimestamp, LastSequence, Pack

\* The next sequence number of a millisecond is the next state.
LEMMA PackNext ==
    ASSUME NEW s \in Nat, LastSequence(s) + 1 < SeqSize
    PROVE  Pack(LastTimestamp(s), LastSequence(s) + 1) = s + 1
<1>1. LastTimestamp(s) * SeqSize \in Int
  BY PackFields, ConstantsAssumption
<1>. QED
  BY <1>1, PackFields, ConstantsAssumption DEF Pack

\* Every state of a later millisecond is larger.
LEMMA PackLater ==
    ASSUME NEW s \in Nat, NEW ts \in Nat, LastTimestamp(s) < ts
    PROVE  Pack(ts, 0) \in Nat /\ s < Pack(ts, 0)
<1>1. LastTimestamp(s) * SeqSize + SeqSize <= ts * SeqSize
  BY PackFields, ProductGrows, ConstantsAssumption
<1>. QED
  BY <1>1, PackFields, ConstantsAssumption DEF Pack

\* Larger states give larger ids.
LEMMA IdOfIncreases ==
    ASSUME NEW a \in Nat, NEW b \in Nat, a < b
    PROVE  IdOf(a) < IdOf(b)
<1> DEFINE ta == LastTimestamp(a)
           tb == LastTimestamp(b)
           W == ServerSize * SeqSize
<1>1. /\ ta \in Nat /\ LastSequence(a) \in 0 .. SeqSize - 1
      /\ tb \in Nat /\ LastSequence(b) \in 0 .. SeqSize - 1
      /\ a = ta * SeqSize + LastSequence(a)
      /\ b = tb * SeqSize + LastSequence(b)
  BY PackFields DEF Pack
<1>2. W \in Nat /\ SeqSize <= W
  <2>1. 0 * SeqSize + SeqSize <= ServerSize * SeqSize
    BY ProductGrows, ConstantsAssumption
  <2>. QED
    BY <2>1, ConstantsAssumption
<1>3. /\ IdOf(a) = (ta - Epoch) * W + ServerId * SeqSize + LastSequence(a)
      /\ IdOf(b) = (tb - Epoch) * W + ServerId * SeqSize + LastSequence(b)
  BY DEF IdOf
<1>4. ServerId * SeqSize \in Nat
  BY ConstantsAssumption
<1> HIDE DEF ta, tb, W
<1>5. ~(tb < ta)
  BY <1>1, ProductGrows, ConstantsAssumption
<1>6. CASE ta = tb
  <2> DEFINE base == (tb - Epoch) * W + ServerId * SeqSize
  <2>1. base \in Int
    BY <1>1, <1>2, <1>4, ConstantsAssumption
  <2>2. /\ IdOf(a) = base + LastSequence(a)
        /\ IdOf(b) = base + LastSequence(b)
    BY <1>3, <1>6
  <2>3. LastSequence(a) < LastSequence(b)
    <3>1. tb * SeqSize \in Int
      BY <1>1, ConstantsAssumption
    <3>2. a = tb * SeqSize + LastSequence(a)
      BY <1>1, <1>6
    <3>. QED
      BY <1>1, <3>1, <3>2
  <2> HIDE DEF base
  <2>. QED
    BY <1>1, <2>1, <2>2, <2>3
<1>7. CASE ta < tb
  <2>1. (ta - Epoch) * W + W <= (tb - Epoch) * W
    BY <1>1, <1>2, <1>7, ProductGrows, ConstantsAssumption
  <2>2. (ta - Epoch) * W \in Int /\ (tb - Epoch) * W \in Int
    BY <1>1, <1>2, ConstantsAssumption
  <2>. QED
    BY <1>1, <1>2, <1>3, <1>4, <2>1, <2>2, ConstantsAssumption
<1>. QED
  BY <1>1, <1>5, <1>6, <1>7

\* parseId inverts the composition of an id.
LEMMA ParseIdOf ==
    ASSUME NEW s \in Nat, LastTimestamp(s) >= Epoch
    PROVE  ParseId(IdOf(s)) = [timestamp_ms |-> LastTimestamp(s),
                               server_id |-> ServerId,
                               sequence |-> LastSequence(s)]
<1> DEFINE ts == LastTimestamp(s) - Epoch
           sq == LastSequence(s)
           W == ServerSize * SeqSize
           low == ServerId * SeqSize + sq
           high == ts * ServerSize + ServerId
<1>1. ts \in Nat /\ sq \in 0 .. SeqSize - 1
  BY PackFields, ConstantsAssumption
<1>2. W \in Nat \ {0} /\ low \in 0 .. W - 1
  <2>1. ServerId * SeqSize \in Nat /\ W \in Nat
    BY ConstantsAssumption
  <2>2. ServerId * SeqSize + SeqSize <= ServerSize * SeqSize
    BY ProductGrows, ConstantsAssumption
  <2>. QED
    BY <1>1, <2>1, <2>2, ConstantsAssumption
<1>3. IdOf(s) = ts * W + low
  BY <1>1, <1>2, ConstantsAssumption DEF IdOf
<1>4. high \in Nat
  BY <1>1, ConstantsAssumption
<1>5. ts * W + low = high * SeqSize + sq
  BY <1>1, ConstantsAssumption
<1>6. IdOf(s) \div W = ts
  <2> HIDE DEF W, low, ts
  <2>. QED
    BY <1>1, <1>2, <1>3, DivModUnique
<1>7. IdOf(s) \div SeqSize = high /\ IdOf(s) % SeqSize = sq
  <2>1. IdOf(s) = high * SeqSize + sq
    BY <1>3, <1>5
  <2> HIDE DEF high, sq
  <2>. QED
    BY <1>1, <1>4, <2>1, DivModUnique, ConstantsAssumption
<1>8. high % ServerSize = ServerId
  <2> HIDE DEF ts
  <2>. QED
    BY <1>1, DivModUnique, ConstantsAssumption
<1>9. ts + Epoch = LastTimestamp(s)
  BY PackFields, ConstantsAssumption
<1>. QED
  BY <1>6, <1>7, <1>8, <1>9 DEF ParseId

----------------------------------------------------------------------------
(* The inductive invariant *)

\* The states behind the returned ids increase, and state_ has reached the
\* last of them.
IssuedIncrease ==
    /\ \A i \in 1 .. Len(issued) : issued[i] <= state
    /\ \A i, j \in 1 .. Len(issued) : i < j => issued[i] < issued[j]

\* A thread about to compare and exchange would move state_ forward from the
\* value it loaded; one that waits waits for the millisecond of that value
\* to pass.
ChosenForward ==
    \A t \in Threads :
        /\ pc[t] = "cas" => old[t] < new[t]
        /\ pc[t] = "wait" => new[t] = LastTimestamp(old[t])

IInv == TypeOK /\ IssuedIncrease /\ ChosenForward

\* What Decide stores is typed and lies ahead of the state it was chosen from.
LEMMA DecideForward ==
    ASSUME TypeOK, NEW t \in Threads, NEW ts \in Nat,
           ts >= LastTimestamp(state), Decide(t, ts)
    PROVE  \E n \in Nat :
               /\ new' = [new EXCEPT ![t] = n]
               /\ \/ /\ pc' = [pc EXCEPT ![t] = "cas"]
                     /\ state < n
                  \/ /\ pc' = [pc EXCEPT ![t] = "wait"]
                     /\ n = LastTimestamp(state)
<1>1. state \in Nat
  BY DEF TypeOK
<1>2. CASE /\ ts = LastTimestamp(state)
           /\ LastSequence(state) + 1 < SeqSize
           /\ new' = [new EXCEPT ![t] = Pack(ts, LastSequence(state) + 1)]
           /\ pc' = [pc EXCEPT ![t] = "cas"]
  <2>1. Pack(ts, LastSequence(state) + 1) = state + 1
    BY <1>1, <1>2, PackNext
  <2>2. state + 1 \in Nat /\ state < state + 1
    BY <1>1
  <2>3. new' = [new EXCEPT ![t] = state + 1]
    BY <1>2, <2>1
  <2>. QED
    BY <1>2, <2>2, <2>3
<1>3. CASE /\ ts = LastTimestamp(state)
           /\ new' = [new EXCEPT ![t] = ts]
           /\ pc' = [pc EXCEPT ![t] = "wait"]
  BY <1>3
<1>4. CASE /\ ts # LastTimestamp(state)
           /\ new' = [new EXCEPT ![t] = Pack(ts, 0)]
           /\ pc' = [pc EXCEPT ![t] = "cas"]
  <2>1. LastTimestamp(state) < ts
    BY <1>1, <1>4, PackFields
  <2>2. Pack(ts, 0) \in Nat /\ state < Pack(ts, 0)
    BY <1>1, <2>1, PackLater
  <2>. QED
    BY <1>4, <2>2
<1>. QED
  BY <1>2, <1>3, <1>4 DEF Decide

\* IInv holds initially.
LEMMA InitIInv == Init => IInv
BY ConstantsAssumption DEF Init, IInv, TypeOK, IssuedIncrease, ChosenForward

\* No step of a thread or of the clock breaks IInv.
LEMMA NextIInv == IInv /\ [Next]_vars => IInv'
<1> SUFFICES ASSUME IInv, [Next]_vars
             PROVE  IInv'
  OBVIOUS
<1> USE DEF IInv
<1>1. CASE Tick
  BY <1>1 DEF Tick, TypeOK, IssuedIncrease, ChosenForward
<1>2. CASE ClockBack
  BY <1>2 DEF ClockBack, TypeOK, IssuedIncrease, ChosenForward
<1>3. ASSUME NEW t \in Threads, NextId(t)
      PROVE  IInv'
  BY <1>3 DEF NextId, TypeOK, IssuedIncrease, ChosenForward
<1>4. ASSUME NEW t \in Threads, ReadClock(t)
      PROVE  IInv'
  BY <1>4 DEF ReadClock, TypeOK, IssuedIncrease, ChosenForward
<1>5. ASSUME NEW t \in Threads, LoadState(t)
      PROVE  IInv'
  <2>1. /\ old' = [old EXCEPT ![t] = state]
        /\ UNCHANGED <<clock, state, now, calls, issued, backs>>
    BY <1>5 DEF LoadState
  <2>2. CASE \/ new' = new /\ pc' = [pc EXCEPT ![t] = "clock"]
             \/ new' = new /\ pc' = [pc EXCEPT ![t] = "clockError"]
    BY <2>1, <2>2 DEF TypeOK, IssuedIncrease, ChosenForward
  <2>3. ASSUME NEW ts \in Nat, ts >= LastTimestamp(state), Decide(t, ts)
        PROVE  IInv'
    <3>1. PICK n \in Nat :
               /\ new' = [new EXCEPT ![t] = n]
               /\ \/ /\ pc' = [pc EXCEPT ![t] = "cas"]
                     /\ state < n
                  \/ /\ pc' = [pc EXCEPT ![t] = "wait"]
                     /\ n = LastTimestamp(state)
      BY <2>3, DecideForward
    <3>2. TypeOK'
      BY <2>1, <3>1 DEF TypeOK
    <3>3. IssuedIncrease'
      BY <2>1 DEF IssuedIncrease
    <3>4. ChosenForward'
      BY <2>1, <3>1 DEF TypeOK, ChosenForward
    <3>. QED
      BY <3>2, <3>3, <3>4
  <2>4. now[t] \in Nat /\ LastTimestamp(state) \in Nat
    BY PackFields DEF TypeOK
  <2>. QED
    BY <1>5, <2>2, <2>3, <2>4 DEF LoadState
<1>6. ASSUME NEW t \in Threads, WaitNextMillis(t)
      PROVE  IInv'
  <2>1. Pack(clock, 0) \in Nat /\ old[t] < Pack(clock, 0)
    BY <1>6, PackLater DEF WaitNextMillis, TypeOK, ChosenForward
  <2>2. TypeOK'
    BY <1>6, <2>1 DEF WaitNextMillis, TypeOK
  <2>3. IssuedIncrease'
    BY <1>6 DEF WaitNextMillis, IssuedIncrease
  <2>4. ChosenForward'
    BY <1>6, <2>1 DEF WaitNextMillis, TypeOK, ChosenForward
  <2>. QED
    BY <2>2, <2>3, <2>4
<1>7. ASSUME NEW t \in Threads, CasSucceeds(t)
      PROVE  IInv'
  <2>1. /\ state < new[t]
        /\ state' = new[t]
        /\ UNCHANGED <<clock, now, old, new, calls, backs>>
    BY <1>7 DEF CasSucceeds, ChosenForward
  <2>2. CASE /\ TimeDiffFits(LastTimestamp(new[t]))
             /\ issued' = Append(issued, new[t])
             /\ pc' = [pc EXCEPT ![t] = "idle"]
    <3>1. TypeOK'
      BY <2>1, <2>2 DEF TypeOK
    <3>2. IssuedIncrease'
      <4>1. /\ Len(issued') = Len(issued) + 1
            /\ issued'[Len(issued) + 1] = new[t]
            /\ \A i \in 1 .. Len(issued) : issued'[i] = issued[i]
            /\ Len(issued) \in Nat
        BY <2>2 DEF TypeOK
      <4>2. \A i \in 1 .. Len(issued) : issued[i] < new[t]
        BY <2>1 DEF TypeOK, IssuedIncrease
      <4>3. ASSUME NEW i \in 1 .. Len(issued')
            PROVE  issued'[i] <= state'
        <5>1. new[t] \in Nat
          BY DEF TypeOK
        <5>2. CASE i = Len(issued) + 1
          BY <2>1, <4>1, <5>1, <5>2
        <5>3. CASE i \in 1 .. Len(issued)
          <6>1. issued[i] \in Nat
            BY <5>3 DEF TypeOK
          <6>. QED
            BY <2>1, <4>1, <4>2, <5>1, <5>3, <6>1
        <5>. QED
          BY <4>1, <5>2, <5>3
      <4>4. ASSUME NEW i \in 1 .. Len(issued'), NEW j \in 1 .. Len(issued'),
                   i < j
            PROVE  issued'[i] < issued'[j]
        BY <4>1, <4>2, <4>4 DEF IssuedIncrease
      <4>. QED
        BY <4>3, <4>4 DEF IssuedIncrease
    <3>3. ChosenForward'
      BY <2>1, <2>2 DEF TypeOK, ChosenForward
    <3>. QED
      BY <3>1, <3>2, <3>3
  <2>3. CASE issued' = issued /\ pc' = [pc EXCEPT ![t] = "overflow"]
    BY <2>1, <2>3 DEF TypeOK, IssuedIncrease, ChosenForward
  <2>. QED
    BY <1>7, <2>2, <2>3 DEF CasSucceeds
<1>8. ASSUME NEW t \in Threads, CasFails(t)
      PROVE  IInv'
  BY <1>8 DEF CasFails, TypeOK, IssuedIncrease, ChosenForward
<1>9. ASSUME NEW t \in Threads, Catch(t)
      PROVE  IInv'
  BY <1>9 DEF Catch, TypeOK, IssuedIncrease, ChosenForward
<1>10. CASE UNCHANGED vars
  BY <1>10 DEF vars, TypeOK, IssuedIncrease, ChosenForward
<1>. QED
  BY <1>1, <1>2, <1>3, <1>4, <1>5, <1>6, <1>7, <1>8, <1>9, <1>10
     DEF Next, ThreadStep

\* IInv holds in every state the program reaches.
LEMMA AlwaysIInv == Spec => []IInv
BY InitIInv, NextIInv, PTL DEF Spec

----------------------------------------------------------------------------
(* The theorems *)

\* Every variable keeps its values, and state_ behind every id carries a
\* timestamp that fits the id's field: the check of the overflow comes
\* before the id leaves nextId.
THEOREM TypeCorrect == Spec => []TypeOK
BY AlwaysIInv, PTL DEF IInv

\* Ids increase strictly, so they are unique, for every number of threads
\* and whatever the clock does.
THEOREM IdsAlwaysIncrease == Spec => []IdsIncrease
<1>1. IInv => IdsIncrease
  <2> SUFFICES ASSUME IInv,
                      NEW i \in 1 .. Len(issued), NEW j \in 1 .. Len(issued),
                      i < j
               PROVE  IdOf(issued[i]) < IdOf(issued[j])
    BY DEF IdsIncrease
  <2>1. issued[i] < issued[j]
    BY DEF IInv, IssuedIncrease
  <2>2. issued[i] \in Nat /\ issued[j] \in Nat
    BY DEF IInv, TypeOK
  <2>. QED
    BY <2>1, <2>2, IdOfIncreases
<1>. QED
  BY <1>1, AlwaysIInv, PTL

\* parseId recovers the timestamp, the server and the sequence number of
\* every id returned, for every width of the fields.
THEOREM ParseAlwaysInverts == Spec => []ParseInverts
<1>1. TypeOK => ParseInverts
  <2> SUFFICES ASSUME TypeOK, NEW i \in 1 .. Len(issued)
               PROVE  ParseId(IdOf(issued[i])) =
                          [timestamp_ms |-> LastTimestamp(issued[i]),
                           server_id |-> ServerId,
                           sequence |-> LastSequence(issued[i])]
    BY DEF ParseInverts
  <2>1. issued[i] \in Nat /\ LastTimestamp(issued[i]) >= Epoch
    BY DEF TypeOK, TimeDiffFits
  <2>. QED
    BY <2>1, ParseIdOf
<1>. QED
  BY <1>1, TypeCorrect, PTL

\* state_ never moves back: a compare_exchange that follows a long wait, a
\* drift or a backward step of the clock stores a larger value than the one
\* it replaces.
THEOREM StateNeverBack == Spec => [][state' >= state]_vars
<1>1. IInv /\ [Next]_vars => [state' >= state]_vars
  <2> SUFFICES ASSUME IInv, Next
               PROVE  state' >= state
    OBVIOUS
  <2>1. state \in Nat
    BY DEF IInv, TypeOK
  <2>2. ASSUME NEW t \in Threads, CasSucceeds(t)
        PROVE  state' >= state
    BY <2>1, <2>2 DEF CasSucceeds, IInv, TypeOK, ChosenForward
  <2>3. CASE UNCHANGED state
    BY <2>1, <2>3
  <2>. QED
    BY <2>2, <2>3 DEF Next, ThreadStep, Tick, ClockBack, NextId, ReadClock,
                      LoadState, WaitNextMillis, CasFails, Catch
<1>. QED
  BY <1>1, AlwaysIInv, PTL DEF Spec

----------------------------------------------------------------------------
(* Bmic: the order and the keys *)

\* Values as the index macros see them.
V == [sym : Int, px : Int, ts : Int]
\* The hashes of the keys, by member.
Hashes == [HashedMembers -> BOOLEAN]

\* What UpdateRange's function makes of a value: all but ts stays, and so, without
\* ts in the unique key, does the key.
LEMMA RetimedIs ==
    ASSUME NEW v \in V, NEW t \in Int
    PROVE  /\ Retimed(v, t) \in V /\ Retimed(v, t).ts = t
           /\ Retimed(v, t).sym = v.sym /\ Retimed(v, t).px = v.px
           /\ v.ts = t => Retimed(v, t) = v
           /\ \A u \in Int : Retimed(Retimed(v, t), u) = Retimed(v, u)
           /\ "ts" \notin HashedMembers => KeyEqual(Retimed(v, t), v)
<1>. USE DEF V, Retimed
<1>1. Retimed(v, t) \in V /\ Retimed(v, t).ts = t
  OBVIOUS
<1>2. Retimed(v, t).sym = v.sym /\ Retimed(v, t).px = v.px
  OBVIOUS
<1>3. v.ts = t => Retimed(v, t) = v
  OBVIOUS
<1>4. \A u \in Int : Retimed(Retimed(v, t), u) = Retimed(v, u)
  OBVIOUS
<1>5. ASSUME "ts" \notin HashedMembers, NEW m \in HashedMembers
      PROVE  MyEqual(m, Retimed(v, t)[m], v[m])
  <2>1. m = "sym" \/ m = "px"
    BY <1>5, BmicAssumption
  <2>2. CASE m = "sym"
    BY <1>2, <2>2 DEF MyEqual
  <2>3. CASE m = "px"
    BY <1>2, <2>3 DEF MyEqual, Equal
  <2>. QED
    BY <2>1, <2>2, <2>3
<1>. QED
  BY <1>1, <1>2, <1>3, <1>4, <1>5 DEF KeyEqual

\* What Less says, for both forms of the ordered index.
LEMMA LessIs ==
    \/ \A v, w \in V : Less(v, w) <=> v.ts < w.ts
    \/ \A v, w \in V : Less(v, w) <=> v.ts < w.ts \/ (v.ts = w.ts /\ v.sym < w.sym)
<1>1. CASE OrderedMembers = <<"ts">>
  <2>1. DOMAIN OrderedMembers = 1 .. 1 /\ OrderedMembers[1] = "ts"
    BY <1>1
  <2>2. ASSUME NEW v \in V, NEW w \in V
        PROVE  Less(v, w) <=> v.ts < w.ts
    BY <2>1 DEF Less, MyLess, V
  <2>. QED
    BY <2>2
<1>2. CASE OrderedMembers = <<"ts", "sym">>
  <2>1. DOMAIN OrderedMembers = 1 .. 2 /\ OrderedMembers[1] = "ts" /\ OrderedMembers[2] = "sym"
    BY <1>2
  <2>2. ASSUME NEW v \in V, NEW w \in V
        PROVE  Less(v, w) <=> v.ts < w.ts \/ (v.ts = w.ts /\ v.sym < w.sym)
    <3>1. v.ts \in Int /\ w.ts \in Int /\ v.sym \in Int /\ w.sym \in Int
      BY DEF V
    <3>2. v["ts"] = v.ts /\ w["ts"] = w.ts /\ v["sym"] = v.sym /\ w["sym"] = w.sym
      OBVIOUS
    <3>3. Less(v, w) <=>
             \E i \in 1 .. 2 :
                /\ v[OrderedMembers[i]] < w[OrderedMembers[i]]
                /\ \A j \in 1 .. i - 1 : ~(w[OrderedMembers[j]] < v[OrderedMembers[j]])
      BY <2>1 DEF Less, MyLess
    <3>. QED
      BY <2>1, <3>1, <3>2, <3>3
  <2>. QED
    BY <2>2
<1>. QED
  BY <1>1, <1>2, BmicAssumption

\* A strict weak order that ts decides first.
LEMMA LessOrder ==
    /\ \A v \in V : ~Less(v, v)
    /\ \A v, w \in V : Less(v, w) => ~Less(w, v) /\ v.ts <= w.ts
    /\ \A v, w \in V : v.ts < w.ts => Less(v, w)
    /\ \A u, v, w \in V : Less(u, v) /\ Less(v, w) => Less(u, w)
    /\ \A u, v, w \in V : ~Less(u, v) /\ ~Less(v, w) => ~Less(u, w)
<1>1. \A v \in V : v.ts \in Int /\ v.sym \in Int
  BY DEF V
<1>2. CASE \A v, w \in V : Less(v, w) <=> v.ts < w.ts
  BY <1>1, <1>2
<1>3. CASE \A v, w \in V : Less(v, w) <=> v.ts < w.ts \/ (v.ts = w.ts /\ v.sym < w.sym)
  <2>1. \A u, v, w \in V : Less(u, v) /\ Less(v, w) => Less(u, w)
    BY <1>1, <1>3
  <2>2. \A u, v, w \in V : ~Less(u, v) /\ ~Less(v, w) => ~Less(u, w)
    BY <1>1, <1>3
  <2>3. \A v, w \in V : Less(v, w) => ~Less(w, v) /\ v.ts <= w.ts
    BY <1>1, <1>3
  <2>4. /\ \A v \in V : ~Less(v, v)
        /\ \A v, w \in V : v.ts < w.ts => Less(v, w)
    BY <1>1, <1>3
  <2>. QED
    BY <2>1, <2>2, <2>3, <2>4
<1>. QED
  BY <1>2, <1>3, LessIs

\* Keys: taken for equal is reflexive, and equal prices make equal keys equal.
LEMMA KeyFacts ==
    /\ \A v \in V : KeyHash(v) \in Hashes /\ KeyEqual(v, v)
    /\ \A v, w \in V :
          KeyEqual(v, w) /\ v.px = w.px =>
              /\ KeyHash(v) = KeyHash(w)
              /\ \A u \in V : /\ KeyEqual(u, v) <=> KeyEqual(u, w)
                              /\ KeyEqual(v, u) <=> KeyEqual(w, u)
    /\ \A v, w \in V : KeyEqual(v, w) => KeyEqual(w, v)
<1>0. \A v \in V : v.sym \in Int /\ v.px \in Int /\ v.ts \in Int
  BY DEF V
<1>m. ASSUME NEW v \in V, NEW w \in V, KeyEqual(v, w), v.px = w.px
      PROVE  \A m \in HashedMembers : v[m] = w[m]
  <2> SUFFICES ASSUME NEW m \in HashedMembers
               PROVE  v[m] = w[m]
    OBVIOUS
  <2>1. MyEqual(m, v[m], w[m])
    BY <1>m DEF KeyEqual
  <2>2. CASE m = "px"
    BY <1>m, <2>2
  <2>3. CASE m # "px"
    BY <2>1, <2>3 DEF MyEqual
  <2>. QED
    BY <2>2, <2>3
<1>1. ASSUME NEW v \in V
      PROVE  KeyHash(v) \in Hashes /\ KeyEqual(v, v)
  BY DEF KeyHash, MyHash, Hashes, KeyEqual, MyEqual, Equal
<1>2. ASSUME NEW v \in V, NEW w \in V, KeyEqual(v, w), v.px = w.px
      PROVE  /\ KeyHash(v) = KeyHash(w)
             /\ \A u \in V : /\ KeyEqual(u, v) <=> KeyEqual(u, w)
                             /\ KeyEqual(v, u) <=> KeyEqual(w, u)
  <2>1. \A m \in HashedMembers : v[m] = w[m]
    BY <1>2, <1>m
  <2>2. KeyHash(v) = KeyHash(w)
    BY <2>1 DEF KeyHash
  <2>3. ASSUME NEW u \in V
        PROVE  /\ KeyEqual(u, v) <=> KeyEqual(u, w)
               /\ KeyEqual(v, u) <=> KeyEqual(w, u)
    BY <2>1 DEF KeyEqual
  <2>. QED
    BY <2>2, <2>3
<1>3. ASSUME NEW v \in V, NEW w \in V, KeyEqual(v, w)
      PROVE  KeyEqual(w, v)
  <2> SUFFICES ASSUME NEW m \in HashedMembers
               PROVE  MyEqual(m, w[m], v[m])
    BY DEF KeyEqual
  <2>1. MyEqual(m, v[m], w[m])
    BY <1>3 DEF KeyEqual
  <2>2. CASE m = "px"
    <3>1. Equal(v.px, w.px)
      BY <2>1, <2>2 DEF MyEqual
    <3>2. Equal(w.px, v.px)
      BY <1>0, <3>1, BmicAssumption DEF Equal, Abs
    <3>. QED
      BY <2>2, <3>2 DEF MyEqual
  <2>3. CASE m # "px"
    BY <2>1, <2>3 DEF MyEqual
  <2>. QED
    BY <2>2, <2>3
<1>. QED
  BY <1>1, <1>2, <1>3

----------------------------------------------------------------------------
(* Bmic: sequences of nodes *)

\* Induction over the natural numbers, stated of a set.
LEMMA NatSetInduction ==
    ASSUME NEW T, 0 \in T, \A n \in Nat : n \in T => n + 1 \in T
    PROVE  \A n \in Nat : n \in T
<1> DEFINE U == Nat \ T
           R == OpToRel(<, Nat)
<1>. SUFFICES ASSUME U # {} PROVE FALSE
  OBVIOUS
<1>1. IsWellFoundedOn(R, Nat)
  BY NatLessThanWellFounded
<1>2. \A x \in U : x # 0 /\ x - 1 \in Nat
  BY SMT
<1>3. \A x \in Nat : x # 0 => <<x - 1, x>> \in R
  BY DEF OpToRel
<1>4. U \subseteq Nat
  OBVIOUS
<1>5. \A x \in U : x - 1 \in U
  BY <1>2
<1> HIDE DEF U, R
<1>6. PICK x \in U : \A y \in U : <<y, x>> \notin R
  BY <1>1, <1>4, WFMin
<1>. QED
  BY <1>2, <1>3, <1>4, <1>5, <1>6

\* A set of places that is not empty has a first one.
LEMMA FirstPlace ==
    ASSUME NEW S, S \subseteq Nat, NEW s \in S
    PROVE  \E i \in S : \A j \in S : i <= j
<1> DEFINE T == {n \in Nat : \A i \in S : n <= i}
<1>. SUFFICES ASSUME \A i \in S : \E j \in S : ~(i <= j)
              PROVE  FALSE
  OBVIOUS
<1>1. 0 \in T
  OBVIOUS
<1>2. ASSUME NEW n \in Nat, n \in T
      PROVE  n + 1 \in T
  <2>1. \A i \in S : n <= i /\ i \in Nat
    BY <1>2
  <2>2. n \notin S
    BY <2>1
  <2>. QED
    BY <2>1, <2>2
<1>. HIDE DEF T
<1>3. s + 1 \in T
  BY <1>1, <1>2, NatSetInduction
<1>. QED
  BY <1>3 DEF T

\* First returns the first of the places, and the end when there is none.
LEMMA FirstIs ==
    ASSUME NEW o \in Seq(Nodes), NEW S \in SUBSET (1 .. Len(o))
    PROVE  /\ First(S, o) \in 1 .. Len(o) + 1
           /\ \A i \in S : First(S, o) <= i
           /\ First(S, o) <= Len(o) => First(S, o) \in S
<1>1. CASE S = {}
  BY <1>1 DEF First
<1>2. CASE S # {}
  <2>1. PICK s \in S : TRUE
    BY <1>2
  <2>2. S \subseteq Nat
    OBVIOUS
  <2>3. \E i \in S : \A j \in S : i <= j
    BY <2>1, <2>2, FirstPlace
  <2>4. First(S, o) = CHOOSE i \in S : \A j \in S : i <= j
    BY <1>2 DEF First
  <2>5. First(S, o) \in S /\ \A j \in S : First(S, o) <= j
    BY <2>3, <2>4
  <2>6. PICK k \in S : k = First(S, o)
    BY <2>5
  <2>7. k \in 1 .. Len(o) /\ Len(o) \in Nat
    OBVIOUS
  <2>8. k \in 1 .. Len(o) + 1
    BY <2>7
  <2>. QED
    BY <2>5, <2>6, <2>8
<1>. QED
  BY <1>1, <1>2

\* An element is at its place.
LEMMA PlaceIs ==
    ASSUME NEW o \in Seq(Nodes), NEW x \in Range(o)
    PROVE  Place(x, o) \in 1 .. Len(o) /\ o[Place(x, o)] = x
<1>1. \E i \in 1 .. Len(o) : o[i] = x
  BY DEF Range
<1>. QED
  BY <1>1 DEF Place

\* No element twice.
Once(o) == \A i, j \in 1 .. Len(o) : o[i] = o[j] => i = j
\* In the order of the values in f.
SortedBy(o, f) == \A i, j \in 1 .. Len(o) : i < j => ~Less(f[o[j]], f[o[i]])

\* The elements of a sequence of nodes are nodes.
LEMMA RangeIs ==
    ASSUME NEW o \in Seq(Nodes)
    PROVE  Range(o) = {o[i] : i \in 1 .. Len(o)} /\ Range(o) \subseteq Nodes
  BY DEF Range

\* Where no element is twice, each has one place.
LEMMA PlaceOf ==
    ASSUME NEW o \in Seq(Nodes), Once(o), NEW i \in 1 .. Len(o)
    PROVE  Place(o[i], o) = i
<1>1. o[i] \in Range(o)
  BY DEF Range
<1>. QED
  BY <1>1, PlaceIs DEF Once

\* A part of a sequence, element by element.
LEMMA SliceIs ==
    ASSUME NEW o \in Seq(Nodes), NEW i \in Nat \ {0}, NEW j \in Nat,
           i <= j + 1, j <= Len(o)
    PROVE  \E s \in Seq(Nodes) : /\ s = SubSeq(o, i, j) /\ Len(s) = j + 1 - i
                                 /\ \A h \in 1 .. j + 1 - i : s[h] = o[h + (i - 1)]
<1>1. PICK n \in Nat : n = Len(o)
  BY LenProperties
<1>2. \A h \in i .. j : o[h] \in Nodes
  BY <1>1
<1>3. PICK s : s = SubSeq(o, i, j)
  OBVIOUS
<1>4. /\ s \in Seq(Nodes)
      /\ Len(s) = IF i <= j THEN j - i + 1 ELSE 0
      /\ \A h \in 1 .. j - i + 1 : s[h] = o[i + h - 1]
  BY <1>2, <1>3, SubSeqProperties
<1>5. Len(s) = j + 1 - i
  BY <1>4
<1>6. ASSUME NEW h \in 1 .. j + 1 - i
      PROVE  s[h] = o[h + (i - 1)]
  <2>1. h \in 1 .. j - i + 1 /\ i + h - 1 = h + (i - 1)
    OBVIOUS
  <2>. QED
    BY <1>4, <2>1
<1>. QED
  BY <1>3, <1>4, <1>5, <1>6

\* The first part of a sequence.
LEMMA PrefixIs ==
    ASSUME NEW o \in Seq(Nodes), NEW j \in Nat, j <= Len(o)
    PROVE  \E s \in Seq(Nodes) : /\ s = SubSeq(o, 1, j) /\ Len(s) = j
                                 /\ \A h \in 1 .. j : s[h] = o[h]
<1>1. 1 <= j + 1
  OBVIOUS
<1>2. PICK s \in Seq(Nodes) : /\ s = SubSeq(o, 1, j) /\ Len(s) = j + 1 - 1
                              /\ \A h \in 1 .. j + 1 - 1 : s[h] = o[h + (1 - 1)]
  <2>1. 1 \in Nat \ {0}
    OBVIOUS
  <2>. QED
    BY <1>1, <2>1, SliceIs
<1>3. Len(s) = j
  BY <1>2
<1>4. ASSUME NEW h \in 1 .. j
      PROVE  s[h] = o[h]
  <2>1. h \in 1 .. j + 1 - 1 /\ h + (1 - 1) = h
    OBVIOUS
  <2>. QED
    BY <1>2, <2>1
<1>. QED
  BY <1>2, <1>3, <1>4

\* Two sequences one behind the other.
LEMMA JoinIs ==
    ASSUME NEW a \in Seq(Nodes), NEW b \in Seq(Nodes)
    PROVE  \E c \in Seq(Nodes) : /\ c = a \o b /\ Len(c) = Len(a) + Len(b)
                                 /\ \A h \in 1 .. Len(a) : c[h] = a[h]
                                 /\ \A h \in 1 .. Len(b) : c[h + Len(a)] = b[h]
<1>1. PICK m, n \in Nat : m = Len(a) /\ n = Len(b)
  BY LenProperties
<1>2. PICK c : c = a \o b
  OBVIOUS
<1>3. /\ c \in Seq(Nodes) /\ Len(c) = m + n
      /\ \A h \in 1 .. m + n : c[h] = IF h <= m THEN a[h] ELSE b[h - m]
  BY <1>1, <1>2, ConcatProperties
<1>4. \A h \in 1 .. m : c[h] = a[h]
  BY <1>3
<1>5. ASSUME NEW h \in 1 .. n
      PROVE  c[h + m] = b[h]
  <2>1. PICK g \in 1 .. m + n : g = h + m
    OBVIOUS
  <2>2. ~(g <= m) /\ g - m = h
    BY <2>1
  <2>3. c[g] = b[g - m]
    BY <1>3, <2>2
  <2>. QED
    BY <2>1, <2>2, <2>3
<1>. QED
  BY <1>1, <1>2, <1>3, <1>4, <1>5

\* Cut takes out the places from i to before j, and the rest keeps its order.
LEMMA CutIs ==
    ASSUME NEW o \in Seq(Nodes), NEW i \in Nat \ {0}, NEW j \in Nat,
           i < j, j <= Len(o) + 1
    PROVE  /\ Cut(o, i, j) \in Seq(Nodes)
           /\ Len(Cut(o, i, j)) = Len(o) - (j - i)
           /\ \A h \in 1 .. Len(o) - (j - i) :
                 Cut(o, i, j)[h] = IF h < i THEN o[h] ELSE o[h + (j - i)]
<1>1. PICK n \in Nat : n = Len(o)
  BY LenProperties
<1>2. PICK a \in Seq(Nodes) : /\ a = SubSeq(o, 1, i - 1) /\ Len(a) = i - 1
                              /\ \A h \in 1 .. i - 1 : a[h] = o[h]
  <2>1. PICK k \in Nat : k = i - 1
    OBVIOUS
  <2>2. k <= Len(o)
    BY <1>1, <2>1
  <2>. QED
    BY <2>1, <2>2, PrefixIs
<1>3. PICK b \in Seq(Nodes) : /\ b = SubSeq(o, j, n) /\ Len(b) = n + 1 - j
                              /\ \A h \in 1 .. n + 1 - j : b[h] = o[h + (j - 1)]
  <2>1. j \in Nat \ {0} /\ j <= n + 1 /\ n <= Len(o)
    BY <1>1
  <2>. QED
    BY <2>1, SliceIs
<1>4. PICK c \in Seq(Nodes) : /\ c = a \o b /\ Len(c) = Len(a) + Len(b)
                              /\ \A h \in 1 .. Len(a) : c[h] = a[h]
                              /\ \A h \in 1 .. Len(b) : c[h + Len(a)] = b[h]
  BY JoinIs
<1>5. Cut(o, i, j) = c
  BY <1>1, <1>2, <1>3, <1>4 DEF Cut
<1>6. Len(c) = n - (j - i)
  <2>1. Len(a) = i - 1 /\ Len(b) = n + 1 - j /\ Len(c) = Len(a) + Len(b)
    BY <1>2, <1>3, <1>4
  <2>. QED
    BY <2>1
<1>7. \A h \in 1 .. n - (j - i) : c[h] = IF h < i THEN o[h] ELSE o[h + (j - i)]
  <2> SUFFICES ASSUME NEW h \in 1 .. n - (j - i)
               PROVE  c[h] = IF h < i THEN o[h] ELSE o[h + (j - i)]
    OBVIOUS
  <2>1. CASE h < i
    BY <1>2, <1>4, <2>1
  <2>2. CASE ~(h < i)
    <3>1. PICK g \in 1 .. n + 1 - j : g = h - (i - 1)
      BY <1>1, <2>2
    <3>2. g + Len(a) = h /\ g \in 1 .. Len(b)
      BY <1>1, <1>2, <1>3, <3>1
    <3>3. c[g + Len(a)] = b[g]
      BY <1>4, <3>2
    <3>4. g + (j - 1) = h + (j - i)
      BY <3>1
    <3>. QED
      BY <1>3, <2>2, <3>2, <3>3, <3>4
  <2>. QED
    BY <2>1, <2>2
<1>. QED
  BY <1>1, <1>4, <1>5, <1>6, <1>7

\* InsertAt moves what is at k and behind it by one place.
LEMMA InsertIs ==
    ASSUME NEW o \in Seq(Nodes), NEW k \in 1 .. Len(o) + 1, NEW x \in Nodes
    PROVE  /\ InsertAt(o, k, x) \in Seq(Nodes)
           /\ Len(InsertAt(o, k, x)) = Len(o) + 1
           /\ \A h \in 1 .. Len(o) + 1 :
                 InsertAt(o, k, x)[h] = IF h < k THEN o[h] ELSE IF h = k THEN x ELSE o[h - 1]
<1>1. PICK n \in Nat : n = Len(o)
  BY LenProperties
<1>2. PICK a \in Seq(Nodes) : /\ a = SubSeq(o, 1, k - 1) /\ Len(a) = k - 1
                              /\ \A h \in 1 .. k - 1 : a[h] = o[h]
  <2>1. PICK i \in Nat : i = k - 1
    BY <1>1
  <2>2. i <= Len(o)
    BY <1>1, <2>1
  <2>. QED
    BY <2>1, <2>2, PrefixIs
<1>3. PICK b \in Seq(Nodes) : /\ b = SubSeq(o, k, n) /\ Len(b) = n + 1 - k
                              /\ \A h \in 1 .. n + 1 - k : b[h] = o[h + (k - 1)]
  <2>1. k \in Nat \ {0} /\ k <= n + 1 /\ n <= Len(o)
    BY <1>1
  <2>. QED
    BY <2>1, SliceIs
<1>4. PICK e : e = <<x>>
  OBVIOUS
<1>5. e \in Seq(Nodes) /\ Len(e) = 1 /\ e[1] = x
  BY <1>4
<1>6. PICK c \in Seq(Nodes) : /\ c = a \o e /\ Len(c) = Len(a) + Len(e)
                              /\ \A h \in 1 .. Len(a) : c[h] = a[h]
                              /\ \A h \in 1 .. Len(e) : c[h + Len(a)] = e[h]
  BY <1>5, JoinIs
<1>7. /\ Len(c) = k /\ \A h \in 1 .. k - 1 : c[h] = o[h]
      /\ c[k] = x
  <2>1. 1 + Len(a) = k /\ 1 \in 1 .. Len(e)
    BY <1>1, <1>2, <1>5
  <2>2. c[1 + Len(a)] = e[1]
    BY <1>6, <2>1
  <2>3. Len(c) = k /\ \A h \in 1 .. k - 1 : c[h] = o[h]
    BY <1>1, <1>2, <1>5, <1>6
  <2>. QED
    BY <1>5, <2>1, <2>2, <2>3
<1>8. PICK d \in Seq(Nodes) : /\ d = c \o b /\ Len(d) = Len(c) + Len(b)
                              /\ \A h \in 1 .. Len(c) : d[h] = c[h]
                              /\ \A h \in 1 .. Len(b) : d[h + Len(c)] = b[h]
  BY JoinIs
<1>9. InsertAt(o, k, x) = d
  BY <1>1, <1>2, <1>3, <1>4, <1>6, <1>8 DEF InsertAt
<1>10. Len(d) = n + 1
  BY <1>1, <1>3, <1>7, <1>8
<1>11. \A h \in 1 .. n + 1 : d[h] = IF h < k THEN o[h] ELSE IF h = k THEN x ELSE o[h - 1]
  <2> SUFFICES ASSUME NEW h \in 1 .. n + 1
               PROVE  d[h] = IF h < k THEN o[h] ELSE IF h = k THEN x ELSE o[h - 1]
    OBVIOUS
  <2>0. k \in Nat
    BY <1>1
  <2>1. CASE h < k
    <3>1. h \in 1 .. Len(c) /\ h \in 1 .. k - 1
      BY <1>7, <2>0, <2>1
    <3>2. d[h] = c[h] /\ c[h] = o[h]
      BY <1>7, <1>8, <3>1
    <3>. QED
      BY <2>1, <3>2
  <2>2. CASE h = k
    BY <1>7, <1>8, <2>0, <2>2
  <2>3. CASE h > k
    <3>1. PICK g \in 1 .. n + 1 - k : g = h - k
      BY <1>1, <2>3
    <3>2. g + Len(c) = h /\ g \in 1 .. Len(b) /\ g + (k - 1) = h - 1
      BY <1>1, <1>3, <1>7, <2>0, <3>1
    <3>3. d[g + Len(c)] = b[g]
      BY <1>8, <3>2
    <3>4. d[h] = o[h - 1]
      BY <1>3, <3>2, <3>3
    <3>5. ~(h < k) /\ h # k
      BY <2>0, <2>3
    <3>. QED
      BY <3>4, <3>5
  <2>. QED
    BY <2>0, <2>1, <2>2, <2>3
<1>. QED
  BY <1>1, <1>8, <1>9, <1>10, <1>11

----------------------------------------------------------------------------
(* Bmic: an ordered index *)

\* The place before the first element that is greater.
Upper(o, f, v) == First({i \in 1 .. Len(o) : Less(v, f[o[i]])}, o)

\* In an index in order the elements before the upper bound are not greater than
\* the value, those from it on are.
LEMMA UpperIs ==
    ASSUME NEW o \in Seq(Nodes), NEW f \in [Nodes -> V], NEW v \in V, SortedBy(o, f)
    PROVE  \E k \in 1 .. Len(o) + 1 :
              /\ k = Upper(o, f, v)
              /\ \A h \in 1 .. Len(o) : h < k => ~Less(v, f[o[h]])
              /\ \A h \in 1 .. Len(o) : h >= k => Less(v, f[o[h]])
<1>1. PICK n \in Nat : n = Len(o)
  BY LenProperties
<1>2. PICK S \in SUBSET (1 .. n) : S = {i \in 1 .. n : Less(v, f[o[i]])}
  OBVIOUS
<1>3. PICK k \in 1 .. n + 1 :
         k = Upper(o, f, v) /\ (\A i \in S : k <= i) /\ (k <= n => k \in S)
  <2>1. S \in SUBSET (1 .. Len(o)) /\ Upper(o, f, v) = First(S, o)
    BY <1>1, <1>2 DEF Upper
  <2>2. /\ First(S, o) \in 1 .. Len(o) + 1
        /\ \A i \in S : First(S, o) <= i
        /\ First(S, o) <= Len(o) => First(S, o) \in S
    BY <2>1, FirstIs
  <2>. QED
    BY <1>1, <2>1, <2>2
<1>4. \A h \in 1 .. n : o[h] \in Nodes /\ f[o[h]] \in V
  BY <1>1
<1>5. \A h \in 1 .. n : h < k => ~Less(v, f[o[h]])
  <2> SUFFICES ASSUME NEW h \in 1 .. n, h < k, Less(v, f[o[h]])
               PROVE  FALSE
    OBVIOUS
  <2>1. h \in S
    BY <1>2
  <2>. QED
    BY <1>3, <2>1
<1>6. \A h \in 1 .. n : h >= k => Less(v, f[o[h]])
  <2> SUFFICES ASSUME NEW h \in 1 .. n, h >= k
               PROVE  Less(v, f[o[h]])
    OBVIOUS
  <2>1. k \in 1 .. n /\ Less(v, f[o[k]])
    BY <1>2, <1>3
  <2>2. CASE h = k
    BY <2>1, <2>2
  <2>3. CASE k < h
    <3>1. ~Less(f[o[h]], f[o[k]])
      BY <1>1, <2>1, <2>3 DEF SortedBy
    <3>2. ASSUME ~Less(v, f[o[h]])
          PROVE  FALSE
      <4>1. ~Less(v, f[o[k]])
        BY <1>4, <2>1, <3>1, <3>2, LessOrder
      <4>. QED
        BY <2>1, <4>1
    <3>. QED
      BY <3>2
  <2>. QED
    BY <2>1, <2>2, <2>3
<1>. QED
  BY <1>1, <1>3, <1>5, <1>6

\* An index in order.
Ordered(o, f) ==
    o \in Seq(Nodes) /\ f \in [Nodes -> V] /\ Once(o) /\ SortedBy(o, f)

\* An index in order stays so without some of its elements.
LEMMA CutKeeps ==
    ASSUME NEW o, NEW f, Ordered(o, f), NEW i \in Nat \ {0}, NEW j \in Nat,
           i < j, j <= Len(o) + 1
    PROVE  /\ Ordered(Cut(o, i, j), f)
           /\ Len(Cut(o, i, j)) = Len(o) - (j - i)
           /\ Range(Cut(o, i, j)) = Range(o) \ {o[h] : h \in i .. j - 1}
<1>0. o \in Seq(Nodes) /\ f \in [Nodes -> V] /\ Once(o) /\ SortedBy(o, f)
  BY DEF Ordered
<1>1. PICK n \in Nat : n = Len(o)
  BY <1>0, LenProperties
<1>q. PICK q : q = Cut(o, i, j)
  OBVIOUS
<1>2. PICK d \in Nat : d = j - i /\ d > 0 /\ d <= n
  BY <1>1
<1>3. /\ q \in Seq(Nodes) /\ Len(q) = n - d
      /\ \A h \in 1 .. n - d : q[h] = IF h < i THEN o[h] ELSE o[h + d]
  <2>0. /\ Cut(o, i, j) \in Seq(Nodes) /\ Len(Cut(o, i, j)) = Len(o) - (j - i)
        /\ \A h \in 1 .. Len(o) - (j - i) :
              Cut(o, i, j)[h] = IF h < i THEN o[h] ELSE o[h + (j - i)]
    BY <1>0, CutIs
  <2>1. /\ q \in Seq(Nodes) /\ Len(q) = Len(o) - (j - i)
        /\ \A h \in 1 .. Len(o) - (j - i) : q[h] = IF h < i THEN o[h] ELSE o[h + (j - i)]
    BY <1>q, <2>0
  <2>. QED
    BY <1>1, <1>2, <2>1
<1>4. PICK m \in Nat : m = n - d
  BY <1>2
<1>5. \A h \in 1 .. m : \E g \in 1 .. n : q[h] = o[g] /\ g = IF h < i THEN h ELSE h + d
  <2> SUFFICES ASSUME NEW h \in 1 .. m
               PROVE  \E g \in 1 .. n : q[h] = o[g] /\ g = IF h < i THEN h ELSE h + d
    OBVIOUS
  <2>1. CASE h < i
    <3>1. h \in 1 .. n /\ q[h] = o[h]
      BY <1>2, <1>3, <1>4, <2>1
    <3>. QED
      BY <2>1, <3>1
  <2>2. CASE ~(h < i)
    <3>1. PICK g \in 1 .. n : g = h + d
      BY <1>4
    <3>2. q[h] = o[g]
      BY <1>3, <1>4, <2>2, <3>1
    <3>. QED
      BY <2>2, <3>1, <3>2
  <2>. QED
    BY <2>1, <2>2
<1>6. Once(q)
  <2> SUFFICES ASSUME NEW h \in 1 .. m, NEW l \in 1 .. m, q[h] = q[l]
               PROVE  h = l
    BY <1>0, <1>3, <1>4 DEF Once
  <2>1. PICK g \in 1 .. n : q[h] = o[g] /\ g = IF h < i THEN h ELSE h + d
    BY <1>5
  <2>2. PICK e \in 1 .. n : q[l] = o[e] /\ e = IF l < i THEN l ELSE l + d
    BY <1>5
  <2>3. g = e
    BY <1>0, <1>1, <2>1, <2>2 DEF Once
  <2>. QED
    BY <1>2, <2>1, <2>2, <2>3
<1>7. SortedBy(q, f)
  <2> SUFFICES ASSUME NEW h \in 1 .. m, NEW l \in 1 .. m, h < l
               PROVE  ~Less(f[q[l]], f[q[h]])
    BY <1>0, <1>3, <1>4 DEF SortedBy
  <2>1. PICK g \in 1 .. n : q[h] = o[g] /\ g = IF h < i THEN h ELSE h + d
    BY <1>5
  <2>2. PICK e \in 1 .. n : q[l] = o[e] /\ e = IF l < i THEN l ELSE l + d
    BY <1>5
  <2>3. g < e
    BY <1>2, <2>1, <2>2
  <2>. QED
    BY <1>0, <1>1, <2>1, <2>2, <2>3 DEF SortedBy
<1>8. Range(q) = Range(o) \ {o[h] : h \in i .. j - 1}
  <2>1. ASSUME NEW h \in 1 .. m
        PROVE  q[h] \in Range(o) \ {o[g] : g \in i .. j - 1}
    <3>1. PICK g \in 1 .. n : q[h] = o[g] /\ g = IF h < i THEN h ELSE h + d
      BY <1>5
    <3>2. g \notin i .. j - 1
      BY <1>2, <3>1
    <3>3. \A e \in i .. j - 1 : e \in 1 .. n /\ e # g
      BY <1>1, <3>2
    <3>4. \A e \in i .. j - 1 : o[e] # o[g]
      BY <1>0, <1>1, <3>3 DEF Once
    <3>5. o[g] \in Range(o)
      BY <1>0, <1>1, RangeIs
    <3>. QED
      BY <3>1, <3>4, <3>5
  <2>2. ASSUME NEW g \in 1 .. n, g \notin i .. j - 1
        PROVE  o[g] \in Range(q)
    <3>1. PICK h \in 1 .. m : g = IF h < i THEN h ELSE h + d
      <4>1. CASE g < i
        <5>1. g \in 1 .. m
          BY <1>1, <1>2, <1>4, <4>1
        <5>. QED
          BY <4>1, <5>1
      <4>2. CASE g >= j
        <5>1. g - d \in 1 .. m /\ ~(g - d < i) /\ g = (g - d) + d
          BY <1>1, <1>2, <1>4, <4>2
        <5>. QED
          BY <5>1
      <4>. QED
        BY <2>2, <4>1, <4>2
    <3>2. PICK e \in 1 .. n : q[h] = o[e] /\ e = IF h < i THEN h ELSE h + d
      BY <1>5
    <3>3. q[h] \in Range(q)
      BY <1>0, <1>3, <1>4, RangeIs
    <3>4. e = g
      BY <3>1, <3>2
    <3>. QED
      BY <3>2, <3>3, <3>4
  <2>3. Range(q) = {q[h] : h \in 1 .. m} /\ Range(o) = {o[h] : h \in 1 .. n}
    BY <1>0, <1>1, <1>3, <1>4, RangeIs
  <2>. QED
    BY <2>1, <2>2, <2>3
<1>. QED
  BY <1>0, <1>1, <1>q, <1>2, <1>3, <1>6, <1>7, <1>8 DEF Ordered

\* p is o with x, sorted by g.
Joined(o, g, x, p) ==
    /\ p \in Seq(Nodes) /\ Once(p) /\ SortedBy(p, g)
    /\ Len(p) = Len(o) + 1 /\ Range(p) = Range(o) \cup {x}

\* Linking a node before the first element that is greater keeps the order.
LEMMA LinkedKeeps ==
    ASSUME NEW o \in Seq(Nodes), NEW f \in [Nodes -> V], NEW g \in [Nodes -> V],
           Once(o), SortedBy(o, f), NEW v \in V, NEW x \in Nodes, x \notin Range(o),
           g[x] = v, \A y \in Range(o) : g[y] = f[y]
    PROVE  Joined(o, g, x, InsertAt(o, Upper(o, f, v), x))
<1>0. PICK p : p = InsertAt(o, Upper(o, f, v), x)
  OBVIOUS
<1>1. PICK n \in Nat : n = Len(o)
  BY LenProperties
<1>2. PICK k \in 1 .. n + 1 :
              /\ k = Upper(o, f, v)
              /\ \A h \in 1 .. n : h < k => ~Less(v, f[o[h]])
              /\ \A h \in 1 .. n : h >= k => Less(v, f[o[h]])
  BY <1>1, UpperIs
<1>3. /\ p \in Seq(Nodes) /\ Len(p) = n + 1
      /\ \A h \in 1 .. n + 1 : p[h] = IF h < k THEN o[h] ELSE IF h = k THEN x ELSE o[h - 1]
  <2>1. k \in 1 .. Len(o) + 1 /\ p = InsertAt(o, k, x)
    BY <1>0, <1>1, <1>2
  <2>2. /\ p \in Seq(Nodes) /\ Len(p) = Len(o) + 1
        /\ \A h \in 1 .. Len(o) + 1 :
              p[h] = IF h < k THEN o[h] ELSE IF h = k THEN x ELSE o[h - 1]
    BY <2>1, InsertIs, SMTT(30)
  <2>. QED
    BY <1>1, <2>2
<1>4. \A h \in 1 .. n : o[h] \in Range(o) /\ o[h] \in Nodes /\ o[h] # x /\ g[o[h]] = f[o[h]]
  <2>1. \A h \in 1 .. n : o[h] \in Range(o)
    BY <1>1, RangeIs
  <2>. QED
    BY <2>1, RangeIs
<1>5. p[k] = x
  BY <1>3
<1>6. \A h \in 1 .. n + 1 : h # k =>
         \E e \in 1 .. n : p[h] = o[e] /\ e = IF h < k THEN h ELSE h - 1
  <2> SUFFICES ASSUME NEW h \in 1 .. n + 1, h # k
               PROVE  \E e \in 1 .. n : p[h] = o[e] /\ e = IF h < k THEN h ELSE h - 1
    OBVIOUS
  <2>1. CASE h < k
    <3>1. h \in 1 .. n /\ p[h] = o[h]
      BY <1>3, <2>1
    <3>. QED
      BY <2>1, <3>1
  <2>2. CASE ~(h < k)
    <3>1. PICK e \in 1 .. n : e = h - 1
      BY <2>2
    <3>2. p[h] = o[e]
      BY <1>3, <2>2, <3>1
    <3>. QED
      BY <2>2, <3>1, <3>2
  <2>. QED
    BY <2>1, <2>2
<1>7. Once(p)
  <2> SUFFICES ASSUME NEW h \in 1 .. n + 1, NEW l \in 1 .. n + 1, p[h] = p[l]
               PROVE  h = l
    BY <1>3 DEF Once
  <2>1. CASE h # k /\ l # k
    <3>1. PICK e \in 1 .. n : p[h] = o[e] /\ e = IF h < k THEN h ELSE h - 1
      BY <1>6, <2>1
    <3>2. PICK d \in 1 .. n : p[l] = o[d] /\ d = IF l < k THEN l ELSE l - 1
      BY <1>6, <2>1
    <3>3. e = d
      BY <1>1, <3>1, <3>2 DEF Once
    <3>. QED
      BY <2>1, <3>1, <3>2, <3>3
  <2>2. ASSUME NEW e \in 1 .. n + 1, e # k
        PROVE  p[e] # x
    BY <1>4, <1>6, <2>2
  <2>. QED
    BY <1>5, <2>1, <2>2
<1>8. SortedBy(p, g)
  <2> SUFFICES ASSUME NEW h \in 1 .. n + 1, NEW l \in 1 .. n + 1, h < l
               PROVE  ~Less(g[p[l]], g[p[h]])
    BY <1>3 DEF SortedBy
  <2>1. CASE h # k /\ l # k
    <3>1. PICK e \in 1 .. n : p[h] = o[e] /\ e = IF h < k THEN h ELSE h - 1
      BY <1>6, <2>1
    <3>2. PICK d \in 1 .. n : p[l] = o[d] /\ d = IF l < k THEN l ELSE l - 1
      BY <1>6, <2>1
    <3>3. e < d
      BY <2>1, <3>1, <3>2
    <3>4. ~Less(f[o[d]], f[o[e]])
      BY <1>1, <3>3 DEF SortedBy
    <3>. QED
      BY <1>4, <3>1, <3>2, <3>4
  <2>2. CASE l = k
    <3>1. PICK e \in 1 .. n : p[h] = o[e] /\ e < k
      BY <1>6, <2>2
    <3>2. ~Less(v, f[o[e]])
      BY <1>2, <3>1
    <3>. QED
      BY <1>4, <1>5, <2>2, <3>1, <3>2
  <2>3. CASE h = k
    <3>1. PICK d \in 1 .. n : p[l] = o[d] /\ d >= k
      BY <1>6, <2>3
    <3>2. Less(v, f[o[d]])
      BY <1>2, <3>1
    <3>3. ~Less(f[o[d]], v)
      BY <1>4, <3>2, LessOrder
    <3>. QED
      BY <1>4, <1>5, <2>3, <3>1, <3>3
  <2>. QED
    BY <2>1, <2>2, <2>3
<1>9. Range(p) = Range(o) \cup {x}
  <2>1. ASSUME NEW h \in 1 .. n + 1
        PROVE  p[h] \in Range(o) \cup {x}
    BY <1>4, <1>5, <1>6
  <2>2. ASSUME NEW e \in 1 .. n
        PROVE  o[e] \in Range(p)
    <3>0. Range(p) = {p[h] : h \in 1 .. n + 1}
      BY <1>3, RangeIs
    <3>1. CASE e < k
      <4>1. e \in 1 .. n + 1 /\ p[e] = o[e]
        BY <1>3, <3>1
      <4>. QED
        BY <3>0, <4>1
    <3>2. CASE ~(e < k)
      <4>1. PICK h \in 1 .. n + 1 : h = e + 1
        OBVIOUS
      <4>2. ~(h < k) /\ h # k /\ h - 1 = e
        BY <3>2, <4>1
      <4>3. p[h] = o[e]
        BY <1>3, <4>2
      <4>. QED
        BY <3>0, <4>3
    <3>. QED
      BY <3>1, <3>2
  <2>3. Range(p) = {p[h] : h \in 1 .. n + 1} /\ Range(o) = {o[h] : h \in 1 .. n}
    BY <1>1, <1>3, RangeIs
  <2>4. x \in Range(p)
    BY <1>5, <2>3
  <2>5. Range(p) \subseteq Range(o) \cup {x}
    BY <2>1, <2>3
  <2>6. Range(o) \subseteq Range(p)
    BY <2>2, <2>3
  <2>. QED
    BY <2>4, <2>5, <2>6
<1>. QED
  BY <1>0, <1>1, <1>3, <1>7, <1>8, <1>9 DEF Joined

\* p is o with x at place k.
Inserted(o, k, x, p) ==
    /\ p \in Seq(Nodes) /\ Len(p) = Len(o) + 1
    /\ \A h \in 1 .. Len(o) + 1 :
          p[h] = IF h < k THEN o[h] ELSE IF h = k THEN x ELSE o[h - 1]

\* InsertAt as Inserted says it.
LEMMA InsertFits ==
    ASSUME NEW o \in Seq(Nodes), NEW k \in 1 .. Len(o) + 1, NEW x \in Nodes
    PROVE  Inserted(o, k, x, InsertAt(o, k, x))
  BY InsertIs DEF Inserted

\* Values in which only that of x is another.
Revalued(o, f, g, x, v) ==
    /\ g \in [Nodes -> V] /\ v \in V /\ g[x] = v
    /\ \A y \in Range(o) : y # x => g[y] = f[y]

\* Element i, which is x, taken out and put in where its value v belongs.
Moved(o, f, i, x, v) ==
    InsertAt(Cut(o, i, i + 1), Upper(Cut(o, i, i + 1), f, v), x)

\* One node is taken out and put in again with another value.
LEMMA MovedKeeps ==
    ASSUME NEW o, NEW f, NEW g, NEW x, NEW v, Ordered(o, f), Revalued(o, f, g, x, v),
           NEW i \in 1 .. Len(o), o[i] = x
    PROVE  /\ Ordered(Moved(o, f, i, x, v), g)
           /\ Len(Moved(o, f, i, x, v)) = Len(o)
           /\ Range(Moved(o, f, i, x, v)) = Range(o)
<1>0. /\ o \in Seq(Nodes) /\ f \in [Nodes -> V] /\ Once(o) /\ SortedBy(o, f)
      /\ g \in [Nodes -> V] /\ v \in V /\ g[x] = v
      /\ \A y \in Range(o) : y # x => g[y] = f[y]
  BY DEF Ordered, Revalued
<1>1. PICK n \in Nat : n = Len(o)
  BY <1>0, LenProperties
<1>2. x \in Nodes /\ x = o[i] /\ x \in Range(o)
  BY <1>0, <1>1, RangeIs
<1>q. PICK q : q = Cut(o, i, i + 1)
  OBVIOUS
<1>p. PICK p : p = Moved(o, f, i, x, v)
  OBVIOUS
<1>3. /\ q \in Seq(Nodes) /\ Once(q) /\ SortedBy(q, f)
      /\ Len(q) = n - 1 /\ Range(q) = Range(o) \ {x}
  <2>1. PICK j \in Nat : j = i + 1
    BY <1>1
  <2>2. i \in Nat \ {0} /\ i < j /\ j <= Len(o) + 1
    BY <1>1, <2>1
  <2>3. q = Cut(o, i, j)
    BY <1>q, <2>1
  <2>4. /\ Ordered(q, f) /\ Len(q) = Len(o) - (j - i)
        /\ Range(q) = Range(o) \ {o[h] : h \in i .. j - 1}
    <3>1. /\ Ordered(Cut(o, i, j), f) /\ Len(Cut(o, i, j)) = Len(o) - (j - i)
          /\ Range(Cut(o, i, j)) = Range(o) \ {o[h] : h \in i .. j - 1}
      BY <2>2, CutKeeps
    <3>. QED
      BY <2>3, <3>1
  <2>5. i .. j - 1 = {i} /\ j - i = 1
    BY <2>1
  <2>6. {o[h] : h \in i .. j - 1} = {x}
    BY <1>2, <2>5
  <2>. QED
    BY <1>1, <2>4, <2>5, <2>6 DEF Ordered
<1>4. x \notin Range(q) /\ \A y \in Range(q) : g[y] = f[y]
  BY <1>0, <1>2, <1>3
<1>5. /\ p \in Seq(Nodes) /\ Once(p) /\ SortedBy(p, g)
      /\ Len(p) = Len(q) + 1 /\ Range(p) = Range(q) \cup {x}
  <2>1. p = InsertAt(q, Upper(q, f, v), x)
    BY <1>q, <1>p DEF Moved
  <2>2. /\ q \in Seq(Nodes) /\ Once(q) /\ SortedBy(q, f) /\ x \in Nodes /\ x \notin Range(q)
        /\ g[x] = v /\ \A y \in Range(q) : g[y] = f[y]
    BY <1>0, <1>2, <1>3, <1>4
  <2>3. Joined(q, g, x, InsertAt(q, Upper(q, f, v), x))
    BY <1>0, <2>2, LinkedKeeps
  <2>. QED
    BY <2>1, <2>3 DEF Joined
<1>6. Len(p) = n
  BY <1>1, <1>3, <1>5
<1>7. Range(p) = Range(o)
  BY <1>2, <1>3, <1>5
<1>. QED
  BY <1>0, <1>1, <1>p, <1>5, <1>6, <1>7 DEF Ordered

\* A node keeps its place when its neighbours allow it.
LEMMA InPlaceKeeps ==
    ASSUME NEW o, NEW f, NEW g, NEW x, NEW v, Ordered(o, f), Revalued(o, f, g, x, v),
           NEW i \in 1 .. Len(o), o[i] = x,
           i > 1 => ~Less(v, f[o[i - 1]]),
           i < Len(o) => ~Less(f[o[i + 1]], v)
    PROVE  Ordered(o, g)
<1>0. /\ o \in Seq(Nodes) /\ f \in [Nodes -> V] /\ Once(o) /\ SortedBy(o, f)
      /\ g \in [Nodes -> V] /\ v \in V /\ g[o[i]] = v
      /\ \A y \in Range(o) : y # o[i] => g[y] = f[y]
  BY DEF Ordered, Revalued
<1>1. PICK n \in Nat : n = Len(o)
  BY <1>0, LenProperties
<1>2. \A h \in 1 .. n : o[h] \in Nodes /\ f[o[h]] \in V /\ (h # i => g[o[h]] = f[o[h]])
  <2>1. \A h \in 1 .. n : o[h] \in Range(o) /\ o[h] \in Nodes
    BY <1>0, <1>1, RangeIs
  <2>2. \A h \in 1 .. n : h # i => o[h] # o[i]
    BY <1>0, <1>1 DEF Once
  <2>. QED
    BY <1>0, <2>1, <2>2
<1>3. \A h, l \in 1 .. n : h < l => ~Less(f[o[l]], f[o[h]])
  BY <1>0, <1>1 DEF SortedBy
<1>4. ASSUME NEW h \in 1 .. n, h < i
      PROVE  ~Less(v, f[o[h]])
  <2>1. PICK m \in 1 .. n : m = i - 1
    BY <1>1, <1>4
  <2>2. ~Less(v, f[o[m]])
    BY <1>4, <2>1
  <2>3. CASE h = m
    BY <2>2, <2>3
  <2>4. CASE h # m
    <3>1. ~Less(f[o[m]], f[o[h]])
      BY <1>3, <1>4, <2>1, <2>4
    <3>. QED
      BY <1>0, <1>2, <2>2, <3>1, LessOrder
  <2>. QED
    BY <2>3, <2>4
<1>5. ASSUME NEW l \in 1 .. n, i < l
      PROVE  ~Less(f[o[l]], v)
  <2>1. PICK m \in 1 .. n : m = i + 1
    BY <1>1, <1>5
  <2>2. ~Less(f[o[m]], v)
    BY <1>1, <1>5, <2>1
  <2>3. CASE l = m
    BY <2>2, <2>3
  <2>4. CASE l # m
    <3>1. ~Less(f[o[l]], f[o[m]])
      BY <1>3, <1>5, <2>1, <2>4
    <3>. QED
      BY <1>0, <1>2, <2>2, <3>1, LessOrder
  <2>. QED
    BY <2>3, <2>4
<1>. SUFFICES ASSUME NEW h \in 1 .. n, NEW l \in 1 .. n, h < l
              PROVE  ~Less(g[o[l]], g[o[h]])
  BY <1>0, <1>1 DEF SortedBy, Ordered
<1>6. CASE h # i /\ l # i
  BY <1>2, <1>3, <1>6
<1>7. CASE l = i
  BY <1>0, <1>2, <1>4, <1>7
<1>8. CASE h = i
  BY <1>0, <1>2, <1>5, <1>8
<1>. QED
  BY <1>6, <1>7, <1>8

\* p is o, in which element i has gone before the elements greater than v.
Forward(o, f, i, v, p, k) ==
    /\ \A h \in 1 .. k - 1 : p[h] = o[h] /\ ~Less(v, f[o[h]])
    /\ p[k] = o[i]
    /\ \A h \in k .. i - 1 : p[h + 1] = o[h] /\ Less(v, f[o[h]])
    /\ \A h \in i + 1 .. Len(o) : p[h] = o[h]

\* A value that is not greater moves its node towards the front.
LEMMA MovedForward ==
    ASSUME NEW o \in Seq(Nodes), NEW f \in [Nodes -> V],
           Once(o), SortedBy(o, f), NEW v \in V, NEW i \in 1 .. Len(o),
           ~Less(f[o[i]], v), i > 1, Less(v, f[o[i - 1]]),
           NEW p, p = Moved(o, f, i, o[i], v)
    PROVE  \E k \in 1 .. i - 1 : Forward(o, f, i, v, p, k)
<1>q. PICK q : q = Cut(o, i, i + 1)
  OBVIOUS
<1>p. p = InsertAt(q, Upper(q, f, v), o[i])
  BY <1>q DEF Moved
<1>1. PICK n \in Nat : n = Len(o)
  BY LenProperties
<1>2. /\ q \in Seq(Nodes) /\ SortedBy(q, f) /\ Len(q) = n - 1
      /\ \A h \in 1 .. n - 1 : q[h] = IF h < i THEN o[h] ELSE o[h + 1]
  <2>1. PICK j \in Nat : j = i + 1
    BY <1>1
  <2>2. i \in Nat \ {0} /\ i < j /\ j <= Len(o) + 1 /\ j - i = 1
    BY <1>1, <2>1
  <2>3. q = Cut(o, i, j)
    BY <1>q, <2>1
  <2>4. q \in Seq(Nodes) /\ SortedBy(q, f)
    <3>1. Ordered(o, f)
      BY DEF Ordered
    <3>2. Ordered(Cut(o, i, j), f)
      BY <2>2, <3>1, CutKeeps
    <3>. QED
      BY <2>3, <3>2 DEF Ordered
  <2>5. /\ Len(q) = Len(o) - (j - i)
        /\ \A h \in 1 .. Len(o) - (j - i) :
              q[h] = IF h < i THEN o[h] ELSE o[h + (j - i)]
    <3>1. /\ Len(Cut(o, i, j)) = Len(o) - (j - i)
          /\ \A h \in 1 .. Len(o) - (j - i) :
                Cut(o, i, j)[h] = IF h < i THEN o[h] ELSE o[h + (j - i)]
      BY <2>2, CutIs
    <3>. QED
      BY <2>3, <3>1
  <2>6. Len(q) = n - 1
    BY <1>1, <2>2, <2>5
  <2>7. ASSUME NEW h \in 1 .. n - 1
        PROVE  q[h] = IF h < i THEN o[h] ELSE o[h + 1]
    <3>1. h \in 1 .. Len(o) - (j - i) /\ h + (j - i) = h + 1
      BY <1>1, <2>2
    <3>. QED
      BY <2>5, <3>1
  <2>. QED
    BY <2>4, <2>6, <2>7
<1>3. PICK m \in Nat : m = n - 1
  BY <1>1
<1>4. PICK k \in 1 .. m + 1 :
              /\ k = Upper(q, f, v)
              /\ \A h \in 1 .. m : h < k => ~Less(v, f[q[h]])
              /\ \A h \in 1 .. m : h >= k => Less(v, f[q[h]])
  <2>1. Len(q) = m
    BY <1>2, <1>3
  <2>. QED
    BY <1>2, <2>1, UpperIs
<1>5. k \in 1 .. i - 1
  <2>1. PICK h \in 1 .. m : h = i - 1
    BY <1>1, <1>3
  <2>2. q[h] = o[h] /\ Less(v, f[q[h]])
    BY <1>2, <1>3, <2>1
  <2>3. ~(h < k)
    BY <1>4, <2>2
  <2>. QED
    BY <1>1, <2>1, <2>3
<1>6. /\ p \in Seq(Nodes) /\ Len(p) = n
      /\ \A h \in 1 .. n : p[h] = IF h < k THEN q[h] ELSE IF h = k THEN o[i] ELSE q[h - 1]
  <2>1. Len(q) = m /\ k \in 1 .. Len(q) + 1 /\ m + 1 = n
    BY <1>1, <1>2, <1>3
  <2>2. o[i] \in Nodes /\ p = InsertAt(q, k, o[i])
    BY <1>1, <1>p, <1>4
  <2>3. /\ p \in Seq(Nodes) /\ Len(p) = Len(q) + 1
        /\ \A h \in 1 .. Len(q) + 1 :
              p[h] = IF h < k THEN q[h] ELSE IF h = k THEN o[i] ELSE q[h - 1]
    <3>1. PICK x \in Nodes : x = o[i]
      BY <2>2
    <3>2. q \in Seq(Nodes)
      BY <1>2
    <3>3. Inserted(q, k, x, InsertAt(q, k, x))
      BY <2>1, <3>2, InsertFits
    <3>4. p = InsertAt(q, k, x)
      BY <2>2, <3>1
    <3>. QED
      BY <3>1, <3>3, <3>4 DEF Inserted
  <2>4. Len(q) + 1 = n
    BY <2>1
  <2>. QED
    BY <2>3, <2>4
<1>7. \A h \in 1 .. k - 1 : p[h] = o[h] /\ ~Less(v, f[o[h]])
  <2> SUFFICES ASSUME NEW h \in 1 .. k - 1
               PROVE  p[h] = o[h] /\ ~Less(v, f[o[h]])
    OBVIOUS
  <2>1. h \in 1 .. n /\ h \in 1 .. m /\ h < k /\ h < i
    BY <1>1, <1>3, <1>5
  <2>2. q[h] = o[h] /\ p[h] = q[h]
    BY <1>2, <1>3, <1>6, <2>1
  <2>. QED
    BY <1>4, <2>1, <2>2
<1>8. p[k] = o[i]
  <2>1. k \in 1 .. n /\ ~(k < k)
    BY <1>1, <1>5
  <2>. QED
    BY <1>6, <2>1
<1>9. \A h \in k .. i - 1 : p[h + 1] = o[h] /\ Less(v, f[o[h]])
  <2> SUFFICES ASSUME NEW h \in k .. i - 1
               PROVE  p[h + 1] = o[h] /\ Less(v, f[o[h]])
    OBVIOUS
  <2>1. h \in 1 .. m /\ h < i /\ h >= k
    BY <1>1, <1>3, <1>5
  <2>2. PICK l \in 1 .. n : l = h + 1
    BY <1>3, <2>1
  <2>3. ~(l < k) /\ l # k /\ l - 1 = h
    BY <1>5, <2>1, <2>2
  <2>4. q[h] = o[h] /\ p[l] = q[h]
    BY <1>2, <1>3, <1>6, <2>1, <2>3
  <2>. QED
    BY <1>4, <2>1, <2>2, <2>4
<1>10. \A h \in i + 1 .. n : p[h] = o[h]
  <2> SUFFICES ASSUME NEW h \in i + 1 .. n
               PROVE  p[h] = o[h]
    OBVIOUS
  <2>1. PICK l \in 1 .. m : l = h - 1
    BY <1>1, <1>3
  <2>2. ~(h < k) /\ h # k /\ h \in 1 .. n /\ ~(l < i) /\ l + 1 = h
    BY <1>1, <1>5, <2>1
  <2>3. p[h] = q[l]
    BY <1>6, <2>1, <2>2
  <2>4. q[l] = o[l + 1]
    BY <1>2, <1>3, <2>2
  <2>. QED
    BY <2>2, <2>3, <2>4
<1>. QED
  BY <1>1, <1>5, <1>7, <1>8, <1>9, <1>10 DEF Forward

----------------------------------------------------------------------------
(* Bmic: the hashed index *)

\* No two elements are taken for the same in the bucket of one of them.
Keyed(o, f, b) ==
    \A x \in Range(o) :
        /\ b[x] = KeyHash(f[x])
        /\ \A y \in Range(o) \ {x} : KeyHash(f[y]) = KeyHash(f[x]) => ~KeyEqual(f[y], f[x])

\* The inductive invariant of the indexes: the order without a node twice, and the
\* buckets as long as no replace has gone by nearness.
IndexInv ==
    /\ order \in Seq(Nodes) /\ Once(order)
    /\ val \in [Nodes -> V] /\ SortedBy(order, val)
    /\ bucket \in [Nodes -> Hashes] /\ inexact \in BOOLEAN
    /\ ~inexact => Keyed(order, val, bucket)

\* Element x is new in o, or has another value, of which no element of its
\* bucket has the key; p has no other elements.
KeyPut(o, p, f, g, b, c, x) ==
    /\ p \in Seq(Nodes) /\ Range(p) \subseteq Range(o) \cup {x}
    /\ f \in [Nodes -> V] /\ g \in [Nodes -> V] /\ x \in Nodes
    /\ \A y \in Range(o) : y # x => g[y] = f[y] /\ c[y] = b[y]
    /\ c[x] = KeyHash(g[x])
    /\ \A y \in Range(o) : y # x /\ KeyHash(f[y]) = KeyHash(g[x]) => ~KeyEqual(f[y], g[x])

\* The buckets stay unique when an element without a double is put in.
LEMMA KeyedPut ==
    ASSUME NEW o, NEW p, NEW f, NEW g, NEW b, NEW c, NEW x, Keyed(o, f, b),
           KeyPut(o, p, f, g, b, c, x)
    PROVE  Keyed(p, g, c)
<1>. USE DEF KeyPut
<1>. SUFFICES ASSUME NEW z \in Range(p)
              PROVE  /\ c[z] = KeyHash(g[z])
                     /\ \A y \in Range(p) \ {z} :
                           KeyHash(g[y]) = KeyHash(g[z]) => ~KeyEqual(g[y], g[z])
  BY DEF Keyed
<1>0. \A y \in Range(p) : y \in Nodes /\ (y # x => y \in Range(o))
  BY RangeIs
<1>1. CASE z = x
  BY <1>0, <1>1
<1>2. CASE z # x
  <2>1. z \in Range(o) /\ g[z] = f[z] /\ c[z] = b[z]
    BY <1>0, <1>2
  <2>2. c[z] = KeyHash(g[z])
    BY <2>1 DEF Keyed
  <2>3. ASSUME NEW y \in Range(p) \ {z}, KeyHash(g[y]) = KeyHash(g[z]), KeyEqual(g[y], g[z])
        PROVE  FALSE
    <3>1. CASE y = x
      <4>1. KeyHash(f[z]) = KeyHash(g[x]) /\ KeyEqual(g[x], f[z])
        BY <2>1, <2>3, <3>1
      <4>2. KeyEqual(f[z], g[x])
        BY <1>0, <4>1, KeyFacts
      <4>. QED
        BY <1>2, <2>1, <4>1, <4>2
    <3>2. CASE y # x
      <4>1. y \in Range(o) /\ g[y] = f[y]
        BY <1>0, <3>2
      <4>. QED
        BY <2>1, <2>3, <4>1 DEF Keyed
    <3>. QED
      BY <3>1, <3>2
  <2>. QED
    BY <2>2, <2>3
<1>. QED
  BY <1>1, <1>2

\* Find returns elements, those in the bucket of the key that are taken for it.
LEMMA FindIs ==
    ASSUME IndexInv, NEW v \in V
    PROVE  /\ Find(v) \subseteq Range(order) /\ Range(order) \subseteq Nodes
           /\ \A x \in Range(order) :
                 x \in Find(v) <=> bucket[x] = KeyHash(v) /\ KeyEqual(val[x], v)
           /\ \A x \in Range(order) : ~inexact => bucket[x] = KeyHash(val[x])
<1>1. order \in Seq(Nodes)
  BY DEF IndexInv
<1>2. Range(order) \subseteq Nodes
  BY <1>1, RangeIs
<1>3. \A x \in Range(order) : ~inexact => bucket[x] = KeyHash(val[x])
  BY DEF IndexInv, Keyed
<1>. QED
  BY <1>2, <1>3 DEF Find

\* What replace does, and that it keeps the container in order.
LEMMA ReplacedIs ==
    ASSUME IndexInv, NEW x \in Range(order), NEW v \in V, Replaced(x, v)
    PROVE  /\ IndexInv'
           /\ Range(order') = Range(order) /\ Len(order') = Len(order)
           /\ ~Replaceable(x, v) => UNCHANGED index /\ ~(Find(v) \subseteq {x})
           /\ Replaceable(x, v) =>
                 val'[x] = v /\ \A y \in Nodes : y # x => val'[y] = val[y]
<1>1. PICK n \in Nat : n = Len(order)
  BY LenProperties DEF IndexInv
<1>2. /\ order \in Seq(Nodes) /\ Once(order) /\ val \in [Nodes -> V] /\ SortedBy(order, val)
      /\ bucket \in [Nodes -> Hashes] /\ inexact \in BOOLEAN
  BY DEF IndexInv
<1>3. PICK i \in 1 .. n : i = Place(x, order) /\ order[i] = x
  BY <1>1, <1>2, PlaceIs
<1>4. x \in Nodes
  BY <1>2, RangeIs
<1>5. CASE ~Replaceable(x, v)
  <2>1. ~KeyEqual(v, val[x]) /\ ~(Find(v) \subseteq {x})
    BY <1>5 DEF Replaceable
  <2>2. UNCHANGED index
    <3>1. order' = order /\ val' = val /\ bucket' = bucket
      BY <1>5 DEF Replaced, Reordered
    <3>2. inexact' = inexact
      BY <1>2, <2>1 DEF Replaced
    <3>. QED
      BY <3>1, <3>2 DEF index
  <2>3. IndexInv'
    BY <2>2 DEF index, IndexInv
  <2>. QED
    BY <1>5, <2>1, <2>2, <2>3 DEF index
<1>6. CASE Replaceable(x, v)
  <2>1. val' = [val EXCEPT ![x] = v]
    BY <1>6 DEF Replaced
  <2>2. val' \in [Nodes -> V] /\ val'[x] = v /\ \A y \in Nodes : y # x => val'[y] = val[y]
    BY <1>2, <1>4, <2>1
  <2>3. /\ order' \in Seq(Nodes) /\ Once(order') /\ SortedBy(order', val')
        /\ Range(order') = Range(order) /\ Len(order') = Len(order)
    <3>0. Ordered(order, val) /\ Revalued(order, val, val', x, v)
      BY <1>2, <1>3, <2>2, RangeIs DEF Ordered, Revalued
    <3>1. CASE InPlace(x, v)
      <4>1. order' = order
        BY <3>1 DEF Replaced, Reordered
      <4>2. /\ i > 1 => ~Less(v, val[order[i - 1]])
            /\ i < Len(order) => ~Less(val[order[i + 1]], v)
        BY <1>3, <3>1 DEF InPlace
      <4>3. i \in 1 .. Len(order) /\ order[i] = x
        BY <1>1, <1>3
      <4>4. Ordered(order, val')
        BY <3>0, <4>2, <4>3, InPlaceKeeps
      <4>. QED
        BY <1>2, <4>1, <4>4 DEF Ordered
    <3>2. CASE ~InPlace(x, v)
      <4>1. PICK q : q = Cut(order, i, i + 1)
        OBVIOUS
      <4>2. order' = Linked(q, x, v)
        BY <1>3, <1>6, <3>2, <4>1 DEF Replaced, Reordered
      <4>3. q \in Seq(Nodes)
        <5>1. i \in Nat \ {0} /\ i + 1 \in Nat /\ i < i + 1 /\ i + 1 <= Len(order) + 1
          BY <1>1
        <5>. QED
          BY <1>2, <4>1, <5>1, CutIs
      <4>4. order' = Moved(order, val, i, x, v)
        <5>1. DOMAIN q = 1 .. Len(q)
          BY <4>3
        <5>. QED
          BY <4>1, <4>2, <5>1 DEF Linked, Upper, Moved
      <4>5. i \in 1 .. Len(order) /\ order[i] = x
        BY <1>1, <1>3
      <4>6. /\ Ordered(Moved(order, val, i, x, v), val')
            /\ Len(Moved(order, val, i, x, v)) = Len(order)
            /\ Range(Moved(order, val, i, x, v)) = Range(order)
        BY <3>0, <4>5, MovedKeeps
      <4>. QED
        BY <4>4, <4>6 DEF Ordered
    <3>. QED
      BY <3>1, <3>2
  <2>4. /\ bucket' \in [Nodes -> Hashes]
        /\ \A y \in Nodes : y # x => bucket'[y] = bucket[y]
        /\ bucket'[x] = IF KeyEqual(v, val[x]) THEN bucket[x] ELSE KeyHash(v)
    <3>1. CASE KeyEqual(v, val[x])
      BY <1>2, <1>6, <3>1 DEF Replaced
    <3>2. CASE ~KeyEqual(v, val[x])
      <4>1. bucket' = [bucket EXCEPT ![x] = KeyHash(v)] /\ KeyHash(v) \in Hashes
        BY <1>6, <3>2, KeyFacts DEF Replaced
      <4>. QED
        BY <1>2, <1>4, <3>2, <4>1
    <3>. QED
      BY <3>1, <3>2
  <2>5. inexact' \in BOOLEAN
    BY DEF Replaced
  <2>6. ASSUME ~inexact'
        PROVE  Keyed(order', val', bucket')
    <3>1. ~inexact /\ (KeyEqual(v, val[x]) => v.px = val[x].px)
      BY <2>6 DEF Replaced
    <3>2. Keyed(order, val, bucket)
      BY <3>1 DEF IndexInv
    <3>3. val[x] \in V /\ \A y \in Range(order) : y \in Nodes /\ val[y] \in V
      BY <1>2, <1>4, RangeIs
    <3>4. bucket'[x] = KeyHash(v)
      BY <2>4, <3>1, <3>2, <3>3, KeyFacts DEF Keyed
    <3>5. ASSUME NEW y \in Range(order), y # x, KeyHash(val[y]) = KeyHash(v), KeyEqual(val[y], v)
          PROVE  FALSE
      <4>1. CASE KeyEqual(v, val[x])
        <5>1. KeyHash(val[x]) = KeyHash(v) /\ KeyEqual(val[y], val[x])
          BY <3>1, <3>3, <3>5, <4>1, KeyFacts
        <5>2. y \in Range(order) \ {x} /\ KeyHash(val[y]) = KeyHash(val[x])
          BY <3>5, <5>1
        <5>. QED
          BY <3>2, <5>1, <5>2 DEF Keyed
      <4>2. CASE ~KeyEqual(v, val[x])
        <5>1. Find(v) \subseteq {x}
          BY <1>6, <4>2 DEF Replaceable
        <5>2. bucket[y] = KeyHash(v)
          BY <3>2, <3>5 DEF Keyed
        <5>3. y \in Find(v)
          BY <3>5, <5>2 DEF Find
        <5>. QED
          BY <3>5, <5>1, <5>3
      <4>. QED
        BY <4>1, <4>2
    <3>6. Range(order') \subseteq Range(order) \cup {x}
      BY <2>3
    <3>7. \A y \in Range(order) : y # x => val'[y] = val[y] /\ bucket'[y] = bucket[y]
      BY <2>2, <2>4, <3>3
    <3>8. bucket'[x] = KeyHash(val'[x])
      BY <2>2, <3>4
    <3>9. \A y \in Range(order) : y # x /\ KeyHash(val[y]) = KeyHash(val'[x]) => ~KeyEqual(val[y], val'[x])
      BY <2>2, <3>5
    <3>10. KeyPut(order, order', val, val', bucket, bucket', x)
      BY <1>2, <1>4, <2>2, <2>3, <3>6, <3>7, <3>8, <3>9 DEF KeyPut
    <3>. QED
      BY <3>2, <3>10, KeyedPut
  <2>7. IndexInv'
    BY <2>2, <2>3, <2>4, <2>5, <2>6 DEF IndexInv
  <2>. QED
    BY <1>6, <2>2, <2>3, <2>7
<1>. QED
  BY <1>5, <1>6

----------------------------------------------------------------------------
(* Bmic: emplace, erase and replace keep the indexes *)

\* Without an element twice, a sequence has as many places as elements.
LEMMA OnceCounts ==
    ASSUME NEW o \in Seq(Nodes), Once(o)
    PROVE  IsFiniteSet(Range(o)) /\ Cardinality(Range(o)) = Len(o)
<1>1. PICK n \in Nat : n = Len(o)
  BY LenProperties
<1>2. Range(o) = {o[i] : i \in 1 .. n}
  BY <1>1, RangeIs
<1>3. PICK S : S = Range(o)
  OBVIOUS
<1>4. o \in [1 .. n -> S]
  BY <1>1, <1>2, <1>3
<1>5. \A i, j \in 1 .. n : o[i] = o[j] => i = j
  BY <1>1 DEF Once
<1>6. o \in Injection(1 .. n, S)
  BY <1>4, <1>5 DEF Injection, IsInjective
<1>7. o \in Surjection(1 .. n, S)
  BY <1>2, <1>3, <1>4 DEF Surjection
<1>8. ExistsBijection(1 .. n, S)
  BY <1>6, <1>7 DEF ExistsBijection, Bijection
<1>9. IsFiniteSet(1 .. n) /\ Cardinality(1 .. n) = n
  <2>1. 1 \in Int /\ n \in Int
    OBVIOUS
  <2>2. IsFiniteSet(1 .. n) /\ Cardinality(1 .. n) = IF 1 > n THEN 0 ELSE n - 1 + 1
    BY <2>1, FS_Interval
  <2>3. (IF 1 > n THEN 0 ELSE n - 1 + 1) = n
    OBVIOUS
  <2>. QED
    BY <2>2, <2>3
<1>. QED
  BY <1>1, <1>3, <1>8, <1>9, FS_Bijection

\* The value of a node that is not in the container is a value.
LEMMA NoValueIs == NoValue \in V
  BY DEF NoValue, V

\* What emplace does, and that it keeps the container in order.
LEMMA EmplacedIs ==
    ASSUME IndexInv, NEW v \in V, Emplaced(v)
    PROVE  /\ IndexInv'
           /\ \/ UNCHANGED index /\ (Len(order) = Cardinality(Nodes) \/ Find(v) # {})
              \/ /\ v \in Stored' /\ \A y \in Range(order) : y \in Range(order') /\ val'[y] = val[y]
<1>1. /\ order \in Seq(Nodes) /\ Once(order) /\ val \in [Nodes -> V] /\ SortedBy(order, val)
      /\ bucket \in [Nodes -> Hashes] /\ inexact \in BOOLEAN
  BY DEF IndexInv
<1>2. CASE Find(v) # {} \/ Len(order) = Cardinality(Nodes)
  <2>1. UNCHANGED index
    BY <1>2 DEF Emplaced
  <2>2. IndexInv'
    BY <2>1 DEF index, IndexInv
  <2>. QED
    BY <1>2, <2>1, <2>2
<1>3. CASE Find(v) = {} /\ Len(order) # Cardinality(Nodes)
  <2>1. PICK x : x = CHOOSE y \in Nodes : y \notin Range(order)
    OBVIOUS
  <2>2. x \in Nodes /\ x \notin Range(order)
    <3>1. Range(order) # Nodes
      BY <1>1, <1>3, OnceCounts
    <3>2. \E y \in Nodes : y \notin Range(order)
      BY <1>1, <3>1, RangeIs
    <3>. QED
      BY <2>1, <3>2
  <2>3. /\ order' = Linked(order, x, v)
        /\ val' = [val EXCEPT ![x] = v]
        /\ bucket' = [bucket EXCEPT ![x] = KeyHash(v)]
        /\ inexact' = inexact
    BY <1>3, <2>1 DEF Emplaced
  <2>4. /\ val' \in [Nodes -> V] /\ val'[x] = v /\ \A y \in Nodes : y # x => val'[y] = val[y]
    BY <1>1, <2>2, <2>3
  <2>5. /\ bucket' \in [Nodes -> Hashes] /\ bucket'[x] = KeyHash(v)
        /\ \A y \in Nodes : y # x => bucket'[y] = bucket[y]
    <3>1. KeyHash(v) \in Hashes
      BY KeyFacts
    <3>. QED
      BY <1>1, <2>2, <2>3, <3>1
  <2>6. \A y \in Range(order) : y \in Nodes /\ y # x /\ val'[y] = val[y]
    BY <1>1, <2>2, <2>4, RangeIs
  <2>7. Joined(order, val', x, order')
    <3>1. order' = InsertAt(order, Upper(order, val, v), x)
      <4>1. DOMAIN order = 1 .. Len(order)
        BY <1>1
      <4>. QED
        BY <2>3, <4>1 DEF Linked, Upper
    <3>2. Joined(order, val', x, InsertAt(order, Upper(order, val, v), x))
      BY <1>1, <2>2, <2>4, <2>6, LinkedKeeps
    <3>. QED
      BY <3>1, <3>2
  <2>8. ASSUME ~inexact'
        PROVE  Keyed(order', val', bucket')
    <3>1. Keyed(order, val, bucket)
      BY <2>3, <2>8 DEF IndexInv
    <3>2. \A y \in Range(order) : KeyHash(val[y]) = KeyHash(v) => ~KeyEqual(val[y], v)
      BY <1>3, <3>1 DEF Keyed, Find
    <3>3. KeyPut(order, order', val, val', bucket, bucket', x)
      BY <1>1, <2>2, <2>4, <2>5, <2>6, <2>7, <3>2 DEF KeyPut, Joined
    <3>. QED
      BY <3>1, <3>3, KeyedPut
  <2>9. IndexInv'
    BY <1>1, <2>3, <2>4, <2>5, <2>7, <2>8 DEF IndexInv, Joined
  <2>10. v \in Stored'
    <3>1. order' \in Seq(Nodes) /\ x \in Range(order')
      BY <2>7 DEF Joined
    <3>2. PICK i \in 1 .. Len(order') : order'[i] = x
      BY <3>1, RangeIs
    <3>3. Stored' = {val'[order'[h]] : h \in 1 .. Len(order')}
      BY <3>1 DEF Stored, ForEach, GetSize, Range
    <3>. QED
      BY <2>4, <3>2, <3>3
  <2>. QED
    BY <2>6, <2>7, <2>9, <2>10 DEF Joined
<1>. QED
  BY <1>2, <1>3

\* Erasing a range of places keeps the container in order.
LEMMA ErasedIs ==
    ASSUME IndexInv, NEW i \in 1 .. Len(order) + 1, NEW j \in 1 .. Len(order) + 1, Erased(i, j)
    PROVE  IndexInv'
<1>1. /\ order \in Seq(Nodes) /\ Once(order) /\ val \in [Nodes -> V] /\ SortedBy(order, val)
      /\ bucket \in [Nodes -> Hashes] /\ inexact \in BOOLEAN
  BY DEF IndexInv
<1>2. CASE j <= i
  <2>1. UNCHANGED index
    BY <1>2 DEF Erased
  <2>. QED
    BY <2>1 DEF index, IndexInv
<1>3. CASE ~(j <= i)
  <2>1. PICK xs : xs = {order[h] : h \in i .. j - 1}
    OBVIOUS
  <2>2. /\ order' = Cut(order, i, j)
        /\ val' = [x \in Nodes |-> IF x \in xs THEN NoValue ELSE val[x]]
        /\ bucket' = [x \in Nodes |-> IF x \in xs THEN KeyHash(NoValue) ELSE bucket[x]]
        /\ inexact' = inexact
    BY <1>3, <2>1 DEF Erased
  <2>3. i \in Nat \ {0} /\ j \in Nat /\ i < j /\ j <= Len(order) + 1
    BY <1>1, <1>3
  <2>4. Ordered(order', val) /\ Range(order') = Range(order) \ xs
    <3>1. Ordered(order, val)
      BY <1>1 DEF Ordered
    <3>2. /\ Ordered(Cut(order, i, j), val)
          /\ Range(Cut(order, i, j)) = Range(order) \ {order[h] : h \in i .. j - 1}
      BY <2>3, <3>1, CutKeeps
    <3>. QED
      BY <2>1, <2>2, <3>2
  <2>5. /\ val' \in [Nodes -> V] /\ bucket' \in [Nodes -> Hashes]
    BY <1>1, <2>2, NoValueIs, KeyFacts
  <2>6. \A x \in Range(order') : /\ x \in Nodes /\ x \in Range(order)
                                 /\ val'[x] = val[x] /\ bucket'[x] = bucket[x]
    BY <1>1, <2>2, <2>4, RangeIs
  <2>7. SortedBy(order', val')
    <3>1. order' \in Seq(Nodes) /\ SortedBy(order', val)
      BY <2>4 DEF Ordered
    <3>2. \A h \in 1 .. Len(order') : order'[h] \in Range(order')
      BY <3>1, RangeIs
    <3>3. \A h \in 1 .. Len(order') : val'[order'[h]] = val[order'[h]]
      BY <2>6, <3>2
    <3>. QED
      BY <3>1, <3>3 DEF SortedBy
  <2>8. ASSUME ~inexact'
        PROVE  Keyed(order', val', bucket')
    <3>1. Keyed(order, val, bucket)
      BY <2>2, <2>8 DEF IndexInv
    <3>. QED
      BY <2>6, <3>1 DEF Keyed
  <2>. QED
    BY <1>1, <2>2, <2>4, <2>5, <2>7, <2>8 DEF IndexInv, Ordered
<1>. QED
  BY <1>2, <1>3

\* What IndexesAgree says follows.
LEMMA AgreeFromInv ==
    ASSUME IndexInv
    PROVE  IndexesAgree
<1>1. /\ order \in Seq(Nodes) /\ Once(order) /\ val \in [Nodes -> V] /\ SortedBy(order, val)
      /\ bucket \in [Nodes -> Hashes] /\ inexact \in BOOLEAN
  BY DEF IndexInv
<1>2. GetSize = Cardinality(Range(order))
  BY <1>1, OnceCounts DEF GetSize
<1>3. \A i, j \in DOMAIN order : i < j => ~Less(val[order[j]], val[order[i]])
  <2>1. DOMAIN order = 1 .. Len(order)
    BY <1>1
  <2>. QED
    BY <1>1, <2>1 DEF SortedBy
<1>4. ASSUME ~inexact, NEW x \in Range(order)
      PROVE  /\ Find(val[x]) = {x}
             /\ TryCopy(val[x], NoValue) = val[x]
             /\ \A y \in Range(order) \ {x} :
                   KeyEqual(val[x], val[y]) => KeyHash(val[x]) # KeyHash(val[y])
  <2>1. Keyed(order, val, bucket)
    BY <1>4 DEF IndexInv
  <2>2. x \in Nodes /\ val[x] \in V
    BY <1>1, RangeIs
  <2>3. bucket[x] = KeyHash(val[x]) /\ KeyEqual(val[x], val[x])
    BY <2>1, <2>2, KeyFacts DEF Keyed
  <2>4. ASSUME NEW y \in Range(order), y # x
        PROVE  /\ ~(bucket[y] = KeyHash(val[x]) /\ KeyEqual(val[y], val[x]))
               /\ KeyEqual(val[x], val[y]) => KeyHash(val[x]) # KeyHash(val[y])
    <3>1. y \in Range(order) \ {x} /\ x \in Range(order) \ {y}
      BY <2>4
    <3>2. bucket[y] = KeyHash(val[y])
      BY <2>1 DEF Keyed
    <3>3. KeyHash(val[y]) = KeyHash(val[x]) => ~KeyEqual(val[y], val[x])
      BY <2>1, <3>1 DEF Keyed
    <3>4. KeyHash(val[x]) = KeyHash(val[y]) => ~KeyEqual(val[x], val[y])
      BY <2>1, <3>1 DEF Keyed
    <3>. QED
      BY <3>2, <3>3, <3>4
  <2>5. Find(val[x]) = {x}
    BY <2>3, <2>4 DEF Find
  <2>6. TryCopy(val[x], NoValue) = val[x]
    <3>1. (CHOOSE y \in Find(val[x]) : TRUE) = x
      BY <2>5
    <3>. QED
      BY <2>5, <3>1 DEF TryCopy, Has
  <2>. QED
    BY <2>4, <2>5, <2>6
<1>. QED
  BY <1>2, <1>3, <1>4 DEF IndexesAgree

\* The values, times and prices that are passed in.
LEMMA InputTypes ==
    /\ Values \subseteq V /\ Times \subseteq Int /\ Prices \subseteq Int
    /\ \A v \in Values, p \in Prices : [v EXCEPT !.px = p] \in V
<1>1. Values \subseteq V
  BY BmicAssumption DEF V
<1>2. \A v \in V : v.ts \in Int /\ v.px \in Int
  BY DEF V
<1>3. Times \subseteq Int /\ Prices \subseteq Int
  BY <1>1, <1>2 DEF Times, Prices
<1>4. \A v \in V, p \in Int : [v EXCEPT !.px = p] \in V
  BY DEF V
<1>. QED
  BY <1>1, <1>3, <1>4

\* The values stored under the elements of a sequence.
LEMMA ImageIs ==
    ASSUME NEW o \in Seq(Nodes), NEW f
    PROVE  Range([i \in 1 .. Len(o) |-> f[o[i]]]) = {f[y] : y \in Range(o)}
<1>1. PICK n \in Nat : n = Len(o)
  BY LenProperties
<1>2. Range(o) = {o[i] : i \in 1 .. n}
  BY <1>1, RangeIs
<1>3. Range([i \in 1 .. n |-> f[o[i]]]) = {f[o[i]] : i \in 1 .. n}
  BY DEF Range
<1>. QED
  BY <1>1, <1>2, <1>3

\* Update stores its value or changes nothing.
LEMMA AllOrNothingKept ==
    ASSUME IndexInv, NEW v \in Values, NEW p \in Prices,
           UpdateBmic([v EXCEPT !.px = p], v)
    PROVE  AllOrNothing([v EXCEPT !.px = p], v)
<1>1. PICK key : key = [v EXCEPT !.px = p]
  OBVIOUS
<1>2. v \in V /\ key \in V /\ order \in Seq(Nodes)
  BY <1>1, InputTypes DEF IndexInv
<1>3. Stored = {val[y] : y \in Range(order)}
  BY <1>2, ImageIs DEF Stored, ForEach, GetSize
<1>4. CASE \E x \in Find(key) : Replaced(x, v)
  <2>1. PICK x \in Find(key) : Replaced(x, v)
    BY <1>4
  <2>2. x \in Range(order) /\ x \in Nodes
    BY <1>2, <2>1, FindIs
  <2>3. /\ IndexInv' /\ Range(order') = Range(order)
        /\ ~Replaceable(x, v) => UNCHANGED index /\ ~(Find(v) \subseteq {x})
        /\ Replaceable(x, v) =>
              val'[x] = v /\ \A y \in Nodes : y # x => val'[y] = val[y]
    BY <1>2, <2>1, <2>2, ReplacedIs
  <2>4. CASE ~Replaceable(x, v)
    <3>1. UNCHANGED index /\ Find(v) # {}
      BY <2>3, <2>4
    <3>. QED
      BY <1>1, <3>1 DEF AllOrNothing
  <2>5. CASE Replaceable(x, v)
    <3>1. order' \in Seq(Nodes)
      BY <2>3 DEF IndexInv
    <3>2. Stored' = {val'[y] : y \in Range(order')}
      BY <3>1, ImageIs DEF Stored, ForEach, GetSize
    <3>3. v \in Stored'
      BY <2>2, <2>3, <2>5, <3>2
    <3>4. PICK lost : lost = Stored \ Stored'
      OBVIOUS
    <3>5. lost \subseteq {val[x]}
      <4>1. \A y \in Range(order) : y \in Nodes
        BY <1>2, RangeIs
      <4>. QED
        BY <1>3, <2>3, <2>5, <3>2, <3>4, <4>1
    <3>6. Cardinality(lost) <= 1
      <4>1. lost = {} \/ lost = {val[x]}
        BY <3>5
      <4>2. Cardinality({}) = 0 /\ Cardinality({val[x]}) = 1
        BY FS_EmptySet, FS_Singleton
      <4>. QED
        BY <4>1, <4>2
    <3>7. lost \subseteq {val[y] : y \in Find(key)}
      BY <2>1, <3>5
    <3>. QED
      BY <1>1, <3>3, <3>4, <3>6, <3>7 DEF AllOrNothing
  <2>. QED
    BY <2>4, <2>5
<1>5. CASE ~(\E x \in Find(key) : Replaced(x, v))
  <2>1. Emplaced(v)
    BY <1>1, <1>5 DEF UpdateBmic
  <2>2. /\ IndexInv'
        /\ \/ UNCHANGED index /\ (Len(order) = Cardinality(Nodes) \/ Find(v) # {})
           \/ /\ v \in Stored' /\ \A y \in Range(order) : y \in Range(order') /\ val'[y] = val[y]
    BY <1>2, <2>1, EmplacedIs
  <2>3. CASE UNCHANGED index /\ (Len(order) = Cardinality(Nodes) \/ Find(v) # {})
    BY <1>1, <2>3 DEF AllOrNothing
  <2>4. CASE v \in Stored' /\ \A y \in Range(order) : y \in Range(order') /\ val'[y] = val[y]
    <3>1. order' \in Seq(Nodes)
      BY <2>2 DEF IndexInv
    <3>2. Stored' = {val'[y] : y \in Range(order')}
      BY <3>1, ImageIs DEF Stored, ForEach, GetSize
    <3>3. Stored \ Stored' = {}
      BY <1>3, <2>4, <3>2
    <3>4. Cardinality({}) <= 1
      BY FS_EmptySet
    <3>. QED
      BY <1>1, <2>4, <3>3, <3>4 DEF AllOrNothing
  <2>. QED
    BY <2>2, <2>3, <2>4
<1>. QED
  BY <1>4, <1>5

\* The types of the locals of UpdateRange; its iterator is on an element or behind
\* the last.
LoopTypes ==
    /\ mode \in {"idle", "range", "undefined"}
    /\ loop \in [key : Int, to : Int, iter : Nodes \cup {End}, stop : Nodes \cup {End}]
    /\ before \in [Nodes -> V] /\ visited \in Seq(Nodes)
    /\ mode = "range" =>
          /\ loop.iter = End => loop.stop = End
          /\ loop.iter # End => loop.iter \in Range(order)

\* The empty container satisfies the invariants.
LEMMA BmicInitTypes ==
    ASSUME BmicInit
    PROVE  IndexInv /\ LoopTypes
<1>. USE DEF BmicInit
<1>1. NoValues \in [Nodes -> V]
  BY NoValueIs DEF NoValues
<1>2. KeyHash(NoValue) \in Hashes
  BY NoValueIs, KeyFacts
<1>3. order \in Seq(Nodes) /\ Len(order) = 0 /\ Range(order) = {}
  <2>1. order \in Seq(Nodes) /\ Len(order) = 0
    OBVIOUS
  <2>2. Range(order) = {order[i] : i \in 1 .. Len(order)}
    BY <2>1, RangeIs
  <2>. QED
    BY <2>1, <2>2
<1>4. Once(order) /\ SortedBy(order, val) /\ Keyed(order, val, bucket)
  BY <1>3 DEF Once, SortedBy, Keyed
<1>5. IndexInv
  BY <1>1, <1>2, <1>3, <1>4 DEF IndexInv
<1>6. LoopTypes
  <2>1. loop \in [key : Int, to : Int, iter : Nodes \cup {End}, stop : Nodes \cup {End}]
    BY DEF Idle
  <2>2. mode = "idle" /\ visited \in Seq(Nodes)
    OBVIOUS
  <2>3. before \in [Nodes -> V]
    BY <1>1
  <2>. QED
    BY <2>1, <2>2, <2>3 DEF LoopTypes
<1>. QED
  BY <1>5, <1>6

\* A bound of a range.
LEMMA BoundIs ==
    ASSUME IndexInv, NEW t \in Int
    PROVE  /\ First(NotLess(t), order) \in 1 .. Len(order) + 1
           /\ \A i \in 1 .. Len(order) : i < First(NotLess(t), order) <=> val[order[i]].ts < t
           /\ First(Greater(t), order) \in 1 .. Len(order) + 1
           /\ \A i \in 1 .. Len(order) : i < First(Greater(t), order) <=> val[order[i]].ts <= t
<1>1. /\ order \in Seq(Nodes) /\ val \in [Nodes -> V] /\ SortedBy(order, val)
  BY DEF IndexInv
<1>2. PICK n \in Nat : n = Len(order)
  BY <1>1, LenProperties
<1>3. \A i \in 1 .. n : val[order[i]] \in V /\ val[order[i]].ts \in Int
  <2>1. \A i \in 1 .. n : val[order[i]] \in V
    BY <1>1, <1>2
  <2>. QED
    BY <2>1 DEF V
<1>4. \A i, j \in 1 .. n : i <= j => val[order[i]].ts <= val[order[j]].ts
  <2> SUFFICES ASSUME NEW i \in 1 .. n, NEW j \in 1 .. n, i < j
               PROVE  ~(val[order[j]].ts < val[order[i]].ts)
    BY <1>3
  <2>1. ~Less(val[order[j]], val[order[i]])
    BY <1>1, <1>2 DEF SortedBy
  <2>. QED
    BY <1>3, <2>1, LessOrder
<1>5. NotLess(t) = {i \in 1 .. n : val[order[i]].ts >= t} /\ Greater(t) = {i \in 1 .. n : val[order[i]].ts > t}
  BY <1>1, <1>2 DEF NotLess, Greater
<1>6. ASSUME NEW S \in SUBSET (1 .. n), \A i, j \in 1 .. n : i <= j /\ i \in S => j \in S
      PROVE  /\ First(S, order) \in 1 .. n + 1
             /\ \A i \in 1 .. n : i < First(S, order) <=> i \notin S
  <2>1. /\ First(S, order) \in 1 .. n + 1
        /\ \A i \in S : First(S, order) <= i
        /\ First(S, order) <= n => First(S, order) \in S
    BY <1>1, <1>2, FirstIs
  <2>2. ASSUME NEW i \in 1 .. n
        PROVE  i < First(S, order) <=> i \notin S
    <3>1. PICK k \in 1 .. n + 1 : k = First(S, order)
      BY <2>1
    <3>2. CASE i < k
      BY <2>1, <3>1, <3>2
    <3>3. CASE k <= i
      <4>1. k \in 1 .. n /\ k \in S
        BY <2>1, <3>1, <3>3
      <4>. QED
        BY <1>6, <3>1, <3>3, <4>1
    <3>. QED
      BY <3>1, <3>2, <3>3
  <2>. QED
    BY <2>1, <2>2
<1>7. PICK S \in SUBSET (1 .. n) : S = NotLess(t) /\ \A i \in 1 .. n : i \in S <=> val[order[i]].ts >= t
  BY <1>5
<1>8. PICK T \in SUBSET (1 .. n) : T = Greater(t) /\ \A i \in 1 .. n : i \in T <=> val[order[i]].ts > t
  BY <1>5
<1>9. /\ First(S, order) \in 1 .. n + 1
      /\ \A i \in 1 .. n : i < First(S, order) <=> i \notin S
  <2>1. \A i, j \in 1 .. n : i <= j /\ i \in S => j \in S
    BY <1>3, <1>4, <1>7
  <2>. QED
    BY <1>6, <2>1
<1>10. /\ First(T, order) \in 1 .. n + 1
       /\ \A i \in 1 .. n : i < First(T, order) <=> i \notin T
  <2>1. \A i, j \in 1 .. n : i <= j /\ i \in T => j \in T
    BY <1>3, <1>4, <1>8
  <2>. QED
    BY <1>6, <2>1
<1>11. \A i \in 1 .. n : i < First(S, order) <=> val[order[i]].ts < t
  BY <1>3, <1>7, <1>9
<1>12. \A i \in 1 .. n : i < First(T, order) <=> val[order[i]].ts <= t
  BY <1>3, <1>8, <1>10
<1>. QED
  BY <1>2, <1>7, <1>8, <1>9, <1>10, <1>11, <1>12

----------------------------------------------------------------------------
(* Bmic: the operations keep the indexes *)

\* Calls outside UpdateRange leave its locals alone.
LEMMA CallKeeps ==
    ASSUME LoopTypes, Call
    PROVE  LoopTypes'
  BY DEF LoopTypes, Call

\* Set keeps the invariant.
LEMMA SetKeeps ==
    ASSUME IndexInv, NEW v \in Values, Set(v)
    PROVE  IndexInv'
<1>1. v \in V
  BY InputTypes
<1>. QED
  BY <1>1, EmplacedIs DEF Set, SetBmic

\* Remove by the unique key keeps the invariant.
LEMMA RemoveKeyKeeps ==
    ASSUME IndexInv, NEW v \in Values, RemoveKey(v)
    PROVE  IndexInv'
<1>0. v \in V /\ order \in Seq(Nodes)
  BY InputTypes DEF IndexInv
<1>1. PICK x \in Find(v) : ErasedNode(x)
  BY DEF RemoveKey
<1>2. x \in Range(order)
  BY <1>0, <1>1, FindIs
<1>3. PICK i \in 1 .. Len(order) : i = Place(x, order)
  BY <1>0, <1>2, PlaceIs
<1>4. i \in 1 .. Len(order) + 1 /\ i + 1 \in 1 .. Len(order) + 1
  BY <1>0
<1>5. Erased(i, i + 1)
  BY <1>1, <1>3 DEF ErasedNode
<1>. QED
  BY <1>4, <1>5, ErasedIs

\* Remove by ts keeps the invariant.
LEMMA RemoveTimeKeeps ==
    ASSUME IndexInv, NEW t \in Times, RemoveTime(t)
    PROVE  IndexInv'
<1>1. PICK i : i = First(NotLess(t), order)
  OBVIOUS
<1>2. i \in DOMAIN order /\ Erased(i, i + 1)
  BY <1>1 DEF RemoveTime
<1>3. i \in 1 .. Len(order) + 1 /\ i + 1 \in 1 .. Len(order) + 1
  BY <1>2 DEF IndexInv
<1>. QED
  BY <1>2, <1>3, ErasedIs

\* RemoveRange keeps the invariant.
LEMMA RemoveRangeKeeps ==
    ASSUME IndexInv, NEW t \in Times, NEW u \in Times, RemoveRange(t, u)
    PROVE  IndexInv'
<1>1. PICK i, j : i = First(NotLess(t), order) /\ j = First(Greater(u), order)
  OBVIOUS
<1>2. i \in 1 .. Len(order) + 1 /\ j \in 1 .. Len(order) + 1
  BY <1>1, InputTypes, BoundIs
<1>3. Erased(i, j)
  BY <1>1 DEF RemoveRange, Between
<1>. QED
  BY <1>2, <1>3, ErasedIs

\* Update keeps the invariant.
LEMMA UpdateKeeps ==
    ASSUME IndexInv, NEW v \in Values, NEW p \in Prices, Update([v EXCEPT !.px = p], v)
    PROVE  IndexInv'
<1>1. PICK key : key = [v EXCEPT !.px = p]
  OBVIOUS
<1>2. v \in V /\ key \in V
  BY <1>1, InputTypes
<1>3. UpdateBmic(key, v)
  BY <1>1 DEF Update
<1>4. CASE \E x \in Find(key) : Replaced(x, v)
  <2>1. PICK x \in Find(key) : Replaced(x, v)
    BY <1>4
  <2>2. x \in Range(order)
    BY <1>2, <2>1, FindIs
  <2>. QED
    BY <1>2, <2>1, <2>2, ReplacedIs
<1>5. CASE Emplaced(v)
  BY <1>2, <1>5, EmplacedIs
<1>. QED
  BY <1>3, <1>4, <1>5 DEF UpdateBmic

\* Where a range begins and ends.
LEMMA NodeAtIs ==
    ASSUME IndexInv, NEW i \in 1 .. Len(order) + 1
    PROVE  \/ i = Len(order) + 1 /\ NodeAt(i) = End
           \/ i \in 1 .. Len(order) /\ NodeAt(i) = order[i] /\ NodeAt(i) \in Range(order)
<1>1. order \in Seq(Nodes)
  BY DEF IndexInv
<1>2. DOMAIN order = 1 .. Len(order) /\ Len(order) \in Nat
  BY <1>1
<1>. QED
  BY <1>1, <1>2, RangeIs DEF NodeAt

\* The bounds UpdateRange takes are in the container.
LEMMA RangeCallKeeps ==
    ASSUME IndexInv, LoopTypes, NEW t \in Times, NEW u \in Times, RangeCall(t, u)
    PROVE  IndexInv' /\ LoopTypes'
<1>1. order' = order /\ val' = val /\ bucket' = bucket /\ inexact' = inexact
  BY DEF RangeCall, index
<1>2. IndexInv'
  BY <1>1 DEF IndexInv
<1>3. t \in Int /\ u \in Int
  BY InputTypes
<1>4. PICK n \in Nat : n = Len(order)
  BY LenProperties DEF IndexInv
<1>5. PICK p, q \in 1 .. n + 1 :
         p = First(NotLess(t), order) /\ q = First(Greater(t), order) /\ p <= q
  <2>1. PICK p, q \in 1 .. n + 1 :
           /\ p = First(NotLess(t), order) /\ q = First(Greater(t), order)
           /\ \A i \in 1 .. n : i < p <=> val[order[i]].ts < t
           /\ \A i \in 1 .. n : i < q <=> val[order[i]].ts <= t
    BY <1>3, <1>4, BoundIs
  <2>2. \A i \in 1 .. n : val[order[i]].ts \in Int
    <3>1. \A i \in 1 .. n : val[order[i]] \in V
      BY <1>4 DEF IndexInv
    <3>. QED
      BY <3>1 DEF V
  <2>3. ASSUME q < p
        PROVE  FALSE
    <3>1. q \in 1 .. n
      BY <2>3
    <3>2. val[order[q]].ts < t /\ ~(val[order[q]].ts <= t)
      BY <2>1, <2>3, <3>1
    <3>. QED
      BY <1>3, <2>2, <3>1, <3>2
  <2>. QED
    BY <2>1, <2>3
<1>6. /\ mode' = "range" /\ before' = val /\ visited' = visited
      /\ loop' = [key |-> t, to |-> u, iter |-> NodeAt(p), stop |-> NodeAt(q)]
  BY <1>5 DEF RangeCall
<1>7. /\ NodeAt(p) \in Nodes \cup {End} /\ NodeAt(q) \in Nodes \cup {End}
      /\ NodeAt(p) # End => NodeAt(p) \in Range(order)
      /\ NodeAt(p) = End => NodeAt(q) = End
  <2>1. Range(order) \subseteq Nodes
    BY RangeIs DEF IndexInv
  <2>2. \/ p = n + 1 /\ NodeAt(p) = End
        \/ p \in 1 .. n /\ NodeAt(p) \in Range(order)
    BY <1>4, NodeAtIs
  <2>3. \/ q = n + 1 /\ NodeAt(q) = End
        \/ q \in 1 .. n /\ NodeAt(q) \in Range(order)
    BY <1>4, NodeAtIs
  <2>. QED
    BY <1>5, <2>1, <2>2, <2>3, BmicAssumption
<1>8. /\ loop' \in [key : Int, to : Int, iter : Nodes \cup {End}, stop : Nodes \cup {End}]
      /\ loop'.iter = NodeAt(p) /\ loop'.stop = NodeAt(q)
  BY <1>3, <1>6, <1>7
<1>9. before' \in [Nodes -> V] /\ visited' \in Seq(Nodes)
  BY <1>6 DEF IndexInv, LoopTypes
<1>10. LoopTypes'
  BY <1>1, <1>6, <1>7, <1>8, <1>9 DEF LoopTypes
<1>. QED
  BY <1>2, <1>10

\* What a round of the loop does.
LEMMA RangeStepIs ==
    ASSUME IndexInv, LoopTypes, RangeStep
    PROVE  \E x \in Range(order), w \in V :
              /\ x = loop.iter /\ w = Retimed(val[x], loop.to) /\ Replaced(x, w)
              /\ IndexInv' /\ Range(order') = Range(order) /\ Len(order') = Len(order)
              /\ \E k \in 1 .. Len(order) :
                    /\ order'[k] = x /\ k = Place(x, order')
                    /\ loop'.iter = IF k < Len(order) THEN order'[k + 1] ELSE End
<1>1. PICK x : x = loop.iter
  OBVIOUS
<1>2. x \in Range(order) /\ x \in Nodes
  <2>1. mode = "range" /\ x # loop.stop
    BY <1>1 DEF RangeStep
  <2>2. x \in Range(order)
    BY <1>1, <2>1 DEF LoopTypes
  <2>. QED
    BY <2>2, RangeIs DEF IndexInv
<1>3. val[x] \in V /\ loop.to \in Int
  BY <1>2 DEF IndexInv, LoopTypes
<1>4. PICK w \in V : w = Retimed(val[x], loop.to)
  BY <1>3, RetimedIs
<1>5. Replaced(x, w) /\ order' = Reordered(x, w)
  BY <1>1, <1>4 DEF RangeStep, Replaced
<1>6. IndexInv' /\ Range(order') = Range(order) /\ Len(order') = Len(order)
  BY <1>2, <1>5, ReplacedIs
<1>7. PICK k \in 1 .. Len(order) : k = Place(x, order') /\ order'[k] = x
  <2>1. order' \in Seq(Nodes) /\ x \in Range(order')
    BY <1>2, <1>6 DEF IndexInv
  <2>. QED
    BY <1>6, <2>1, PlaceIs
<1>8. loop'.iter = IF k < Len(order) THEN order'[k + 1] ELSE End
  <2>1. loop' = [loop EXCEPT !.iter = IF k < Len(order') THEN order'[k + 1] ELSE End]
    BY <1>1, <1>4, <1>5, <1>7 DEF RangeStep
  <2>2. loop \in [key : Int, to : Int, iter : Nodes \cup {End}, stop : Nodes \cup {End}]
    BY DEF LoopTypes
  <2>. QED
    BY <1>6, <2>1, <2>2
<1>. QED
  BY <1>1, <1>2, <1>4, <1>5, <1>6, <1>7, <1>8

\* A round keeps the invariant.
LEMMA RangeStepKeeps ==
    ASSUME IndexInv, LoopTypes, RangeStep
    PROVE  IndexInv' /\ LoopTypes'
<1>1. PICK x \in Range(order), w \in V :
         /\ x = loop.iter /\ IndexInv' /\ Range(order') = Range(order) /\ Len(order') = Len(order)
         /\ \E k \in 1 .. Len(order) :
               loop'.iter = IF k < Len(order) THEN order'[k + 1] ELSE End
  BY RangeStepIs
<1>2. loop'.iter = End \/ loop'.iter \in Range(order')
  <2>1. PICK k \in 1 .. Len(order) : loop'.iter = IF k < Len(order) THEN order'[k + 1] ELSE End
    BY <1>1
  <2>2. CASE k < Len(order)
    <3>1. k + 1 \in 1 .. Len(order') /\ order' \in Seq(Nodes)
      BY <1>1, <2>2 DEF IndexInv
    <3>. QED
      BY <2>1, <2>2, <3>1, RangeIs
  <2>3. CASE ~(k < Len(order))
    BY <2>1, <2>3
  <2>. QED
    BY <2>2, <2>3
<1>3. Range(order') \subseteq Nodes /\ Range(order) \subseteq Nodes
  BY <1>1, RangeIs DEF IndexInv
<1>4. loop \in [key : Int, to : Int, iter : Nodes \cup {End}, stop : Nodes \cup {End}]
  BY DEF LoopTypes
<1>5. loop' = [loop EXCEPT !.iter = loop'.iter]
  <2>1. \E y : loop' = [loop EXCEPT !.iter = y]
    BY DEF RangeStep
  <2>. QED
    BY <1>4, <2>1
<1>6. /\ loop' \in [key : Int, to : Int, iter : Nodes \cup {End}, stop : Nodes \cup {End}]
      /\ loop'.stop = loop.stop
  BY <1>2, <1>3, <1>4, <1>5
<1>7. visited' \in Seq(Nodes)
  <2>1. visited' = Append(visited, x) /\ visited \in Seq(Nodes) /\ x \in Nodes
    BY <1>1, <1>3 DEF RangeStep, LoopTypes
  <2>. QED
    BY <2>1
<1>8. /\ before' \in [Nodes -> V] /\ mode = "range"
      /\ mode' = IF loop'.iter = End /\ loop.stop # End THEN "undefined" ELSE mode
  BY DEF RangeStep, LoopTypes
<1>9. LoopTypes'
  BY <1>2, <1>6, <1>7, <1>8 DEF LoopTypes
<1>. QED
  BY <1>1, <1>9

\* The return of UpdateRange keeps the invariant.
LEMMA RangeReturnKeeps ==
    ASSUME IndexInv, LoopTypes, RangeReturn
    PROVE  IndexInv' /\ LoopTypes'
<1>1. order' = order /\ val' = val /\ bucket' = bucket /\ inexact' = inexact
  BY DEF RangeReturn, index
<1>2. IndexInv'
  BY <1>1 DEF IndexInv
<1>3. NoValues \in [Nodes -> V]
  BY NoValueIs DEF NoValues
<1>4. Idle \in [key : Int, to : Int, iter : Nodes \cup {End}, stop : Nodes \cup {End}]
  BY DEF Idle
<1>5. mode' = "idle" /\ loop' = Idle /\ before' = NoValues /\ visited' \in Seq(Nodes)
  BY DEF RangeReturn
<1>6. LoopTypes'
  BY <1>3, <1>4, <1>5 DEF LoopTypes
<1>. QED
  BY <1>2, <1>6

\* Every step keeps the invariants of the indexes and of the locals.
LEMMA BmicStepKeeps ==
    ASSUME IndexInv, LoopTypes, [BmicNext]_bmicVars
    PROVE  IndexInv' /\ LoopTypes'
<1>1. ASSUME NEW v \in Values, Set(v) \/ RemoveKey(v)
      PROVE  IndexInv' /\ LoopTypes'
  <2>1. Call
    BY <1>1 DEF Set, RemoveKey
  <2>. QED
    BY <1>1, <2>1, CallKeeps, SetKeeps, RemoveKeyKeeps
<1>2. ASSUME NEW v \in Values, NEW p \in Prices, Update([v EXCEPT !.px = p], v)
      PROVE  IndexInv' /\ LoopTypes'
  <2>1. Call
    BY <1>2 DEF Update
  <2>. QED
    BY <1>2, <2>1, CallKeeps, UpdateKeeps
<1>3. ASSUME NEW t \in Times, RemoveTime(t)
      PROVE  IndexInv' /\ LoopTypes'
  <2>1. Call
    BY <1>3 DEF RemoveTime
  <2>. QED
    BY <1>3, <2>1, CallKeeps, RemoveTimeKeeps
<1>4. ASSUME NEW t \in Times, NEW u \in Times, RemoveRange(t, u)
      PROVE  IndexInv' /\ LoopTypes'
  <2>1. Call
    BY <1>4 DEF RemoveRange
  <2>. QED
    BY <1>4, <2>1, CallKeeps, RemoveRangeKeeps
<1>5. ASSUME NEW t \in Times, NEW u \in Times, RangeCall(t, u)
      PROVE  IndexInv' /\ LoopTypes'
  BY <1>5, RangeCallKeeps
<1>6. CASE RangeStep
  BY <1>6, RangeStepKeeps
<1>7. CASE RangeReturn
  BY <1>7, RangeReturnKeeps
<1>8. CASE UNCHANGED bmicVars
  BY <1>8 DEF bmicVars, index, IndexInv, LoopTypes
<1>. QED
  BY <1>1, <1>2, <1>3, <1>4, <1>5, <1>6, <1>7, <1>8 DEF BmicNext

\* Set, Remove, RemoveRange, Update and UpdateRange of zrt_bmic.h keep the ordered
\* index sorted and without a node twice, and each element found by its own key and
\* by no other's, for any nodes, values, members and Epsilon, until a replace goes
\* by nearness.
THEOREM BmicIndexesAgree == BmicSpec => []IndexesAgree
<1>1. BmicInit => IndexInv /\ LoopTypes
  BY BmicInitTypes
<1>2. IndexInv /\ LoopTypes /\ [BmicNext]_bmicVars => (IndexInv /\ LoopTypes)'
  BY BmicStepKeeps
<1>3. IndexInv => IndexesAgree
  BY AgreeFromInv
<1>. QED
  BY <1>1, <1>2, <1>3, PTL DEF BmicSpec

\* Update of zrt_bmic.h stores its value in place of at most the element it was asked
\* for, or changes nothing as the key is taken or no node is left.
THEOREM BmicUpdateAllOrNothing == BmicSpec => UpdateAllOrNothing
<1>1. BmicInit => IndexInv /\ LoopTypes
  BY BmicInitTypes
<1>2. IndexInv /\ LoopTypes /\ [BmicNext]_bmicVars => (IndexInv /\ LoopTypes)'
  BY BmicStepKeeps
<1>3. IndexInv =>
        \A v \in Values, p \in Prices :
           LET key == [v EXCEPT !.px = p] IN Update(key, v) => AllOrNothing(key, v)
  BY AllOrNothingKept DEF Update
<1>. QED
  BY <1>1, <1>2, <1>3, PTL DEF BmicSpec, UpdateAllOrNothing

----------------------------------------------------------------------------
(* Bmic: a round of UpdateRange *)

\* Elements with the key t, or between u and t, in the values b before the call.
Near(b, t, u, z) == b[z].ts = t \/ (u < b[z].ts /\ b[z].ts < t)
\* The elements the loop may come to: those, and elements at u it moves others past.
Walked(R, b, t, u, z) ==
    \/ Near(b, t, u, z)
    \/ b[z].ts = u /\ \E x \in R : Near(b, t, u, x) /\ Less(Retimed(b[x], u), b[z])

\* The elements before q are those not later than t.
Bounded(o, f, t, q) == \A h \in 1 .. Len(o) : h < q <=> f[o[h]].ts <= t
\* An element has its value from before the call, or has been given u.
Old(o, f, b, s, t, u) ==
    \A h \in 1 .. Len(o) :
        \/ f[o[h]] = b[o[h]]
        \/ f[o[h]] = Retimed(b[o[h]], u) /\ Near(b, t, u, o[h]) /\ o[h] \in s
\* The elements with key t that the loop has gone past were updated.
Seen(o, b, s, t, p) == \A h \in 1 .. Len(o) : h < p /\ b[o[h]].ts = t => o[h] \in s
\* The loop has come to no elements but those it may come to, and will come to none.
Inside(o, b, s, t, u, p, q) ==
    /\ s \subseteq Range(o) /\ \A z \in s : Walked(Range(o), b, t, u, z)
    /\ \A h \in p .. q - 1 : Walked(Range(o), b, t, u, o[h])
    /\ s = {} => \A h \in p .. q - 1 : b[o[h]].ts = t
    /\ s # {} => \E z \in Range(o) : b[z].ts = t
\* When the loop refuses nothing: the elements before e are those not later than u,
\* which p has not passed after the first round; of those before p only elements are
\* left out that nothing was moved past; and the rounds are counted.
Counted(o, f, b, s, m, t, u, p, e) ==
    /\ \A h \in 1 .. Len(o) : h < e <=> f[o[h]].ts <= u
    /\ s # {} =>
          /\ p <= e
          /\ \A h \in 1 .. p - 1 : o[h] \notin s =>
                \A x \in s : Near(b, t, u, x) => ~Less(Retimed(b[x], u), f[o[h]])
          /\ 2 * m <= e * (e - 1) + 2 * (p - e)

\* The place from which came what is at h, when the element at p went to k.
Came(h, k, p) == IF h < k THEN h ELSE IF h = k THEN p ELSE IF h <= p THEN h - 1 ELSE h

\* What the lemmas about a round start from.
Context(o, f, b, t, u) ==
    /\ Ordered(o, f) /\ b \in [Nodes -> V]
    /\ t \in Int /\ u \in Int /\ u <= t

\* A round of the loop: the element at p goes to k, or, refused, stays.
Accepted(o, f, g, u, p, k) ==
    /\ g[o[p]] = Retimed(f[o[p]], u) /\ \A y \in Nodes : y # o[p] => g[y] = f[y]
    /\ \A h \in 1 .. k - 1 : ~Less(Retimed(f[o[p]], u), f[o[h]])
Round(o, f, c, g, u, p, k) ==
    /\ p \in 1 .. Len(o) /\ k \in 1 .. p
    /\ c \in Seq(Nodes) /\ Len(c) = Len(o) /\ Range(c) = Range(o)
    /\ \A h \in 1 .. Len(o) : c[h] = o[Came(h, k, p)]
    /\ \A h \in k .. p - 1 : Less(Retimed(f[o[p]], u), f[o[h]])
    /\ g = f \/ Accepted(o, f, g, u, p, k)

\* The types of the elements and of their values.
LEMMA ContextIs ==
    ASSUME NEW o, NEW f, NEW b, NEW t, NEW u, Context(o, f, b, t, u)
    PROVE  /\ o \in Seq(Nodes) /\ Len(o) \in Nat /\ Once(o) /\ SortedBy(o, f)
           /\ \A h \in 1 .. Len(o) :
                 /\ o[h] \in Nodes /\ o[h] \in Range(o)
                 /\ f[o[h]] \in V /\ b[o[h]] \in V /\ f[o[h]].ts \in Int /\ b[o[h]].ts \in Int
           /\ t \in Int /\ u \in Int /\ u <= t
<1>1. /\ o \in Seq(Nodes) /\ Once(o) /\ SortedBy(o, f) /\ f \in [Nodes -> V] /\ b \in [Nodes -> V]
      /\ t \in Int /\ u \in Int /\ u <= t
  BY DEF Context, Ordered
<1>2. Len(o) \in Nat
  BY <1>1, LenProperties
<1>3. \A h \in 1 .. Len(o) : o[h] \in Nodes /\ o[h] \in Range(o)
  BY <1>1, RangeIs
<1>4. \A v \in V : v.ts \in Int
  BY DEF V
<1>. QED
  BY <1>1, <1>2, <1>3, <1>4

\* What Came says of places.
LEMMA CameIs ==
    ASSUME NEW n \in Nat, NEW p \in 1 .. n, NEW k \in 1 .. p, NEW h \in 1 .. n
    PROVE  /\ Came(h, k, p) \in 1 .. n
           /\ Came(h, k, p) = p <=> h = k
           /\ h < k => Came(h, k, p) = h
           /\ k < h /\ h <= p => Came(h, k, p) = h - 1 /\ Came(h, k, p) \in k .. p - 1
           /\ p < h => Came(h, k, p) = h
<1>1. n \in Nat /\ p \in Int /\ k \in Int /\ h \in Int /\ 1 <= k /\ k <= p /\ p <= n /\ 1 <= h /\ h <= n
  OBVIOUS
<1>2. PICK i : i = Came(h, k, p)
  OBVIOUS
<1>3. CASE h < k
  BY <1>1, <1>2, <1>3 DEF Came
<1>4. CASE h = k
  BY <1>1, <1>2, <1>4 DEF Came
<1>5. CASE k < h /\ h <= p
  <2>1. i = h - 1
    BY <1>1, <1>2, <1>5 DEF Came
  <2>. QED
    BY <1>1, <1>2, <1>5, <2>1
<1>6. CASE p < h
  <2>1. i = h
    BY <1>1, <1>2, <1>6 DEF Came
  <2>. QED
    BY <1>1, <1>2, <1>6, <2>1
<1>. QED
  BY <1>1, <1>3, <1>4, <1>5, <1>6

\* The elements after a round.
LEMMA RoundIs ==
    ASSUME NEW o, NEW f, NEW b, NEW t, NEW u, Context(o, f, b, t, u),
           NEW c, NEW g, NEW p, NEW k, Round(o, f, c, g, u, p, k)
    PROVE  /\ p \in 1 .. Len(o) /\ k \in 1 .. p /\ k \in 1 .. Len(o) /\ Len(c) = Len(o)
           /\ c[k] = o[p]
           /\ \A h \in 1 .. Len(o) : h # k =>
                 /\ c[h] = o[Came(h, k, p)] /\ Came(h, k, p) \in 1 .. Len(o)
                 /\ c[h] # o[p] /\ g[c[h]] = f[o[Came(h, k, p)]]
<1>1. PICK n \in Nat : n = Len(o)
  BY ContextIs
<1>2. p \in 1 .. n /\ k \in 1 .. p /\ k \in 1 .. n /\ Len(c) = n
  BY <1>1 DEF Round
<1>3. c[k] = o[p]
  <2>1. Came(k, k, p) = p
    BY <1>1, <1>2, CameIs
  <2>2. c[k] = o[Came(k, k, p)]
    BY <1>1, <1>2 DEF Round
  <2>. QED
    BY <2>1, <2>2
<1>4. ASSUME NEW h \in 1 .. n, h # k
      PROVE  /\ c[h] = o[Came(h, k, p)] /\ Came(h, k, p) \in 1 .. n
             /\ c[h] # o[p] /\ g[c[h]] = f[o[Came(h, k, p)]]
  <2>1. PICK i : i = Came(h, k, p)
    OBVIOUS
  <2>2. i \in 1 .. n /\ i # p
    BY <1>2, <1>4, <2>1, CameIs
  <2>3. c[h] = o[i]
    BY <1>1, <2>1 DEF Round
  <2>4. o[i] # o[p] /\ o[i] \in Nodes
    <3>1. Once(o)
      BY ContextIs
    <3>2. o[i] \in Nodes
      BY <1>1, <2>2, ContextIs
    <3>. QED
      BY <1>1, <1>2, <2>2, <3>1, <3>2 DEF Once
  <2>5. g = f \/ g[o[i]] = f[o[i]]
    BY <2>4 DEF Round, Accepted
  <2>. QED
    BY <2>1, <2>2, <2>3, <2>4, <2>5
<1>. QED
  BY <1>1, <1>2, <1>3, <1>4

\* A round keeps the bound before which the elements are not later than t.
LEMMA BoundedKept ==
    ASSUME NEW o, NEW f, NEW b, NEW t, NEW u, Context(o, f, b, t, u),
           NEW c, NEW g, NEW p, NEW k, Round(o, f, c, g, u, p, k),
           NEW q \in Nat, p < q, Bounded(o, f, t, q)
    PROVE  Bounded(c, g, t, q)
<1>1. PICK n \in Nat : n = Len(o)
  BY ContextIs
<1>2. p \in 1 .. n /\ k \in 1 .. p /\ k \in 1 .. n /\ Len(c) = n /\ c[k] = o[p]
  BY <1>1, RoundIs
<1>3. g[c[k]].ts <= t /\ k < q
  <2>1. f[o[p]].ts <= t
    BY <1>1, <1>2 DEF Bounded
  <2>2. g = f \/ g[o[p]] = Retimed(f[o[p]], u)
    BY DEF Round, Accepted
  <2>3. f[o[p]] \in V /\ u \in Int /\ u <= t
    BY <1>1, <1>2, ContextIs
  <2>4. Retimed(f[o[p]], u).ts = u
    BY <2>3, RetimedIs
  <2>. QED
    BY <1>2, <2>1, <2>2, <2>3, <2>4
<1>. SUFFICES ASSUME NEW h \in 1 .. n, h # k
              PROVE  h < q <=> g[c[h]].ts <= t
  BY <1>2, <1>3 DEF Bounded
<1>4. PICK i \in 1 .. n : i = Came(h, k, p) /\ g[c[h]] = f[o[i]]
  BY <1>1, RoundIs
<1>5. h < q <=> i < q
  <2>1. \/ h < k /\ i = h
        \/ h <= p /\ i <= p
        \/ p < h /\ i = h
    BY <1>2, <1>4 DEF Came
  <2>. QED
    BY <1>2, <1>4, <2>1
<1>. QED
  BY <1>1, <1>4, <1>5 DEF Bounded

\* The element that is updated.
LEMMA UpdatedIs ==
    ASSUME NEW o, NEW f, NEW b, NEW t, NEW u, Context(o, f, b, t, u),
           NEW s, Old(o, f, b, s, t, u),
           NEW p \in 1 .. Len(o), Walked(Range(o), b, t, u, o[p])
    PROVE  /\ Retimed(f[o[p]], u) = Retimed(b[o[p]], u)
           /\ Retimed(f[o[p]], u) \in V /\ Retimed(f[o[p]], u).ts = u
           /\ u <= f[o[p]].ts
           /\ f[o[p]].ts <= u => Retimed(f[o[p]], u) = f[o[p]]
           /\ Near(b, t, u, o[p]) \/ (Retimed(f[o[p]], u) = f[o[p]] /\ f[o[p]] = b[o[p]])
<1>1. /\ f[o[p]] \in V /\ b[o[p]] \in V /\ f[o[p]].ts \in Int /\ b[o[p]].ts \in Int
      /\ t \in Int /\ u \in Int /\ u <= t
  BY ContextIs
<1>2. /\ Retimed(f[o[p]], u) \in V /\ Retimed(f[o[p]], u).ts = u
      /\ Retimed(b[o[p]], u).ts = u
      /\ Retimed(Retimed(b[o[p]], u), u) = Retimed(b[o[p]], u)
      /\ f[o[p]].ts = u => Retimed(f[o[p]], u) = f[o[p]]
  BY <1>1, RetimedIs
<1>3. f[o[p]] = b[o[p]] \/ (f[o[p]] = Retimed(b[o[p]], u) /\ Near(b, t, u, o[p]))
  BY DEF Old
<1>4. Near(b, t, u, o[p]) \/ b[o[p]].ts = u
  BY DEF Walked
<1>5. Retimed(f[o[p]], u) = Retimed(b[o[p]], u)
  BY <1>2, <1>3
<1>6. u <= f[o[p]].ts
  <2>1. u <= b[o[p]].ts
    BY <1>1, <1>4 DEF Near
  <2>. QED
    BY <1>1, <1>2, <1>3, <2>1
<1>7. Near(b, t, u, o[p]) \/ (Retimed(f[o[p]], u) = f[o[p]] /\ f[o[p]] = b[o[p]])
  <2>1. CASE ~Near(b, t, u, o[p])
    <3>1. f[o[p]] = b[o[p]] /\ f[o[p]].ts = u
      BY <1>3, <1>4, <2>1
    <3>. QED
      BY <1>2, <3>1
  <2>. QED
    BY <2>1
<1>. QED
  BY <1>1, <1>2, <1>5, <1>6, <1>7

\* After a round too an element has its old value or has been given u.
LEMMA OldKept ==
    ASSUME NEW o, NEW f, NEW b, NEW t, NEW u, Context(o, f, b, t, u),
           NEW c, NEW g, NEW p, NEW k, Round(o, f, c, g, u, p, k),
           NEW s, Old(o, f, b, s, t, u), Walked(Range(o), b, t, u, o[p])
    PROVE  Old(c, g, b, s \cup {o[p]}, t, u)
<1>1. PICK n \in Nat : n = Len(o)
  BY ContextIs
<1>2. p \in 1 .. n /\ k \in 1 .. p /\ k \in 1 .. n /\ Len(c) = n /\ c[k] = o[p]
  BY <1>1, RoundIs
<1>. SUFFICES ASSUME NEW h \in 1 .. n
              PROVE  \/ g[c[h]] = b[c[h]]
                     \/ /\ g[c[h]] = Retimed(b[c[h]], u)
                        /\ Near(b, t, u, c[h]) /\ c[h] \in s \cup {o[p]}
  BY <1>2 DEF Old
<1>3. CASE h = k
  <2>1. g = f \/ g[o[p]] = Retimed(f[o[p]], u)
    BY DEF Round, Accepted
  <2>2. f[o[p]] = b[o[p]] \/ (f[o[p]] = Retimed(b[o[p]], u) /\ Near(b, t, u, o[p]))
    BY <1>1, <1>2 DEF Old
  <2>3. /\ Retimed(f[o[p]], u) = Retimed(b[o[p]], u)
        /\ Near(b, t, u, o[p]) \/ (Retimed(f[o[p]], u) = f[o[p]] /\ f[o[p]] = b[o[p]])
    BY <1>1, <1>2, UpdatedIs
  <2>. QED
    BY <1>2, <1>3, <2>1, <2>2, <2>3
<1>4. CASE h # k
  <2>1. PICK i \in 1 .. n : c[h] = o[i] /\ g[c[h]] = f[o[i]]
    BY <1>1, <1>4, RoundIs
  <2>. QED
    BY <1>1, <2>1 DEF Old
<1>. QED
  BY <1>3, <1>4

\* After a round the loop has gone past no element with key t it has not updated.
LEMMA SeenKept ==
    ASSUME NEW o, NEW f, NEW b, NEW t, NEW u, Context(o, f, b, t, u),
           NEW c, NEW g, NEW p, NEW k, Round(o, f, c, g, u, p, k),
           NEW s, Seen(o, b, s, t, p)
    PROVE  Seen(c, b, s \cup {o[p]}, t, k + 1)
<1>1. PICK n \in Nat : n = Len(o)
  BY ContextIs
<1>2. p \in 1 .. n /\ k \in 1 .. p /\ k \in 1 .. n /\ Len(c) = n /\ c[k] = o[p]
  BY <1>1, RoundIs
<1>. SUFFICES ASSUME NEW h \in 1 .. n, h < k + 1, b[c[h]].ts = t
              PROVE  c[h] \in s \cup {o[p]}
  BY <1>2 DEF Seen
<1>3. CASE h = k
  BY <1>2, <1>3
<1>4. CASE h # k
  <2>1. h < k /\ h < p
    BY <1>2, <1>4
  <2>2. c[h] = o[Came(h, k, p)]
    BY <1>1, <1>4, RoundIs
  <2>3. Came(h, k, p) = h
    BY <1>2, <2>1, CameIs
  <2>. QED
    BY <1>1, <2>1, <2>2, <2>3 DEF Seen
<1>. QED
  BY <1>3, <1>4

\* A round comes to none but the elements it may come to: what the element is moved
\* past, and the loop walks over again, is among them.
LEMMA InsideKept ==
    ASSUME NEW o, NEW f, NEW b, NEW t, NEW u, Context(o, f, b, t, u),
           NEW c, NEW g, NEW p, NEW k, Round(o, f, c, g, u, p, k),
           NEW q \in 1 .. Len(o) + 1, p < q, Bounded(o, f, t, q),
           NEW s, Old(o, f, b, s, t, u), Inside(o, b, s, t, u, p, q)
    PROVE  Inside(c, b, s \cup {o[p]}, t, u, k + 1, q)
<1>1. PICK n \in Nat : n = Len(o)
  BY ContextIs
<1>2. /\ p \in 1 .. n /\ k \in 1 .. p /\ k \in 1 .. n /\ q \in 1 .. n + 1
      /\ Len(c) = n /\ c[k] = o[p] /\ Range(c) = Range(o)
  <2>1. p \in 1 .. n /\ k \in 1 .. p /\ k \in 1 .. n /\ Len(c) = n /\ c[k] = o[p]
    BY <1>1, RoundIs
  <2>2. q \in 1 .. n + 1 /\ Range(c) = Range(o)
    BY <1>1 DEF Round
  <2>. QED
    BY <2>1, <2>2
<1>3. o[p] \in Range(o) /\ Walked(Range(o), b, t, u, o[p])
  <2>1. p \in p .. q - 1
    BY <1>2
  <2>. QED
    BY <1>1, <1>2, <2>1, ContextIs DEF Inside
<1>4. s \cup {o[p]} \subseteq Range(o) /\ \A z \in s \cup {o[p]} : Walked(Range(o), b, t, u, z)
  BY <1>3 DEF Inside
<1>5. \E z \in Range(o) : b[z].ts = t
  <2>1. CASE s = {}
    <3>1. p \in p .. q - 1
      BY <1>2
    <3>2. b[o[p]].ts = t
      BY <2>1, <3>1 DEF Inside
    <3>. QED
      BY <1>3, <3>2
  <2>. QED
    BY <2>1 DEF Inside
<1>6. ASSUME NEW i \in k .. p - 1
      PROVE  Walked(Range(o), b, t, u, o[i])
  <2>1. i \in 1 .. n /\ i < p /\ i < q
    BY <1>2
  <2>2. Less(Retimed(f[o[p]], u), f[o[i]])
    BY DEF Round
  <2>3. /\ f[o[i]] \in V /\ b[o[i]] \in V /\ f[o[i]].ts \in Int /\ f[o[p]] \in V
        /\ t \in Int /\ u \in Int /\ SortedBy(o, f)
    BY <1>1, <1>2, <2>1, ContextIs
  <2>4. /\ Retimed(f[o[p]], u) = Retimed(b[o[p]], u)
        /\ Retimed(f[o[p]], u) \in V /\ Retimed(f[o[p]], u).ts = u
        /\ Near(b, t, u, o[p]) \/ Retimed(f[o[p]], u) = f[o[p]]
    BY <1>1, <1>2, <1>3, UpdatedIs
  <2>5. f[o[i]].ts <= t /\ u <= f[o[i]].ts
    <3>1. f[o[i]].ts <= t
      BY <1>1, <2>1 DEF Bounded
    <3>2. u <= f[o[i]].ts
      BY <2>2, <2>3, <2>4, LessOrder
    <3>. QED
      BY <3>1, <3>2
  <2>6. Near(b, t, u, o[p])
    <3>1. ~Less(f[o[p]], f[o[i]])
      BY <1>1, <1>2, <2>1, <2>3 DEF SortedBy
    <3>. QED
      BY <2>2, <2>4, <3>1
  <2>7. CASE Near(b, t, u, o[i])
    BY <2>7 DEF Walked
  <2>8. CASE ~Near(b, t, u, o[i])
    <3>1. f[o[i]] = b[o[i]]
      BY <1>1, <2>1, <2>8 DEF Old
    <3>2. b[o[i]].ts = u
      BY <2>3, <2>5, <2>8, <3>1 DEF Near
    <3>3. Less(Retimed(b[o[p]], u), b[o[i]])
      BY <2>2, <2>4, <3>1
    <3>. QED
      BY <1>3, <2>6, <3>2, <3>3 DEF Walked
  <2>. QED
    BY <2>7, <2>8
<1>7. ASSUME NEW h \in k + 1 .. q - 1
      PROVE  Walked(Range(o), b, t, u, c[h])
  <2>1. h \in 1 .. n /\ h # k /\ k < h
    BY <1>2
  <2>2. c[h] = o[Came(h, k, p)]
    BY <1>1, <2>1, RoundIs
  <2>3. CASE h <= p
    <3>1. Came(h, k, p) \in k .. p - 1
      BY <1>2, <2>1, <2>3, CameIs
    <3>. QED
      BY <1>6, <2>2, <3>1
  <2>4. CASE p < h
    <3>1. Came(h, k, p) = h
      BY <1>2, <2>1, <2>4, CameIs
    <3>2. h \in p .. q - 1
      BY <1>2, <2>1, <2>4
    <3>. QED
      BY <2>2, <3>1, <3>2 DEF Inside
  <2>. QED
    BY <1>2, <2>1, <2>3, <2>4
<1>. QED
  BY <1>2, <1>4, <1>5, <1>7 DEF Inside

\* Arithmetic of the bound on the rounds.
LEMMA RoundsSum ==
    ASSUME NEW m \in Nat, NEW e \in Nat \ {0}, NEW p \in Nat, NEW k \in Nat \ {0}
    PROVE  /\ 2 * m <= e * (e - 1) + 2 * (p - e) =>
                 /\ 2 * (m + 1) <= e * (e - 1) + 2 * (p + 1 - e)
                 /\ p <= e => 2 * (m + 1) <= (e + 1) * ((e + 1) - 1) + 2 * (k + 1 - (e + 1))
           /\ k < e => 2 * (0 + 1) <= e * (e - 1) + 2 * (k + 1 - e)
           /\ 2 * (0 + 1) <= (e + 1) * ((e + 1) - 1) + 2 * (k + 1 - (e + 1))
           /\ \A n \in Nat : p <= e /\ e <= n + 1 => e * (e - 1) + 2 * (p - e) <= n * (n + 1)
<1>1. PICK w \in Int : w = e * (e - 1)
  OBVIOUS
<1>2. (e + 1) * ((e + 1) - 1) = w + 2 * e
  BY <1>1
<1>3. w >= 0 /\ (e >= 2 => w >= 2 * (e - 1))
  <2>1. PICK d \in Nat : d = e - 1
    OBVIOUS
  <2>2. w = (d + 1) * d
    BY <1>1, <2>1
  <2>3. d * d >= 0 /\ (d >= 1 => d * d >= d)
    OBVIOUS
  <2>4. w = d * d + d
    BY <2>2
  <2>. QED
    BY <2>1, <2>3, <2>4
<1>4. ASSUME NEW n \in Nat, p <= e, e <= n + 1
      PROVE  w + 2 * (p - e) <= n * (n + 1)
  <2>1. PICK d \in Nat, r \in Nat : d = e - 1 /\ r = n - d
    BY <1>4
  <2>2. n = d + r /\ w = (d + 1) * d
    BY <1>1, <2>1
  <2>3. n * (n + 1) = (d + 1) * d + r * (2 * d + r + 1)
    BY <2>2
  <2>4. r * (2 * d + r + 1) >= 0
    OBVIOUS
  <2>5. PICK z \in Int : z = r * (2 * d + r + 1)
    OBVIOUS
  <2>6. n * (n + 1) = w + z /\ z >= 0
    BY <2>2, <2>3, <2>4, <2>5
  <2>. QED
    BY <1>4, <2>6
<1>. QED
  BY <1>1, <1>2, <1>3, <1>4

\* Where the elements end that have the new ts or an earlier one.
EarlierEnd(o, f, u, p, e) == IF f[o[p]].ts <= u THEN e ELSE e + 1

\* An element later than u is moved to, or already at, a place not behind the end of
\* those that are not; one not later stays.
LEMMA CountedPlaces ==
    ASSUME NEW o, NEW f, NEW b, NEW t, NEW u, Context(o, f, b, t, u),
           NEW c, NEW g, NEW p, NEW k, Round(o, f, c, g, u, p, k),
           Accepted(o, f, g, u, p, k),
           NEW s, Old(o, f, b, s, t, u), Walked(Range(o), b, t, u, o[p]),
           NEW e \in 1 .. Len(o) + 1,
           \A h \in 1 .. Len(o) : h < e <=> f[o[h]].ts <= u
    PROVE  /\ f[o[p]].ts <= u => k = p /\ p < e
           /\ ~(f[o[p]].ts <= u) => e <= p /\ k <= e
           /\ EarlierEnd(o, f, u, p, e) \in 1 .. Len(o) + 1
           /\ k + 1 <= EarlierEnd(o, f, u, p, e)
           /\ \A h \in 1 .. Len(o) : h < EarlierEnd(o, f, u, p, e) <=> g[c[h]].ts <= u
<1>1. PICK n \in Nat : n = Len(o)
  BY ContextIs
<1>2. /\ p \in 1 .. n /\ k \in 1 .. p /\ k \in 1 .. n /\ Len(c) = n /\ c[k] = o[p]
      /\ e \in 1 .. n + 1
  BY <1>1, RoundIs
<1>3. PICK d : d = EarlierEnd(o, f, u, p, e)
  OBVIOUS
<1>4. /\ SortedBy(o, f) /\ u \in Int
      /\ \A h \in 1 .. n : f[o[h]] \in V /\ f[o[h]].ts \in Int
  BY <1>1, ContextIs
<1>5. PICK v : v = Retimed(f[o[p]], u)
  OBVIOUS
<1>6. v \in V /\ v.ts = u /\ (f[o[p]].ts <= u => v = f[o[p]])
  BY <1>1, <1>2, <1>5, UpdatedIs
<1>7. \A h \in k .. p - 1 : Less(v, f[o[h]])
  BY <1>5 DEF Round
<1>8. g[c[k]].ts = u /\ \A h \in 1 .. k - 1 : ~Less(v, f[o[h]])
  BY <1>2, <1>5, <1>6 DEF Accepted
<1>9. \A h \in 1 .. n : h < e <=> f[o[h]].ts <= u
  BY <1>1
<1>10. ASSUME f[o[p]].ts <= u
       PROVE  k = p /\ p < e
  <2>1. p < e
    BY <1>2, <1>9, <1>10
  <2>2. ASSUME k < p
        PROVE  FALSE
    <3>1. k \in k .. p - 1
      BY <1>2, <2>2
    <3>2. Less(f[o[p]], f[o[k]])
      BY <1>6, <1>7, <1>10, <3>1
    <3>3. ~Less(f[o[p]], f[o[k]])
      BY <1>1, <1>2, <1>4, <2>2 DEF SortedBy
    <3>. QED
      BY <3>2, <3>3
  <2>. QED
    BY <1>2, <2>1, <2>2
<1>11. ASSUME ~(f[o[p]].ts <= u)
       PROVE  e <= p /\ k <= e
  <2>1. e <= p
    BY <1>2, <1>9, <1>11
  <2>2. CASE k = 1
    BY <1>2, <2>1, <2>2
  <2>3. CASE k > 1
    <3>1. PICK h \in 1 .. n : h = k - 1 /\ h \in 1 .. k - 1
      BY <1>2, <2>3
    <3>2. ~Less(v, f[o[h]])
      BY <1>8, <3>1
    <3>3. f[o[h]].ts <= u
      <4>1. ~(u < f[o[h]].ts)
        BY <1>4, <1>6, <3>2, LessOrder
      <4>. QED
        BY <1>4, <4>1
    <3>4. h < e
      BY <1>9, <3>3
    <3>. QED
      BY <1>2, <2>1, <3>1, <3>4
  <2>. QED
    BY <1>2, <2>2, <2>3
<1>12. d \in 1 .. n + 1 /\ k + 1 <= d
  <2>1. CASE f[o[p]].ts <= u
    <3>1. d = e
      BY <1>3, <2>1 DEF EarlierEnd
    <3>. QED
      BY <1>2, <1>10, <2>1, <3>1
  <2>2. CASE ~(f[o[p]].ts <= u)
    <3>1. d = e + 1
      BY <1>3, <2>2 DEF EarlierEnd
    <3>. QED
      BY <1>2, <1>11, <2>2, <3>1
  <2>. QED
    BY <2>1, <2>2
<1>13. ASSUME NEW h \in 1 .. n
       PROVE  h < d <=> g[c[h]].ts <= u
  <2>1. CASE h = k
    <3>1. h < d
      BY <1>2, <1>12, <2>1
    <3>2. g[c[h]].ts <= u
      BY <1>4, <1>8, <2>1
    <3>. QED
      BY <3>1, <3>2
  <2>2. CASE h # k
    <3>1. PICK i \in 1 .. n : i = Came(h, k, p) /\ g[c[h]] = f[o[i]]
      BY <1>1, <2>2, RoundIs
    <3>2. \/ h < k /\ i = h
          \/ k < h /\ h <= p /\ i = h - 1
          \/ p < h /\ i = h
      BY <1>2, <2>2, <3>1 DEF Came
    <3>3. i < e <=> g[c[h]].ts <= u
      BY <1>9, <3>1
    <3>4. CASE f[o[p]].ts <= u
      <4>1. d = e /\ k = p /\ p < e
        BY <1>3, <1>10, <3>4 DEF EarlierEnd
      <4>2. h < e <=> i < e
        BY <1>2, <2>2, <3>2, <4>1
      <4>. QED
        BY <3>3, <4>1, <4>2
    <3>5. CASE ~(f[o[p]].ts <= u)
      <4>1. d = e + 1 /\ e <= p /\ k <= e
        BY <1>3, <1>11, <3>5 DEF EarlierEnd
      <4>2. h < e + 1 <=> i < e
        BY <1>2, <2>2, <3>2, <4>1
      <4>. QED
        BY <3>3, <4>1, <4>2
    <3>. QED
      BY <3>4, <3>5
  <2>. QED
    BY <2>1, <2>2
<1>. QED
  BY <1>1, <1>3, <1>10, <1>11, <1>12, <1>13

\* A round keeps the count: a round that moves an element moves the end of those not
\* later than u, by which the rounds are bounded.
LEMMA CountedKept ==
    ASSUME NEW o, NEW f, NEW b, NEW t, NEW u, Context(o, f, b, t, u),
           NEW c, NEW g, NEW p, NEW k, Round(o, f, c, g, u, p, k),
           Accepted(o, f, g, u, p, k),
           NEW s, Old(o, f, b, s, t, u), Walked(Range(o), b, t, u, o[p]),
           NEW e \in 1 .. Len(o) + 1, NEW m \in Nat, s = {} => m = 0,
           Counted(o, f, b, s, m, t, u, p, e)
    PROVE  /\ EarlierEnd(o, f, u, p, e) \in 1 .. Len(o) + 1
           /\ Counted(c, g, b, s \cup {o[p]}, m + 1, t, u, k + 1, EarlierEnd(o, f, u, p, e))
<1>1. PICK n \in Nat : n = Len(o)
  BY ContextIs
<1>2. /\ p \in 1 .. n /\ k \in 1 .. p /\ k \in 1 .. n /\ Len(c) = n /\ c[k] = o[p]
      /\ e \in 1 .. n + 1
  BY <1>1, RoundIs
<1>3. PICK d : d = EarlierEnd(o, f, u, p, e)
  OBVIOUS
<1>4. /\ f[o[p]].ts <= u => k = p /\ p < e
      /\ ~(f[o[p]].ts <= u) => e <= p /\ k <= e
      /\ d \in 1 .. n + 1 /\ k + 1 <= d
      /\ \A h \in 1 .. n : h < d <=> g[c[h]].ts <= u
  <2>1. \A h \in 1 .. Len(o) : h < e <=> f[o[h]].ts <= u
    BY DEF Counted
  <2>. QED
    BY <1>1, <1>3, <2>1, CountedPlaces
<1>5. ASSUME NEW h \in 1 .. k, c[h] \notin s \cup {o[p]},
             NEW x \in s \cup {o[p]}, Near(b, t, u, x)
      PROVE  ~Less(Retimed(b[x], u), g[c[h]])
  <2>1. h # k
    BY <1>2, <1>5
  <2>2. h \in 1 .. n /\ h \in 1 .. k - 1 /\ h \in 1 .. p - 1 /\ h < k
    BY <1>2, <2>1
  <2>3. Came(h, k, p) = h
    BY <2>2 DEF Came
  <2>4. c[h] = o[h] /\ g[c[h]] = f[o[h]]
    BY <1>1, <2>1, <2>2, <2>3, RoundIs
  <2>5. CASE x = o[p]
    <3>1. Retimed(b[x], u) = Retimed(f[o[p]], u)
      BY <1>1, <1>2, <2>5, UpdatedIs
    <3>2. ~Less(Retimed(f[o[p]], u), f[o[h]])
      BY <2>2 DEF Accepted
    <3>. QED
      BY <2>4, <3>1, <3>2
  <2>6. CASE x \in s
    <3>1. s # {} /\ o[h] \notin s
      BY <1>5, <2>4, <2>6
    <3>2. ~Less(Retimed(b[x], u), f[o[h]])
      BY <1>5, <2>2, <2>6, <3>1 DEF Counted
    <3>. QED
      BY <2>4, <3>2
  <2>. QED
    BY <1>5, <2>5, <2>6
<1>6. 2 * (m + 1) <= d * (d - 1) + 2 * (k + 1 - d)
  <2>0. e \in Nat \ {0} /\ p \in Nat /\ k \in Nat \ {0}
    BY <1>2
  <2>1. s # {} => p <= e /\ 2 * m <= e * (e - 1) + 2 * (p - e)
    BY DEF Counted
  <2>2. CASE f[o[p]].ts <= u
    <3>1. d = e /\ k = p /\ k < e
      BY <1>3, <1>4, <2>2 DEF EarlierEnd
    <3>2. 2 * m <= e * (e - 1) + 2 * (p - e) =>
             2 * (m + 1) <= e * (e - 1) + 2 * (p + 1 - e)
      BY <2>0, RoundsSum
    <3>3. 2 * (0 + 1) <= e * (e - 1) + 2 * (k + 1 - e)
      BY <2>0, <3>1, RoundsSum
    <3>4. CASE s = {}
      BY <3>1, <3>3, <3>4
    <3>5. CASE s # {}
      BY <2>1, <3>1, <3>2, <3>5
    <3>. QED
      BY <3>4, <3>5
  <2>3. CASE ~(f[o[p]].ts <= u)
    <3>1. d = e + 1
      BY <1>3, <2>3 DEF EarlierEnd
    <3>2. 2 * m <= e * (e - 1) + 2 * (p - e) /\ p <= e =>
             2 * (m + 1) <= (e + 1) * ((e + 1) - 1) + 2 * (k + 1 - (e + 1))
      BY <2>0, RoundsSum
    <3>3. 2 * (0 + 1) <= (e + 1) * ((e + 1) - 1) + 2 * (k + 1 - (e + 1))
      BY <2>0, RoundsSum
    <3>4. CASE s = {}
      BY <3>1, <3>3, <3>4
    <3>5. CASE s # {}
      BY <2>1, <3>1, <3>2, <3>5
    <3>. QED
      BY <3>4, <3>5
  <2>. QED
    BY <2>2, <2>3
<1>7. (k + 1) - 1 = k
  BY <1>2
<1>8. Counted(c, g, b, s \cup {o[p]}, m + 1, t, u, k + 1, d)
  BY <1>2, <1>4, <1>5, <1>6, <1>7, SMTT(30) DEF Counted
<1>. QED
  BY <1>1, <1>3, <1>4, <1>8

----------------------------------------------------------------------------
(* Bmic: the loop of UpdateRange *)

\* Node i taken out and put in towards the front goes to some k.
Goes(o, f, c, p, v, k) ==
    /\ \A h \in 1 .. Len(o) : c[h] = o[Came(h, k, p)]
    /\ \A h \in k .. p - 1 : Less(v, f[o[h]])
    /\ \A h \in 1 .. k - 1 : ~Less(v, f[o[h]])

\* Moved as Goes says it.
LEMMA MovedGoes ==
    ASSUME NEW o, NEW f, Ordered(o, f), NEW v \in V, NEW p \in 1 .. Len(o),
           ~Less(f[o[p]], v), p > 1, Less(v, f[o[p - 1]])
    PROVE  \E k \in 1 .. p : Goes(o, f, Moved(o, f, p, o[p], v), p, v, k)
<1>0. o \in Seq(Nodes) /\ f \in [Nodes -> V] /\ Once(o) /\ SortedBy(o, f)
  BY DEF Ordered
<1>1. PICK n \in Nat : n = Len(o)
  BY <1>0, LenProperties
<1>3. PICK c : c = Moved(o, f, p, o[p], v)
  OBVIOUS
<1>4. PICK k \in 1 .. p - 1 : Forward(o, f, p, v, c, k)
  BY <1>0, <1>3, MovedForward
<1>5. k \in 1 .. p /\ p \in 1 .. n
  BY <1>1
<1>6. ASSUME NEW h \in 1 .. n
      PROVE  c[h] = o[Came(h, k, p)]
  <2>1. CASE h < k
    <3>1. Came(h, k, p) = h /\ h \in 1 .. k - 1
      BY <1>5, <2>1 DEF Came
    <3>. QED
      BY <1>4, <3>1 DEF Forward
  <2>2. CASE h = k
    <3>1. Came(h, k, p) = p
      BY <1>5, <2>2 DEF Came
    <3>. QED
      BY <1>4, <2>2, <3>1 DEF Forward
  <2>3. CASE k < h /\ h <= p
    <3>1. Came(h, k, p) = h - 1
      BY <1>5, <2>3 DEF Came
    <3>2. PICK i \in k .. p - 1 : i = h - 1
      BY <1>5, <2>3
    <3>3. i + 1 = h
      BY <1>5, <3>2
    <3>4. c[i + 1] = o[i]
      BY <1>4 DEF Forward
    <3>. QED
      BY <3>1, <3>2, <3>3, <3>4
  <2>4. CASE p < h
    <3>1. Came(h, k, p) = h /\ h \in p + 1 .. Len(o)
      BY <1>1, <1>5, <2>4 DEF Came
    <3>. QED
      BY <1>4, <3>1 DEF Forward
  <2>. QED
    BY <1>5, <2>1, <2>2, <2>3, <2>4
<1>7. Goes(o, f, c, p, v, k)
  BY <1>1, <1>4, <1>6 DEF Goes, Forward
<1>. QED
  BY <1>3, <1>5, <1>7

\* An element that is not moved stays where it is.
LEMMA Stays ==
    ASSUME NEW n \in Nat, NEW p \in 1 .. n
    PROVE  p \in 1 .. p /\ p .. p - 1 = {} /\ \A h \in 1 .. n : Came(h, p, p) = h
  BY DEF Came

\* A step of the loop is a round.
LEMMA StepRounds ==
    ASSUME IndexInv, LoopTypes, RangeStep, NEW t, Context(order, val, before, t, loop.to),
           NEW s, Old(order, val, before, s, t, loop.to),
           NEW p \in 1 .. Len(order), order[p] = loop.iter,
           Walked(Range(order), before, t, loop.to, order[p])
    PROVE  \E k \in 1 .. p :
              /\ Round(order, val, order', val', loop.to, p, k)
              /\ loop'.iter = IF k < Len(order) THEN order'[k + 1] ELSE End
              /\ "ts" \notin HashedMembers => Accepted(order, val, val', loop.to, p, k)
<1>1. PICK n \in Nat : n = Len(order)
  BY ContextIs
<1>2. PICK x \in Range(order), w \in V :
              /\ x = loop.iter /\ w = Retimed(val[x], loop.to) /\ Replaced(x, w)
              /\ IndexInv' /\ Range(order') = Range(order) /\ Len(order') = Len(order)
              /\ \E k \in 1 .. Len(order) :
                    /\ order'[k] = x /\ k = Place(x, order')
                    /\ loop'.iter = IF k < Len(order) THEN order'[k + 1] ELSE End
  BY RangeStepIs
<1>3. PICK k \in 1 .. n :
         order'[k] = x /\ loop'.iter = IF k < n THEN order'[k + 1] ELSE End
  BY <1>1, <1>2
<1>4. /\ ~Replaceable(x, w) => UNCHANGED index
      /\ Replaceable(x, w) =>
            val'[x] = w /\ \A y \in Nodes : y # x => val'[y] = val[y]
  BY <1>2, ReplacedIs
<1>5. /\ order' \in Seq(Nodes) /\ Len(order') = n /\ Range(order') = Range(order)
      /\ Once(order') /\ SortedBy(order', val')
  BY <1>1, <1>2 DEF IndexInv
<1>6. /\ p \in 1 .. n /\ x = order[p] /\ val[x] \in V /\ loop.to \in Int /\ val[x].ts \in Int
      /\ Ordered(order, val) /\ SortedBy(order, val)
      /\ \A h \in 1 .. n : val[order[h]] \in V
  BY <1>1, <1>2, ContextIs DEF Context
<1>7. w.ts = loop.to /\ loop.to <= val[x].ts /\ (val[x].ts <= loop.to => w = val[x])
  BY <1>1, <1>2, <1>6, UpdatedIs
<1>8. ~Less(val[x], w)
  <2>1. CASE val[x].ts <= loop.to
    BY <1>6, <1>7, <2>1, LessOrder
  <2>2. CASE ~(val[x].ts <= loop.to)
    <3>1. Less(w, val[x])
      BY <1>2, <1>6, <1>7, <2>2, LessOrder
    <3>. QED
      BY <1>2, <1>6, <3>1, LessOrder
  <2>. QED
    BY <2>1, <2>2
<1>9. /\ p \in 1 .. p /\ p .. p - 1 = {} /\ \A h \in 1 .. n : Came(h, p, p) = h
  BY <1>1, <1>6, Stays
<1>10. CASE order' = order
  <2>1. k = p
    BY <1>1, <1>3, <1>5, <1>6, <1>10 DEF Once
  <2>2. CASE ~Replaceable(x, w)
    <3>1. val' = val
      BY <1>4, <2>2 DEF index
    <3>2. Round(order, val, order', val', loop.to, p, p)
      BY <1>1, <1>5, <1>6, <1>9, <1>10, <3>1 DEF Round
    <3>3. "ts" \in HashedMembers
      <4>1. ~KeyEqual(w, val[x])
        BY <2>2 DEF Replaceable
      <4>. QED
        BY <1>2, <1>6, <4>1, RetimedIs
    <3>. QED
      BY <1>1, <1>3, <1>9, <2>1, <3>2, <3>3
  <2>3. CASE Replaceable(x, w)
    <3>1. val'[x] = w /\ \A y \in Nodes : y # x => val'[y] = val[y]
      BY <1>4, <2>3
    <3>2. ASSUME NEW h \in 1 .. p - 1
          PROVE  ~Less(w, val[order[h]])
      <4>1. h \in 1 .. n /\ h < p
        BY <1>6
      <4>2. order[h] # x /\ order[h] \in Nodes
        <5>1. order[h] # order[p]
          BY <1>5, <1>6, <1>10, <4>1 DEF Once
        <5>. QED
          BY <1>1, <1>6, <4>1, <5>1, ContextIs
      <4>3. ~Less(val'[order'[p]], val'[order'[h]])
        BY <1>5, <1>6, <4>1 DEF SortedBy
      <4>. QED
        BY <1>6, <1>10, <3>1, <4>2, <4>3
    <3>3. Accepted(order, val, val', loop.to, p, p)
      BY <1>2, <1>6, <3>1, <3>2 DEF Accepted
    <3>4. Round(order, val, order', val', loop.to, p, p)
      BY <1>1, <1>5, <1>6, <1>9, <1>10, <3>3 DEF Round
    <3>. QED
      BY <1>1, <1>3, <1>9, <2>1, <3>3, <3>4
  <2>. QED
    BY <2>2, <2>3
<1>11. CASE order' # order
  <2>1. Replaceable(x, w) /\ ~InPlace(x, w)
    BY <1>2, <1>11 DEF Replaced, Reordered
  <2>2. Place(x, order) = p
    BY <1>1, <1>6, PlaceOf DEF Ordered
  <2>3. p > 1 /\ Less(w, val[order[p - 1]])
    <3>1. \/ p > 1 /\ Less(w, val[order[p - 1]])
          \/ p < n /\ Less(val[order[p + 1]], w)
      BY <1>1, <2>1, <2>2 DEF InPlace
    <3>2. ASSUME p < n, Less(val[order[p + 1]], w)
          PROVE  FALSE
      <4>1. PICK i \in 1 .. n : i = p + 1
        BY <1>6, <3>2
      <4>2. ~Less(val[order[i]], val[x])
        BY <1>1, <1>6, <4>1 DEF SortedBy
      <4>3. ~Less(val[order[i]], w)
        BY <1>2, <1>6, <1>8, <4>1, <4>2, LessOrder
      <4>. QED
        BY <3>2, <4>1, <4>3
    <3>. QED
      BY <3>1, <3>2
  <2>4. order' = Moved(order, val, p, order[p], w)
    <3>1. PICK q : q = Cut(order, p, p + 1)
      OBVIOUS
    <3>2. order' = Linked(q, x, w)
      BY <1>2, <2>1, <2>2, <3>1 DEF Replaced, Reordered
    <3>3. q \in Seq(Nodes)
      <4>1. p \in Nat \ {0} /\ p + 1 \in Nat /\ p < p + 1 /\ p + 1 <= Len(order) + 1
        BY <1>1, <1>6
      <4>. QED
        BY <1>6, <3>1, <4>1, CutIs DEF Ordered
    <3>4. DOMAIN q = 1 .. Len(q)
      BY <3>3
    <3>. QED
      BY <1>6, <3>1, <3>2, <3>4 DEF Linked, Upper, Moved
  <2>5. PICK j \in 1 .. p : Goes(order, val, order', p, w, j)
    <3>1. /\ Ordered(order, val) /\ p \in 1 .. Len(order)
          /\ ~Less(val[order[p]], w) /\ p > 1 /\ Less(w, val[order[p - 1]])
      BY <1>1, <1>6, <1>8, <2>3
    <3>2. \E j \in 1 .. p : Goes(order, val, Moved(order, val, p, order[p], w), p, w, j)
      BY <3>1, MovedGoes
    <3>. QED
      BY <2>4, <3>2
  <2>6. j = k
    <3>1. j \in 1 .. n /\ Came(j, j, p) = p
      BY <1>6 DEF Came
    <3>2. order'[j] = x
      BY <1>1, <1>6, <2>5, <3>1 DEF Goes
    <3>. QED
      BY <1>3, <1>5, <3>1, <3>2 DEF Once
  <2>7. Accepted(order, val, val', loop.to, p, j)
    BY <1>2, <1>4, <1>6, <2>1, <2>5 DEF Accepted, Goes
  <2>8. Round(order, val, order', val', loop.to, p, j)
    BY <1>1, <1>2, <1>5, <1>6, <2>5, <2>7 DEF Round, Goes
  <2>. QED
    BY <1>1, <1>3, <2>6, <2>7, <2>8
<1>. QED
  BY <1>10, <1>11

\* The loop is at place p and ends at place q.
LoopAt(p, q) ==
    /\ p <= q /\ loop.iter = NodeAt(p) /\ loop.stop = NodeAt(q)
    /\ Bounded(order, val, loop.key, q)
    /\ Old(order, val, before, Range(visited), loop.key, loop.to)
    /\ Seen(order, before, Range(visited), loop.key, p)
    /\ Inside(order, before, Range(visited), loop.key, loop.to, p, q)
\* The rounds of the loop are counted.
CountedAt(p, e) ==
    Counted(order, val, before, Range(visited), Len(visited), loop.key, loop.to, p, e)
\* The inductive invariant of UpdateRange.
LoopInv ==
    /\ mode = "idle" => visited = <<>>
    /\ mode # "idle" /\ loop.to <= loop.key =>
          /\ mode = "range"
          /\ \E p, q \in 1 .. Len(order) + 1 :
                /\ LoopAt(p, q)
                /\ "ts" \notin HashedMembers => \E e \in 1 .. Len(order) + 1 : CountedAt(p, e)

\* The elements and the length of the rounds taken.
LEMMA NoVisits ==
    /\ Range(<<>>) = {}
    /\ \A s \in Seq(Nodes) : Range(s) = {} => Len(s) = 0
    /\ \A s \in Seq(Nodes), x \in Nodes :
          Range(Append(s, x)) = Range(s) \cup {x} /\ Len(Append(s, x)) = Len(s) + 1
<1>1. Range(<<>>) = {}
  BY DEF Range
<1>2. ASSUME NEW s \in Seq(Nodes), Range(s) = {}
      PROVE  Len(s) = 0
  <2>1. PICK n \in Nat : n = Len(s)
    BY LenProperties
  <2>2. \A i \in 1 .. n : s[i] \in Range(s)
    BY <2>1, RangeIs
  <2>3. 1 \notin 1 .. n
    BY <1>2, <2>2
  <2>. QED
    BY <2>1, <2>3
<1>3. ASSUME NEW s \in Seq(Nodes), NEW x \in Nodes
      PROVE  Range(Append(s, x)) = Range(s) \cup {x} /\ Len(Append(s, x)) = Len(s) + 1
  <2>1. PICK n \in Nat : n = Len(s)
    BY LenProperties
  <2>2. PICK r : r = Append(s, x)
    OBVIOUS
  <2>3. /\ r \in Seq(Nodes) /\ Len(r) = n + 1 /\ r[n + 1] = x
        /\ \A i \in 1 .. n : r[i] = s[i]
    BY <2>1, <2>2, AppendProperties
  <2>4. Range(r) = {r[i] : i \in 1 .. n + 1} /\ Range(s) = {s[i] : i \in 1 .. n}
    BY <2>1, <2>3, RangeIs
  <2>5. \A i \in 1 .. n + 1 : i = n + 1 \/ i \in 1 .. n
    OBVIOUS
  <2>6. n + 1 \in 1 .. n + 1 /\ \A i \in 1 .. n : i \in 1 .. n + 1
    OBVIOUS
  <2>7. Range(r) \subseteq Range(s) \cup {x}
    BY <2>3, <2>4, <2>5
  <2>8. Range(s) \cup {x} \subseteq Range(r)
    BY <2>3, <2>4, <2>6
  <2>. QED
    BY <2>1, <2>2, <2>3, <2>7, <2>8
<1>. QED
  BY <1>1, <1>2, <1>3

\* UpdateRange starts with its invariant.
LEMMA CallStarts ==
    ASSUME IndexInv, LoopTypes, LoopInv, NEW t \in Times, NEW u \in Times, RangeCall(t, u)
    PROVE  LoopInv'
<1>1. order' = order /\ val' = val /\ before' = val /\ visited' = visited /\ mode' = "range"
  BY DEF RangeCall, index
<1>2. visited' = <<>> /\ Range(visited') = {}
  BY <1>1, NoVisits DEF LoopInv, RangeCall
<1>3. t \in Int /\ u \in Int
  BY InputTypes
<1>4. PICK n \in Nat : n = Len(order)
  BY LenProperties DEF IndexInv
<1>5. PICK p, q, e \in 1 .. n + 1 :
         /\ p = First(NotLess(t), order) /\ q = First(Greater(t), order)
         /\ \A i \in 1 .. n : i < p <=> val[order[i]].ts < t
         /\ \A i \in 1 .. n : i < q <=> val[order[i]].ts <= t
         /\ \A i \in 1 .. n : i < e <=> val[order[i]].ts <= u
  BY <1>3, <1>4, BoundIs
<1>6. loop' = [key |-> t, to |-> u, iter |-> NodeAt(p), stop |-> NodeAt(q)]
  BY <1>5 DEF RangeCall
<1>7. loop'.key = t /\ loop'.to = u /\ loop'.iter = NodeAt(p) /\ loop'.stop = NodeAt(q)
  BY <1>6
<1>8. \A i \in 1 .. n : val[order[i]].ts \in Int
  <2>1. \A i \in 1 .. n : val[order[i]] \in V
    BY <1>4 DEF IndexInv
  <2>. QED
    BY <2>1 DEF V
<1>9. p <= q
  <2> SUFFICES ASSUME q < p
               PROVE  FALSE
    OBVIOUS
  <2>1. q \in 1 .. n
    OBVIOUS
  <2>2. val[order[q]].ts < t /\ ~(val[order[q]].ts <= t)
    BY <1>5, <2>1
  <2>. QED
    BY <1>3, <1>8, <2>1, <2>2
<1>10. NodeAt(p)' = NodeAt(p) /\ NodeAt(q)' = NodeAt(q)
  BY <1>1 DEF NodeAt
<1>11. Bounded(order, val, t, q)
  BY <1>4, <1>5 DEF Bounded
<1>12. Old(order, val, val, {}, t, u)
  BY DEF Old
<1>13. Seen(order, val, {}, t, p)
  BY <1>3, <1>4, <1>5, <1>8 DEF Seen
<1>14. ASSUME NEW h \in p .. q - 1
       PROVE  val[order[h]].ts = t
  <2>1. h \in 1 .. n /\ ~(h < p) /\ h < q
    OBVIOUS
  <2>. QED
    BY <1>3, <1>5, <1>8, <2>1
<1>15. Inside(order, val, {}, t, u, p, q)
  BY <1>14 DEF Inside, Walked, Near
<1>16. LoopAt(p, q)'
  BY <1>1, <1>2, <1>7, <1>9, <1>10, <1>11, <1>12, <1>13, <1>15 DEF LoopAt
<1>17. CountedAt(p, e)'
  <2>1. Counted(order, val, val, {}, Len(visited'), t, u, p, e)
    BY <1>4, <1>5 DEF Counted
  <2>. QED
    BY <1>1, <1>2, <1>7, <2>1 DEF CountedAt
<1>18. Len(order') = n
  BY <1>1, <1>4
<1>. QED
  BY <1>1, <1>16, <1>17, <1>18 DEF LoopInv

\* A round keeps it.
LEMMA StepContinues ==
    ASSUME IndexInv, LoopTypes, LoopInv, RangeStep
    PROVE  LoopInv'
<1>1. /\ mode = "range" /\ loop.iter # loop.stop /\ before' = before
      /\ visited' = Append(visited, loop.iter)
      /\ \E y : loop' = [loop EXCEPT !.iter = y]
      /\ mode' = IF loop'.iter = End /\ loop.stop # End THEN "undefined" ELSE mode
  BY DEF RangeStep
<1>2. loop \in [key : Int, to : Int, iter : Nodes \cup {End}, stop : Nodes \cup {End}]
  BY DEF LoopTypes
<1>3. PICK t, u \in Int : t = loop.key /\ u = loop.to
  BY <1>2
<1>4. loop'.key = t /\ loop'.to = u /\ loop'.stop = loop.stop
  BY <1>1, <1>2, <1>3
<1>5. SUFFICES ASSUME u <= t
               PROVE  /\ mode' = "range"
                      /\ \E p, q \in 1 .. Len(order') + 1 :
                            /\ LoopAt(p, q)'
                            /\ "ts" \notin HashedMembers =>
                                  \E e \in 1 .. Len(order') + 1 : CountedAt(p, e)'
  <2>1. mode' # "idle"
    BY <1>1
  <2>. QED
    BY <1>4, <2>1 DEF LoopInv
<1>6. Context(order, val, before, t, u)
  BY <1>5 DEF IndexInv, LoopTypes, Context, Ordered
<1>7. PICK n \in Nat : n = Len(order)
  BY <1>6, ContextIs
<1>8. PICK p, q \in 1 .. n + 1 :
         /\ LoopAt(p, q)
         /\ "ts" \notin HashedMembers => \E e \in 1 .. n + 1 : CountedAt(p, e)
  BY <1>1, <1>3, <1>5, <1>7 DEF LoopInv
<1>9. PICK s : s = Range(visited)
  OBVIOUS
<1>10. /\ p <= q /\ loop.iter = NodeAt(p) /\ loop.stop = NodeAt(q)
       /\ Bounded(order, val, t, q) /\ Old(order, val, before, s, t, u)
       /\ Seen(order, before, s, t, p) /\ Inside(order, before, s, t, u, p, q)
  BY <1>3, <1>8, <1>9 DEF LoopAt
<1>11. p < q /\ p \in 1 .. n
  BY <1>1, <1>10
<1>12. order[p] = loop.iter /\ loop.iter \in Nodes /\ order \in Seq(Nodes)
  <2>1. DOMAIN order = 1 .. n /\ order[p] \in Nodes /\ order \in Seq(Nodes)
    BY <1>6, <1>7, <1>11, ContextIs
  <2>. QED
    BY <1>10, <1>11, <2>1 DEF NodeAt
<1>13. Walked(Range(order), before, t, u, order[p])
  <2>1. p \in p .. q - 1
    BY <1>11
  <2>. QED
    BY <1>10, <2>1 DEF Inside
<1>14. PICK k \in 1 .. p :
          /\ Round(order, val, order', val', u, p, k)
          /\ loop'.iter = IF k < n THEN order'[k + 1] ELSE End
          /\ "ts" \notin HashedMembers => Accepted(order, val, val', u, p, k)
  <2>1. /\ Context(order, val, before, t, loop.to) /\ Old(order, val, before, s, t, loop.to)
        /\ p \in 1 .. Len(order) /\ Walked(Range(order), before, t, loop.to, order[p])
    BY <1>3, <1>6, <1>7, <1>10, <1>11, <1>13
  <2>. QED
    BY <1>3, <1>7, <1>12, <2>1, StepRounds
<1>15. /\ k + 1 \in 1 .. n + 1 /\ k + 1 <= q /\ q \in 1 .. n + 1
       /\ Len(order') = n /\ order' \in Seq(Nodes)
  BY <1>7, <1>11, <1>14 DEF Round
<1>16. Range(visited') = s \cup {order[p]} /\ Len(visited') = Len(visited) + 1
  <2>1. visited \in Seq(Nodes)
    BY DEF LoopTypes
  <2>. QED
    BY <1>1, <1>9, <1>12, <2>1, NoVisits
<1>17. NodeAt(k + 1)' = loop'.iter /\ NodeAt(q)' = NodeAt(q)
  <2>1. DOMAIN order' = 1 .. n /\ DOMAIN order = 1 .. n
    BY <1>7, <1>12, <1>15
  <2>2. NodeAt(k + 1)' = IF k + 1 \in DOMAIN order' THEN order'[k + 1] ELSE End
    BY DEF NodeAt
  <2>3. NodeAt(q)' = IF q \in DOMAIN order' THEN order'[q] ELSE End
    BY DEF NodeAt
  <2>4. NodeAt(k + 1)' = loop'.iter
    BY <1>14, <1>15, <2>1, <2>2
  <2>5. CASE q \in 1 .. n
    <3>1. Came(q, k, p) = q
      BY <1>11, <1>14, <2>5 DEF Came
    <3>2. order'[q] = order[q]
      BY <1>7, <1>14, <2>5, <3>1 DEF Round
    <3>. QED
      BY <2>1, <2>3, <2>4, <2>5, <3>2 DEF NodeAt
  <2>6. CASE q \notin 1 .. n
    BY <2>1, <2>3, <2>4, <2>6 DEF NodeAt
  <2>. QED
    BY <2>5, <2>6
<1>18. mode' = "range"
  <2> SUFFICES ASSUME loop'.iter = End
               PROVE  loop.stop = End
    BY <1>1
  <2>1. k + 1 = n + 1
    <3>1. CASE k < n
      <4>1. k + 1 \in 1 .. n
        BY <1>14, <3>1
      <4>2. order'[k + 1] \in Nodes
        BY <1>15, <4>1
      <4>. QED
        BY <1>14, <3>1, <4>2, BmicAssumption
    <3>. QED
      BY <1>11, <1>14, <3>1
  <2>2. q \notin 1 .. n
    BY <1>15, <2>1
  <2>3. DOMAIN order = 1 .. n
    BY <1>7, <1>12
  <2>. QED
    BY <1>10, <2>2, <2>3 DEF NodeAt
<1>19. q \in Nat /\ q \in 1 .. Len(order) + 1
  BY <1>7
<1>20. Bounded(order', val', t, q)
  BY <1>6, <1>10, <1>11, <1>14, <1>19, BoundedKept
<1>21. Old(order', val', before, s \cup {order[p]}, t, u)
  BY <1>6, <1>10, <1>13, <1>14, OldKept
<1>22. Seen(order', before, s \cup {order[p]}, t, k + 1)
  BY <1>6, <1>10, <1>14, SeenKept
<1>23. Inside(order', before, s \cup {order[p]}, t, u, k + 1, q)
  BY <1>6, <1>10, <1>11, <1>14, <1>19, InsideKept
<1>24. LoopAt(k + 1, q)'
  BY <1>1, <1>4, <1>10, <1>15, <1>16, <1>17, <1>20, <1>21, <1>22, <1>23 DEF LoopAt
<1>25. ASSUME "ts" \notin HashedMembers
       PROVE  \E e \in 1 .. n + 1 : CountedAt(k + 1, e)'
  <2>1. PICK e \in 1 .. n + 1 : CountedAt(p, e)
    BY <1>8, <1>25
  <2>2. PICK m \in Nat : m = Len(visited) /\ (s = {} => m = 0)
    <3>1. visited \in Seq(Nodes)
      BY DEF LoopTypes
    <3>2. Len(visited) \in Nat
      BY <3>1, LenProperties
    <3>. QED
      BY <1>9, <3>1, <3>2, NoVisits
  <2>3. Counted(order, val, before, s, m, t, u, p, e)
    BY <1>3, <1>9, <2>1, <2>2 DEF CountedAt
  <2>4. e \in 1 .. Len(order) + 1 /\ Accepted(order, val, val', u, p, k)
    BY <1>7, <1>14, <1>25
  <2>5. PICK d : d = EarlierEnd(order, val, u, p, e)
    OBVIOUS
  <2>6. /\ d \in 1 .. n + 1
        /\ Counted(order', val', before, s \cup {order[p]}, m + 1, t, u, k + 1, d)
    BY <1>6, <1>7, <1>10, <1>13, <1>14, <2>2, <2>3, <2>4, <2>5, CountedKept
  <2>7. CountedAt(k + 1, d)'
    BY <1>1, <1>4, <1>16, <2>2, <2>6 DEF CountedAt
  <2>. QED
    BY <2>6, <2>7
<1>. QED
  BY <1>15, <1>18, <1>24, <1>25

\* Every step keeps it.
LEMMA LoopStepKeeps ==
    ASSUME IndexInv, LoopTypes, LoopInv, [BmicNext]_bmicVars
    PROVE  LoopInv'
<1>1. CASE Call
  BY <1>1 DEF Call, LoopInv
<1>2. ASSUME NEW t \in Times, NEW u \in Times, RangeCall(t, u)
      PROVE  LoopInv'
  BY <1>2, CallStarts
<1>3. CASE RangeStep
  BY <1>3, StepContinues
<1>4. CASE RangeReturn
  BY <1>4 DEF RangeReturn, LoopInv
<1>5. CASE UNCHANGED bmicVars
  BY <1>5 DEF bmicVars, index, LoopInv, LoopAt, CountedAt, NodeAt
<1>. QED
  BY <1>1, <1>2, <1>3, <1>4, <1>5
  DEF BmicNext, Set, RemoveKey, Update, RemoveTime, RemoveRange

\* At the end of the loop the invariant gives what UpdateRangeExact says.
LEMMA ExactFromInv ==
    ASSUME IndexInv, LoopTypes, LoopInv
    PROVE  UpdateRangeExact
<1>1. PICK t, u \in Int : t = loop.key /\ u = loop.to
  BY DEF LoopTypes
<1>2. PICK at, between, passed, all :
         /\ at = {x \in Range(order) : before[x].ts = loop.key}
         /\ between = {x \in Range(order) : loop.to < before[x].ts /\ before[x].ts < loop.key}
         /\ passed = {y \in Range(order) :
                         /\ before[y].ts = loop.to
                         /\ \E x \in at \union between :
                               Less(Retimed(before[x], loop.to), before[y])}
         /\ all = IF at = {} THEN {} ELSE at \union between \union passed
  OBVIOUS
<1>. SUFFICES ASSUME mode # "idle", loop.iter = loop.stop \/ mode = "undefined", u <= t
              PROVE  /\ mode = "range"
                     /\ at \subseteq Range(visited) /\ Range(visited) \subseteq all
                     /\ "ts" \notin HashedMembers =>
                           /\ all \subseteq Range(visited)
                           /\ 2 * Len(visited) <= Len(order) * (Len(order) + 1)
  BY <1>1, <1>2 DEF UpdateRangeExact
<1>3. mode = "range" /\ loop.iter = loop.stop
  BY <1>1 DEF LoopInv
<1>4. Context(order, val, before, t, u)
  BY <1>1 DEF IndexInv, LoopTypes, Context, Ordered
<1>5. PICK n \in Nat : n = Len(order)
  BY <1>4, ContextIs
<1>6. PICK p, q \in 1 .. n + 1 :
         /\ LoopAt(p, q)
         /\ "ts" \notin HashedMembers => \E e \in 1 .. n + 1 : CountedAt(p, e)
  BY <1>1, <1>3, <1>5 DEF LoopInv
<1>7. PICK s : s = Range(visited)
  OBVIOUS
<1>8. /\ p <= q /\ loop.iter = NodeAt(p) /\ loop.stop = NodeAt(q)
      /\ Bounded(order, val, t, q) /\ Old(order, val, before, s, t, u)
      /\ Seen(order, before, s, t, p) /\ Inside(order, before, s, t, u, p, q)
  BY <1>1, <1>6, <1>7 DEF LoopAt
<1>9. p = q
  <2>1. DOMAIN order = 1 .. n /\ \A h \in 1 .. n : order[h] \in Nodes
    BY <1>4, <1>5, ContextIs
  <2>2. NodeAt(p) = NodeAt(q)
    BY <1>3, <1>8
  <2>3. CASE q \in 1 .. n
    <3>1. p \in 1 .. n
      BY <1>8, <2>3
    <3>2. order[p] = order[q]
      BY <2>1, <2>2, <2>3, <3>1 DEF NodeAt
    <3>. QED
      BY <1>5, <2>3, <3>1, <3>2 DEF IndexInv, Once
  <2>4. CASE q = n + 1
    <3>1. NodeAt(q) = End
      BY <2>1, <2>4 DEF NodeAt
    <3>2. p \notin 1 .. n
      BY <2>1, <2>2, <3>1, BmicAssumption DEF NodeAt
    <3>. QED
      BY <2>4, <3>2
  <2>. QED
    BY <2>3, <2>4
<1>10. \A z \in Range(order) : \E h \in 1 .. n : z = order[h]
  <2>1. order \in Seq(Nodes)
    BY DEF IndexInv
  <2>. QED
    BY <1>5, <2>1, RangeIs
<1>11. \A h \in 1 .. n :
          /\ before[order[h]] \in V /\ before[order[h]].ts \in Int /\ val[order[h]].ts \in Int
          /\ Retimed(before[order[h]], u).ts = u
  <2>1. \A h \in 1 .. n : /\ before[order[h]] \in V /\ before[order[h]].ts \in Int
                          /\ val[order[h]].ts \in Int
    BY <1>4, <1>5, ContextIs
  <2>. QED
    BY <2>1, RetimedIs
<1>12. at \subseteq s
  <2> SUFFICES ASSUME NEW h \in 1 .. n, before[order[h]].ts = t
               PROVE  order[h] \in s
    BY <1>1, <1>2, <1>10
  <2>1. val[order[h]].ts <= t
    BY <1>5, <1>8, <1>11 DEF Old
  <2>2. h < p
    BY <1>5, <1>8, <1>9, <2>1 DEF Bounded
  <2>. QED
    BY <1>5, <1>8, <2>2 DEF Seen
<1>13. \A x \in Range(order) : Near(before, t, u, x) <=> x \in at \union between
  BY <1>1, <1>2 DEF Near
<1>14. s \subseteq all
  <2> SUFFICES ASSUME NEW z \in s
               PROVE  z \in all
    OBVIOUS
  <2>1. z \in Range(order) /\ Walked(Range(order), before, t, u, z)
    BY <1>8 DEF Inside
  <2>2. at # {}
    BY <1>1, <1>2, <1>8 DEF Inside
  <2>3. CASE Near(before, t, u, z)
    BY <1>2, <1>13, <2>1, <2>2, <2>3
  <2>4. CASE ~Near(before, t, u, z)
    <3>1. PICK x \in Range(order) :
             /\ before[z].ts = u /\ Near(before, t, u, x)
             /\ Less(Retimed(before[x], u), before[z])
      BY <2>1, <2>4 DEF Walked
    <3>2. z \in passed
      BY <1>1, <1>2, <1>13, <2>1, <3>1
    <3>. QED
      BY <1>2, <2>2, <3>2
  <2>. QED
    BY <2>3, <2>4
<1>15. ASSUME "ts" \notin HashedMembers
       PROVE  all \subseteq s /\ 2 * Len(visited) <= n * (n + 1)
  <2>1. PICK e \in 1 .. n + 1 : CountedAt(p, e)
    BY <1>6, <1>15
  <2>2. Counted(order, val, before, s, Len(visited), t, u, p, e)
    BY <1>1, <1>7, <2>1 DEF CountedAt
  <2>3. Len(visited) \in Nat /\ (s = {} => Len(visited) = 0)
    <3>1. visited \in Seq(Nodes)
      BY DEF LoopTypes
    <3>. QED
      BY <1>7, <3>1, NoVisits, LenProperties
  <2>4. CASE s = {}
    <3>1. all = {}
      BY <1>2, <1>12, <2>4
    <3>2. 0 <= n * (n + 1)
      OBVIOUS
    <3>. QED
      BY <2>3, <2>4, <3>1, <3>2
  <2>5. CASE s # {}
    <3>1. p <= e /\ 2 * Len(visited) <= e * (e - 1) + 2 * (p - e)
      BY <2>2, <2>5 DEF Counted
    <3>2. e \in Nat \ {0} /\ p \in Nat /\ e <= n + 1
      OBVIOUS
    <3>3. e * (e - 1) + 2 * (p - e) <= n * (n + 1)
      <4>1. 1 \in Nat \ {0} /\ 0 \in Nat
        OBVIOUS
      <4>. QED
        BY <3>1, <3>2, <4>1, RoundsSum
    <3>4. PICK a, b, m \in Int :
             a = e * (e - 1) + 2 * (p - e) /\ b = n * (n + 1) /\ m = Len(visited)
      BY <2>3
    <3>5. 2 * Len(visited) <= n * (n + 1)
      BY <3>1, <3>3, <3>4
    <3>6. ASSUME NEW h \in 1 .. n, order[h] \in between
          PROVE  order[h] \in s
      <4>1. u < before[order[h]].ts /\ before[order[h]].ts < t
        BY <1>1, <1>2, <3>6
      <4>2. SUFFICES ASSUME order[h] \notin s
                     PROVE  FALSE
        OBVIOUS
      <4>3. val[order[h]] = before[order[h]]
        BY <1>5, <1>8, <4>2 DEF Old
      <4>4. h < q
        BY <1>5, <1>8, <1>11, <4>1, <4>3 DEF Bounded
      <4>5. h < e
        BY <1>9, <3>1, <4>4
      <4>6. val[order[h]].ts <= u
        BY <1>5, <2>2, <4>5 DEF Counted
      <4>. QED
        BY <1>11, <4>1, <4>3, <4>6
    <3>7. at \union between \subseteq s
      BY <1>2, <1>10, <1>12, <3>6
    <3>8. ASSUME NEW h \in 1 .. n, order[h] \in passed
          PROVE  order[h] \in s
      <4>1. PICK x \in at \union between :
               before[order[h]].ts = u /\ Less(Retimed(before[x], u), before[order[h]])
        BY <1>1, <1>2, <3>8
      <4>2. SUFFICES ASSUME order[h] \notin s
                     PROVE  FALSE
        OBVIOUS
      <4>3. val[order[h]] = before[order[h]]
        BY <1>5, <1>8, <4>2 DEF Old
      <4>4. h \in 1 .. p - 1
        <5>1. h < q
          BY <1>5, <1>8, <1>11, <4>1, <4>3 DEF Bounded
        <5>. QED
          BY <1>9, <5>1
      <4>5. x \in s /\ Near(before, t, u, x)
        BY <1>2, <1>13, <3>7
      <4>6. ~Less(Retimed(before[x], u), val[order[h]])
        BY <2>2, <2>5, <4>2, <4>4, <4>5 DEF Counted
      <4>. QED
        BY <4>1, <4>3, <4>6
    <3>9. passed \subseteq s
      BY <1>2, <1>10, <3>8
    <3>. QED
      BY <1>2, <3>5, <3>7, <3>9
  <2>. QED
    BY <2>4, <2>5
<1>. QED
  BY <1>3, <1>5, <1>7, <1>12, <1>14, <1>15

\* When its function moves no element to a later place, UpdateRange of zrt_bmic.h
\* updates each element of its range, and else only elements between the old place and
\* the new; with ts outside the unique key all of these, in at most n (n + 1) / 2
\* rounds, and its iterator stays in the container, for any number of elements.
THEOREM BmicUpdateRangeExact == BmicSpec => []UpdateRangeExact
<1>1. BmicInit => IndexInv /\ LoopTypes /\ LoopInv
  BY BmicInitTypes DEF LoopInv, BmicInit
<1>2. IndexInv /\ LoopTypes /\ LoopInv /\ [BmicNext]_bmicVars => (IndexInv /\ LoopTypes /\ LoopInv)'
  BY BmicStepKeeps, LoopStepKeeps
<1>3. IndexInv /\ LoopTypes /\ LoopInv => UpdateRangeExact
  BY ExactFromInv
<1>. QED
  BY <1>1, <1>2, <1>3, PTL DEF BmicSpec

=============================================================================
