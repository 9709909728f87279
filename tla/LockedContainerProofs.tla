------------------------ MODULE LockedContainerProofs ------------------------
(***************************************************************************)
(* Proofs about the two containers that threads share behind a lock.       *)
(* LockedHashMap implements AtomicMap, for every number of threads, every  *)
(* set of calls with any keys and values, and every callback.  UltraQ      *)
(* implements MessageFifo, for every number of producers, one consumer, and*)
(* any sizes of blocks and messages.                                       *)
(***************************************************************************)
EXTENDS LockedHashMap, UltraQ, SequenceTheorems, WellFoundedInduction, TLAPS

----------------------------------------------------------------------------
(* The inductive invariant *)

IsMap(f) == f = [x \in DOMAIN f |-> f[x]]

TypeInv ==
    /\ IsMap(m_map)
    /\ readers \subseteq Threads /\ writer \subseteq Threads
    /\ call \in [Threads -> Calls \cup {NoCall}]
    /\ pc \in [Threads -> {"idle", "lock", "locked", "callback", "loop", "unlock"}]
    /\ out = [t \in Threads |-> out[t]]

\* A thread past the lock holds it in the way of its call, a writer alone.
Held(t) == pc[t] \notin {"idle", "lock"}

LockInv ==
    /\ \A t \in Threads :
          /\ t \in readers <=> Held(t) /\ Shared(call[t])
          /\ t \in writer <=> Held(t) /\ ~Shared(call[t])
    /\ writer # {} => readers = {}
    /\ \A s, t \in writer : s = t

\* What a thread keeps in its local between two steps is still so in the map.
LocalPart(t) ==
    /\ call[t] = NoCall <=> pc[t] = "idle"
    /\ pc[t] = "callback" =>
           /\ call[t].op = "update_if_exists"
           /\ Has(Key(t)) /\ out[t] = m_map[Key(t)]
    /\ pc[t] = "loop" =>
           /\ call[t].op \in {"for_each", "for_each_mutable", "keys", "values"}
           /\ IsMap(out[t]) /\ DOMAIN out[t] \subseteq DOMAIN m_map
           /\ Shared(call[t]) => \A k \in DOMAIN out[t] : out[t][k] = m_map[k]

LocalInv == \A t \in Threads : LocalPart(t)

IInv == TypeInv /\ LockInv /\ LocalInv

----------------------------------------------------------------------------
(* Maps *)

\* Storing an element makes a map of the old keys and the new one.
LEMMA PutMap ==
    ASSUME NEW m, NEW k, NEW v
    PROVE  /\ IsMap(Put(m, k, v))
           /\ DOMAIN Put(m, k, v) = DOMAIN m \cup {k}
           /\ \A j \in DOMAIN m \cup {k} : Put(m, k, v)[j] = IF j = k THEN v ELSE m[j]
BY DEF Put, IsMap

\* Storing an element that is there already changes nothing.
LEMMA PutSame ==
    ASSUME NEW m, IsMap(m), NEW k \in DOMAIN m
    PROVE  Put(m, k, m[k]) = m
BY DEF Put, IsMap

\* Erasing keys leaves a map.
LEMMA RestrictMap ==
    ASSUME NEW m, NEW S
    PROVE  IsMap(Restrict(m, S))
BY DEF Restrict, IsMap

\* A map without keys is the empty one.
LEMMA EmptyMap ==
    ASSUME NEW m, IsMap(m)
    PROVE  /\ IsMap(<<>>) /\ DOMAIN <<>> = {}
           /\ m = <<>> <=> DOMAIN m = {}
BY DEF IsMap

----------------------------------------------------------------------------
(* The lock *)

\* While a writer is past the lock no other thread is.
LEMMA WriterAlone ==
    ASSUME LockInv, NEW t \in Threads, Held(t), ~Shared(call[t]),
           NEW s \in Threads, s # t
    PROVE  ~Held(s)
BY DEF LockInv

\* for_each_mutable is not among the calls that share the lock.
LEMMA ChangingWrites ==
    ASSUME NEW s \in Changing
    PROVE  s \in Threads /\ Held(s) /\ ~Shared(call[s])
BY DEF Changing, Held, Shared, Reading

\* Nobody is in for_each_mutable while another thread is past the lock.
LEMMA ChangingAlone ==
    ASSUME LockInv, NEW t \in Threads, Held(t), t \notin Changing
    PROVE  Changing = {}
<1> SUFFICES ASSUME NEW s \in Changing
             PROVE  FALSE
  OBVIOUS
<1>1. s \in writer /\ s # t /\ Held(s) /\ ~Shared(call[s])
  BY ChangingWrites DEF LockInv
<1>. QED
  BY <1>1 DEF LockInv

\* A step of a thread past the lock, under which the map changes only if the
\* thread writes, keeps the invariant if it keeps the thread's own part.
LEMMA WorkKeepsInv ==
    ASSUME IInv, NEW t \in Threads, Held(t),
           UNCHANGED <<readers, writer, call>>,
           NEW p \in {"callback", "loop", "unlock"}, pc' = [pc EXCEPT ![t] = p],
           NEW o, out' = [out EXCEPT ![t] = o],
           IsMap(m_map)', Shared(call[t]) => m_map' = m_map,
           LocalPart(t)'
    PROVE  IInv'
<1>1. TypeInv'
  BY DEF IInv, TypeInv
<1>2. /\ pc'[t] = p
      /\ \A s \in Threads : s # t => pc'[s] = pc[s] /\ out'[s] = out[s]
  BY DEF IInv, TypeInv
<1>3. LockInv'
  BY <1>2 DEF IInv, LockInv, Held
<1>4. ASSUME NEW s \in Threads
      PROVE  LocalPart(s)'
  <2>1. CASE s = t
    BY <2>1
  <2>2. CASE s # t /\ m_map' = m_map
    BY <1>2, <2>2 DEF IInv, LocalInv, LocalPart, Has, Key
  <2>3. CASE s # t /\ ~Shared(call[t])
    <3>1. pc[s] \in {"idle", "lock"}
      BY <2>3, WriterAlone DEF IInv, Held
    <3>. QED
      BY <1>2, <2>3, <3>1 DEF IInv, LocalInv, LocalPart
  <2>. QED
    BY <2>1, <2>2, <2>3
<1>. QED
  BY <1>1, <1>3, <1>4 DEF IInv, LocalInv

----------------------------------------------------------------------------
(* The invariant is inductive *)

\* IInv holds before the first call.
LEMMA InitIInv == Init => IInv
BY DEF Init, IInv, TypeInv, LockInv, LocalInv, LocalPart, Held, IsMap

\* A call begins without the lock.
LEMMA BeginInv ==
    ASSUME IInv, NEW t \in Threads, Begin(t)
    PROVE  IInv'
<1>1. PICK c \in Calls : call' = [call EXCEPT ![t] = c]
  BY DEF Begin
<1>2. /\ pc[t] = "idle" /\ pc' = [pc EXCEPT ![t] = "lock"]
      /\ UNCHANGED <<m_map, readers, writer, out>>
  BY DEF Begin
<1>3. TypeInv'
  BY <1>1, <1>2 DEF IInv, TypeInv
<1>4. LockInv'
  BY <1>1, <1>2 DEF IInv, TypeInv, LockInv, Held
<1>5. LocalInv'
  BY <1>1, <1>2, NoCallAssumption DEF IInv, TypeInv, LocalInv, LocalPart, Has, Key
<1>. QED
  BY <1>3, <1>4, <1>5 DEF IInv

\* Taking the lock shared needs no writer, taking it exclusively nobody.
LEMMA LockKeepsInv ==
    ASSUME IInv, NEW t \in Threads, Lock(t)
    PROVE  IInv'
<1>1. /\ pc[t] = "lock" /\ pc' = [pc EXCEPT ![t] = "locked"]
      /\ UNCHANGED <<m_map, call, out>>
  BY DEF Lock
<1>2. TypeInv'
  BY <1>1 DEF IInv, TypeInv, Lock
<1>3. LockInv'
  <2>1. t \notin readers /\ t \notin writer
    BY <1>1 DEF IInv, LockInv, Held
  <2>2. CASE Shared(call[t]) /\ readers' = readers \cup {t} /\ writer' = {}
    BY <1>1, <2>1, <2>2 DEF IInv, TypeInv, LockInv, Held, Lock
  <2>3. CASE ~Shared(call[t]) /\ readers' = {} /\ writer' = {t}
    BY <1>1, <2>1, <2>3 DEF IInv, TypeInv, LockInv, Held, Lock
  <2>. QED
    BY <2>2, <2>3 DEF Lock
<1>4. LocalInv'
  BY <1>1 DEF IInv, TypeInv, LocalInv, LocalPart, Has, Key
<1>. QED
  BY <1>2, <1>3, <1>4 DEF IInv

\* Releasing the lock ends the call.
LEMMA UnlockInv ==
    ASSUME IInv, NEW t \in Threads, Unlock(t)
    PROVE  IInv'
<1>1. /\ pc[t] = "unlock" /\ pc' = [pc EXCEPT ![t] = "idle"]
      /\ readers' = readers \ {t} /\ writer' = writer \ {t}
      /\ call' = [call EXCEPT ![t] = NoCall] /\ out' = [out EXCEPT ![t] = None]
      /\ m_map' = m_map
  BY DEF Unlock
<1>2. TypeInv'
  BY <1>1 DEF IInv, TypeInv
<1>3. LockInv'
  BY <1>1 DEF IInv, TypeInv, LockInv, Held
<1>4. LocalInv'
  BY <1>1 DEF IInv, TypeInv, LocalInv, LocalPart, Has, Key
<1>. QED
  BY <1>2, <1>3, <1>4 DEF IInv

----------------------------------------------------------------------------
(* The calls that work on the map in one step *)

Point(t) ==
    \/ insert_or_assign(t) \/ insert(t) \/ emplace(t) \/ find(t) \/ get_or_default(t)
    \/ subscript(t) \/ contains(t) \/ erase(t) \/ size(t) \/ empty(t) \/ clear(t)
    \/ UpdateFind(t) /\ ~Has(Key(t))

\* Such a step ends the call's work, and changes the map only if it holds the
\* lock exclusively.
LEMMA PointShape ==
    ASSUME IInv, NEW t \in Threads, Point(t)
    PROVE  /\ pc[t] = "locked" /\ UNCHANGED <<readers, writer, call>>
           /\ pc' = [pc EXCEPT ![t] = "unlock"]
           /\ out' = [out EXCEPT ![t] = out'[t]]
           /\ IsMap(m_map)'
           /\ Shared(call[t]) => m_map' = m_map
<1> USE DEF At, Returns
<1>1. IsMap(m_map) /\ out = [s \in Threads |-> out[s]]
  BY DEF IInv, TypeInv
<1>2. CASE insert_or_assign(t) \/ insert(t) \/ emplace(t) \/ subscript(t)
  <2>1. ~Shared(call[t])
    BY <1>2 DEF insert_or_assign, insert, emplace, subscript, Shared, Reading
  <2>2. PICK k, v : m_map' = Put(m_map, k, v)
    BY <1>2, Zenon DEF insert_or_assign, insert, emplace, subscript, Stored
  <2>3. IsMap(m_map)'
    BY <2>2 DEF Put, IsMap
  <2>4. /\ pc[t] = "locked" /\ UNCHANGED <<readers, writer, call>>
        /\ pc' = [pc EXCEPT ![t] = "unlock"]
    BY <1>2 DEF insert_or_assign, insert, emplace, subscript
  <2>5. \E x : out' = [out EXCEPT ![t] = x]
    BY <1>2, Zenon DEF insert_or_assign, insert, emplace, subscript
  <2>. QED
    BY <1>1, <2>1, <2>3, <2>4, <2>5
<1>3. CASE find(t) \/ get_or_default(t) \/ contains(t) \/ size(t) \/ empty(t)
  BY <1>1, <1>3 DEF find, get_or_default, contains, size, empty
<1>4. CASE erase(t) \/ clear(t)
  BY <1>1, <1>4, RestrictMap, EmptyMap DEF erase, clear, Shared, Reading
<1>5. CASE UpdateFind(t) /\ ~Has(Key(t))
  BY <1>1, <1>5 DEF UpdateFind
<1>. QED
  BY <1>2, <1>3, <1>4, <1>5 DEF Point

\* Such a step has the effect and gives the answer that AtomicMap asks for.
LEMMA PointEffect ==
    ASSUME IInv, NEW t \in Threads, Point(t),
           MapSeen = m_map, MapSeen' = m_map',
           ~DoneSeen[t], DoneSeen' = [DoneSeen EXCEPT ![t] = TRUE],
           RetSeen' = [RetSeen EXCEPT ![t] = out'[t]]
    PROVE  Atomic!TakeEffect(t)
<1> USE DEF At, Key, Returns, Has, Stored, FoundOr, Atomic!TakeEffect, Atomic!Effect,
            Atomic!Lookup
<1>0. \A m, k, v : Atomic!Put(m, k, v) = Put(m, k, v)
  BY DEF Atomic!Put, Put
<1>1. IsMap(m_map) /\ out = [s \in Threads |-> out[s]]
  BY DEF IInv, TypeInv
<1>2. call[t] # NoCall
  BY PointShape DEF IInv, LocalInv, LocalPart
<1>3. CASE insert_or_assign(t)
  BY <1>0, <1>1, <1>2, <1>3 DEF insert_or_assign
<1>4. CASE insert(t) \/ emplace(t)
  <2>1. m_map' = Atomic!PutIfAbsent(m_map, Key(t), call[t].value)
    BY <1>0, <1>1, <1>4, PutSame DEF insert, emplace, Atomic!PutIfAbsent
  <2>2. out'[t] = (Key(t) \notin DOMAIN m_map)
    BY <1>1, <1>4 DEF insert, emplace
  <2>. QED
    BY <1>2, <1>4, <2>1, <2>2 DEF insert, emplace
<1>5. CASE subscript(t)
  <2>1. m_map' = Atomic!PutIfAbsent(m_map, Key(t), Default)
    BY <1>0, <1>1, <1>5, PutSame DEF subscript, Atomic!PutIfAbsent
  <2>. QED
    BY <1>1, <1>2, <1>5, <2>1 DEF subscript
<1>6. CASE find(t)
  BY <1>1, <1>2, <1>6 DEF find
<1>7. CASE get_or_default(t)
  BY <1>1, <1>2, <1>7 DEF get_or_default
<1>8. CASE contains(t)
  BY <1>1, <1>2, <1>8 DEF contains
<1>9. CASE size(t)
  BY <1>1, <1>2, <1>9 DEF size, Cardinality, Atomic!Cardinality
<1>10. CASE empty(t)
  BY <1>1, <1>2, <1>10, EmptyMap DEF empty
<1>11. CASE erase(t)
  BY <1>1, <1>2, <1>11 DEF erase, Restrict, Atomic!Restrict
<1>12. CASE clear(t)
  BY <1>1, <1>2, <1>12 DEF clear
<1>13. CASE UpdateFind(t) /\ ~Has(Key(t))
  <2>1. out'[t] = (Key(t) \in DOMAIN m_map)
    <3>1. Key(t) \notin DOMAIN m_map /\ out' = [out EXCEPT ![t] = FALSE]
      BY <1>13 DEF UpdateFind
    <3>2. out'[t] = FALSE
      BY <1>1, <3>1
    <3>3. (Key(t) \in DOMAIN m_map) = FALSE
      BY <3>1
    <3>. QED
      BY <3>2, <3>3, Zenon
  <2>2. m_map' = IF Key(t) \in DOMAIN m_map
                 THEN Atomic!Put(m_map, Key(t), F(m_map[Key(t)])) ELSE m_map
    BY <1>13 DEF UpdateFind
  <2>. QED
    BY <1>2, <1>13, <2>1, <2>2 DEF UpdateFind
<1>. QED
  BY <1>3, <1>4, <1>5, <1>6, <1>7, <1>8, <1>9, <1>10, <1>11, <1>12, <1>13 DEF Point

----------------------------------------------------------------------------
(* The other steps under the lock *)

\* So do the loops and the callback, and no thread's local goes stale.
LEMMA OperationInv ==
    ASSUME IInv, NEW t \in Threads, Operation(t)
    PROVE  IInv'
<1> USE DEF At, Key, Returns, InLoop
<1>1. /\ IsMap(m_map) /\ LocalPart(t)
      /\ call \in [Threads -> Calls \cup {NoCall}]
      /\ pc \in [Threads -> {"idle", "lock", "locked", "callback", "loop", "unlock"}]
      /\ out = [s \in Threads |-> out[s]]
  BY DEF IInv, TypeInv, LocalInv
<1>2. CASE Point(t)
  <2>1. Held(t)
    BY <1>2, PointShape DEF Held
  <2>2. LocalPart(t)'
    BY <1>1, <1>2, PointShape DEF LocalPart
  <2>. QED
    BY <1>2, <2>1, <2>2, PointShape, WorkKeepsInv
<1>3. CASE UpdateFind(t) /\ Has(Key(t))
  <2>1. /\ pc[t] = "locked" /\ call[t].op = "update_if_exists"
        /\ pc' = [pc EXCEPT ![t] = "callback"]
        /\ out' = [out EXCEPT ![t] = m_map[Key(t)]]
        /\ UNCHANGED <<m_map, readers, writer, call>>
    BY <1>3 DEF UpdateFind
  <2>2. LocalPart(t)'
    BY <1>1, <1>3, <2>1 DEF LocalPart, Has
  <2>. QED
    BY <1>1, <2>1, <2>2, WorkKeepsInv DEF Held
<1>4. CASE UpdateAssign(t)
  <2>1. /\ pc[t] = "callback" /\ ~Shared(call[t])
        /\ pc' = [pc EXCEPT ![t] = "unlock"]
        /\ out' = [out EXCEPT ![t] = TRUE]
        /\ UNCHANGED <<readers, writer, call>>
    BY <1>1, <1>4 DEF UpdateAssign, LocalPart, Shared, Reading
  <2>2. IsMap(m_map)'
    BY <1>4 DEF UpdateAssign, Stored, Put, IsMap
  <2>3. LocalPart(t)'
    BY <1>1, <2>1 DEF LocalPart
  <2>. QED
    BY <2>1, <2>2, <2>3, WorkKeepsInv DEF Held
<1>5. ASSUME NEW op \in {"for_each", "for_each_mutable", "keys", "values"}, Loop(t, op)
      PROVE  IInv'
  <2>1. /\ pc[t] = "locked" /\ call[t].op = op
        /\ pc' = [pc EXCEPT ![t] = "loop"]
        /\ out' = [out EXCEPT ![t] = <<>>]
        /\ UNCHANGED <<m_map, readers, writer, call>>
    BY <1>5 DEF Loop
  <2>2. LocalPart(t)'
    BY <1>1, <2>1, EmptyMap DEF LocalPart
  <2>. QED
    BY <1>1, <2>1, <2>2, WorkKeepsInv DEF Held
<1>6. ASSUME NEW k \in DOMAIN m_map, VisitMutable(t, k) \/ Visit(t, k)
      PROVE  IInv'
  <2>1. /\ pc[t] = "loop" /\ k \in Left(t)
        /\ pc' = [pc EXCEPT ![t] = "loop"]
        /\ out' = [out EXCEPT ![t] = Put(out[t], k, m_map[k])]
        /\ UNCHANGED <<readers, writer, call>>
    BY <1>1, <1>6 DEF VisitMutable, Visit
  <2>2. IsMap(m_map)' /\ DOMAIN m_map' = DOMAIN m_map
    BY <1>1, <1>6 DEF VisitMutable, Visit, Stored, Put, IsMap
  <2>3. Shared(call[t]) => m_map' = m_map
    BY <1>6 DEF VisitMutable, Visit, Shared, Reading
  <2>4. IsMap(out'[t]) /\ DOMAIN out'[t] = DOMAIN out[t] \cup {k}
        /\ \A j \in DOMAIN out[t] \cup {k} : out'[t][j] = IF j = k THEN m_map[k] ELSE out[t][j]
    <3>1. out'[t] = Put(out[t], k, m_map[k])
      BY <1>1, <2>1
    <3>. QED
      BY <3>1 DEF Put, IsMap
  <2>5. LocalPart(t)'
    BY <1>1, <2>1, <2>2, <2>3, <2>4 DEF LocalPart
  <2>. QED
    BY <2>1, <2>2, <2>3, <2>5, WorkKeepsInv DEF Held
<1>7. CASE LoopEnds(t)
  <2>1. PICK x : /\ pc[t] = "loop"
                 /\ pc' = [pc EXCEPT ![t] = "unlock"]
                 /\ out' = [out EXCEPT ![t] = x]
                 /\ UNCHANGED <<m_map, readers, writer, call>>
    BY <1>7 DEF LoopEnds
  <2>2. LocalPart(t)'
    BY <1>1, <2>1 DEF LocalPart
  <2>. QED
    BY <1>1, <2>1, <2>2, WorkKeepsInv DEF Held
<1>. QED
  BY <1>2, <1>3, <1>4, <1>5, <1>6, <1>7
     DEF Operation, Point, for_each, for_each_mutable, keys, values

\* Every step keeps IInv.
LEMMA NextIInv == IInv /\ [Next]_vars => IInv'
<1> SUFFICES ASSUME IInv, [Next]_vars
             PROVE  IInv'
  OBVIOUS
<1>1. ASSUME NEW t \in Threads, Begin(t) \/ Lock(t) \/ Operation(t) \/ Unlock(t)
      PROVE  IInv'
  BY <1>1, BeginInv, LockKeepsInv, OperationInv, UnlockInv
<1>2. CASE UNCHANGED vars
  BY <1>2 DEF vars, IInv, TypeInv, LockInv, LocalInv, LocalPart, Held, Has, Key
<1>. QED
  BY <1>1, <1>2 DEF Next

----------------------------------------------------------------------------
(* The refinement *)

\* What AtomicMap sees of the other threads does not change in a step of t.
LEMMA OthersSeen ==
    ASSUME IInv, NEW t \in Threads, Held(t), call' = call,
           NEW p, pc' = [pc EXCEPT ![t] = p],
           NEW o, out' = [out EXCEPT ![t] = o],
           Shared(call[t]) => m_map' = m_map
    PROVE  /\ \A s \in Threads \ {t} :
                  /\ s \in Changing' <=> s \in Changing
                  /\ Done(s)' <=> Done(s)
                  /\ RetSeen'[s] = RetSeen[s]
           /\ RetSeen' = [RetSeen EXCEPT ![t] = RetSeen'[t]]
<1>1. /\ pc'[t] = p
      /\ \A s \in Threads : s # t => pc'[s] = pc[s] /\ out'[s] = out[s]
  BY DEF IInv, TypeInv
<1>2. ASSUME NEW s \in Threads \ {t}
      PROVE  /\ s \in Changing' <=> s \in Changing
             /\ Done(s)' <=> Done(s)
             /\ RetSeen'[s] = RetSeen[s]
  <2>1. /\ s \in Changing' <=> s \in Changing
        /\ Done(s)' <=> Done(s)
    BY <1>1 DEF Changing, Done
  <2>2. CASE m_map' = m_map
    <3>1. Seen(s)' = Seen(s)
      BY <1>1, <2>2 DEF Seen
    <3>. QED
      BY <1>1, <2>1, <3>1 DEF RetSeen
  <2>3. CASE ~Shared(call[t])
    <3>1. ~Held(s)
      BY <2>3, WriterAlone DEF IInv
    <3>2. ~Done(s)
      BY <3>1 DEF Held, Done
    <3>. QED
      BY <2>1, <3>2 DEF RetSeen
  <2>. QED
    BY <2>1, <2>2, <2>3
<1>3. RetSeen' = [RetSeen EXCEPT ![t] = RetSeen'[t]]
  <2>1. /\ RetSeen = [s \in Threads |-> RetSeen[s]]
        /\ RetSeen' = [s \in Threads |-> RetSeen'[s]]
    BY DEF RetSeen
  <2>. QED
    BY <1>2, <2>1
<1>. QED
  BY <1>2, <1>3

\* When nobody is in for_each_mutable, AtomicMap sees the map as it is.
LEMMA MapSeenQuiet ==
    ASSUME IsMap(m_map), Changing = {}
    PROVE  MapSeen = m_map
BY DEF MapSeen, IsMap

\* When nobody but t may be in for_each_mutable after a step of t, and t is
\* not, nobody is.
LEMMA QuietAfter ==
    ASSUME IInv, NEW t \in Threads, Held(t), call' = call,
           NEW p \in {"loop", "unlock"}, pc' = [pc EXCEPT ![t] = p],
           NEW o, out' = [out EXCEPT ![t] = o],
           Shared(call[t]) => m_map' = m_map,
           t \notin Changing'
    PROVE  Changing' = {}
<1>1. \A s \in Threads \ {t} : s \notin Changing
  BY ChangingWrites, WriterAlone DEF IInv, LockInv
<1>2. Changing' \subseteq Threads
  BY DEF Changing
<1>. QED
  BY <1>1, <1>2, OthersSeen

\* A step that takes effect marks its thread done, and nobody else.
LEMMA DoneSeenStep ==
    ASSUME IInv, NEW t \in Threads, pc[t] \notin {"loop", "unlock"},
           NEW p \in {"loop", "unlock"}, pc' = [pc EXCEPT ![t] = p]
    PROVE  ~DoneSeen[t] /\ DoneSeen' = [DoneSeen EXCEPT ![t] = TRUE]
<1>1. pc = [s \in Threads |-> pc[s]]
  BY DEF IInv, TypeInv
<1>2. ~DoneSeen[t]
  BY DEF DoneSeen, Done
<1>3. DoneSeen'[t] = TRUE
  BY <1>1 DEF DoneSeen, Done
<1>4. \A s \in Threads \ {t} : DoneSeen'[s] = DoneSeen[s]
  BY <1>1 DEF DoneSeen, Done
<1>5. /\ DoneSeen = [s \in Threads |-> DoneSeen[s]]
      /\ DoneSeen' = [s \in Threads |-> DoneSeen'[s]]
  BY DEF DoneSeen
<1>. QED
  BY <1>2, <1>3, <1>4, <1>5

\* A step that ends a call, or begins a loop that only reads, shows the map
\* as it is, before and after.
LEMMA QuietStep ==
    ASSUME IInv, NEW t \in Threads, Held(t), pc[t] \notin {"loop", "unlock"},
           call' = call,
           NEW p \in {"loop", "unlock"}, pc' = [pc EXCEPT ![t] = p],
           NEW o, out' = [out EXCEPT ![t] = o],
           Shared(call[t]) => m_map' = m_map, IsMap(m_map)',
           p = "loop" => call[t].op # "for_each_mutable"
    PROVE  /\ MapSeen = m_map /\ MapSeen' = m_map'
           /\ ~DoneSeen[t] /\ DoneSeen' = [DoneSeen EXCEPT ![t] = TRUE]
           /\ RetSeen' = [RetSeen EXCEPT ![t] = IF p = "loop" THEN Seen(t)' ELSE o]
<1>1. /\ pc'[t] = p /\ out'[t] = o /\ t \notin Changing /\ t \notin Changing'
      /\ IsMap(m_map)
  BY DEF IInv, TypeInv, Changing
<1>2. MapSeen = m_map
  BY <1>1, ChangingAlone, MapSeenQuiet DEF IInv
<1>3. Changing' = {}
  BY <1>1, QuietAfter
<1>4. MapSeen' = m_map'
  BY <1>1, <1>3 DEF MapSeen, IsMap
<1>5. RetSeen' = [RetSeen EXCEPT ![t] = RetSeen'[t]]
  BY OthersSeen
<1>6. RetSeen'[t] = IF p = "loop" THEN Seen(t)' ELSE o
  BY <1>1, <1>3 DEF RetSeen, Done
<1>. QED
  BY <1>2, <1>4, <1>5, <1>6, DoneSeenStep

\* A call that works on the map in one step takes effect in that step.
LEMMA PointImplements ==
    ASSUME IInv, NEW t \in Threads, Point(t)
    PROVE  Atomic!TakeEffect(t)
<1>1. /\ Held(t) /\ pc[t] \notin {"loop", "unlock"}
      /\ call' = call /\ pc' = [pc EXCEPT ![t] = "unlock"]
      /\ out' = [out EXCEPT ![t] = out'[t]]
      /\ IsMap(m_map)' /\ (Shared(call[t]) => m_map' = m_map)
  BY PointShape DEF Held
<1>2. /\ MapSeen = m_map /\ MapSeen' = m_map'
      /\ ~DoneSeen[t] /\ DoneSeen' = [DoneSeen EXCEPT ![t] = TRUE]
      /\ RetSeen' = [RetSeen EXCEPT ![t] = out'[t]]
  BY <1>1, QuietStep
<1>. QED
  BY <1>2, PointEffect

\* The value that the callback of update_if_exists was given is still the
\* element's when what it made of it is stored: no update is lost.
LEMMA UpdateImplements ==
    ASSUME IInv, NEW t \in Threads, UpdateAssign(t)
    PROVE  Atomic!TakeEffect(t)
<1>1. /\ pc[t] = "callback" /\ Held(t) /\ call[t] # NoCall
      /\ call[t].op = "update_if_exists"
      /\ Key(t) \in DOMAIN m_map /\ out[t] = m_map[Key(t)]
      /\ ~Shared(call[t])
  BY DEF UpdateAssign, IInv, LocalInv, LocalPart, Held, Has, Shared, Reading
<1>2. /\ call' = call /\ pc' = [pc EXCEPT ![t] = "unlock"]
      /\ out' = [out EXCEPT ![t] = TRUE]
      /\ m_map' = Put(m_map, Key(t), F(m_map[Key(t)]))
  BY <1>1 DEF UpdateAssign, Returns, Stored
<1>3. IsMap(m_map)'
  BY <1>2 DEF Put, IsMap
<1>4. /\ MapSeen = m_map /\ MapSeen' = m_map'
      /\ ~DoneSeen[t] /\ DoneSeen' = [DoneSeen EXCEPT ![t] = TRUE]
      /\ RetSeen' = [RetSeen EXCEPT ![t] = TRUE]
  BY <1>1, <1>2, <1>3, QuietStep
<1>5. (Key(t) \in DOMAIN MapSeen) = TRUE
  BY <1>1, <1>4
<1>6. Atomic!Put(m_map, Key(t), F(m_map[Key(t)])) = m_map'
  BY <1>2 DEF Atomic!Put, Put
<1>7. Atomic!Effect(t, {"update_if_exists"},
          IF Key(t) \in DOMAIN MapSeen
          THEN Atomic!Put(MapSeen, Key(t), F(MapSeen[Key(t)])) ELSE MapSeen,
          Key(t) \in DOMAIN MapSeen)
  <2>1. RetSeen' = [RetSeen EXCEPT ![t] = Key(t) \in DOMAIN MapSeen]
    BY <1>4, <1>5, Zenon
  <2>. QED
    BY <1>1, <1>2, <1>4, <1>6, <2>1 DEF Atomic!Effect
<1>. QED
  BY <1>7 DEF Atomic!TakeEffect, Key

\* A loop that only reads will have seen the map as it is when it begins.
LEMMA ReadLoopImplements ==
    ASSUME IInv, NEW t \in Threads,
           NEW op \in {"for_each", "keys", "values"}, Loop(t, op)
    PROVE  Atomic!TakeEffect(t)
<1>1. /\ pc[t] = "locked" /\ Held(t) /\ call[t] # NoCall /\ call[t].op = op
      /\ call' = call /\ pc' = [pc EXCEPT ![t] = "loop"]
      /\ out' = [out EXCEPT ![t] = <<>>] /\ m_map' = m_map
      /\ IsMap(m_map) /\ out'[t] = <<>>
  BY DEF Loop, At, IInv, TypeInv, LocalInv, LocalPart, Held
<1>2. Seen(t)' = m_map
  BY <1>1, EmptyMap DEF Seen, IsMap
<1>3. IsMap(m_map)'
  BY <1>1 DEF IsMap
<1>4. /\ MapSeen = m_map /\ MapSeen' = m_map'
      /\ ~DoneSeen[t] /\ DoneSeen' = [DoneSeen EXCEPT ![t] = TRUE]
      /\ RetSeen' = [RetSeen EXCEPT ![t] = m_map]
  BY <1>1, <1>2, <1>3, QuietStep
<1>5. Atomic!Effect(t, {"for_each", "keys", "values"}, MapSeen, MapSeen)
  BY <1>1, <1>4 DEF Atomic!Effect
<1>. QED
  BY <1>5 DEF Atomic!TakeEffect

\* for_each_mutable has changed every element, as AtomicMap sees it, when it
\* begins.
LEMMA ChangeLoopImplements ==
    ASSUME IInv, NEW t \in Threads, for_each_mutable(t)
    PROVE  Atomic!TakeEffect(t)
<1>1. /\ pc[t] = "locked" /\ Held(t) /\ call[t] # NoCall /\ ~Shared(call[t])
      /\ call[t].op = "for_each_mutable"
      /\ call' = call /\ pc' = [pc EXCEPT ![t] = "loop"]
      /\ out' = [out EXCEPT ![t] = <<>>] /\ m_map' = m_map
      /\ IsMap(m_map) /\ pc'[t] = "loop" /\ out'[t] = <<>>
  BY DEF for_each_mutable, Loop, At, IInv, TypeInv, LocalInv, LocalPart, Held,
         Shared, Reading
<1>2. t \notin Changing /\ t \in Changing'
  BY <1>1 DEF Changing
<1>3. MapSeen = m_map
  BY <1>1, <1>2, ChangingAlone, MapSeenQuiet DEF IInv
<1>4. MapSeen' = [k \in DOMAIN m_map |-> F(m_map[k])]
  <2>1. Left(t)' = DOMAIN m_map
    BY <1>1, EmptyMap DEF Left
  <2>. QED
    BY <1>1, <1>2, <2>1 DEF MapSeen
<1>5. RetSeen' = [RetSeen EXCEPT ![t] = None]
  <2>1. RetSeen' = [RetSeen EXCEPT ![t] = RetSeen'[t]]
    BY <1>1, OthersSeen
  <2>2. RetSeen'[t] = None
    BY <1>2 DEF RetSeen
  <2>. QED
    BY <2>1, <2>2
<1>6. ~DoneSeen[t] /\ DoneSeen' = [DoneSeen EXCEPT ![t] = TRUE]
  BY <1>1, DoneSeenStep
<1>7. Atomic!Effect(t, {"for_each_mutable"},
          [j \in DOMAIN MapSeen |-> F(MapSeen[j])], None)
  BY <1>1, <1>3, <1>4, <1>5, <1>6 DEF Atomic!Effect
<1>. QED
  BY <1>7 DEF Atomic!TakeEffect

\* What has been done to an element of a loop, and what is still to be done,
\* is the same to AtomicMap: a round of for_each_mutable changes nothing.
LEMMA VisitMutableStutters ==
    ASSUME IInv, NEW t \in Threads, NEW k, VisitMutable(t, k)
    PROVE  UNCHANGED <<MapSeen, call, DoneSeen, RetSeen>>
<1>1. /\ pc[t] = "loop" /\ Held(t) /\ t \in Changing /\ ~Shared(call[t])
      /\ k \in DOMAIN m_map /\ k \notin DOMAIN out[t]
      /\ call' = call /\ pc' = pc
      /\ m_map' = Put(m_map, k, F(m_map[k]))
      /\ out' = [out EXCEPT ![t] = Put(out[t], k, m_map[k])]
      /\ out = [s \in Threads |-> out[s]]
  BY DEF VisitMutable, InLoop, Left, Stored, Held, Changing, Shared, Reading,
         IInv, TypeInv
<1>2. Changing = {t} /\ Changing' = Changing
  <2>1. \A s \in Changing : s = t
    BY <1>1, ChangingWrites, WriterAlone DEF IInv
  <2>. QED
    BY <1>1, <2>1 DEF Changing
<1>3. /\ DOMAIN m_map' = DOMAIN m_map
      /\ \A j \in DOMAIN m_map : m_map'[j] = IF j = k THEN F(m_map[k]) ELSE m_map[j]
      /\ DOMAIN out'[t] = DOMAIN out[t] \cup {k}
  <2>1. out'[t] = Put(out[t], k, m_map[k])
    BY <1>1
  <2>. QED
    BY <1>1, <2>1 DEF Put
<1>4. Left(t) = DOMAIN m_map \ DOMAIN out[t] /\ Left(t)' = Left(t) \ {k}
  BY <1>3 DEF Left
<1>5. MapSeen' = MapSeen
  BY <1>1, <1>2, <1>3, <1>4 DEF MapSeen
<1>6. DoneSeen' = DoneSeen
  BY <1>1 DEF DoneSeen, Done
<1>7. RetSeen' = RetSeen
  <2>1. ASSUME NEW s \in Threads \ {t}
        PROVE  ~Done(s) /\ ~Done(s)'
    BY <1>1, WriterAlone DEF IInv, Held, Done
  <2>. QED
    BY <1>2, <2>1 DEF RetSeen
<1>. QED
  BY <1>1, <1>5, <1>6, <1>7

\* Nor does a round of a loop that reads, because the map does not change
\* while it is held shared.
LEMMA VisitStutters ==
    ASSUME IInv, NEW t \in Threads, NEW k, Visit(t, k)
    PROVE  UNCHANGED <<MapSeen, call, DoneSeen, RetSeen>>
<1>1. /\ pc[t] = "loop" /\ Held(t) /\ t \notin Changing /\ Shared(call[t])
      /\ k \in DOMAIN m_map /\ k \notin DOMAIN out[t]
      /\ call' = call /\ pc' = pc /\ m_map' = m_map
      /\ out' = [out EXCEPT ![t] = Put(out[t], k, m_map[k])]
      /\ out = [s \in Threads |-> out[s]]
  BY DEF Visit, InLoop, Left, Held, Changing, Shared, Reading,
         IInv, TypeInv, LocalInv, LocalPart
<1>2. Changing = {} /\ Changing' = {}
  BY <1>1, ChangingAlone DEF IInv, Changing
<1>3. MapSeen' = MapSeen
  BY <1>1, <1>2 DEF MapSeen
<1>4. DoneSeen' = DoneSeen
  BY <1>1 DEF DoneSeen, Done
<1>5. Seen(t)' = Seen(t)
  <2>1. out'[t] = Put(out[t], k, m_map[k])
    BY <1>1
  <2>2. /\ DOMAIN out'[t] = DOMAIN out[t] \cup {k}
        /\ \A j \in DOMAIN out[t] \cup {k} :
               out'[t][j] = IF j = k THEN m_map[k] ELSE out[t][j]
    BY <2>1 DEF Put
  <2>. QED
    BY <1>1, <2>2 DEF Seen
<1>6. ASSUME NEW s \in Threads \ {t}
      PROVE  Seen(s)' = Seen(s) /\ out'[s] = out[s]
  BY <1>1 DEF Seen
<1>7. RetSeen' = RetSeen
  BY <1>1, <1>2, <1>5, <1>6 DEF RetSeen, Done
<1>. QED
  BY <1>1, <1>3, <1>4, <1>7

\* What a loop has seen at its end is what it was to have seen.
LEMMA LoopEndsStutters ==
    ASSUME IInv, NEW t \in Threads, LoopEnds(t)
    PROVE  UNCHANGED <<MapSeen, call, DoneSeen, RetSeen>>
<1>1. /\ pc[t] = "loop" /\ Held(t) /\ Left(t) = {}
      /\ call[t].op = "for_each_mutable" <=> ~Shared(call[t])
      /\ call' = call /\ m_map' = m_map
      /\ pc' = [pc EXCEPT ![t] = "unlock"] /\ pc'[t] = "unlock"
      /\ out = [s \in Threads |-> out[s]] /\ IsMap(out[t]) /\ IsMap(m_map)
      /\ DOMAIN out[t] = DOMAIN m_map
      /\ Shared(call[t]) => \A k \in DOMAIN out[t] : out[t][k] = m_map[k]
  BY DEF LoopEnds, Returns, InLoop, Left, Held, Shared, Reading,
         IInv, TypeInv, LocalInv, LocalPart
<1>2. out' = [out EXCEPT ![t] = IF Shared(call[t]) THEN out[t] ELSE None]
  BY <1>1 DEF LoopEnds, Returns
<1>3. /\ t \notin Changing' /\ Done(t)
      /\ \A s \in Threads \ {t} : pc'[s] = pc[s] /\ out'[s] = out[s]
  BY <1>1, <1>2 DEF Changing, Done, IInv, TypeInv
<1>4. Changing' = {}
  BY <1>1, <1>2, <1>3, QuietAfter
<1>5. MapSeen' = MapSeen
  <2>1. ASSUME NEW s \in Changing
        PROVE  s = t
    BY <1>1, ChangingWrites, WriterAlone DEF IInv
  <2>2. ~ \E s \in Changing, k \in DOMAIN m_map : k \in Left(s)
    BY <1>1, <2>1
  <2>. QED
    BY <1>1, <1>4, <2>2 DEF MapSeen
<1>6. DoneSeen' = DoneSeen
  BY <1>1, <1>3 DEF DoneSeen, Done, IInv, TypeInv
<1>7. RetSeen'[t] = RetSeen[t]
  <2>1. CASE Shared(call[t])
    <3>1. Seen(t) = out[t]
      BY <1>1, <2>1 DEF Seen, IsMap
    <3>. QED
      BY <1>1, <1>2, <1>4, <2>1, <3>1 DEF RetSeen, Done, Changing
  <2>2. CASE ~Shared(call[t])
    BY <1>1, <1>2, <1>4, <2>2 DEF RetSeen, Done, Changing
  <2>. QED
    BY <2>1, <2>2
<1>8. \A s \in Threads \ {t} : RetSeen'[s] = RetSeen[s]
  BY <1>1, <1>2, OthersSeen
<1>9. RetSeen' = RetSeen
  <2>1. /\ RetSeen = [s \in Threads |-> RetSeen[s]]
        /\ RetSeen' = [s \in Threads |-> RetSeen'[s]]
    BY DEF RetSeen
  <2>. QED
    BY <1>7, <1>8, <2>1
<1>. QED
  BY <1>1, <1>5, <1>6, <1>9

\* Before its callback update_if_exists has done nothing yet, as taking the
\* lock has not.
LEMMA NotYetStutters ==
    ASSUME IInv, NEW t \in Threads, Lock(t) \/ (UpdateFind(t) /\ Has(Key(t)))
    PROVE  UNCHANGED <<MapSeen, call, DoneSeen, RetSeen>>
<1>1. PICK p \in {"locked", "callback"} : pc' = [pc EXCEPT ![t] = p]
  <2>1. CASE Lock(t)
    BY <2>1 DEF Lock
  <2>2. CASE UpdateFind(t) /\ Has(Key(t))
    BY <2>2 DEF UpdateFind
  <2>. QED
    BY <2>1, <2>2
<1>2. /\ pc[t] \notin {"loop", "unlock"} /\ pc'[t] = p
      /\ call' = call /\ m_map' = m_map
      /\ \A s \in Threads \ {t} : pc'[s] = pc[s] /\ out'[s] = out[s]
  BY <1>1 DEF Lock, UpdateFind, At, IInv, TypeInv
<1>3. \A s \in Threads : Done(s)' <=> Done(s)
  BY <1>1, <1>2 DEF Done
<1>4. Changing' = Changing /\ t \notin Changing
  BY <1>1, <1>2 DEF Changing
<1>5. MapSeen' = MapSeen
  <2>1. \A s \in Changing : Left(s)' = Left(s)
    BY <1>2, <1>4 DEF Changing, Left
  <2>. QED
    BY <1>2, <1>4, <2>1 DEF MapSeen
<1>6. DoneSeen' = DoneSeen
  BY <1>1, <1>2 DEF DoneSeen, Done
<1>7. RetSeen' = RetSeen
  <2>1. ~Done(t) /\ ~Done(t)'
    BY <1>1, <1>2 DEF Done
  <2>2. \A s \in Threads \ {t} : Seen(s)' = Seen(s)
    BY <1>2 DEF Seen
  <2>. QED
    BY <1>2, <1>3, <1>4, <2>1, <2>2 DEF RetSeen
<1>. QED
  BY <1>2, <1>5, <1>6, <1>7

----------------------------------------------------------------------------
(* Begin and return *)

\* A call begins when AtomicMap's does.
LEMMA BeginImplements ==
    ASSUME IInv, NEW t \in Threads, Begin(t)
    PROVE  Atomic!Begin(t)
<1>1. PICK c \in Calls : call' = [call EXCEPT ![t] = c]
  BY DEF Begin
<1>2. /\ pc[t] = "idle" /\ pc' = [pc EXCEPT ![t] = "lock"] /\ pc'[t] = "lock"
      /\ m_map' = m_map /\ out' = out
      /\ \A s \in Threads \ {t} : pc'[s] = pc[s] /\ call'[s] = call[s]
  BY <1>1 DEF Begin, IInv, TypeInv
<1>3. Changing' = Changing
  BY <1>2 DEF Changing
<1>4. MapSeen' = MapSeen
  BY <1>2, <1>3 DEF MapSeen, Left
<1>5. DoneSeen' = DoneSeen
  BY <1>2 DEF DoneSeen, Done
<1>6. RetSeen' = RetSeen
  BY <1>2, <1>3 DEF RetSeen, Done, Seen
<1>7. call[t] = NoCall
  BY <1>2 DEF IInv, LocalInv, LocalPart
<1>. QED
  BY <1>1, <1>4, <1>5, <1>6, <1>7 DEF Atomic!Begin

\* A call returns when it releases the lock.
LEMMA UnlockImplements ==
    ASSUME IInv, NEW t \in Threads, Unlock(t)
    PROVE  Atomic!Return(t)
<1>1. /\ pc[t] = "unlock" /\ pc' = [pc EXCEPT ![t] = "idle"] /\ pc'[t] = "idle"
      /\ m_map' = m_map /\ call' = [call EXCEPT ![t] = NoCall]
      /\ \A s \in Threads \ {t} :
             pc'[s] = pc[s] /\ call'[s] = call[s] /\ out'[s] = out[s]
      /\ pc = [s \in Threads |-> pc[s]]
  BY DEF Unlock, IInv, TypeInv
<1>2. Changing' = Changing /\ t \notin Changing
  BY <1>1 DEF Changing
<1>3. MapSeen' = MapSeen
  <2>1. \A s \in Changing : Left(s)' = Left(s)
    BY <1>1, <1>2 DEF Changing, Left
  <2>. QED
    BY <1>1, <1>2, <2>1 DEF MapSeen
<1>4. DoneSeen[t] /\ DoneSeen' = [DoneSeen EXCEPT ![t] = FALSE]
  <2>1. DoneSeen[t]
    BY <1>1 DEF DoneSeen, Done
  <2>2. DoneSeen'[t] = FALSE
    <3>1. DoneSeen'[t] = (pc'[t] \in {"loop", "unlock"})
      BY DEF DoneSeen, Done
    <3>2. (pc'[t] \in {"loop", "unlock"}) = FALSE
      BY <1>1
    <3>. QED
      BY <3>1, <3>2
  <2>3. \A s \in Threads \ {t} : DoneSeen'[s] = DoneSeen[s]
    BY <1>1 DEF DoneSeen, Done
  <2>4. /\ DoneSeen = [s \in Threads |-> DoneSeen[s]]
        /\ DoneSeen' = [s \in Threads |-> DoneSeen'[s]]
    BY DEF DoneSeen
  <2>. QED
    BY <2>1, <2>2, <2>3, <2>4
<1>5. RetSeen' = [RetSeen EXCEPT ![t] = None]
  <2>1. \A s \in Threads \ {t} : Seen(s)' = Seen(s) /\ (Done(s)' <=> Done(s))
    BY <1>1 DEF Seen, Done
  <2>2. ~Done(t)'
    BY <1>1 DEF Done
  <2>. QED
    BY <1>1, <1>2, <2>1, <2>2 DEF RetSeen
<1>. QED
  BY <1>1, <1>3, <1>4, <1>5 DEF Atomic!Return

----------------------------------------------------------------------------
(* The theorem *)

\* The empty map, seen by AtomicMap, is the empty map.
LEMMA InitImplements == Init => Atomic!Init
<1> SUFFICES ASSUME Init
             PROVE  Atomic!Init
  OBVIOUS
<1>1. \A t \in Threads : ~Done(t)
  BY DEF Init, Done
<1>2. MapSeen = <<>>
  <2>1. Changing = {}
    BY <1>1 DEF Changing, Done
  <2>2. m_map = <<>>
    BY DEF Init
  <2>3. IsMap(m_map)
    BY <2>2 DEF IsMap
  <2>. QED
    BY <2>1, <2>2, <2>3, MapSeenQuiet
<1>3. DoneSeen = [t \in Threads |-> FALSE]
  <2>1. \A t \in Threads : Done(t) = FALSE
    BY <1>1 DEF Done
  <2>. QED
    BY <2>1 DEF DoneSeen
<1>4. RetSeen = [t \in Threads |-> None]
  BY <1>1 DEF RetSeen
<1>. QED
  BY <1>2, <1>3, <1>4 DEF Init, Atomic!Init

\* Every step under the lock takes effect, or AtomicMap does not see it.
LEMMA OperationImplements ==
    ASSUME IInv, NEW t \in Threads, Operation(t)
    PROVE  \/ Atomic!TakeEffect(t)
           \/ UNCHANGED <<MapSeen, call, DoneSeen, RetSeen>>
<1>1. CASE Point(t)
  BY <1>1, PointImplements
<1>2. CASE UpdateFind(t) /\ Has(Key(t))
  BY <1>2, NotYetStutters
<1>3. CASE UpdateAssign(t)
  BY <1>3, UpdateImplements
<1>4. CASE for_each(t) \/ keys(t) \/ values(t)
  BY <1>4, ReadLoopImplements DEF for_each, keys, values
<1>5. CASE for_each_mutable(t)
  BY <1>5, ChangeLoopImplements
<1>6. CASE \E k \in DOMAIN m_map : VisitMutable(t, k) \/ Visit(t, k)
  BY <1>6, VisitMutableStutters, VisitStutters
<1>7. CASE LoopEnds(t)
  BY <1>7, LoopEndsStutters
<1>. QED
  BY <1>1, <1>2, <1>3, <1>4, <1>5, <1>6, <1>7 DEF Operation, Point

\* Every step is a step of AtomicMap or none.
LEMMA StepImplements ==
    IInv /\ [Next]_vars => [Atomic!Next]_(Atomic!vars)
<1> SUFFICES ASSUME IInv, [Next]_vars
             PROVE  Atomic!Next \/ UNCHANGED <<MapSeen, call, DoneSeen, RetSeen>>
  BY DEF Atomic!vars
<1>1. ASSUME NEW t \in Threads, Begin(t) \/ Lock(t) \/ Operation(t) \/ Unlock(t)
      PROVE  Atomic!Next \/ UNCHANGED <<MapSeen, call, DoneSeen, RetSeen>>
  <2>1. CASE Begin(t) \/ Unlock(t)
    BY <2>1, BeginImplements, UnlockImplements DEF Atomic!Next
  <2>2. CASE Lock(t)
    BY <2>2, NotYetStutters
  <2>3. CASE Operation(t)
    BY <2>3, OperationImplements DEF Atomic!Next
  <2>. QED
    BY <1>1, <2>1, <2>2, <2>3
<1>2. CASE UNCHANGED vars
  BY <1>2 DEF vars, MapSeen, DoneSeen, RetSeen, Changing, Done, Seen, Left
<1>. QED
  BY <1>1, <1>2 DEF Next

\* IInv holds in every reachable state.
THEOREM InvariantHolds == Spec => []IInv
BY InitIInv, NextIInv, PTL DEF Spec

\* LockedHashMap is linearizable: every call takes effect at one instant
\* between its begin and its return, whatever number of threads make
\* whatever calls.
THEOREM IsLinearizable == Spec => ImplementsAtomicMap
BY InitImplements, StepImplements, InvariantHolds, PTL
   DEF Spec, ImplementsAtomicMap, Atomic!Spec

----------------------------------------------------------------------------
(* Induction over numbers, stated of sets, and sequences put together *)

\* A set that holds 0, and with a number the next one, holds every number.
LEMMA NatSetInduction ==
    ASSUME NEW T, 0 \in T, \A n \in Nat : n \in T => n + 1 \in T
    PROVE  \A n \in Nat : n \in T
<1> DEFINE U == Nat \ T
           R == OpToRel(<, Nat)
<1>. SUFFICES ASSUME U # {} PROVE FALSE
  OBVIOUS
<1>1. IsWellFoundedOn(R, Nat)
  BY NatLessThanWellFounded
<1>2. \A x \in U : x # 0 /\ x - 1 \in Nat
  BY SMT
<1>3. \A x \in Nat : x # 0 => <<x - 1, x>> \in R
  BY DEF OpToRel
<1>4. U \subseteq Nat
  OBVIOUS
<1>5. \A x \in U : x - 1 \in U
  BY <1>2
<1> HIDE DEF U, R
<1>6. PICK x \in U : \A y \in U : <<y, x>> \notin R
  BY <1>1, <1>4, WFMin
<1>. QED
  BY <1>2, <1>3, <1>4, <1>5, <1>6

\* The concatenation, a name that the provers do not look into.
Cat(s, t) == s \o t

IsFlat(f, ss, n) ==
    \A i \in 1 .. n : f[i] = IF i = 1 THEN ss[i] ELSE Cat(f[i - 1], ss[i])

LEMMA FlatExists ==
    ASSUME NEW S, NEW ss \in Seq(Seq(S)), NEW n \in Nat, n <= Len(ss)
    PROVE  \E f \in [1 .. n -> Seq(S)] : IsFlat(f, ss, n)
<1> DEFINE T == {k \in Nat : k <= Len(ss) => \E f \in [1 .. k -> Seq(S)] : IsFlat(f, ss, k)}
<1>1. 0 \in T
  <2>1. /\ [i \in 1 .. 0 |-> <<>>] \in [1 .. 0 -> Seq(S)]
        /\ IsFlat([i \in 1 .. 0 |-> <<>>], ss, 0)
    BY DEF IsFlat
  <2>. QED
    BY <2>1
<1>2. ASSUME NEW k \in Nat, k \in T
      PROVE  k + 1 \in T
  <2>. SUFFICES ASSUME k + 1 <= Len(ss)
                PROVE  \E f \in [1 .. k + 1 -> Seq(S)] : IsFlat(f, ss, k + 1)
    OBVIOUS
  <2>1. PICK f \in [1 .. k -> Seq(S)] : IsFlat(f, ss, k)
    BY <1>2
  <2>. DEFINE e == IF k = 0 THEN ss[1] ELSE Cat(f[k], ss[k + 1])
              g == [i \in 1 .. k + 1 |-> IF i = k + 1 THEN e ELSE f[i]]
  <2>2. ss[1] \in Seq(S) /\ ss[k + 1] \in Seq(S)
    OBVIOUS
  <2>3. e \in Seq(S)
    <3>1. CASE k = 0
      BY <2>2, <3>1
    <3>2. CASE k # 0
      <4>1. f[k] \in Seq(S)
        BY <3>2
      <4>. QED
        BY <2>2, <3>2, <4>1, ConcatProperties DEF Cat
    <3>. QED
      BY <3>1, <3>2
  <2>4. g \in [1 .. k + 1 -> Seq(S)]
    BY <2>3
  <2>5. IsFlat(g, ss, k + 1)
    BY <2>1 DEF IsFlat
  <2>. QED
    BY <2>4, <2>5
<1>. HIDE DEF T
<1>3. n \in T
  BY <1>1, <1>2, NatSetInduction
<1>. QED
  BY <1>3 DEF T

LEMMA FlatUnique ==
    ASSUME NEW ss, NEW n \in Nat, NEW f, NEW g, IsFlat(f, ss, n), IsFlat(g, ss, n)
    PROVE  \A i \in 1 .. n : f[i] = g[i]
<1> DEFINE T == {i \in Nat : i \in 1 .. n => f[i] = g[i]}
<1>1. 0 \in T
  OBVIOUS
<1>2. ASSUME NEW i \in Nat, i \in T PROVE i + 1 \in T
  BY <1>2 DEF IsFlat
<1>. HIDE DEF T
<1>3. \A i \in Nat : i \in T
  BY <1>1, <1>2, NatSetInduction
<1>. QED
  BY <1>3 DEF T

LEMMA FlattenIs ==
    ASSUME NEW S, NEW ss \in Seq(Seq(S)), Len(ss) # 0, NEW f, IsFlat(f, ss, Len(ss))
    PROVE  FlattenSeq(ss) = f[Len(ss)]
<1> DEFINE n == Len(ss)
           D(h) == [i \in 1 .. n |-> IF i = 1 THEN ss[i] ELSE Cat(h[i - 1], ss[i])]
           H == CHOOSE h : h = D(h)
<1>1. n \in Nat \ {0} /\ n \in Nat /\ n <= Len(ss)
  OBVIOUS
<1>2. PICK g \in [1 .. n -> Seq(S)] : IsFlat(g, ss, n)
  <2>. HIDE DEF n, D, H
  <2>. QED
    BY <1>1, FlatExists, Zenon
<1>3. g = D(g)
  BY <1>2 DEF IsFlat
<1>4. H = D(H)
  BY <1>3
<1>5. FlattenSeq(ss) = H[n]
  BY <1>1 DEF FlattenSeq, Cat
<1>. HIDE DEF H
<1>6. IsFlat(H, ss, n)
  BY <1>4 DEF IsFlat
<1>7. H[n] = f[n]
  BY <1>1, <1>6, FlatUnique
<1>. QED
  BY <1>5, <1>7

\* FlattenSeq of no sequence, and of one sequence more at the end.
LEMMA FlattenEmpty == FlattenSeq(<<>>) = <<>>
BY DEF FlattenSeq

LEMMA FlattenAppend ==
    ASSUME NEW S, NEW ss \in Seq(Seq(S)), NEW s \in Seq(S)
    PROVE  /\ FlattenSeq(ss) \in Seq(S)
           /\ FlattenSeq(Append(ss, s)) = FlattenSeq(ss) \o s
<1> DEFINE n == Len(ss)
<1>0. PICK tt : tt = Append(ss, s)
  OBVIOUS
<1>1. /\ tt \in Seq(Seq(S))
      /\ Len(tt) = n + 1
      /\ \A i \in 1 .. n : tt[i] = ss[i]
      /\ tt[n + 1] = s
  BY <1>0, AppendProperties
<1>2. n \in Nat
  BY LenProperties
<1>3. n = 0 => ss = <<>>
  BY EmptySeq
<1>. HIDE DEF n
<1>4. PICK f \in [1 .. n + 1 -> Seq(S)] : IsFlat(f, tt, n + 1)
  <2>1. n + 1 \in Nat /\ n + 1 <= Len(tt)
    BY <1>1, <1>2
  <2>. QED
    BY <1>1, <2>1, FlatExists
<1>5. FlattenSeq(tt) = f[n + 1]
  BY <1>1, <1>2, <1>4, FlattenIs
<1>6. IsFlat(f, ss, n)
  BY <1>1, <1>2, <1>4 DEF IsFlat
<1>7. CASE n = 0
  <2>1. f[1] = s
    BY <1>1, <1>4, <1>7 DEF IsFlat
  <2>2. FlattenSeq(ss) = <<>>
    BY <1>3, <1>7, FlattenEmpty
  <2>3. <<>> \o s = s /\ <<>> \in Seq(S)
    BY ConcatEmptySeq, EmptySeq
  <2>. QED
    BY <1>0, <1>5, <1>7, <2>1, <2>2, <2>3
<1>8. CASE n # 0
  <2>1. FlattenSeq(ss) = f[n]
    BY <1>6, <1>8, FlattenIs DEF n
  <2>2. n + 1 # 1 /\ n + 1 \in 1 .. n + 1 /\ n + 1 - 1 = n
    BY <1>2, <1>8
  <2>5. f[n + 1] = IF n + 1 = 1 THEN tt[n + 1] ELSE Cat(f[n + 1 - 1], tt[n + 1])
    BY <1>2, <1>4, <2>2 DEF IsFlat
  <2>3. f[n + 1] = f[n] \o s
    BY <1>1, <2>2, <2>5 DEF Cat
  <2>4. f[n] \in Seq(S)
    BY <1>2, <1>4, <1>8
  <2>. QED
    BY <1>0, <1>5, <2>1, <2>3, <2>4
<1>. QED
  BY <1>7, <1>8

\* A sequence more in front.
ConsAt(s, ss, n) ==
    n <= Len(ss) => FlattenSeq(Cat(<<s>>, SubSeq(ss, 1, n)))
                        = Cat(s, FlattenSeq(SubSeq(ss, 1, n)))

LEMMA FlattenConsBase ==
    ASSUME NEW S, NEW s \in Seq(S), NEW ss
    PROVE  ConsAt(s, ss, 0)
<1>1. SubSeq(ss, 1, 0) = <<>>
  BY SubSeqEmpty
<1>2. <<>> \in Seq(Seq(S)) /\ <<s>> = Append(<<>>, s)
  OBVIOUS
<1>3. FlattenSeq(Append(<<>>, s)) = FlattenSeq(<<>>) \o s
  BY <1>2, FlattenAppend
<1>4. <<>> \o s = s /\ s \o <<>> = s
  BY ConcatEmptySeq
<1>5. FlattenSeq(<<s>>) = s
  BY <1>2, <1>3, <1>4, FlattenEmpty
<1>6. Cat(<<s>>, <<>>) = <<s>>
  BY <1>2, ConcatEmptySeq DEF Cat
<1>7. Cat(s, <<>>) = s
  BY <1>4 DEF Cat
<1>. QED
  BY <1>1, <1>5, <1>6, <1>7, FlattenEmpty DEF ConsAt

LEMMA FlattenConsStep ==
    ASSUME NEW S, NEW s \in Seq(S), NEW a \in Seq(Seq(S)), NEW e \in Seq(S),
           FlattenSeq(Cat(<<s>>, a)) = Cat(s, FlattenSeq(a))
    PROVE  FlattenSeq(Cat(<<s>>, Append(a, e))) = Cat(s, FlattenSeq(Append(a, e)))
<1>1. PICK b : b = Cat(<<s>>, a)
  OBVIOUS
<1>2. b \in Seq(Seq(S))
  BY <1>1, ConcatProperties DEF Cat
<1>3. Cat(<<s>>, Append(a, e)) = Append(b, e)
  <2>1. <<s>> \o Append(a, e) = Append(<<s>> \o a, e)
    OBVIOUS
  <2>. QED
    BY <1>1, <2>1 DEF Cat
<1>4. PICK c : c = FlattenSeq(a)
  OBVIOUS
<1>5. c \in Seq(S) /\ FlattenSeq(Append(a, e)) = Cat(c, e)
  BY <1>4, FlattenAppend DEF Cat
<1>6. FlattenSeq(Append(b, e)) = Cat(FlattenSeq(b), e)
  BY <1>2, FlattenAppend DEF Cat
<1>7. Cat(Cat(s, c), e) = Cat(s, Cat(c, e))
  <2>1. c \in Seq(S)
    BY <1>5
  <2>2. (s \o c) \o e = s \o (c \o e)
    BY <2>1, ConcatAssociative
  <2>. QED
    BY <2>2 DEF Cat
<1>. QED
  BY <1>1, <1>3, <1>4, <1>5, <1>6, <1>7

LEMMA FlattenCons ==
    ASSUME NEW S, NEW s \in Seq(S), NEW ss \in Seq(Seq(S))
    PROVE  FlattenSeq(<<s>> \o ss) = s \o FlattenSeq(ss)
<1> DEFINE T == {n \in Nat : ConsAt(s, ss, n)}
<1>1. 0 \in T
  BY FlattenConsBase
<1>2. ASSUME NEW n \in Nat, n \in T
      PROVE  n + 1 \in T
  <2>1. SUFFICES ASSUME n + 1 <= Len(ss) PROVE ConsAt(s, ss, n + 1)
    BY DEF ConsAt
  <2>2. PICK a, e : a = SubSeq(ss, 1, n) /\ e = ss[n + 1]
    OBVIOUS
  <2>3. a \in Seq(Seq(S)) /\ e \in Seq(S) /\ SubSeq(ss, 1, n + 1) = Append(a, e)
    <3>1. n + 1 \in 1 .. Len(ss) /\ e \in Seq(S)
      BY <2>1, <2>2
    <3>2. a \in Seq(Seq(S))
      BY <2>1, <2>2
    <3>3. SubSeq(ss, 1, n + 1) = Append(SubSeq(ss, 1, n), ss[n + 1])
      BY <3>1
    <3>. QED
      BY <2>2, <3>1, <3>2, <3>3, Zenon
  <2>4. FlattenSeq(Cat(<<s>>, a)) = Cat(s, FlattenSeq(a))
    <3>1. n <= Len(ss) /\ ConsAt(s, ss, n)
      BY <1>2, <2>1
    <3>. QED
      BY <2>2, <3>1 DEF ConsAt
  <2>5. FlattenSeq(Cat(<<s>>, Append(a, e))) = Cat(s, FlattenSeq(Append(a, e)))
    BY <2>3, <2>4, FlattenConsStep
  <2>. QED
    BY <2>3, <2>5 DEF ConsAt
<1>. HIDE DEF T
<1>3. Len(ss) \in T
  BY <1>1, <1>2, NatSetInduction, LenProperties
<1>4. SubSeq(ss, 1, Len(ss)) = ss
  BY SubSeqFull
<1>5. ConsAt(s, ss, Len(ss))
  BY <1>3 DEF T
<1>6. FlattenSeq(Cat(<<s>>, ss)) = Cat(s, FlattenSeq(ss))
  <2>1. Len(ss) \in Nat /\ Len(ss) <= Len(ss)
    BY LenProperties
  <2>. QED
    BY <1>4, <1>5, <2>1 DEF ConsAt
<1>. QED
  BY <1>6 DEF Cat
\* The first and the last element of a sequence, and another one in its place.
LEMMA FrontOf ==
    ASSUME NEW S, NEW s \in Seq(S), s # <<>>
    PROVE  /\ Len(s) \in Nat \ {0}
           /\ SubSeq(s, 1, Len(s) - 1) \in Seq(S)
           /\ Len(SubSeq(s, 1, Len(s) - 1)) = Len(s) - 1
           /\ \A k \in 1 .. Len(s) - 1 : SubSeq(s, 1, Len(s) - 1)[k] = s[k]
           /\ s = Append(SubSeq(s, 1, Len(s) - 1), s[Len(s)])
<1>1. PICK n \in Nat \ {0} : n = Len(s)
  BY EmptySeq
<1>2. \A k \in 1 .. n - 1 : s[k] \in S
  BY <1>1
<1>3. PICK f : f = SubSeq(s, 1, n - 1)
  OBVIOUS
<1>4. f \in Seq(S) /\ Len(f) = n - 1 /\ \A k \in 1 .. n - 1 : f[k] = s[k]
  BY <1>1, <1>2, <1>3
<1>5. PICK g : g = Append(f, s[n])
  OBVIOUS
<1>6. g \in Seq(S) /\ Len(g) = n /\ \A k \in 1 .. n : g[k] = s[k]
  BY <1>1, <1>4, <1>5
<1>7. g = s
  BY <1>1, <1>6, SeqEqual
<1>. QED
  BY <1>1, <1>3, <1>4, <1>5, <1>7

LEMMA ReplaceLast ==
    ASSUME NEW S, NEW s \in Seq(S), s # <<>>, NEW t \in Seq(S), Len(t) = Len(s),
           \A k \in 1 .. Len(s) - 1 : t[k] = s[k]
    PROVE  t = Append(SubSeq(s, 1, Len(s) - 1), t[Len(s)])
<1>1. PICK n \in Nat \ {0} : n = Len(s)
  BY EmptySeq
<1>2. t # <<>>
  BY <1>1
<1>3. t = Append(SubSeq(t, 1, n - 1), t[n])
  BY <1>1, <1>2, FrontOf
<1>4. SubSeq(t, 1, n - 1) = SubSeq(s, 1, n - 1)
  <2>1. PICK f, g : f = SubSeq(s, 1, n - 1) /\ g = SubSeq(t, 1, n - 1)
    OBVIOUS
  <2>2. f \in Seq(S) /\ Len(f) = n - 1 /\ \A k \in 1 .. n - 1 : f[k] = s[k]
    BY <1>1, <2>1, FrontOf
  <2>3. g \in Seq(S) /\ Len(g) = n - 1 /\ \A k \in 1 .. n - 1 : g[k] = t[k]
    BY <1>1, <1>2, <2>1, FrontOf
  <2>4. \A k \in 1 .. n - 1 : f[k] = g[k]
    BY <1>1, <2>2, <2>3
  <2>. QED
    BY <2>1, <2>2, <2>3, <2>4, SeqEqual
<1>. QED
  BY <1>1, <1>3, <1>4

LEMMA ReplaceFirst ==
    ASSUME NEW S, NEW s \in Seq(S), s # <<>>, NEW c \in S,
           NEW t, t = [s EXCEPT ![1] = c]
    PROVE  /\ t \in Seq(S) /\ Len(t) = Len(s) /\ t[1] = c
           /\ \A k \in 2 .. Len(s) : t[k] = s[k]
           /\ t = <<c>> \o Tail(s)
           /\ s = <<s[1]>> \o Tail(s)
           /\ Tail(s) \in Seq(S) /\ Len(Tail(s)) = Len(s) - 1
           /\ \A k \in 1 .. Len(s) - 1 : Tail(s)[k] = s[k + 1]
<1>1. PICK n \in Nat \ {0} : n = Len(s)
  BY EmptySeq
<1>2. t \in Seq(S) /\ Len(t) = n /\ t[1] = c /\ \A k \in 2 .. n : t[k] = s[k]
  BY <1>1
<1>3. PICK r : r = Tail(s)
  OBVIOUS
<1>4. r \in Seq(S) /\ Len(r) = n - 1 /\ \A k \in 1 .. n - 1 : r[k] = s[k + 1]
  BY <1>1, <1>3, HeadTailProperties
<1>5. ASSUME NEW d \in S, NEW u \in Seq(S), Len(u) = n, u[1] = d,
             \A k \in 2 .. n : u[k] = s[k]
      PROVE  u = <<d>> \o r
  <2>1. PICK g : g = <<d>> \o r
    OBVIOUS
  <2>2. <<d>> \in Seq(S) /\ Len(<<d>>) = 1 /\ <<d>>[1] = d
    OBVIOUS
  <2>3. /\ g \in Seq(S) /\ Len(g) = n
        /\ \A k \in 1 .. n : g[k] = IF k <= 1 THEN d ELSE r[k - 1]
    BY <1>1, <1>4, <2>1, <2>2, ConcatProperties
  <2>4. ASSUME NEW k \in 1 .. n PROVE g[k] = u[k]
    <3>1. CASE k = 1
      BY <1>5, <2>3, <3>1
    <3>2. CASE k # 1
      <4>1. g[k] = r[k - 1]
        BY <2>3, <3>2
      <4>2. k - 1 \in 1 .. n - 1 /\ k - 1 + 1 = k /\ k \in 2 .. n
        BY <3>2
      <4>3. r[k - 1] = s[k - 1 + 1]
        BY <1>4, <4>2
      <4>. QED
        BY <1>5, <4>1, <4>2, <4>3
    <3>. QED
      BY <3>1, <3>2
  <2>. QED
    BY <1>5, <2>1, <2>3, <2>4, SeqEqual
<1>6. s[1] \in S
  BY <1>1
<1>. QED
  BY <1>1, <1>2, <1>3, <1>4, <1>5, <1>6

----------------------------------------------------------------------------
(* SumSizes *)

Sized(q) == \A i \in DOMAIN q : q[i].size \in Nat

IsSum(f, q, n) ==
    \A i \in 0 .. n : f[i] = IF i = 0 THEN 0 ELSE f[i - 1] + q[i].size

LEMMA SumExists ==
    ASSUME NEW q, Sized(q), NEW n \in Nat, 1 .. n \subseteq DOMAIN q
    PROVE  \E f \in [0 .. n -> Nat] : IsSum(f, q, n)
<1> DEFINE T == {k \in Nat : k <= n => \E f \in [0 .. k -> Nat] : IsSum(f, q, k)}
<1>1. 0 \in T
  <2>1. /\ [i \in 0 .. 0 |-> 0] \in [0 .. 0 -> Nat]
        /\ IsSum([i \in 0 .. 0 |-> 0], q, 0)
    BY DEF IsSum
  <2>. QED
    BY <2>1
<1>2. ASSUME NEW k \in Nat, k \in T
      PROVE  k + 1 \in T
  <2>. SUFFICES ASSUME k + 1 <= n
                PROVE  \E f \in [0 .. k + 1 -> Nat] : IsSum(f, q, k + 1)
    OBVIOUS
  <2>1. PICK f \in [0 .. k -> Nat] : IsSum(f, q, k)
    BY <1>2
  <2>2. q[k + 1].size \in Nat /\ f[k] \in Nat
    BY DEF Sized
  <2>. DEFINE g == [i \in 0 .. k + 1 |-> IF i = k + 1 THEN f[k] + q[k + 1].size ELSE f[i]]
  <2>3. g \in [0 .. k + 1 -> Nat]
    BY <2>2
  <2>4. IsSum(g, q, k + 1)
    BY <2>1 DEF IsSum
  <2>. QED
    BY <2>3, <2>4
<1>. HIDE DEF T
<1>3. n \in T
  BY <1>1, <1>2, NatSetInduction
<1>. QED
  BY <1>3 DEF T

LEMMA SumUnique ==
    ASSUME NEW q, NEW n \in Nat, NEW f, NEW g, IsSum(f, q, n), IsSum(g, q, n)
    PROVE  \A i \in 0 .. n : f[i] = g[i]
<1> DEFINE T == {i \in Nat : i \in 0 .. n => f[i] = g[i]}
<1>1. 0 \in T
  BY DEF IsSum
<1>2. ASSUME NEW i \in Nat, i \in T PROVE i + 1 \in T
  <2>1. SUFFICES ASSUME i + 1 \in 0 .. n PROVE f[i + 1] = g[i + 1]
    OBVIOUS
  <2>2. f[i] = g[i] /\ i + 1 # 0 /\ i + 1 - 1 = i
    BY <1>2, <2>1
  <2>3. f[i + 1] = IF i + 1 = 0 THEN 0 ELSE f[i + 1 - 1] + q[i + 1].size
    BY <2>1 DEF IsSum
  <2>4. g[i + 1] = IF i + 1 = 0 THEN 0 ELSE g[i + 1 - 1] + q[i + 1].size
    BY <2>1 DEF IsSum
  <2>. QED
    BY <2>2, <2>3, <2>4
<1>. HIDE DEF T
<1>3. \A i \in Nat : i \in T
  BY <1>1, <1>2, NatSetInduction
<1>. QED
  BY <1>3 DEF T

\* SumSizes is the last of the sums.
LEMMA SumIs ==
    ASSUME NEW q, Sized(q), Len(q) \in Nat, DOMAIN q = 1 .. Len(q),
           NEW f, IsSum(f, q, Len(q))
    PROVE  SumSizes(q) = f[Len(q)] /\ SumSizes(q) \in Nat
<1> DEFINE n == Len(q)
           D(h) == [i \in 0 .. n |-> IF i = 0 THEN 0 ELSE h[i - 1] + q[i].size]
           H == CHOOSE h : h = D(h)
<1>2. PICK g \in [0 .. n -> Nat] : IsSum(g, q, n)
  BY SumExists
<1>3. g = D(g)
  BY <1>2 DEF IsSum
<1>4. H = D(H)
  BY <1>3
<1>5. SumSizes(q) = H[n]
  BY DEF SumSizes
<1>. HIDE DEF H
<1>6. IsSum(H, q, n)
  BY <1>4 DEF IsSum
<1>7. H[n] = f[n] /\ H[n] = g[n]
  BY <1>2, <1>6, SumUnique
<1>8. g[n] \in Nat
  OBVIOUS
<1>. QED
  BY <1>5, <1>7, <1>8

LEMMA SumEmpty == SumSizes(<<>>) = 0
<1> DEFINE f == [i \in 0 .. 0 |-> 0]
<1>1. Len(<<>>) = 0 /\ DOMAIN <<>> = 1 .. 0 /\ Sized(<<>>) /\ IsSum(f, <<>>, 0)
  BY DEF Sized, IsSum
<1>2. f[0] = 0
  OBVIOUS
<1>. QED
  BY <1>1, <1>2, SumIs

LEMMA SumAppend ==
    ASSUME NEW M, \A m \in M : m.size \in Nat, NEW q \in Seq(M), NEW m \in M
    PROVE  /\ SumSizes(q) \in Nat
           /\ SumSizes(Append(q, m)) = SumSizes(q) + m.size
<1> DEFINE n == Len(q)
<1>0. PICK r : r = Append(q, m)
  OBVIOUS
<1>1. /\ n \in Nat /\ DOMAIN q = 1 .. n /\ Sized(q)
      /\ Len(r) = n + 1 /\ DOMAIN r = 1 .. n + 1 /\ Sized(r)
      /\ \A i \in 1 .. n : r[i] = q[i]
      /\ r[n + 1] = m
  BY <1>0 DEF Sized
<1>. HIDE DEF n
<1>2. PICK f \in [0 .. n + 1 -> Nat] : IsSum(f, r, n + 1)
  <2>1. n + 1 \in Nat /\ 1 .. n + 1 \subseteq DOMAIN r
    BY <1>1
  <2>. QED
    BY <1>1, <2>1, SumExists, Zenon
<1>3. IsSum(f, q, n)
  BY <1>1, <1>2 DEF IsSum
<1>4. SumSizes(q) = f[n] /\ SumSizes(q) \in Nat
  BY <1>1, <1>3, SumIs DEF n
<1>5. SumSizes(r) = f[n + 1]
  BY <1>1, <1>2, SumIs
<1>6. f[n + 1] = f[n] + m.size
  BY <1>1, <1>2 DEF IsSum
<1>. QED
  BY <1>0, <1>4, <1>5, <1>6

\* SumSizes of two queues, one behind the other.
SumConcatAt(p, q, n) ==
    n <= Len(q) => SumSizes(Cat(p, SubSeq(q, 1, n))) = SumSizes(p) + SumSizes(SubSeq(q, 1, n))

LEMMA SumConcat ==
    ASSUME NEW M, \A m \in M : m.size \in Nat, NEW p \in Seq(M), NEW q \in Seq(M)
    PROVE  SumSizes(p \o q) = SumSizes(p) + SumSizes(q)
<1> DEFINE T == {n \in Nat : SumConcatAt(p, q, n)}
<1>0. SumSizes(p) \in Nat
  <2>1. CASE p = <<>>
    BY <2>1, SumEmpty
  <2>2. CASE p # <<>>
    <3>1. p[1] \in M
      BY <2>2
    <3>. QED
      BY <3>1, SumAppend
  <2>. QED
    BY <2>1, <2>2
<1>1. 0 \in T
  <2>1. SubSeq(q, 1, 0) = <<>> /\ Cat(p, <<>>) = p
    BY SubSeqEmpty, ConcatEmptySeq DEF Cat
  <2>. QED
    <3>1. SumSizes(p) = SumSizes(p) + SumSizes(<<>>)
      BY <1>0, SumEmpty
    <3>2. SumConcatAt(p, q, 0)
      BY <2>1, <3>1 DEF SumConcatAt
    <3>. QED
      BY <3>2
<1>2. ASSUME NEW n \in Nat, n \in T
      PROVE  n + 1 \in T
  <2>1. SUFFICES ASSUME n + 1 <= Len(q)
                 PROVE  SumSizes(Cat(p, SubSeq(q, 1, n + 1)))
                            = SumSizes(p) + SumSizes(SubSeq(q, 1, n + 1))
    BY DEF SumConcatAt
  <2>2. PICK a, m : a = SubSeq(q, 1, n) /\ m = q[n + 1]
    OBVIOUS
  <2>3. a \in Seq(M) /\ m \in M /\ SubSeq(q, 1, n + 1) = Append(a, m)
    BY <2>1, <2>2
  <2>4. PICK b : b = Cat(p, a)
    OBVIOUS
  <2>5. b \in Seq(M) /\ Cat(p, Append(a, m)) = Append(b, m)
    BY <2>3, <2>4 DEF Cat
  <2>6. SumSizes(b) = SumSizes(p) + SumSizes(a)
    <3>1. n <= Len(q) /\ SumConcatAt(p, q, n)
      BY <1>2, <2>1
    <3>. QED
      BY <2>2, <2>4, <3>1 DEF SumConcatAt
  <2>7. SumSizes(Append(b, m)) = SumSizes(b) + m.size
    BY <2>3, <2>5, SumAppend
  <2>8. SumSizes(Append(a, m)) = SumSizes(a) + m.size /\ SumSizes(a) \in Nat
    BY <2>3, SumAppend
  <2>9. m.size \in Nat
    BY <2>3
  <2>. QED
    <3>1. SumSizes(Append(b, m)) = SumSizes(p) + SumSizes(Append(a, m))
      BY <1>0, <2>6, <2>7, <2>8, <2>9
    <3>2. SumSizes(Cat(p, SubSeq(q, 1, n + 1))) = SumSizes(Append(b, m))
      BY <2>3, <2>5
    <3>. QED
      BY <2>3, <3>1, <3>2
<1>. HIDE DEF T
<1>3. Len(q) \in T
  BY <1>1, <1>2, NatSetInduction, LenProperties
<1>4. SubSeq(q, 1, Len(q)) = q
  BY SubSeqFull
<1>5. SumSizes(Cat(p, q)) = SumSizes(p) + SumSizes(q)
  <2>1. Len(q) \in Nat /\ Len(q) <= Len(q)
    BY LenProperties
  <2>. QED
    BY <1>3, <1>4, <2>1 DEF T, SumConcatAt
<1>. QED
  BY <1>5 DEF Cat

----------------------------------------------------------------------------
(* The messages of a block *)

Block == [left : 0 .. BlockSize, right : 0 .. BlockSize,
          buf : [0 .. BlockSize - 1 -> [n : Nat, size : Nat]]]

\* w is what lies in block b between left and right; off gives the offsets.
IsWalkAt(b, w, off) ==
    /\ w \in Seq(Message)
    /\ off \in [1 .. Len(w) + 1 -> 0 .. b.right]
    /\ off[1] = b.left
    /\ off[Len(w) + 1] = b.right
    /\ \A i \in 1 .. Len(w) :
           /\ off[i] < b.right
           /\ b.buf[off[i]] = w[i]
           /\ off[i + 1] = off[i] + HeaderSize + w[i].size

IsWalk(b, w) == \E off : IsWalkAt(b, w, off)

LEMMA MessageType ==
    /\ HeaderSize = 1
    /\ \A m \in Message : m.size \in Nat \ {0} /\ m \in [n : Nat, size : Nat]
<1>1. HeaderSize = 1
  BY DEF HeaderSize
<1>2. ASSUME NEW m \in Message
      PROVE  m.size \in Nat \ {0} /\ m \in [n : Nat, size : Nat]
  <2>1. BodySizes \subseteq Nat \ {0} /\ MaxMessages \in Nat
    BY ConstantsAssumption
  <2>2. m \in [n : 1 .. MaxMessages, size : BodySizes]
    BY DEF Message
  <2>3. m.n \in 1 .. MaxMessages /\ m.size \in BodySizes /\ m = [n |-> m.n, size |-> m.size]
    BY <2>2
  <2>4. m.n \in Nat /\ m.size \in Nat \ {0}
    BY <2>1, <2>3
  <2>. QED
    BY <2>3, <2>4
<1>. QED
  BY <1>1, <1>2

IsFrom(b, f, low) ==
    \A o \in Nat : o >= low =>
        f[o] = IF o >= b.right THEN <<>>
               ELSE Cat(<<b.buf[o]>>, f[o + HeaderSize + b.buf[o].size])

LEMMA FromExists ==
    ASSUME NEW b \in Block
    PROVE  \E f : f = [o \in Nat |-> f[o]] /\ IsFrom(b, f, 0)
<1> DEFINE T == {k \in Nat : k <= b.right =>
                    \E f : f = [o \in Nat |-> f[o]] /\ IsFrom(b, f, b.right - k)}
<1>0. b.right \in Nat /\ \A o \in Nat : o < b.right => b.buf[o].size \in Nat
  <2>1. b.right \in 0 .. BlockSize /\ BlockSize \in Nat
    BY ConstantsAssumption DEF Block
  <2>2. \A o \in Nat : o < BlockSize => b.buf[o].size \in Nat
    BY ConstantsAssumption DEF Block
  <2>. QED
    BY <2>1, <2>2
<1>1. 0 \in T
  <2>. DEFINE f == [o \in Nat |-> <<>>]
  <2>1. f = [o \in Nat |-> f[o]]
    OBVIOUS
  <2>2. IsFrom(b, f, b.right - 0)
    BY <1>0 DEF IsFrom
  <2>. QED
    BY <2>1, <2>2
<1>2. ASSUME NEW k \in Nat, k \in T
      PROVE  k + 1 \in T
  <2>. SUFFICES ASSUME k + 1 <= b.right
                PROVE  \E f : f = [o \in Nat |-> f[o]] /\ IsFrom(b, f, b.right - (k + 1))
    OBVIOUS
  <2>1. k <= b.right
    BY <1>0
  <2>2. PICK f : f = [o \in Nat |-> f[o]] /\ IsFrom(b, f, b.right - k)
    BY <1>2, <2>1
  <2>3. PICK a \in Nat : a = b.right - (k + 1) /\ a < b.right /\ a + 1 = b.right - k
    BY <1>0
  <2>9. b.buf[a].size \in Nat /\ HeaderSize = 1
    BY <1>0, <2>3, MessageType
  <2>4. PICK next \in Nat : next = a + HeaderSize + b.buf[a].size /\ next > a
    BY <2>9
  <2>. DEFINE g == [o \in Nat |-> IF o = a THEN Cat(<<b.buf[a]>>, f[next]) ELSE f[o]]
  <2>5. g = [o \in Nat |-> g[o]]
    OBVIOUS
  <2>6. g[a] = Cat(<<b.buf[a]>>, g[next])
    BY <2>4
  <2>7. ASSUME NEW o \in Nat, o >= a, o # a
        PROVE  g[o] = IF o >= b.right THEN <<>>
                      ELSE Cat(<<b.buf[o]>>, g[o + HeaderSize + b.buf[o].size])
    <3>1. o >= b.right - k /\ g[o] = f[o]
      BY <2>3, <2>7
    <3>2. CASE o >= b.right
      BY <2>2, <3>1, <3>2 DEF IsFrom
    <3>3. CASE o < b.right
      <4>1. PICK r \in Nat : r = o + HeaderSize + b.buf[o].size /\ r # a
        BY <1>0, <2>7, <3>3, MessageType
      <4>2. f[o] = Cat(<<b.buf[o]>>, f[o + HeaderSize + b.buf[o].size])
        BY <1>0, <2>2, <3>1, <3>3 DEF IsFrom
      <4>. HIDE DEF g
      <4>3. g[r] = f[r]
        BY <4>1 DEF g
      <4>. QED
        BY <1>0, <3>1, <3>3, <4>1, <4>2, <4>3
    <3>. QED
      BY <1>0, <3>2, <3>3
  <2>. HIDE DEF g
  <2>8. IsFrom(b, g, a)
    BY <1>0, <2>3, <2>4, <2>6, <2>7 DEF IsFrom
  <2>. QED
    BY <2>3, <2>5, <2>8
<1>. HIDE DEF T
<1>3. b.right \in T
  BY <1>0, <1>1, <1>2, NatSetInduction
<1>4. b.right - b.right = 0
  BY <1>0
<1>. QED
  BY <1>0, <1>3, <1>4 DEF T

\* Messages is what the offsets lead through.
LEMMA MessagesAre ==
    ASSUME NEW b \in Block, NEW w, IsWalk(b, w)
    PROVE  Messages(b) = w
<1> DEFINE D(h) == [o \in Nat |-> IF o >= b.right THEN <<>>
                         ELSE Cat(<<b.buf[o]>>, h[o + HeaderSize + b.buf[o].size])]
           H == CHOOSE h : h = D(h)
           n == Len(w)
<1>1. PICK f : f = [o \in Nat |-> f[o]] /\ IsFrom(b, f, 0)
  BY FromExists
<1>2. f = D(f)
  <2>1. \A o \in Nat : f[o] = IF o >= b.right THEN <<>>
                              ELSE Cat(<<b.buf[o]>>, f[o + HeaderSize + b.buf[o].size])
    BY <1>1 DEF IsFrom
  <2>2. [o \in Nat |-> f[o]] = D(f)
    BY <2>1
  <2>. QED
    BY <1>1, <2>2
<1>3. H = D(H)
  BY <1>2
<1>4. Messages(b) = H[b.left]
  BY DEF Messages, Cat
<1>. HIDE DEF H
<1>5. IsFrom(b, H, 0)
  BY <1>3 DEF IsFrom
<1>6. PICK off : IsWalkAt(b, w, off)
  BY DEF IsWalk
<1>7. n \in Nat /\ b.right \in Nat /\ w \in Seq(Message)
  BY <1>6, ConstantsAssumption DEF IsWalkAt, Block
<1> DEFINE T == {k \in Nat : k <= n => H[off[n + 1 - k]] = SubSeq(w, n + 1 - k, n)}
<1>8. 0 \in T
  <2>1. n + 1 - 0 = n + 1 /\ off[n + 1] = b.right
    BY <1>6, <1>7 DEF IsWalkAt
  <2>2. H[b.right] = <<>>
    <3>1. \A o \in Nat : H[o] = IF o >= b.right THEN <<>>
                                ELSE Cat(<<b.buf[o]>>, H[o + HeaderSize + b.buf[o].size])
      BY <1>5 DEF IsFrom
    <3>2. b.right >= b.right
      BY <1>7
    <3>. QED
      BY <1>7, <3>1, <3>2
  <2>3. SubSeq(w, n + 1, n) = <<>>
    BY <1>7, SubSeqEmpty
  <2>. QED
    BY <2>1, <2>2, <2>3
<1>9. ASSUME NEW k \in Nat, k \in T
      PROVE  k + 1 \in T
  <2>. SUFFICES ASSUME k + 1 <= n
                PROVE  H[off[n + 1 - (k + 1)]] = SubSeq(w, n + 1 - (k + 1), n)
    OBVIOUS
  <2>1. PICK i \in 1 .. n : i = n - k /\ n + 1 - (k + 1) = i /\ n + 1 - k = i + 1
    BY <1>7
  <2>2. H[off[i + 1]] = SubSeq(w, i + 1, n)
    BY <1>7, <1>9, <2>1
  <2>3. /\ off[i] \in Nat /\ off[i] < b.right
        /\ b.buf[off[i]] = w[i]
        /\ off[i + 1] = off[i] + HeaderSize + w[i].size
    BY <1>6, <1>7 DEF IsWalkAt
  <2>4. H[off[i]] = Cat(<<w[i]>>, H[off[i + 1]])
    BY <1>5, <1>7, <2>3 DEF IsFrom
  <2>5. SubSeq(w, i, n) = Cat(<<w[i]>>, SubSeq(w, i + 1, n))
    <3>1. n \in i .. Len(w)
      BY <1>7
    <3>. QED
      BY <1>7, <3>1, SubSeqRecursiveFirst DEF Cat
  <2>. QED
    BY <2>1, <2>2, <2>4, <2>5
<1>. HIDE DEF T
<1>10. n \in T
  BY <1>7, <1>8, <1>9, NatSetInduction
<1>11. n + 1 - n = 1 /\ off[1] = b.left /\ SubSeq(w, 1, n) = w
  BY <1>6, <1>7, SubSeqFull DEF IsWalkAt
<1>. QED
  BY <1>4, <1>7, <1>10, <1>11 DEF T

\* A message stored behind the others.
LEMMA WalkStored ==
    ASSUME NEW b \in Block, NEW w, IsWalk(b, w), NEW m \in Message,
           b.right + HeaderSize + m.size <= BlockSize
    PROVE  /\ StoredAt(b, m) \in Block
           /\ StoredAt(b, m).left = b.left
           /\ StoredAt(b, m).right = b.right + HeaderSize + m.size
           /\ IsWalk(StoredAt(b, m), Append(w, m))
<1>1. PICK off : IsWalkAt(b, w, off)
  BY DEF IsWalk
<1>2. /\ m.size \in Nat \ {0} /\ m \in [n : Nat, size : Nat] /\ HeaderSize = 1
      /\ BlockSize \in Nat
  BY MessageType, ConstantsAssumption
<1>3. PICK r \in Nat : r = b.right + HeaderSize + m.size
  BY <1>2 DEF Block
<1>4. b.right \in Nat /\ b.right < r /\ r <= BlockSize /\ b.left \in 0 .. BlockSize
  BY <1>2, <1>3 DEF Block
<1>5. PICK c : c = StoredAt(b, m)
  OBVIOUS
<1>6. /\ c.left = b.left
      /\ c.right = r
      /\ c.buf = [b.buf EXCEPT ![b.right] = m]
      /\ c = [left |-> b.left, right |-> r, buf |-> [b.buf EXCEPT ![b.right] = m]]
  BY <1>3, <1>5 DEF StoredAt, Block
<1>7. c.buf \in [0 .. BlockSize - 1 -> [n : Nat, size : Nat]]
  <2>1. b.buf \in [0 .. BlockSize - 1 -> [n : Nat, size : Nat]]
    BY DEF Block
  <2>. QED
    BY <1>2, <1>6, <2>1
<1>8. c \in Block
  <2>1. r \in 0 .. BlockSize
    BY <1>2, <1>4
  <2>. QED
    BY <1>4, <1>6, <1>7, <2>1 DEF Block
<1>9. \A o \in 0 .. BlockSize - 1 : c.buf[o] = IF o = b.right THEN m ELSE b.buf[o]
  BY <1>6 DEF Block
<1> DEFINE n == Len(w)
           offs == [i \in 1 .. n + 2 |-> IF i = n + 2 THEN r ELSE off[i]]
<1>10. PICK v : v = Append(w, m)
  OBVIOUS
<1>11. /\ n \in Nat
       /\ v \in Seq(Message) /\ Len(v) = n + 1
       /\ \A i \in 1 .. n : v[i] = w[i]
       /\ v[n + 1] = m
       /\ off \in [1 .. n + 1 -> 0 .. b.right]
       /\ off[1] = b.left
       /\ off[n + 1] = b.right
  BY <1>1, <1>10, AppendProperties, LenProperties DEF IsWalkAt
<1>12. ASSUME NEW i \in 1 .. n
       PROVE  /\ off[i] < b.right
              /\ b.buf[off[i]] = w[i]
              /\ off[i + 1] = off[i] + HeaderSize + w[i].size
  BY <1>1 DEF IsWalkAt
<1>. HIDE DEF n
<1>13. offs \in [1 .. n + 2 -> 0 .. r]
  BY <1>4, <1>11
<1>14. offs[1] = c.left /\ offs[n + 2] = c.right
  BY <1>6, <1>11
<1>15. ASSUME NEW i \in 1 .. n + 1
       PROVE  /\ offs[i] < r
              /\ c.buf[offs[i]] = v[i]
              /\ offs[i + 1] = offs[i] + HeaderSize + v[i].size
  <2>1. offs[i] = off[i] /\ off[i] \in 0 .. b.right
    BY <1>11
  <2>2. CASE i = n + 1
    <3>1. off[i] = b.right /\ v[i] = m /\ offs[i + 1] = r
      BY <1>11, <2>2
    <3>2. b.right \in 0 .. BlockSize - 1
      BY <1>2, <1>4
    <3>. QED
      BY <1>3, <1>4, <1>9, <2>1, <3>1, <3>2
  <2>3. CASE i # n + 1
    <3>1. i \in 1 .. n /\ i + 1 # n + 2 /\ i + 1 \in 1 .. n + 2 /\ v[i] = w[i]
      BY <1>11, <2>3
    <3>2. offs[i + 1] = off[i + 1]
      BY <3>1
    <3>3. off[i] \in 0 .. BlockSize - 1 /\ off[i] # b.right
      BY <1>2, <1>4, <1>12, <2>1, <3>1
    <3>4. c.buf[off[i]] = b.buf[off[i]]
      BY <1>9, <3>3
    <3>. QED
      BY <1>4, <1>12, <2>1, <3>1, <3>2, <3>3, <3>4
  <2>. QED
    BY <2>2, <2>3
<1>. HIDE DEF offs
<1>16. IsWalkAt(c, v, offs)
  <2>1. n + 1 + 1 = n + 2
    BY <1>11
  <2>. QED
    BY <1>6, <1>11, <1>13, <1>14, <1>15, <2>1 DEF IsWalkAt
<1>. QED
  BY <1>3, <1>5, <1>6, <1>8, <1>10, <1>16 DEF IsWalk

\* The first message taken away; none is left when left has reached right.
LEMMA WalkAdvanced ==
    ASSUME NEW b \in Block, NEW w, IsWalk(b, w)
    PROVE  /\ b.left <= b.right
           /\ b.left = b.right => w = <<>>
           /\ b.left # b.right =>
                 /\ w \in Seq(Message) /\ w # <<>> /\ w[1] = b.buf[b.left]
                 /\ \E c \in Block : /\ c = [b EXCEPT !.left = @ + HeaderSize + w[1].size]
                                     /\ c.right = b.right
                                     /\ IsWalk(c, Tail(w))
<1>1. PICK off : IsWalkAt(b, w, off)
  BY DEF IsWalk
<1> DEFINE n == Len(w)
<1>2. /\ n \in Nat /\ w \in Seq(Message)
      /\ off \in [1 .. n + 1 -> 0 .. b.right]
      /\ off[1] = b.left /\ off[n + 1] = b.right
  BY <1>1, LenProperties DEF IsWalkAt
<1>3. ASSUME NEW i \in 1 .. n
      PROVE  /\ off[i] < b.right
             /\ b.buf[off[i]] = w[i]
             /\ off[i + 1] = off[i] + HeaderSize + w[i].size
  BY <1>1 DEF IsWalkAt
<1>4. b.right \in 0 .. BlockSize /\ BlockSize \in Nat
  BY ConstantsAssumption DEF Block
<1>5. b.left <= b.right
  BY <1>2, <1>4
<1>6. ASSUME b.left = b.right PROVE w = <<>>
  <2>1. n = 0
    BY <1>2, <1>3, <1>6
  <2>. QED
    BY <1>2, <2>1, EmptySeq
<1>7. ASSUME b.left # b.right
      PROVE  /\ w # <<>> /\ w[1] = b.buf[b.left]
             /\ \E c \in Block : /\ c = [b EXCEPT !.left = @ + HeaderSize + w[1].size]
                                 /\ c.right = b.right
                                 /\ IsWalk(c, Tail(w))
  <2>1. n # 0
    BY <1>2, <1>7
  <2>2. w # <<>> /\ w[1] = b.buf[b.left]
    BY <1>2, <1>3, <2>1
  <2>3. PICK c : c = [b EXCEPT !.left = @ + HeaderSize + w[1].size]
    OBVIOUS
  <2>4. off[2] = b.left + HeaderSize + w[1].size /\ off[2] \in 0 .. b.right
    <3>1. 1 \in 1 .. n /\ 1 + 1 = 2 /\ 2 \in 1 .. n + 1
      BY <1>2, <2>1
    <3>. QED
      BY <1>2, <1>3, <3>1
  <2>5. c.left = off[2] /\ c.right = b.right /\ c.buf = b.buf
        /\ c = [left |-> off[2], right |-> b.right, buf |-> b.buf]
    BY <2>3, <2>4 DEF Block
  <2>6. c \in Block
    <3>1. off[2] \in 0 .. BlockSize /\ b.buf \in [0 .. BlockSize - 1 -> [n : Nat, size : Nat]]
      BY <1>4, <2>4 DEF Block
    <3>. QED
      BY <1>4, <2>5, <3>1 DEF Block
  <2>7. PICK t : t = Tail(w)
    OBVIOUS
  <2>8. t \in Seq(Message) /\ Len(t) = n - 1 /\ \A i \in 1 .. n - 1 : t[i] = w[i + 1]
    BY <1>2, <2>2, <2>7, HeadTailProperties
  <2>. DEFINE offs == [i \in 1 .. n |-> off[i + 1]]
  <2>. HIDE DEF n
  <2>9. offs \in [1 .. n -> 0 .. c.right]
    BY <1>2, <2>5
  <2>10. offs[1] = c.left /\ offs[n] = c.right
    BY <1>2, <2>1, <2>5
  <2>11. ASSUME NEW i \in 1 .. n - 1
         PROVE  /\ offs[i] < c.right
                /\ c.buf[offs[i]] = t[i]
                /\ offs[i + 1] = offs[i] + HeaderSize + t[i].size
    <3>1. i + 1 \in 1 .. n /\ i \in 1 .. n
      BY <1>2
    <3>2. offs[i] = off[i + 1] /\ offs[i + 1] = off[i + 1 + 1] /\ t[i] = w[i + 1]
      BY <2>8, <3>1
    <3>3. /\ off[i + 1] < b.right
          /\ b.buf[off[i + 1]] = w[i + 1]
          /\ off[i + 1 + 1] = off[i + 1] + HeaderSize + w[i + 1].size
      BY <1>3, <3>1
    <3>. QED
      BY <2>5, <3>2, <3>3
  <2>. HIDE DEF offs
  <2>12. n - 1 + 1 = n
    BY <1>2
  <2>13. IsWalkAt(c, t, offs)
    BY <2>8, <2>9, <2>10, <2>11, <2>12 DEF IsWalkAt
  <2>. QED
    BY <2>2, <2>3, <2>5, <2>6, <2>7, <2>13 DEF IsWalk
<1>. QED
  BY <1>2, <1>5, <1>6, <1>7

\* What the bodies in a block add up to is less than its size.
LEMMA WalkSize ==
    ASSUME NEW b \in Block, NEW w, IsWalk(b, w)
    PROVE  SumSizes(w) \in 0 .. BlockSize
<1>1. PICK off : IsWalkAt(b, w, off)
  BY DEF IsWalk
<1> DEFINE n == Len(w)
<1>2. /\ n \in Nat /\ w \in Seq(Message) /\ DOMAIN w = 1 .. n
      /\ off \in [1 .. n + 1 -> 0 .. b.right]
  BY <1>1, LenProperties DEF IsWalkAt
<1>3. ASSUME NEW i \in 1 .. n
      PROVE  off[i + 1] = off[i] + HeaderSize + w[i].size
  BY <1>1 DEF IsWalkAt
<1>4. b.right \in 0 .. BlockSize /\ BlockSize \in Nat
  BY ConstantsAssumption DEF Block
<1>5. Sized(w) /\ HeaderSize = 1 /\ \A i \in 1 .. n : w[i].size \in Nat
  BY <1>2, MessageType DEF Sized
<1>6. PICK f \in [0 .. n -> Nat] : IsSum(f, w, n)
  BY <1>2, <1>5, SumExists
<1>. HIDE DEF n
<1> DEFINE T == {i \in Nat : i <= n => f[i] <= off[i + 1]}
<1>7. 0 \in T
  <2>1. f[0] = 0 /\ off[1] \in Nat
    BY <1>2, <1>4, <1>6 DEF IsSum
  <2>. QED
    BY <2>1
<1>8. ASSUME NEW i \in Nat, i \in T PROVE i + 1 \in T
  <2>1. SUFFICES ASSUME i + 1 <= n PROVE f[i + 1] <= off[i + 1 + 1]
    OBVIOUS
  <2>2. f[i] <= off[i + 1]
    BY <1>2, <1>8, <2>1
  <2>3. f[i + 1] = f[i] + w[i + 1].size
    <3>1. i + 1 \in 0 .. n /\ i + 1 # 0 /\ (i + 1) - 1 = i
      BY <1>2, <2>1
    <3>2. f[i + 1] = f[(i + 1) - 1] + w[i + 1].size
      BY <1>6, <3>1, Zenon DEF IsSum
    <3>. QED
      BY <3>1, <3>2, Zenon
  <2>4. i + 1 \in 1 .. n
    BY <2>1
  <2>5. off[i + 1 + 1] = off[i + 1] + HeaderSize + w[i + 1].size
    BY <1>3, <2>4
  <2>6. f[i] \in Nat /\ off[i + 1] \in Nat /\ w[i + 1].size \in Nat
    <3>1. i \in 0 .. n /\ i + 1 \in 1 .. n + 1
      BY <1>2, <2>4
    <3>2. f[i] \in Nat
      BY <1>6, <3>1
    <3>3. off[i + 1] \in Nat
      BY <1>2, <1>4, <3>1
    <3>. QED
      BY <1>5, <2>4, <3>2, <3>3
  <2>. QED
    BY <1>5, <2>2, <2>3, <2>5, <2>6
<1>. HIDE DEF T
<1>9. n \in T
  BY <1>2, <1>7, <1>8, NatSetInduction
<1>10. f[n] <= off[n + 1] /\ off[n + 1] \in 0 .. b.right /\ f[n] \in Nat
  BY <1>2, <1>6, <1>9 DEF T
<1>11. SumSizes(w) = f[n]
  BY <1>2, <1>5, <1>6, SumIs DEF n
<1>. QED
  BY <1>4, <1>10, <1>11

----------------------------------------------------------------------------
(* The messages of the list of blocks *)

\* Blocks each of which holds one message behind the other.
BlockList(bs) ==
    bs \in Seq(Block) /\ \A k \in 1 .. Len(bs) : IsWalk(bs[k], Messages(bs[k]))

WalksOf(bs) == [k \in DOMAIN bs |-> Messages(bs[k])]

LEMMA WalkMessages ==
    ASSUME NEW b \in Block, NEW w, IsWalk(b, w)
    PROVE  IsWalk(b, Messages(b)) /\ Messages(b) \in Seq(Message)
<1>1. Messages(b) = w
  BY MessagesAre
<1>2. w \in Seq(Message)
  BY DEF IsWalk, IsWalkAt
<1>. QED
  BY <1>1, <1>2

LEMMA WalksType ==
    ASSUME NEW bs, BlockList(bs)
    PROVE  /\ WalksOf(bs) \in Seq(Seq(Message)) /\ Len(WalksOf(bs)) = Len(bs)
           /\ \A k \in 1 .. Len(bs) : WalksOf(bs)[k] = Messages(bs[k])
           /\ ContentOf(bs) = FlattenSeq(WalksOf(bs))
           /\ ContentOf(bs) \in Seq(Message)
<1>1. /\ bs \in Seq(Block) /\ Len(bs) \in Nat /\ DOMAIN bs = 1 .. Len(bs)
      /\ \A k \in 1 .. Len(bs) : bs[k] \in Block /\ IsWalk(bs[k], Messages(bs[k]))
  BY DEF BlockList
<1>2. \A k \in 1 .. Len(bs) : Messages(bs[k]) \in Seq(Message)
  BY <1>1, WalkMessages
<1>3. PICK ws : ws = WalksOf(bs)
  OBVIOUS
<1>4. ws \in [1 .. Len(bs) -> Seq(Message)]
  BY <1>1, <1>2, <1>3 DEF WalksOf
<1>5. ws \in Seq(Seq(Message)) /\ Len(ws) = Len(bs)
  BY <1>1, <1>4
<1>6. \A k \in 1 .. Len(bs) : ws[k] = Messages(bs[k])
  BY <1>1, <1>3 DEF WalksOf
<1>7. ContentOf(bs) = FlattenSeq(ws)
  BY <1>3 DEF ContentOf, WalksOf
<1>8. FlattenSeq(ws) \in Seq(Message)
  <2>1. <<>> \in Seq(Message)
    OBVIOUS
  <2>. QED
    BY <1>5, <2>1, FlattenAppend
<1>. QED
  BY <1>3, <1>5, <1>6, <1>7, <1>8

LEMMA ContentAppend ==
    ASSUME NEW bs, BlockList(bs), NEW b \in Block, IsWalk(b, Messages(b))
    PROVE  /\ BlockList(Append(bs, b))
           /\ ContentOf(Append(bs, b)) = ContentOf(bs) \o Messages(b)
<1>1. PICK cs : cs = Append(bs, b)
  OBVIOUS
<1>2. /\ bs \in Seq(Block) /\ Len(bs) \in Nat
      /\ cs \in Seq(Block) /\ Len(cs) = Len(bs) + 1
      /\ \A k \in 1 .. Len(bs) : cs[k] = bs[k]
      /\ cs[Len(bs) + 1] = b
  BY <1>1, AppendProperties, LenProperties DEF BlockList
<1>3. BlockList(cs)
  BY <1>2 DEF BlockList
<1>4. /\ WalksOf(bs) \in Seq(Seq(Message)) /\ Len(WalksOf(bs)) = Len(bs)
      /\ \A k \in 1 .. Len(bs) : WalksOf(bs)[k] = Messages(bs[k])
      /\ ContentOf(bs) = FlattenSeq(WalksOf(bs))
  BY WalksType
<1>5. /\ WalksOf(cs) \in Seq(Seq(Message)) /\ Len(WalksOf(cs)) = Len(bs) + 1
      /\ \A k \in 1 .. Len(bs) + 1 : WalksOf(cs)[k] = Messages(cs[k])
      /\ ContentOf(cs) = FlattenSeq(WalksOf(cs))
  BY <1>2, <1>3, WalksType
<1>6. Messages(b) \in Seq(Message)
  BY WalkMessages
<1>7. WalksOf(cs) = Append(WalksOf(bs), Messages(b))
  <2>1. PICK ws, vs, m : ws = WalksOf(bs) /\ vs = WalksOf(cs) /\ m = Messages(b)
    OBVIOUS
  <2>2. /\ ws \in Seq(Seq(Message)) /\ vs \in Seq(Seq(Message)) /\ m \in Seq(Message)
        /\ Len(vs) = Len(ws) + 1
        /\ \A k \in 1 .. Len(ws) : vs[k] = ws[k]
        /\ vs[Len(ws) + 1] = m
    BY <1>2, <1>4, <1>5, <1>6, <2>1
  <2>3. vs = Append(ws, m)
    <3>1. PICK us : us = Append(ws, m)
      OBVIOUS
    <3>2. us \in Seq(Seq(Message)) /\ Len(us) = Len(vs) /\ \A k \in 1 .. Len(vs) : vs[k] = us[k]
      BY <2>2, <3>1
    <3>. QED
      BY <2>2, <3>1, <3>2, SeqEqual
  <2>. QED
    BY <2>1, <2>3
<1>8. FlattenSeq(WalksOf(cs)) = FlattenSeq(WalksOf(bs)) \o Messages(b)
  BY <1>4, <1>6, <1>7, FlattenAppend
<1>. QED
  BY <1>1, <1>3, <1>4, <1>5, <1>8

LEMMA ContentCons ==
    ASSUME NEW bs, BlockList(bs), NEW b \in Block, IsWalk(b, Messages(b))
    PROVE  /\ BlockList(<<b>> \o bs)
           /\ ContentOf(<<b>> \o bs) = Messages(b) \o ContentOf(bs)
<1>1. PICK cs : cs = <<b>> \o bs
  OBVIOUS
<1>2. /\ bs \in Seq(Block) /\ Len(bs) \in Nat
      /\ cs \in Seq(Block) /\ Len(cs) = Len(bs) + 1
      /\ \A k \in 1 .. Len(bs) : cs[k + 1] = bs[k]
      /\ cs[1] = b
  <2>1. bs \in Seq(Block) /\ <<b>> \in Seq(Block) /\ Len(<<b>>) = 1 /\ <<b>>[1] = b
    BY DEF BlockList
  <2>. QED
    BY <1>1, <2>1
<1>3. BlockList(cs)
  <2>1. ASSUME NEW k \in 1 .. Len(cs) PROVE IsWalk(cs[k], Messages(cs[k]))
    <3>1. CASE k = 1
      BY <1>2, <3>1
    <3>2. CASE k # 1
      <4>1. k - 1 \in 1 .. Len(bs) /\ k - 1 + 1 = k
        BY <1>2, <3>2
      <4>2. cs[k] = bs[k - 1]
        BY <1>2, <4>1
      <4>. QED
        BY <4>1, <4>2 DEF BlockList
    <3>. QED
      BY <3>1, <3>2
  <2>. QED
    BY <1>2, <2>1 DEF BlockList
<1>4. /\ WalksOf(bs) \in Seq(Seq(Message)) /\ Len(WalksOf(bs)) = Len(bs)
      /\ \A k \in 1 .. Len(bs) : WalksOf(bs)[k] = Messages(bs[k])
      /\ ContentOf(bs) = FlattenSeq(WalksOf(bs))
  BY WalksType
<1>5. /\ WalksOf(cs) \in Seq(Seq(Message)) /\ Len(WalksOf(cs)) = Len(bs) + 1
      /\ \A k \in 1 .. Len(bs) + 1 : WalksOf(cs)[k] = Messages(cs[k])
      /\ ContentOf(cs) = FlattenSeq(WalksOf(cs))
  BY <1>2, <1>3, WalksType
<1>6. Messages(b) \in Seq(Message)
  BY WalkMessages
<1>7. WalksOf(cs) = <<Messages(b)>> \o WalksOf(bs)
  <2>1. PICK ws, vs, m : ws = WalksOf(bs) /\ vs = WalksOf(cs) /\ m = Messages(b)
    OBVIOUS
  <2>2. /\ ws \in Seq(Seq(Message)) /\ vs \in Seq(Seq(Message)) /\ m \in Seq(Message)
        /\ Len(vs) = Len(ws) + 1
        /\ \A k \in 1 .. Len(ws) : vs[k + 1] = ws[k]
        /\ vs[1] = m
    BY <1>2, <1>4, <1>5, <1>6, <2>1
  <2>3. vs = <<m>> \o ws
    <3>1. PICK us : us = <<m>> \o ws
      OBVIOUS
    <3>2. us \in Seq(Seq(Message)) /\ Len(us) = Len(vs) /\ \A k \in 1 .. Len(vs) : vs[k] = us[k]
      <4>1. <<m>> \in Seq(Seq(Message)) /\ Len(<<m>>) = 1 /\ <<m>>[1] = m
        BY <2>2
      <4>2. /\ us \in Seq(Seq(Message)) /\ Len(us) = 1 + Len(ws)
            /\ \A k \in 1 .. 1 + Len(ws) : us[k] = IF k <= 1 THEN m ELSE ws[k - 1]
        BY <2>2, <3>1, <4>1, ConcatProperties
      <4>3. ASSUME NEW k \in 1 .. Len(vs) PROVE vs[k] = us[k]
        <5>1. CASE k = 1
          BY <2>2, <4>2, <5>1
        <5>2. CASE k # 1
          <6>1. k - 1 \in 1 .. Len(ws) /\ k - 1 + 1 = k /\ k \in 1 .. 1 + Len(ws)
            BY <2>2, <5>2
          <6>2. vs[k - 1 + 1] = ws[k - 1]
            BY <2>2, <6>1
          <6>3. us[k] = ws[k - 1]
            BY <4>2, <5>2, <6>1
          <6>. QED
            BY <6>1, <6>2, <6>3
        <5>. QED
          BY <5>1, <5>2
      <4>. QED
        BY <2>2, <4>2, <4>3
    <3>. QED
      BY <2>2, <3>1, <3>2, SeqEqual
  <2>. QED
    BY <2>1, <2>3
<1>8. FlattenSeq(WalksOf(cs)) = Messages(b) \o FlattenSeq(WalksOf(bs))
  BY <1>4, <1>6, <1>7, FlattenCons
<1>. QED
  BY <1>1, <1>3, <1>4, <1>5, <1>8

LEMMA BlockListParts ==
    ASSUME NEW bs, BlockList(bs), bs # <<>>
    PROVE  /\ Len(bs) \in Nat \ {0}
           /\ SubSeq(bs, 1, Len(bs) - 1) \in Seq(Block)
           /\ BlockList(SubSeq(bs, 1, Len(bs) - 1))
           /\ bs = Append(SubSeq(bs, 1, Len(bs) - 1), bs[Len(bs)])
           /\ BlockList(Tail(bs))
           /\ bs = <<bs[1]>> \o Tail(bs)
           /\ Tail(bs) = SubSeq(bs, 2, Len(bs))
           /\ \A k \in 1 .. Len(bs) : bs[k] \in Block /\ IsWalk(bs[k], Messages(bs[k]))
<1> DEFINE n == Len(bs)
<1>1. bs \in Seq(Block) /\ n \in Nat \ {0}
  BY EmptySeq DEF BlockList
<1>2. \A k \in 1 .. n : bs[k] \in Block /\ IsWalk(bs[k], Messages(bs[k]))
  BY <1>1 DEF BlockList
<1>3. PICK front : front = SubSeq(bs, 1, n - 1)
  OBVIOUS
<1>4. front \in Seq(Block) /\ Len(front) = n - 1 /\ \A k \in 1 .. n - 1 : front[k] = bs[k]
  BY <1>1, <1>3, FrontOf
<1>5. BlockList(front)
  BY <1>1, <1>2, <1>4 DEF BlockList
<1>6. bs = Append(front, bs[n])
  BY <1>1, <1>3, FrontOf
<1>7. PICK t : t = Tail(bs)
  OBVIOUS
<1>8. t \in Seq(Block) /\ Len(t) = n - 1 /\ \A k \in 1 .. n - 1 : t[k] = bs[k + 1]
  BY <1>1, <1>7, HeadTailProperties
<1>9. BlockList(t)
  BY <1>1, <1>2, <1>8 DEF BlockList
<1>10. bs = <<bs[1]>> \o t
  <2>1. bs[1] \in Block
    BY <1>1
  <2>. QED
    BY <1>1, <1>7, <2>1, ReplaceFirst
<1>11. t = SubSeq(bs, 2, n)
  BY <1>1, <1>7, TailIsSubSeq
<1>. QED
  BY <1>1, <1>2, <1>3, <1>4, <1>5, <1>6, <1>7, <1>9, <1>10, <1>11

LEMMA NewBlockWalk ==
    /\ NewBlock \in Block /\ NewBlock.left = 0 /\ NewBlock.right = 0
    /\ IsWalk(NewBlock, <<>>)
<1>1. BlockSize \in Nat /\ NoMessage \in [n : Nat, size : Nat]
  BY ConstantsAssumption DEF NoMessage
<1>2. NewBlock \in Block
  BY <1>1 DEF NewBlock, Block
<1>3. NewBlock.left = 0 /\ NewBlock.right = 0
  BY DEF NewBlock
<1> DEFINE off == [i \in 1 .. 1 |-> 0]
<1>4. IsWalkAt(NewBlock, <<>>, off)
  <2>1. <<>> \in Seq(Message) /\ Len(<<>>) = 0
    OBVIOUS
  <2>2. off \in [1 .. 0 + 1 -> 0 .. 0] /\ off[1] = 0 /\ off[0 + 1] = 0
    OBVIOUS
  <2>. QED
    BY <1>3, <2>1, <2>2 DEF IsWalkAt
<1>. QED
  BY <1>2, <1>3, <1>4 DEF IsWalk

\* The list of one new block.
LEMMA NewList ==
    /\ BlockList(<<NewBlock>>) /\ Len(<<NewBlock>>) = 1
    /\ ContentOf(<<NewBlock>>) = <<>>
<1>1. Messages(NewBlock) = <<>>
  BY NewBlockWalk, MessagesAre
<1>2. BlockList(<<>>) /\ ContentOf(<<>>) = <<>>
  <2>1. <<>> \in Seq(Block) /\ Len(<<>>) = 0 /\ DOMAIN <<>> = 1 .. 0
    OBVIOUS
  <2>2. WalksOf(<<>>) = <<>>
    BY <2>1 DEF WalksOf
  <2>3. BlockList(<<>>)
    BY <2>1 DEF BlockList
  <2>. QED
    BY <2>2, <2>3, WalksType, FlattenEmpty
<1>3. <<NewBlock>> = Append(<<>>, NewBlock) /\ <<>> \o <<>> = <<>>
  OBVIOUS
<1>4. /\ BlockList(Append(<<>>, NewBlock))
      /\ ContentOf(Append(<<>>, NewBlock)) = ContentOf(<<>>) \o Messages(NewBlock)
  BY <1>1, <1>2, NewBlockWalk, ContentAppend
<1>. QED
  BY <1>1, <1>2, <1>3, <1>4

\* The two ways in which a message comes to the tail.
OnTail(bs, m) == [bs EXCEPT ![Len(bs)] = StoredAt(@, m)]

LEMMA PushOnTail ==
    ASSUME NEW bs, BlockList(bs), bs # <<>>, NEW m \in Message,
           bs[Len(bs)].right + HeaderSize + m.size <= BlockSize,
           NEW cs, cs = OnTail(bs, m)
    PROVE  /\ BlockList(cs) /\ Len(cs) = Len(bs)
           /\ \A k \in 1 .. Len(bs) - 1 : cs[k] = bs[k]
           /\ cs[Len(bs)] = StoredAt(bs[Len(bs)], m)
           /\ ContentOf(cs) = Append(ContentOf(bs), m)
<1>1. PICK n, front, b : n = Len(bs) /\ front = SubSeq(bs, 1, n - 1) /\ b = bs[n]
  OBVIOUS
<1>2. /\ n \in Nat \ {0} /\ front \in Seq(Block) /\ BlockList(front)
      /\ bs = Append(front, b) /\ b \in Block /\ IsWalk(b, Messages(b))
  <2>1. /\ Len(bs) \in Nat \ {0}
        /\ SubSeq(bs, 1, Len(bs) - 1) \in Seq(Block)
        /\ BlockList(SubSeq(bs, 1, Len(bs) - 1))
        /\ bs = Append(SubSeq(bs, 1, Len(bs) - 1), bs[Len(bs)])
    BY BlockListParts
  <2>2. bs[Len(bs)] \in Block /\ IsWalk(bs[Len(bs)], Messages(bs[Len(bs)]))
    <3>1. \A k \in 1 .. Len(bs) : bs[k] \in Block /\ IsWalk(bs[k], Messages(bs[k]))
      BY BlockListParts
    <3>2. Len(bs) \in 1 .. Len(bs)
      BY <2>1
    <3>. QED
      BY <3>1, <3>2
  <2>. QED
    BY <1>1, <2>1, <2>2
<1>12. Messages(b) \in Seq(Message)
  BY <1>2, WalkMessages
<1>3. PICK c : c = StoredAt(b, m)
  OBVIOUS
<1>4. c \in Block /\ IsWalk(c, Append(Messages(b), m))
  BY <1>1, <1>2, <1>3, WalkStored
<1>5. Messages(c) = Append(Messages(b), m) /\ IsWalk(c, Messages(c))
  BY <1>4, MessagesAre
<1>6. bs \in Seq(Block)
  BY DEF BlockList
<1>7. cs = [bs EXCEPT ![Len(bs)] = c]
  BY <1>1, <1>3 DEF OnTail
<1>8. /\ Len(cs) = n /\ cs[n] = c
      /\ \A k \in 1 .. n - 1 : cs[k] = bs[k]
      /\ cs = Append(front, c)
  <2>1. /\ Len(cs) = Len(bs) /\ cs[Len(bs)] = c
        /\ \A k \in 1 .. Len(bs) - 1 : cs[k] = bs[k]
        /\ cs = Append(SubSeq(bs, 1, Len(bs) - 1), c)
    <3>1. c \in Block /\ bs \in Seq(Block) /\ bs # <<>>
      BY <1>4, <1>6
    <3>2. PICK l \in Nat \ {0} : l = Len(bs)
      BY <3>1, EmptySeq
    <3>3. cs = [bs EXCEPT ![l] = c]
      BY <1>7, <3>2
    <3>4. cs \in Seq(Block) /\ Len(cs) = l
      BY <3>1, <3>2, <3>3
    <3>5. cs[l] = c /\ \A k \in 1 .. l - 1 : cs[k] = bs[k]
      BY <3>1, <3>2, <3>3
    <3>. QED
      BY <3>1, <3>2, <3>4, <3>5, ReplaceLast
  <2>. QED
    BY <1>1, <2>1
<1>9. BlockList(cs) /\ ContentOf(cs) = ContentOf(front) \o Messages(c)
  <2>1. c \in Block /\ IsWalk(c, Messages(c)) /\ BlockList(front) /\ cs = Append(front, c)
    BY <1>2, <1>4, <1>5, <1>8
  <2>2. /\ BlockList(Append(front, c))
        /\ ContentOf(Append(front, c)) = ContentOf(front) \o Messages(c)
    BY <2>1, ContentAppend
  <2>. QED
    BY <2>1, <2>2
<1>10. ContentOf(bs) = ContentOf(front) \o Messages(b)
  BY <1>2, ContentAppend
<1>11. ContentOf(cs) = Append(ContentOf(bs), m)
  <2>1. PICK p, q : p = ContentOf(front) /\ q = Messages(b)
    OBVIOUS
  <2>2. p \in Seq(Message) /\ q \in Seq(Message)
    BY <1>2, <1>12, <2>1, WalksType
  <2>3. p \o Append(q, m) = Append(p \o q, m)
    BY <2>2
  <2>. QED
    BY <1>5, <1>9, <1>10, <2>1, <2>3
<1>. QED
  BY <1>1, <1>3, <1>8, <1>9, <1>11

LEMMA PushOnNew ==
    ASSUME NEW bs, BlockList(bs), NEW m \in Message, HeaderSize + m.size <= BlockSize
    PROVE  /\ BlockList(Append(bs, StoredAt(NewBlock, m)))
           /\ ContentOf(Append(bs, StoredAt(NewBlock, m))) = Append(ContentOf(bs), m)
<1>1. PICK c : c = StoredAt(NewBlock, m)
  OBVIOUS
<1>2. NewBlock.right + HeaderSize + m.size <= BlockSize
  BY NewBlockWalk, MessageType
<1>3. c \in Block /\ IsWalk(c, Append(<<>>, m))
  BY <1>1, <1>2, NewBlockWalk, WalkStored
<1>4. Messages(c) = Append(<<>>, m) /\ IsWalk(c, Messages(c))
  BY <1>3, MessagesAre
<1>5. PICK q : q = ContentOf(bs)
  OBVIOUS
<1>6. q \in Seq(Message)
  BY <1>5, WalksType
<1>7. BlockList(Append(bs, c)) /\ ContentOf(Append(bs, c)) = q \o Append(<<>>, m)
  BY <1>3, <1>4, <1>5, ContentAppend
<1>8. q \o Append(<<>>, m) = Append(q, m)
  BY <1>6
<1>. QED
  BY <1>1, <1>5, <1>7, <1>8

\* A message taken from the head, and an empty head left behind.
FromHead(bs, m) == [bs EXCEPT ![1].left = @ + HeaderSize + m.size]

LEMMA PullFromHead ==
    ASSUME NEW bs, BlockList(bs), bs # <<>>, bs[1].left # bs[1].right,
           NEW m, m = bs[1].buf[bs[1].left],
           NEW cs, cs = FromHead(bs, m)
    PROVE  /\ BlockList(cs) /\ Len(cs) = Len(bs)
           /\ \A k \in 2 .. Len(bs) : cs[k] = bs[k]
           /\ cs[1].right = bs[1].right
           /\ m \in Message
           /\ ContentOf(bs) = <<m>> \o ContentOf(cs)
<1>1. PICK n, t, b : n = Len(bs) /\ t = Tail(bs) /\ b = bs[1]
  OBVIOUS
<1>2. /\ n \in Nat \ {0} /\ BlockList(t) /\ bs = <<b>> \o t
      /\ b \in Block /\ IsWalk(b, Messages(b))
  BY <1>1, BlockListParts
<1>3. PICK w : w = Messages(b)
  OBVIOUS
<1>4. w \in Seq(Message) /\ w # <<>> /\ w[1] = m
  BY <1>1, <1>2, <1>3, WalkAdvanced
<1>5. PICK c \in Block : /\ c = [b EXCEPT !.left = @ + HeaderSize + w[1].size]
                         /\ c.right = b.right
                         /\ IsWalk(c, Tail(w))
  BY <1>1, <1>2, <1>3, WalkAdvanced
<1>6. Messages(c) = Tail(w) /\ IsWalk(c, Messages(c))
  BY <1>5, MessagesAre
<1>7. bs \in Seq(Block)
  BY DEF BlockList
<1>8. cs = [bs EXCEPT ![1] = c]
  BY <1>1, <1>4, <1>5 DEF FromHead
<1>9. /\ Len(cs) = n /\ cs[1] = c
      /\ \A k \in 2 .. n : cs[k] = bs[k]
      /\ cs = <<c>> \o t
  <2>1. /\ Len(cs) = Len(bs) /\ cs[1] = c
        /\ \A k \in 2 .. Len(bs) : cs[k] = bs[k]
        /\ cs = <<c>> \o Tail(bs)
    BY <1>5, <1>7, <1>8, ReplaceFirst
  <2>. QED
    BY <1>1, <2>1
<1>11. BlockList(cs) /\ ContentOf(cs) = Tail(w) \o ContentOf(t)
  <2>1. c \in Block /\ IsWalk(c, Messages(c)) /\ BlockList(t) /\ cs = <<c>> \o t
    BY <1>2, <1>5, <1>6, <1>9
  <2>2. BlockList(<<c>> \o t) /\ ContentOf(<<c>> \o t) = Messages(c) \o ContentOf(t)
    BY <2>1, ContentCons
  <2>. QED
    BY <1>6, <2>1, <2>2
<1>12. ContentOf(bs) = w \o ContentOf(t)
  BY <1>2, <1>3, ContentCons
<1>13. ContentOf(bs) = <<m>> \o ContentOf(cs)
  <2>1. PICK p, q : p = Tail(w) /\ q = ContentOf(t)
    OBVIOUS
  <2>2. p \in Seq(Message) /\ q \in Seq(Message) /\ m \in Message /\ <<m>> \in Seq(Message)
    BY <1>2, <1>4, <2>1, WalksType
  <2>3. w = <<m>> \o p
    BY <1>4, <2>1
  <2>4. (<<m>> \o p) \o q = <<m>> \o (p \o q)
    BY <2>2, ConcatAssociative
  <2>. QED
    BY <1>11, <1>12, <2>1, <2>3, <2>4
<1>14. m \in Message
  BY <1>4
<1>. QED
  BY <1>1, <1>5, <1>9, <1>11, <1>13, <1>14

LEMMA EmptyHeadLeft ==
    ASSUME NEW bs, BlockList(bs), bs # <<>>, bs[1].left = bs[1].right
    PROVE  BlockList(Tail(bs)) /\ ContentOf(Tail(bs)) = ContentOf(bs)
<1>1. PICK t, b : t = Tail(bs) /\ b = bs[1]
  OBVIOUS
<1>2. /\ BlockList(t) /\ bs = <<b>> \o t
      /\ b \in Block /\ IsWalk(b, Messages(b))
  BY <1>1, BlockListParts
<1>3. Messages(b) = <<>>
  BY <1>1, <1>2, WalkAdvanced
<1>4. ContentOf(bs) = Messages(b) \o ContentOf(t)
  BY <1>2, ContentCons
<1>5. ContentOf(t) \in Seq(Message)
  BY <1>2, WalksType
<1>6. <<>> \o ContentOf(t) = ContentOf(t)
  BY <1>5, ConcatEmptySeq
<1>. QED
  BY <1>1, <1>2, <1>3, <1>4, <1>6

\* The bodies in all blocks add up to no more than the blocks have room for.
LEMMA ContentSize ==
    ASSUME NEW bs, BlockList(bs)
    PROVE  SumSizes(ContentOf(bs)) \in Nat /\ SumSizes(ContentOf(bs)) <= Len(bs) * BlockSize
<1> DEFINE Upto(n) == SubSeq(WalksOf(bs), 1, n)
           T == {n \in Nat : n <= Len(bs) =>
                    /\ SumSizes(FlattenSeq(Upto(n))) \in Nat
                    /\ SumSizes(FlattenSeq(Upto(n))) <= n * BlockSize}
<1>1. PICK ws : ws = WalksOf(bs)
  OBVIOUS
<1>2. ws \in Seq(Seq(Message)) /\ Len(ws) = Len(bs) /\ Len(bs) \in Nat
      /\ ContentOf(bs) = FlattenSeq(ws)
  BY <1>1, WalksType DEF BlockList
<1>3. \A k \in 1 .. Len(bs) : SumSizes(ws[k]) \in 0 .. BlockSize
  <2>1. ASSUME NEW k \in 1 .. Len(bs) PROVE SumSizes(ws[k]) \in 0 .. BlockSize
    <3>1. bs[k] \in Block /\ IsWalk(bs[k], Messages(bs[k])) /\ ws[k] = Messages(bs[k])
      BY <1>1, WalksType DEF BlockList
    <3>. QED
      BY <3>1, WalkSize
  <2>. QED
    BY <2>1
<1>4. BlockSize \in Nat /\ \A m \in Message : m.size \in Nat
  BY ConstantsAssumption, MessageType
<1>5. 0 \in T
  <2>1. Upto(0) = <<>>
    BY SubSeqEmpty
  <2>2. 0 * BlockSize = 0
    BY <1>4
  <2>3. SumSizes(FlattenSeq(Upto(0))) = 0
    BY <2>1, FlattenEmpty, SumEmpty
  <2>. HIDE DEF Upto
  <2>. QED
    BY <2>2, <2>3
<1>6. ASSUME NEW n \in Nat, n \in T
      PROVE  n + 1 \in T
  <2>1. SUFFICES ASSUME n + 1 <= Len(bs)
                 PROVE  /\ SumSizes(FlattenSeq(Upto(n + 1))) \in Nat
                        /\ SumSizes(FlattenSeq(Upto(n + 1))) <= (n + 1) * BlockSize
    OBVIOUS
  <2>2. PICK a, w : a = SubSeq(ws, 1, n) /\ w = ws[n + 1]
    OBVIOUS
  <2>3. a \in Seq(Seq(Message)) /\ w \in Seq(Message) /\ SubSeq(ws, 1, n + 1) = Append(a, w)
    BY <1>2, <2>1, <2>2
  <2>4. PICK q : q = FlattenSeq(a)
    OBVIOUS
  <2>5. q \in Seq(Message) /\ FlattenSeq(Append(a, w)) = q \o w
    BY <2>3, <2>4, FlattenAppend
  <2>6. SumSizes(q \o w) = SumSizes(q) + SumSizes(w)
    BY <1>4, <2>3, <2>5, SumConcat
  <2>7. SumSizes(w) \in 0 .. BlockSize
    BY <1>3, <2>1, <2>2
  <2>8. SumSizes(q) \in Nat /\ SumSizes(q) <= n * BlockSize
    BY <1>1, <1>6, <2>1, <2>2, <2>4
  <2>9. (n + 1) * BlockSize = n * BlockSize + BlockSize /\ n * BlockSize \in Nat
    BY <1>4
  <2>10. FlattenSeq(Upto(n + 1)) = q \o w
    BY <1>1, <2>3, <2>5
  <2>. HIDE DEF Upto
  <2>11. SumSizes(FlattenSeq(Upto(n + 1))) = SumSizes(q) + SumSizes(w)
    BY <2>6, <2>10
  <2>. QED
    BY <1>4, <2>7, <2>8, <2>9, <2>11
<1>. HIDE DEF T
<1>7. Len(bs) \in T
  BY <1>2, <1>5, <1>6, NatSetInduction
<1>8. Upto(Len(bs)) = ws
  BY <1>1, <1>2, SubSeqFull
<1>9. /\ SumSizes(FlattenSeq(Upto(Len(bs)))) \in Nat
      /\ SumSizes(FlattenSeq(Upto(Len(bs)))) <= Len(bs) * BlockSize
  <2>. HIDE DEF Upto
  <2>1. Len(bs) <= Len(bs)
    BY <1>2
  <2>. QED
    BY <1>7, <2>1 DEF T
<1>. HIDE DEF Upto
<1>. QED
  BY <1>2, <1>8, <1>9

----------------------------------------------------------------------------
(* The inductive invariant *)

\* The lists and the counters, and the values of the other variables.
QueueLists ==
    /\ BlockList(blocks) /\ blocks # <<>>
    /\ free \in Nat
    /\ used_cnt = Len(blocks)
    /\ content = SumSizes(ContentOf(blocks))

\* Only the head may be empty.
TailsNotEmpty == \A k \in 2 .. Len(blocks) : ~IsBlockEmpty(blocks[k])

QueueCalls ==
    /\ ppc \in [Producers -> {"idle", "try", "push"}]
    /\ msg \in [Producers -> [n : Nat, size : Nat]]
    /\ cpc \in [Consumers -> {"idle", "pull"}]
    /\ asked \in 0 .. MaxMessages
    /\ raced \in BOOLEAN
    /\ \A p \in Producers : ppc[p] # "idle" => msg[p] \in Message
    /\ \A p \in Producers : ppc[p] = "push" => HeaderSize + msg[p].size <= BlockSize

\* What is_empty has found stays true, as only the one consumer takes messages.
PullsFind == \A c \in Consumers : cpc[c] = "pull" => ~IsEmpty

\* What is_full has found stays true, unless another push comes between.
PushesFit ==
    MaxBlockNo # 0 /\ ~raced =>
        /\ used_cnt + free <= MaxBlockNo
        /\ \A p, q \in Producers : ppc[p] = "push" /\ ppc[q] = "push" => p = q
        /\ \A p \in Producers :
               ppc[p] = "push" => used_cnt < MaxBlockNo \/ ~IsBlockFull(msg[p].size)

QueueInv == QueueLists /\ TailsNotEmpty /\ QueueCalls /\ PullsFind /\ PushesFit

LEMMA QueueInitInv == QueueInit => QueueInv
<1>. SUFFICES ASSUME QueueInit PROVE QueueInv
  OBVIOUS
<1>1. blocks = <<NewBlock>>
  BY DEF QueueInit
<1>2. BlockList(blocks) /\ Len(blocks) = 1 /\ ContentOf(blocks) = <<>>
  BY <1>1, NewList
<1>3. blocks # <<>>
  BY <1>2
<1>4. NoMessage \in [n : Nat, size : Nat] /\ MaxMessages \in Nat /\ MaxBlockNo \in Nat
  BY ConstantsAssumption DEF NoMessage
<1>5. QueueLists
  BY <1>2, <1>3, SumEmpty DEF QueueInit, QueueLists
<1>6. TailsNotEmpty
  BY <1>2 DEF TailsNotEmpty
<1>7. QueueCalls
  <2>1. /\ \A p \in Producers : ppc[p] = "idle"
        /\ ppc \in [Producers -> {"idle", "try", "push"}]
        /\ msg \in [Producers -> [n : Nat, size : Nat]]
    BY <1>4 DEF QueueInit
  <2>2. cpc \in [Consumers -> {"idle", "pull"}]
    BY DEF QueueInit
  <2>3. asked \in 0 .. MaxMessages
    BY <1>4 DEF QueueInit
  <2>4. raced \in BOOLEAN
    BY DEF QueueInit
  <2>. QED
    BY <2>1, <2>2, <2>3, <2>4 DEF QueueCalls
<1>8. PullsFind
  BY DEF QueueInit, PullsFind
<1>9. PushesFit
  BY <1>4 DEF QueueInit, PushesFit
<1>. QED
  BY <1>5, <1>6, <1>7, <1>8, <1>9 DEF QueueInv

\* The facts about a list that is not empty.
LEMMA QueueFacts ==
    ASSUME QueueInv
    PROVE  /\ Len(blocks) \in Nat \ {0} /\ blocks \in Seq(Block)
           /\ used_cnt \in Nat \ {0}
           /\ ContentOf(blocks) \in Seq(Message)
           /\ content \in Nat /\ content <= Len(blocks) * BlockSize
           /\ \A k \in 1 .. Len(blocks) :
                  /\ blocks[k] \in Block
                  /\ blocks[k].left \in 0 .. BlockSize
                  /\ blocks[k].right \in 0 .. BlockSize
                  /\ blocks[k].left <= blocks[k].right
<1>1. /\ Len(blocks) \in Nat \ {0}
      /\ \A k \in 1 .. Len(blocks) : blocks[k] \in Block /\ IsWalk(blocks[k], Messages(blocks[k]))
  BY BlockListParts DEF QueueInv, QueueLists
<1>2. \A k \in 1 .. Len(blocks) : blocks[k].left <= blocks[k].right
  BY <1>1, WalkAdvanced
<1>3. \A k \in 1 .. Len(blocks) : blocks[k].left \in 0 .. BlockSize /\ blocks[k].right \in 0 .. BlockSize
  BY <1>1 DEF Block
<1>4. ContentOf(blocks) \in Seq(Message)
  BY WalksType DEF QueueInv, QueueLists
<1>5. content \in Nat /\ content <= Len(blocks) * BlockSize
  BY ContentSize DEF QueueInv, QueueLists
<1>6. blocks \in Seq(Block) /\ used_cnt \in Nat \ {0}
  BY <1>1 DEF QueueInv, QueueLists, BlockList
<1>. QED
  BY <1>1, <1>2, <1>3, <1>4, <1>5, <1>6

LEMMA PushCallInv ==
    ASSUME QueueInv, NEW p \in Producers, NEW sz \in BodySizes, PushCall(p, sz)
    PROVE  QueueInv'
<1>1. UNCHANGED <<blocks, free, used_cnt, content, cpc, got, raced>>
  BY DEF PushCall
<1>2. /\ ppc[p] = "idle" /\ asked < MaxMessages /\ asked' = asked + 1
      /\ msg' = [msg EXCEPT ![p] = [n |-> asked + 1, size |-> sz]]
      /\ ppc' = [ppc EXCEPT ![p] = "try"]
  BY DEF PushCall
<1>3. asked \in 0 .. MaxMessages /\ MaxMessages \in Nat /\ sz \in Nat
  BY ConstantsAssumption DEF QueueInv, QueueCalls
<1>4. [n |-> asked + 1, size |-> sz] \in Message
      /\ [n |-> asked + 1, size |-> sz] \in [n : Nat, size : Nat]
  BY <1>2, <1>3 DEF Message
<1>5. QueueCalls'
  BY <1>1, <1>2, <1>3, <1>4 DEF QueueInv, QueueCalls
<1>6. QueueLists' /\ TailsNotEmpty' /\ PullsFind'
  BY <1>1 DEF QueueInv, QueueLists, TailsNotEmpty, PullsFind, IsEmpty, HeadBlock, TailBlock
<1>7. PushesFit'
  <2>1. \A q \in Producers : ppc'[q] = "push" => ppc[q] = "push" /\ msg'[q] = msg[q]
    BY <1>2 DEF QueueInv, QueueCalls
  <2>. QED
    BY <1>1, <2>1 DEF QueueInv, PushesFit, IsBlockFull, TailBlock
<1>. QED
  BY <1>5, <1>6, <1>7 DEF QueueInv

LEMMA PushCheckInv ==
    ASSUME QueueInv, NEW p \in Producers, PushCheck(p)
    PROVE  QueueInv'
<1>1. UNCHANGED <<blocks, free, used_cnt, content, msg, cpc, asked, got>>
  BY DEF PushCheck
<1>2. /\ ppc[p] = "try" /\ ~IsFull(msg[p].size)
      /\ ppc' = [ppc EXCEPT ![p] = IF msg[p].size > BlockSize - HeaderSize
                                   THEN "idle" ELSE "push"]
      /\ raced' = (raced \/ \E q \in Producers \ {p} : ppc[q] = "push")
  BY DEF PushCheck
<1>3. /\ BlockSize \in Nat \ {0} /\ MaxBlockNo \in Nat /\ HeaderSize = 1
      /\ msg[p] \in [n : Nat, size : Nat] /\ msg[p].size \in Nat
      /\ ppc \in [Producers -> {"idle", "try", "push"}]
      /\ raced \in BOOLEAN /\ free \in Nat
  BY ConstantsAssumption, MessageType DEF QueueInv, QueueCalls, QueueLists
<1>4. used_cnt \in Nat
  BY QueueFacts
<1>5. QueueLists' /\ TailsNotEmpty' /\ PullsFind'
  BY <1>1 DEF QueueInv, QueueLists, TailsNotEmpty, PullsFind, IsEmpty, HeadBlock, TailBlock
<1>6. /\ ppc' \in [Producers -> {"idle", "try", "push"}]
      /\ \A q \in Producers : q # p => ppc'[q] = ppc[q]
      /\ ppc'[p] \in {"idle", "push"}
      /\ ppc'[p] = "push" => HeaderSize + msg[p].size <= BlockSize
  BY <1>2, <1>3
<1>7. raced' \in BOOLEAN
  BY <1>2, <1>3
<1>8. QueueCalls'
  BY <1>1, <1>2, <1>6, <1>7 DEF QueueInv, QueueCalls
<1>9. PushesFit'
  <2>1. SUFFICES ASSUME MaxBlockNo # 0, ~raced'
                 PROVE  /\ used_cnt + free <= MaxBlockNo
                        /\ \A q, r \in Producers : ppc'[q] = "push" /\ ppc'[r] = "push" => q = r
                        /\ \A q \in Producers :
                               ppc'[q] = "push" => used_cnt < MaxBlockNo \/ ~IsBlockFull(msg[q].size)
    BY <1>1 DEF PushesFit, IsBlockFull, TailBlock
  <2>2. ~raced /\ \A q \in Producers : q # p => ppc[q] # "push"
    BY <1>2, <2>1
  <2>3. \A q \in Producers : ppc'[q] = "push" => q = p
    BY <1>6, <2>2
  <2>4. used_cnt + free <= MaxBlockNo
    BY <2>1, <2>2 DEF QueueInv, PushesFit
  <2>5. used_cnt < MaxBlockNo \/ ~IsBlockFull(msg[p].size)
    BY <1>2, <1>3, <1>4, <2>1, <2>4 DEF IsFull
  <2>. QED
    BY <2>3, <2>4, <2>5
<1>. QED
  BY <1>5, <1>8, <1>9 DEF QueueInv

LEMMA PullCheckInv ==
    ASSUME QueueInv, NEW c \in Consumers, PullCheck(c)
    PROVE  QueueInv'
<1>1. UNCHANGED <<blocks, free, used_cnt, content, ppc, msg, asked, got, raced>>
  BY DEF PullCheck
<1>2. ~IsEmpty /\ cpc' = [cpc EXCEPT ![c] = "pull"]
  BY DEF PullCheck
<1>3. QueueLists' /\ TailsNotEmpty' /\ PushesFit'
  BY <1>1 DEF QueueInv, QueueLists, TailsNotEmpty, PushesFit, IsBlockFull, TailBlock
<1>4. QueueCalls'
  BY <1>1, <1>2 DEF QueueInv, QueueCalls
<1>5. PullsFind'
  BY <1>1, <1>2 DEF PullsFind, IsEmpty, HeadBlock, TailBlock
<1>. QED
  BY <1>3, <1>4, <1>5 DEF QueueInv

\* The message goes to the tail, or to a new block behind it.
LEMMA PushLockedInv ==
    ASSUME QueueInv, NEW p \in Producers, PushLocked(p)
    PROVE  /\ QueueInv'
           /\ msg[p] \in Message /\ got' = got
           /\ ContentOf(blocks') = Append(ContentOf(blocks), msg[p])
<1>1. PICK m : m = msg[p]
  OBVIOUS
<1>2. /\ ppc[p] = "push" /\ ppc' = [ppc EXCEPT ![p] = "idle"]
      /\ content' = content + m.size
      /\ UNCHANGED <<msg, cpc, asked, got, raced>>
      /\ \/ /\ ~IsBlockFull(m.size)
            /\ blocks' = [blocks EXCEPT ![Len(blocks)] = StoredAt(@, m)]
            /\ UNCHANGED <<free, used_cnt>>
         \/ /\ IsBlockFull(m.size)
            /\ blocks' = Append(blocks, StoredAt(NewBlock, m))
            /\ free' = IF free > 0 THEN free - 1 ELSE 0
            /\ used_cnt' = used_cnt + 1
  BY <1>1 DEF PushLocked
<1>3. /\ m \in Message /\ m.size \in Nat \ {0} /\ HeaderSize + m.size <= BlockSize
      /\ HeaderSize = 1 /\ BlockSize \in Nat \ {0} /\ MaxBlockNo \in Nat
  BY <1>1, <1>2, MessageType, ConstantsAssumption DEF QueueInv, QueueCalls
<1>4. /\ BlockList(blocks) /\ blocks # <<>> /\ free \in Nat /\ used_cnt = Len(blocks)
      /\ content = SumSizes(ContentOf(blocks))
      /\ ContentOf(blocks) \in Seq(Message)
      /\ Len(blocks) \in Nat \ {0}
      /\ blocks \in Seq(Block)
  BY QueueFacts DEF QueueInv, QueueLists
<1>5. /\ BlockList(blocks') /\ blocks' # <<>>
      /\ ContentOf(blocks') = Append(ContentOf(blocks), m)
      /\ used_cnt' = Len(blocks') /\ free' \in Nat
      /\ \A k \in 2 .. Len(blocks') : blocks'[k].left # blocks'[k].right
      /\ ~(Len(blocks') = 1 /\ blocks'[1].left = blocks'[Len(blocks')].right)
  <2>1. CASE ~IsBlockFull(m.size)
    <3>1. blocks' = [blocks EXCEPT ![Len(blocks)] = StoredAt(@, m)] /\ UNCHANGED <<free, used_cnt>>
      BY <1>2, <2>1
    <3>2. PICK n \in Nat \ {0}, b \in Block :
              n = Len(blocks) /\ b = blocks[n] /\ b.right \in Nat /\ b.left \in Nat /\ b.left <= b.right
      <4>1. Len(blocks) \in 1 .. Len(blocks)
        BY <1>4
      <4>. QED
        BY <1>4, <4>1, QueueFacts
    <3>3. b.right + HeaderSize + m.size <= BlockSize
      BY <1>3, <2>1, <3>2 DEF IsBlockFull, TailBlock
    <3>4. /\ BlockList(blocks') /\ Len(blocks') = Len(blocks)
          /\ \A k \in 1 .. Len(blocks) - 1 : blocks'[k] = blocks[k]
          /\ blocks'[Len(blocks)] = StoredAt(blocks[Len(blocks)], m)
          /\ ContentOf(blocks') = Append(ContentOf(blocks), m)
      <4>1. blocks[Len(blocks)].right + HeaderSize + m.size <= BlockSize
        BY <3>2, <3>3
      <4>2. BlockList(blocks) /\ blocks # <<>> /\ m \in Message
        BY <1>3, <1>4
      <4>3. blocks' = OnTail(blocks, m)
        BY <3>1 DEF OnTail
      <4>. QED
        BY <4>1, <4>2, <4>3, PushOnTail
    <3>5. /\ blocks'[n].left = b.left
          /\ blocks'[n].right = b.right + HeaderSize + m.size
      <4>1. IsWalk(b, Messages(b))
        <5>1. n \in 1 .. Len(blocks)
          BY <3>2
        <5>. QED
          BY <1>4, <3>2, <5>1, BlockListParts
      <4>2. /\ StoredAt(b, m).left = b.left
            /\ StoredAt(b, m).right = b.right + HeaderSize + m.size
        BY <1>3, <3>2, <3>3, <4>1, WalkStored
      <4>. QED
        BY <3>2, <3>4, <4>2
    <3>6. blocks'[n].left # blocks'[n].right
      BY <1>3, <3>2, <3>5
    <3>7. \A k \in 2 .. n : blocks'[k].left # blocks'[k].right
      <4>1. \A k \in 2 .. n : blocks[k].left # blocks[k].right
        BY <3>2 DEF QueueInv, TailsNotEmpty, IsBlockEmpty
      <4>2. \A k \in 2 .. n : k # n => blocks'[k] = blocks[k]
        BY <3>2, <3>4
      <4>. QED
        BY <3>6, <4>1, <4>2
    <3>8. blocks' # <<>>
      BY <1>4, <3>4
    <3>. QED
      BY <1>4, <3>1, <3>2, <3>4, <3>6, <3>7, <3>8
  <2>2. CASE IsBlockFull(m.size)
    <3>1. /\ blocks' = Append(blocks, StoredAt(NewBlock, m))
          /\ free' = IF free > 0 THEN free - 1 ELSE 0
          /\ used_cnt' = used_cnt + 1
      BY <1>2, <2>2
    <3>2. BlockList(blocks') /\ ContentOf(blocks') = Append(ContentOf(blocks), m)
      BY <1>3, <1>4, <3>1, PushOnNew
    <3>3. PICK b : b = StoredAt(NewBlock, m)
      OBVIOUS
    <3>4. b \in Block /\ b.left # b.right
      <4>1. NewBlock.right + HeaderSize + m.size <= BlockSize
        BY <1>3, NewBlockWalk
      <4>2. b \in Block /\ b.left = 0 /\ b.right = 0 + HeaderSize + m.size
        BY <1>3, <3>3, <4>1, NewBlockWalk, WalkStored
      <4>. QED
        BY <1>3, <4>2
    <3>5. PICK n \in Nat \ {0} : n = Len(blocks)
      BY <1>4
    <3>6. /\ Len(blocks') = n + 1 /\ blocks'[n + 1] = b
          /\ \A k \in 1 .. n : blocks'[k] = blocks[k]
      BY <1>4, <3>1, <3>3, <3>4, <3>5, AppendProperties
    <3>7. \A k \in 2 .. n + 1 : blocks'[k].left # blocks'[k].right
      <4>1. \A k \in 2 .. n : blocks[k].left # blocks[k].right
        BY <3>5 DEF QueueInv, TailsNotEmpty, IsBlockEmpty
      <4>. QED
        BY <3>4, <3>6, <4>1
    <3>8. blocks' # <<>>
      BY <3>5, <3>6
    <3>. QED
      BY <1>4, <3>1, <3>2, <3>5, <3>6, <3>7, <3>8
  <2>. QED
    BY <2>1, <2>2
<1>6. content' = SumSizes(ContentOf(blocks'))
  <2>1. \A x \in Message : x.size \in Nat
    BY MessageType
  <2>2. SumSizes(Append(ContentOf(blocks), m)) = SumSizes(ContentOf(blocks)) + m.size
    BY <1>3, <1>4, <2>1, SumAppend
  <2>. QED
    BY <1>2, <1>4, <1>5, <2>2
<1>7. QueueLists'
  BY <1>5, <1>6 DEF QueueLists
<1>8. TailsNotEmpty'
  BY <1>5 DEF TailsNotEmpty, IsBlockEmpty
<1>9. PullsFind'
  BY <1>5 DEF PullsFind, IsEmpty, HeadBlock, TailBlock
<1>10. QueueCalls'
  BY <1>2 DEF QueueInv, QueueCalls
<1>11. PushesFit'
  <2>1. SUFFICES ASSUME MaxBlockNo # 0, ~raced'
                 PROVE  /\ used_cnt' + free' <= MaxBlockNo
                        /\ \A q \in Producers : ppc'[q] # "push"
    BY DEF PushesFit
  <2>2. /\ used_cnt + free <= MaxBlockNo
        /\ \A q \in Producers : ppc[q] = "push" => p = q
        /\ used_cnt < MaxBlockNo \/ ~IsBlockFull(m.size)
    BY <1>1, <1>2, <2>1 DEF QueueInv, PushesFit
  <2>3. \A q \in Producers : ppc'[q] # "push"
    BY <1>2, <2>2 DEF QueueInv, QueueCalls
  <2>4. used_cnt' + free' <= MaxBlockNo
    BY <1>2, <1>3, <1>4, <2>2
  <2>. QED
    BY <2>3, <2>4
<1>. QED
  BY <1>1, <1>2, <1>3, <1>5, <1>7, <1>8, <1>9, <1>10, <1>11 DEF QueueInv

\* pull passes the head when it is empty, and no other block.
LEMMA EmptyPrefixIs ==
    ASSUME QueueInv, ~IsEmpty
    PROVE  \/ EmptyPrefix = 0 /\ ~IsBlockEmpty(blocks[1])
           \/ EmptyPrefix = 1 /\ IsBlockEmpty(blocks[1]) /\ 2 <= Len(blocks)
<1>1. PICK n \in Nat \ {0} : n = Len(blocks)
  BY QueueFacts
<1> DEFINE Right(k) == /\ \A j \in 1 .. k : IsBlockEmpty(blocks[j])
                       /\ k < n => ~IsBlockEmpty(blocks[k + 1])
<1>2. EmptyPrefix = CHOOSE k \in 0 .. n : Right(k)
  BY <1>1 DEF EmptyPrefix
<1>3. \A k \in 2 .. n : ~IsBlockEmpty(blocks[k])
  BY <1>1 DEF QueueInv, TailsNotEmpty
<1>4. CASE ~IsBlockEmpty(blocks[1])
  <2>1. Right(0)
    BY <1>4
  <2>2. ASSUME NEW k \in 0 .. n, Right(k) PROVE k = 0
    BY <1>4, <2>2
  <2>. HIDE DEF Right
  <2>3. EmptyPrefix = 0
    BY <1>2, <2>1, <2>2
  <2>. QED
    BY <1>4, <2>3
<1>5. CASE IsBlockEmpty(blocks[1])
  <2>1. n # 1
    BY <1>1, <1>5 DEF IsEmpty, HeadBlock, TailBlock, IsBlockEmpty
  <2>2. 2 \in 2 .. n /\ 1 + 1 = 2 /\ 1 \in 0 .. n
    BY <1>1, <2>1
  <2>3. Right(1)
    <3>1. \A j \in 1 .. 1 : j = 1
      OBVIOUS
    <3>. QED
      BY <1>3, <1>5, <2>2, <3>1
  <2>4. ASSUME NEW k \in 0 .. n, Right(k) PROVE k = 1
    <3>1. k # 0
      BY <1>5, <2>1, <2>4
    <3>2. k < 2
      <4>1. SUFFICES ASSUME k >= 2 PROVE FALSE
        OBVIOUS
      <4>2. 2 \in 1 .. k
        BY <4>1
      <4>3. IsBlockEmpty(blocks[2])
        BY <2>4, <4>2
      <4>. QED
        BY <1>3, <2>2, <4>3
    <3>. QED
      BY <3>1, <3>2
  <2>. HIDE DEF Right
  <2>5. EmptyPrefix = 1
    BY <1>2, <2>2, <2>3, <2>4
  <2>. QED
    BY <1>1, <1>5, <2>2, <2>5
<1>. QED
  BY <1>4, <1>5

\* The first message is taken from the head, or, when that is empty, from the
\* block behind it.
LEMMA PullLockedInv ==
    ASSUME \A d, e \in Consumers : d = e,
           QueueInv, NEW c \in Consumers, PullLocked(c)
    PROVE  /\ QueueInv'
           /\ \E m \in Message : /\ got' = Append(got, m)
                                 /\ ContentOf(blocks) = <<m>> \o ContentOf(blocks')
<1>1. PICK n, h, m : n = EmptyPrefix /\ h = blocks[n + 1] /\ m = h.buf[h.left]
  OBVIOUS
<1>2. /\ cpc[c] = "pull" /\ cpc' = [cpc EXCEPT ![c] = "idle"]
      /\ free' = free + n /\ used_cnt' = used_cnt - n
      /\ UNCHANGED <<ppc, msg, asked, raced>>
      /\ \/ /\ n < Len(blocks)
            /\ blocks' = [SubSeq(blocks, n + 1, Len(blocks))
                              EXCEPT ![1].left = @ + HeaderSize + m.size]
            /\ content' = content - m.size
            /\ got' = Append(got, m)
         \/ /\ n = Len(blocks)
            /\ blocks' = <<>>
            /\ UNCHANGED <<content, got>>
  BY <1>1 DEF PullLocked
<1>3. ~IsEmpty
  BY <1>2 DEF QueueInv, PullsFind
<1>4. /\ BlockList(blocks) /\ blocks # <<>> /\ free \in Nat /\ used_cnt = Len(blocks)
      /\ content = SumSizes(ContentOf(blocks))
      /\ Len(blocks) \in Nat \ {0}
      /\ blocks \in Seq(Block) /\ MaxBlockNo \in Nat
  BY QueueFacts, ConstantsAssumption DEF QueueInv, QueueLists
\* The list without the blocks recycled.
<1>5. PICK bs : bs = SubSeq(blocks, n + 1, Len(blocks))
  OBVIOUS
<1>6. /\ n \in {0, 1} /\ n < Len(blocks)
      /\ BlockList(bs) /\ bs # <<>> /\ Len(bs) = Len(blocks) - n
      /\ ContentOf(bs) = ContentOf(blocks)
      /\ \A k \in 1 .. Len(bs) : bs[k] = blocks[k + n]
      /\ bs[1] = h /\ bs[1].left # bs[1].right
  <2>1. CASE n = 0 /\ ~IsBlockEmpty(blocks[1])
    <3>1. bs = blocks
      BY <1>4, <1>5, <2>1, SubSeqFull
    <3>2. h = blocks[1] /\ n + 1 = 1
      BY <1>1, <2>1
    <3>3. n < Len(blocks) /\ Len(blocks) = Len(blocks) - n
          /\ \A k \in 1 .. Len(blocks) : blocks[k] = blocks[k + n]
      BY <1>4, <2>1
    <3>. QED
      BY <1>4, <2>1, <3>1, <3>2, <3>3 DEF IsBlockEmpty
  <2>2. CASE n = 1 /\ IsBlockEmpty(blocks[1]) /\ 2 <= Len(blocks)
    <3>1. bs = Tail(blocks)
      BY <1>4, <1>5, <2>2, BlockListParts
    <3>2. BlockList(bs) /\ ContentOf(bs) = ContentOf(blocks)
      BY <1>4, <2>2, <3>1, EmptyHeadLeft DEF IsBlockEmpty
    <3>3. /\ Len(bs) = Len(blocks) - 1
          /\ \A k \in 1 .. Len(blocks) - 1 : bs[k] = blocks[k + 1]
      BY <1>4, <3>1, HeadTailProperties
    <3>4. bs # <<>> /\ 1 \in 1 .. Len(blocks) - 1
      BY <1>4, <2>2, <3>3
    <3>5. bs[1] = blocks[2] /\ h = blocks[2]
      BY <1>1, <2>2, <3>3, <3>4
    <3>6. ~IsBlockEmpty(blocks[2])
      BY <1>4, <2>2 DEF QueueInv, TailsNotEmpty
    <3>. QED
      BY <1>4, <2>2, <3>2, <3>3, <3>4, <3>5, <3>6 DEF IsBlockEmpty
  <2>. QED
    BY <1>1, <1>3, <2>1, <2>2, EmptyPrefixIs
<1>7. /\ blocks' = [bs EXCEPT ![1].left = @ + HeaderSize + m.size]
      /\ content' = content - m.size
      /\ got' = Append(got, m)
  <2>1. n # Len(blocks)
    BY <1>4, <1>6
  <2>. QED
    BY <1>2, <1>5, <2>1
<1>8. /\ BlockList(blocks') /\ Len(blocks') = Len(bs)
      /\ \A k \in 2 .. Len(bs) : blocks'[k] = bs[k]
      /\ blocks'[1].right = bs[1].right
      /\ m \in Message
      /\ ContentOf(bs) = <<m>> \o ContentOf(blocks')
  <2>1. m = bs[1].buf[bs[1].left]
    BY <1>1, <1>6
  <2>2. BlockList(bs) /\ bs # <<>> /\ bs[1].left # bs[1].right
    BY <1>6
  <2>3. blocks' = FromHead(bs, m)
    BY <1>7 DEF FromHead
  <2>. QED
    BY <2>1, <2>2, <2>3, PullFromHead
<1>9. PICK l \in Nat \ {0} : l = Len(blocks') /\ l = Len(blocks) - n /\ Len(bs) = l
  <2>1. Len(blocks) - n \in Nat \ {0}
    BY <1>4, <1>6
  <2>. QED
    BY <1>6, <1>8, <2>1
<1>10. \A k \in 2 .. l : blocks'[k] = blocks[k + n]
  <2>1. ASSUME NEW k \in 2 .. l PROVE blocks'[k] = blocks[k + n]
    <3>1. blocks'[k] = bs[k]
      BY <1>8, <1>9
    <3>2. bs[k] = blocks[k + n]
      BY <1>6, <1>9
    <3>. QED
      BY <3>1, <3>2
  <2>. QED
    BY <2>1
<1>11. TailsNotEmpty'
  <2>1. ASSUME NEW k \in 2 .. l PROVE ~IsBlockEmpty(blocks'[k])
    <3>1. k + n \in 2 .. Len(blocks)
      BY <1>4, <1>6, <1>9
    <3>2. ~IsBlockEmpty(blocks[k + n])
      BY <3>1 DEF QueueInv, TailsNotEmpty
    <3>. QED
      BY <1>10, <3>2 DEF IsBlockEmpty
  <2>. QED
    BY <1>9, <2>1 DEF TailsNotEmpty, IsBlockEmpty
<1>12. content' = SumSizes(ContentOf(blocks'))
  <2>1. PICK q : q = ContentOf(blocks')
    OBVIOUS
  <2>2. q \in Seq(Message) /\ \A x \in Message : x.size \in Nat
    BY <1>8, <2>1, WalksType, MessageType
  <2>3. <<m>> \in Seq(Message) /\ <<>> \in Seq(Message) /\ <<m>> = Append(<<>>, m)
    BY <1>8
  <2>4. SumSizes(<<m>> \o q) = SumSizes(<<m>>) + SumSizes(q)
    BY <2>2, <2>3, SumConcat
  <2>5. SumSizes(Append(<<>>, m)) = SumSizes(<<>>) + m.size
    BY <1>8, <2>2, <2>3, SumAppend
  <2>6. SumSizes(q) \in Nat /\ m.size \in Nat
    BY <1>8, <2>2, SumAppend
  <2>7. content = m.size + SumSizes(q)
    BY <1>4, <1>6, <1>8, <2>1, <2>3, <2>4, <2>5, <2>6, SumEmpty
  <2>. QED
    BY <1>7, <2>1, <2>6, <2>7
<1>13. QueueLists'
  <2>1. blocks' # <<>>
    BY <1>9
  <2>2. used_cnt' = Len(blocks') /\ free' \in Nat
    BY <1>2, <1>4, <1>6, <1>9
  <2>. QED
    BY <1>8, <1>12, <2>1, <2>2 DEF QueueLists
<1>14. QueueCalls'
  BY <1>2 DEF QueueInv, QueueCalls
<1>15. PullsFind'
  <2>1. \A d \in Consumers : cpc'[d] # "pull"
    BY <1>2 DEF QueueInv, QueueCalls
  <2>. QED
    BY <2>1 DEF PullsFind
<1>16. blocks'[Len(blocks')].right = blocks[Len(blocks)].right
  <2>1. CASE l = 1
    <3>1. n + 1 = Len(blocks)
      BY <1>4, <1>6, <1>9, <2>1
    <3>. QED
      BY <1>1, <1>6, <1>8, <1>9, <2>1, <3>1
  <2>2. CASE l # 1
    <3>1. l \in 2 .. l /\ l + n = Len(blocks)
      BY <1>4, <1>6, <1>9, <2>2
    <3>. QED
      BY <1>9, <1>10, <3>1
  <2>. QED
    BY <2>1, <2>2
<1>17. PushesFit'
  <2>1. SUFFICES ASSUME MaxBlockNo # 0, ~raced'
                 PROVE  /\ used_cnt' + free' <= MaxBlockNo
                        /\ \A p, q \in Producers : ppc'[p] = "push" /\ ppc'[q] = "push" => p = q
                        /\ \A p \in Producers :
                               ppc'[p] = "push" => \/ used_cnt' < MaxBlockNo
                                                \/ ~(blocks'[Len(blocks')].right + HeaderSize + msg'[p].size
                                                         >= BlockSize)
    BY DEF PushesFit, IsBlockFull, TailBlock
  <2>2. /\ used_cnt + free <= MaxBlockNo
        /\ \A p, q \in Producers : ppc[p] = "push" /\ ppc[q] = "push" => p = q
        /\ \A p \in Producers : ppc[p] = "push" => used_cnt < MaxBlockNo \/ ~IsBlockFull(msg[p].size)
    BY <1>2, <2>1 DEF QueueInv, PushesFit
  <2>3. used_cnt' + free' <= MaxBlockNo
    BY <1>2, <1>4, <1>6, <2>2
  <2>4. used_cnt < MaxBlockNo => used_cnt' < MaxBlockNo
    BY <1>2, <1>4, <1>6
  <2>5. \A p \in Producers :
            blocks'[Len(blocks')].right + HeaderSize + msg'[p].size >= BlockSize
                => IsBlockFull(msg[p].size)
    BY <1>2, <1>16 DEF IsBlockFull, TailBlock
  <2>. QED
    BY <1>2, <2>2, <2>3, <2>4, <2>5
<1>. QED
  BY <1>6, <1>7, <1>8, <1>11, <1>13, <1>14, <1>15, <1>17 DEF QueueInv

----------------------------------------------------------------------------
(* The theorems *)

LEMMA QueueNextInv ==
    ASSUME \A c, d \in Consumers : c = d
    PROVE  QueueInv /\ [QueueNext]_queueVars => QueueInv'
<1>. SUFFICES ASSUME QueueInv, [QueueNext]_queueVars PROVE QueueInv'
  OBVIOUS
<1>1. ASSUME NEW p \in Producers, NEW sz \in BodySizes, PushCall(p, sz) PROVE QueueInv'
  BY <1>1, PushCallInv
<1>2. ASSUME NEW p \in Producers, PushCheck(p) PROVE QueueInv'
  BY <1>2, PushCheckInv
<1>3. ASSUME NEW p \in Producers, PushLocked(p) PROVE QueueInv'
  BY <1>3, PushLockedInv
<1>4. ASSUME NEW c \in Consumers, PullCheck(c) PROVE QueueInv'
  BY <1>4, PullCheckInv
<1>5. ASSUME NEW c \in Consumers, PullLocked(c) PROVE QueueInv'
  BY <1>5, PullLockedInv
<1>6. CASE UNCHANGED queueVars
  BY <1>6 DEF queueVars, QueueInv, QueueLists, TailsNotEmpty, QueueCalls, PullsFind,
              PushesFit, IsEmpty, HeadBlock, TailBlock, IsBlockFull
<1>. QED
  BY <1>1, <1>2, <1>3, <1>4, <1>5, <1>6 DEF QueueNext

\* With at most one consumer every state of the queue satisfies QueueInv.
THEOREM QueueInvariant ==
    ASSUME \A c, d \in Consumers : c = d
    PROVE  QueueSpec => []QueueInv
BY QueueInitInv, QueueNextInv, PTL DEF QueueSpec

LEMMA QueueInvGives == QueueInv => WellFormed
<1>. SUFFICES ASSUME QueueInv PROVE WellFormed
  OBVIOUS
<1>1. BlockSize \in Nat \ {0} /\ MaxBlockNo \in Nat /\ MaxMessages \in Nat
  BY ConstantsAssumption
<1>2. /\ Len(blocks) \in Nat \ {0} /\ blocks \in Seq(Block)
      /\ used_cnt = Len(blocks) /\ free \in Nat
      /\ content \in Nat /\ content <= Len(blocks) * BlockSize
      /\ content = SumSizes(ContentOf(blocks))
  BY QueueFacts DEF QueueInv, QueueLists
<1>3. \A k \in DOMAIN blocks : blocks[k].left \in 0 .. BlockSize /\ blocks[k].right \in 0 .. BlockSize
  BY <1>2, QueueFacts
<1>4. TypeOK
  <2>1. asked \in Nat
    BY <1>1 DEF QueueInv, QueueCalls
  <2>. QED
    BY <1>2, <1>3, <2>1 DEF TypeOK, QueueInv, QueueCalls
<1>5. CountersAgree
  <2>1. Len(blocks) * BlockSize <= (Len(blocks) + free) * BlockSize
    <3>1. PICK a \in Nat, b \in Nat, c \in Nat : a = Len(blocks) /\ b = free /\ c = BlockSize
      BY <1>1, <1>2
    <3>2. (a + b) * c = a * c + b * c /\ b * c \in Nat /\ a * c \in Nat
      OBVIOUS
    <3>. QED
      BY <3>1, <3>2
  <2>2. (Len(blocks) + free) * BlockSize \in Nat /\ Len(blocks) * BlockSize \in Nat
    BY <1>1, <1>2
  <2>3. content <= (used_cnt + free) * BlockSize
    BY <1>2, <2>1, <2>2
  <2>. QED
    BY <1>2, <2>3 DEF CountersAgree, CntBlockUsed, GetSize, GetCapacity, CntBlockTotal
<1>6. CapacityBounded
  BY DEF QueueInv, PushesFit, CapacityBounded, CntBlockTotal
<1>7. blocks # <<>>
  BY DEF QueueInv, QueueLists
<1>. QED
  BY <1>4, <1>5, <1>6, <1>7 DEF WellFormed

\* The list is never empty, its counters agree with it, and it stays within
\* its limit unless two pushes have passed is_full together: push and pull of
\* ultraq.h, for any number of producers and at most one consumer.
THEOREM QueueWellFormed ==
    ASSUME \A c, d \in Consumers : c = d
    PROVE  QueueSpec => []WellFormed
<1>1. QueueSpec => []QueueInv
  BY QueueInvariant
<1>2. QueueInv => WellFormed
  BY QueueInvGives
<1>. QED
  BY <1>1, <1>2, PTL

LEMMA FifoInit == QueueInit => Fifo!Init
BY NewList DEF QueueInit, Fifo!Init

LEMMA FifoStep ==
    ASSUME \A c, d \in Consumers : c = d
    PROVE  QueueInv /\ [QueueNext]_queueVars => [Fifo!Next]_(<<ContentOf(blocks), got>>)
<1>. SUFFICES ASSUME QueueInv, [QueueNext]_queueVars
              PROVE  \/ \E m \in Message : Fifo!Put(m)
                     \/ Fifo!Get
                     \/ UNCHANGED <<ContentOf(blocks), got>>
  BY DEF Fifo!Next
<1>1. CASE UNCHANGED <<blocks, got>>
  BY <1>1
<1>2. ASSUME NEW p \in Producers, PushLocked(p) PROVE \E m \in Message : Fifo!Put(m)
  BY <1>2, PushLockedInv DEF Fifo!Put
<1>3. ASSUME NEW c \in Consumers, PullLocked(c) PROVE Fifo!Get
  <2>1. PICK m \in Message : /\ got' = Append(got, m)
                             /\ ContentOf(blocks) = <<m>> \o ContentOf(blocks')
    BY <1>3, PullLockedInv
  <2>2. QueueInv'
    BY <1>3, PullLockedInv
  <2>3. ContentOf(blocks') \in Seq(Message)
    BY <2>2, WalksType DEF QueueInv, QueueLists
  <2>4. PICK q \in Seq(Message) : q = ContentOf(blocks')
    BY <2>3
  <2>5. <<m>> \o q # <<>> /\ Head(<<m>> \o q) = m /\ Tail(<<m>> \o q) = q
    OBVIOUS
  <2>. QED
    BY <2>1, <2>4, <2>5 DEF Fifo!Get
<1>4. \/ UNCHANGED <<blocks, got>>
      \/ \E p \in Producers : PushLocked(p)
      \/ \E c \in Consumers : PullLocked(c)
  BY DEF QueueNext, queueVars, PushCall, PushCheck, PullCheck
<1>. QED
  BY <1>1, <1>2, <1>3, <1>4

\* push and pull implement a FIFO queue: every message accepted is pulled
\* exactly once and in order, whatever blocks it and its neighbours lie in,
\* for any number of producers and at most one consumer.
THEOREM QueueIsFifo ==
    ASSUME \A c, d \in Consumers : c = d
    PROVE  QueueSpec => ImplementsFifo
<1>1. QueueSpec => []QueueInv
  BY QueueInvariant
<1>2. QueueInit => Fifo!Init
  BY FifoInit
<1>3. QueueInv /\ [QueueNext]_queueVars => [Fifo!Next]_(<<ContentOf(blocks), got>>)
  BY FifoStep
<1>. QED
  BY <1>1, <1>2, <1>3, PTL DEF QueueSpec, ImplementsFifo, Fifo!Spec

=============================================================================
