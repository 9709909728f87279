---------------------------- MODULE LockedHashMap ----------------------------
(***************************************************************************)
(* zrt_locked_hash_map.h: an unordered_map behind a shared_mutex.  Begin   *)
(* and the lock are a step each; then a call works on the map in one step  *)
(* when it touches one element, and in several when it runs a callback or  *)
(* a loop.  Callbacks do not use the map (docs/concurrency.md:93).         *)
(***************************************************************************)
EXTENDS Integers, FiniteSets, Functions

CONSTANTS Threads,
          Calls,   \* bound: the calls made, [op, key, value] each
          NoCall,
          Default, \* Value{}
          None,    \* std::nullopt, and the result of a call without one
          F(_)     \* what the callbacks of the writing calls make of a value

ASSUME NoCallAssumption == NoCall \notin Calls

VARIABLES
    m_map,   \* m_map, a function from the keys that are in it
    readers, \* m_mutex: the threads that hold it shared
    writer,  \* and those that hold it exclusively
    call,    \* the call a thread is in, or NoCall
    pc,      \* "idle", "lock", "locked", "callback" of update_if_exists, "loop", "unlock"
    out      \* the local with the result; in a loop the elements seen so far;
             \* in the callback of update_if_exists the value it was given

vars == <<m_map, readers, writer, call, pc, out>>

Init ==
    /\ m_map = <<>>
    /\ readers = {} /\ writer = {}
    /\ call = [t \in Threads |-> NoCall]
    /\ pc = [t \in Threads |-> "idle"]
    /\ out = [t \in Threads |-> None]

Begin(t) ==
    /\ pc[t] = "idle"
    /\ \E c \in Calls : call' = [call EXCEPT ![t] = c]
    /\ pc' = [pc EXCEPT ![t] = "lock"]
    /\ UNCHANGED <<m_map, readers, writer, out>>

----------------------------------------------------------------------------
(* std::lock_guard and std::shared_lock on m_mutex *)

Reading == {"find", "get_or_default", "contains", "size", "empty", "for_each", "keys", "values"}

\* Mutant: update_if_exists, which begins with find, takes the shared lock.
Shared_Update(c) == c.op \in Reading \cup {"update_if_exists"}

Shared(c) == c.op \in Reading

Lock(t) ==
    /\ pc[t] = "lock" /\ writer = {}
    /\ IF Shared(call[t])
       THEN readers' = readers \cup {t} /\ UNCHANGED writer
       ELSE readers = {} /\ writer' = {t} /\ UNCHANGED readers
    /\ pc' = [pc EXCEPT ![t] = "locked"]
    /\ UNCHANGED <<m_map, call, out>>

Unlock(t) ==
    /\ pc[t] = "unlock"
    /\ readers' = readers \ {t} /\ writer' = writer \ {t}
    /\ call' = [call EXCEPT ![t] = NoCall]
    /\ pc' = [pc EXCEPT ![t] = "idle"]
    /\ out' = [out EXCEPT ![t] = None]
    /\ UNCHANGED m_map

----------------------------------------------------------------------------
(* The calls, under their lock *)

At(t, op) == pc[t] = "locked" /\ call[t].op = op /\ UNCHANGED <<readers, writer, call>>
Key(t) == call[t].key
Has(k) == k \in DOMAIN m_map
Returns(t, x) == pc' = [pc EXCEPT ![t] = "unlock"] /\ out' = [out EXCEPT ![t] = x]
Put(m, k, v) == [j \in DOMAIN m \cup {k} |-> IF j = k THEN v ELSE m[j]]
Stored(k, v) == Put(m_map, k, v)
FoundOr(k, v) == IF Has(k) THEN m_map[k] ELSE v

insert_or_assign(t) ==
    /\ At(t, "insert_or_assign")
    /\ m_map' = Stored(Key(t), call[t].value)
    /\ Returns(t, ~Has(Key(t)))

insert(t) ==
    /\ At(t, "insert")
    /\ m_map' = Stored(Key(t), FoundOr(Key(t), call[t].value))
    /\ Returns(t, ~Has(Key(t)))

emplace(t) ==
    /\ At(t, "emplace")
    /\ m_map' = Stored(Key(t), FoundOr(Key(t), call[t].value))
    /\ Returns(t, ~Has(Key(t)))

find(t) == At(t, "find") /\ Returns(t, FoundOr(Key(t), None)) /\ UNCHANGED m_map

get_or_default(t) ==
    At(t, "get_or_default") /\ Returns(t, FoundOr(Key(t), call[t].value)) /\ UNCHANGED m_map

\* operator[]: a copy of the element, which is added if it is not there.
subscript(t) ==
    /\ At(t, "operator[]")
    /\ m_map' = Stored(Key(t), FoundOr(Key(t), Default))
    /\ Returns(t, FoundOr(Key(t), Default))

contains(t) == At(t, "contains") /\ Returns(t, Has(Key(t))) /\ UNCHANGED m_map

erase(t) ==
    /\ At(t, "erase")
    /\ m_map' = Restrict(m_map, DOMAIN m_map \ {Key(t)})
    /\ Returns(t, Has(Key(t)))

size(t) == At(t, "size") /\ Returns(t, Cardinality(DOMAIN m_map)) /\ UNCHANGED m_map
empty(t) == At(t, "empty") /\ Returns(t, m_map = <<>>) /\ UNCHANGED m_map
clear(t) == At(t, "clear") /\ m_map' = <<>> /\ Returns(t, None)

\* update_if_exists: the callback runs between find and the assignment.
UpdateFind(t) ==
    /\ At(t, "update_if_exists")
    /\ IF Has(Key(t))
       THEN /\ out' = [out EXCEPT ![t] = m_map[Key(t)]]
            /\ pc' = [pc EXCEPT ![t] = "callback"]
       ELSE Returns(t, FALSE)
    /\ UNCHANGED m_map

UpdateAssign(t) ==
    /\ pc[t] = "callback"
    /\ m_map' = Stored(Key(t), F(out[t]))
    /\ Returns(t, TRUE)
    /\ UNCHANGED <<readers, writer, call>>

\* The loops over m_map, which come to its elements in any order.
Loop(t, op) ==
    /\ At(t, op)
    /\ out' = [out EXCEPT ![t] = <<>>]
    /\ pc' = [pc EXCEPT ![t] = "loop"]
    /\ UNCHANGED m_map

for_each(t) == Loop(t, "for_each")
for_each_mutable(t) == Loop(t, "for_each_mutable")
keys(t) == Loop(t, "keys")
values(t) == Loop(t, "values")

Left(t) == DOMAIN m_map \ DOMAIN out[t]
InLoop(t) == pc[t] = "loop" /\ UNCHANGED <<readers, writer, call>>

VisitMutable(t, k) ==
    /\ InLoop(t) /\ call[t].op = "for_each_mutable" /\ k \in Left(t)
    /\ m_map' = Stored(k, F(m_map[k]))
    /\ out' = [out EXCEPT ![t] = Put(@, k, m_map[k])]
    /\ UNCHANGED pc

Visit(t, k) ==
    /\ InLoop(t) /\ call[t].op # "for_each_mutable" /\ k \in Left(t)
    /\ out' = [out EXCEPT ![t] = Put(@, k, m_map[k])]
    /\ UNCHANGED <<m_map, pc>>

LoopEnds(t) ==
    /\ InLoop(t) /\ Left(t) = {}
    /\ Returns(t, IF call[t].op = "for_each_mutable" THEN None ELSE out[t])
    /\ UNCHANGED m_map

Operation(t) ==
    \/ insert_or_assign(t) \/ insert(t) \/ emplace(t) \/ find(t) \/ get_or_default(t)
    \/ subscript(t) \/ contains(t) \/ erase(t) \/ size(t) \/ empty(t) \/ clear(t)
    \/ UpdateFind(t) \/ UpdateAssign(t)
    \/ for_each(t) \/ for_each_mutable(t) \/ keys(t) \/ values(t)
    \/ \E k \in DOMAIN m_map : VisitMutable(t, k) \/ Visit(t, k)
    \/ LoopEnds(t)

Next == \E t \in Threads : Begin(t) \/ Lock(t) \/ Operation(t) \/ Unlock(t)

Spec == Init /\ [][Next]_vars

----------------------------------------------------------------------------
(* Properties *)

\* A loop takes effect when it begins: what it has not come to yet counts as
\* done, and as seen.
Changing == {t \in Threads : pc[t] = "loop" /\ call[t].op = "for_each_mutable"}
Done(t) == pc[t] \in {"loop", "unlock"}

\* What a loop that only reads will have seen at its end.
Seen(t) ==
    [k \in DOMAIN out[t] \cup DOMAIN m_map |->
         IF k \in DOMAIN out[t] THEN out[t][k] ELSE m_map[k]]

MapSeen ==
    [k \in DOMAIN m_map |->
         IF \E t \in Changing : k \in Left(t) THEN F(m_map[k]) ELSE m_map[k]]

DoneSeen == [t \in Threads |-> Done(t)]

RetSeen ==
    [t \in Threads |->
         IF ~Done(t) \/ t \in Changing THEN None
         ELSE IF pc[t] = "loop" THEN Seen(t) ELSE out[t]]

Atomic == INSTANCE AtomicMap WITH map <- MapSeen, done <- DoneSeen, ret <- RetSeen

\* Every call takes effect at one instant: what for_each, keys and values
\* see is the map as it was at that instant, no update of two
\* update_if_exists or for_each_mutable is lost, and each answer fits the
\* map, whichever calls of other threads run meanwhile.
ImplementsAtomicMap == Atomic!Spec

==============================================================================
