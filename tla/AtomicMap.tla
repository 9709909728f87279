------------------------------ MODULE AtomicMap ------------------------------
(***************************************************************************)
(* What a map shared by threads promises: every call takes effect at one   *)
(* instant between its begin and its return.  Specification that           *)
(* LockedHashMap is shown to implement.                                    *)
(***************************************************************************)
EXTENDS Integers, FiniteSets, Functions

CONSTANTS Threads,
          Calls,   \* the calls made, [op, key, value] each
          NoCall,
          Default, \* Value{}
          None,    \* std::nullopt, and the result of a call without one
          F(_)     \* what the callbacks make of a value

VARIABLES map,   \* the elements, a function from the keys that are in it
          call,  \* the call a thread is in, or NoCall
          done,  \* has it taken effect?
          ret    \* and then, with which result

vars == <<map, call, done, ret>>

Init ==
    /\ map = <<>>
    /\ call = [t \in Threads |-> NoCall]
    /\ done = [t \in Threads |-> FALSE]
    /\ ret = [t \in Threads |-> None]

Put(m, k, v) == [j \in DOMAIN m \cup {k} |-> IF j = k THEN v ELSE m[j]]
PutIfAbsent(m, k, v) == IF k \in DOMAIN m THEN m ELSE Put(m, k, v)
Lookup(m, k, otherwise) == IF k \in DOMAIN m THEN m[k] ELSE otherwise

Begin(t) ==
    /\ call[t] = NoCall
    /\ \E c \in Calls : call' = [call EXCEPT ![t] = c]
    /\ UNCHANGED <<map, done, ret>>

\* The call of t, one of these operations, leaves map new and is answered.
Effect(t, ops, new, answer) ==
    /\ call[t] # NoCall /\ ~done[t] /\ call[t].op \in ops
    /\ map' = new
    /\ ret' = [ret EXCEPT ![t] = answer]
    /\ done' = [done EXCEPT ![t] = TRUE]
    /\ UNCHANGED call

TakeEffect(t) ==
    LET k == call[t].key
        v == call[t].value
        present == k \in DOMAIN map
    IN
    \/ Effect(t, {"insert_or_assign"}, Put(map, k, v), ~present)
    \/ Effect(t, {"insert", "emplace"}, PutIfAbsent(map, k, v), ~present)
    \/ Effect(t, {"operator[]"}, PutIfAbsent(map, k, Default), Lookup(map, k, Default))
    \/ Effect(t, {"erase"}, Restrict(map, DOMAIN map \ {k}), present)
    \/ Effect(t, {"clear"}, <<>>, None)
    \/ Effect(t, {"update_if_exists"},
              IF present THEN Put(map, k, F(map[k])) ELSE map, present)
    \/ Effect(t, {"for_each_mutable"}, [j \in DOMAIN map |-> F(map[j])], None)
    \/ Effect(t, {"find"}, map, Lookup(map, k, None))
    \/ Effect(t, {"get_or_default"}, map, Lookup(map, k, v))
    \/ Effect(t, {"contains"}, map, present)
    \/ Effect(t, {"size"}, map, Cardinality(DOMAIN map))
    \/ Effect(t, {"empty"}, map, DOMAIN map = {})
    \/ Effect(t, {"for_each", "keys", "values"}, map, map)

Return(t) ==
    /\ done[t]
    /\ call' = [call EXCEPT ![t] = NoCall]
    /\ done' = [done EXCEPT ![t] = FALSE]
    /\ ret' = [ret EXCEPT ![t] = None]
    /\ UNCHANGED map

Next == \E t \in Threads : Begin(t) \/ TakeEffect(t) \/ Return(t)

Spec == Init /\ [][Next]_vars
==============================================================================
