--------------------------- MODULE MCLockedHashMap ---------------------------
(* LockedHashMap for TLC: all of its calls, with a callback that counts up. *)
EXTENDS LockedHashMap

CONSTANTS Key1, Key2

\* Three values tell one update from two.
MCF(v) == (v + 1) % 3

CallsOf(ops, ks, v) == [op : ops, key : ks, value : {v}]

\* Two calls change the second key; the others are for the first, or for all.
MCCalls ==
    CallsOf({"insert", "erase"}, {Key2}, 1)
    \cup CallsOf({"insert_or_assign", "emplace", "get_or_default"}, {Key1}, 1)
    \cup CallsOf({"find", "operator[]", "contains", "update_if_exists", "size", "empty", "clear",
                  "for_each", "for_each_mutable", "keys", "values"}, {Key1}, 0)
==============================================================================
