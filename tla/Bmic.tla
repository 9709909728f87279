-------------------------------- MODULE Bmic --------------------------------
(***************************************************************************)
(* zrt_bmic*.h: BMIC, a Boost multi-index container of values with members *)
(* sym, px and ts.  It has a hashed unique index on any of them and an     *)
(* ordered, not unique, index that begins with ts: the macros for 2 to 9   *)
(* members write out what HashedMembers and OrderedMembers say.  px is a   *)
(* double, which zrt::equal takes for equal to every double nearer than    *)
(* Epsilon.  One thread uses the container; a call is one step, but        *)
(* UpdateRange, whose loop moves the elements it walks over, takes a step  *)
(* per round.                                                              *)
(*                                                                         *)
(* The ordered index is the sequence order of nodes; val holds their       *)
(* values.  Keys whose hashes differ are never found in one bucket.        *)
(***************************************************************************)
EXTENDS Integers, Sequences, FiniteSets, SequencesExt

CONSTANTS Nodes,   \* bound: nodes of the container
          End,     \* the iterator behind the last element
          Values,  \* values that are set; px in units of a part of Epsilon
          HashedMembers,  \* the members of the hashed index
          OrderedMembers, \* those of the ordered index, in their order
          Epsilon  \* kDoubleEpsilon

\* The order by a double would not be transitive, and no order at all.
ASSUME BmicAssumption ==
    /\ End \notin Nodes
    /\ Values \subseteq [sym : Int, px : Int, ts : Int]
    /\ HashedMembers \subseteq {"sym", "px", "ts"}
    /\ OrderedMembers \in {<<"ts">>, <<"ts", "sym">>}
    /\ Epsilon \in Nat \ {0}
    /\ IsFiniteSet(Nodes)

Idle == [key |-> 0, to |-> 0, iter |-> End, stop |-> End]

VARIABLES
    order,  \* the nodes in the order of the index on ts
    val,    \* the value of every node
    bucket, \* its place in the hashed index: the hash it was linked with
    inexact,\* history: has an element been replaced by one whose key is taken
            \* for the same, but is another?
    mode,   \* "idle", "range" in the loop of UpdateRange, "undefined" after an
            \* iterator was moved behind the end
    loop,   \* the locals of UpdateRange
    before, \* history: val when UpdateRange was called
    visited \* history: the nodes its loop has updated, in order

index == <<order, val, bucket, inexact>>
bmicVars == <<index, mode, loop, before, visited>>

Times == {v.ts : v \in Values}
Prices == {v.px : v \in Values}
NoValue == [sym |-> 0, px |-> 0, ts |-> 0]
NoValues == [x \in Nodes |-> NoValue]

----------------------------------------------------------------------------
(* Keys: zrt_equal.h, zrt_compare.h and the index macros *)

Abs(x) == IF x < 0 THEN -x ELSE x

\* zrt::equal of two doubles: no equivalence, 0 = 1 and 1 = 2 but 0 # 2 when
\* Epsilon is 2.
Equal(a, b) == a = b \/ Abs(a - b) < Epsilon

\* my_equal for the types of the members, doubles and integers.
MyEqual(m, a, b) == IF m = "px" THEN Equal(a, b) ELSE a = b

\* my_hash returns a bool: std::hash gives 0 for 0 and 0.0 only, so that every
\* other key has the same hash.
MyHash(a) == a # 0

MyLess(a, b) == a < b

\* composite_key_equal_to and composite_key_hash, member by member.
KeyEqual(v, w) == \A m \in HashedMembers : MyEqual(m, v[m], w[m])
KeyHash(v) == [m \in HashedMembers |-> MyHash(v[m])]

\* composite_key_compare of my_less: the first member that differs decides.
Less(v, w) ==
    \E i \in DOMAIN OrderedMembers :
        /\ MyLess(v[OrderedMembers[i]], w[OrderedMembers[i]])
        /\ \A j \in 1 .. i - 1 : ~MyLess(w[OrderedMembers[j]], v[OrderedMembers[j]])

----------------------------------------------------------------------------
(* The container: find, emplace, erase and replace of Boost *)

GetSize == Len(order)

\* ForEach and ForEachBmicVal pass what is stored, in the order of an index.
ForEach == [i \in 1 .. GetSize |-> val[order[i]]]
Stored == Range(ForEach)

Find(v) == {x \in Range(order) : bucket[x] = KeyHash(v) /\ KeyEqual(val[x], v)}

\* Has, TryCopy and Copy.
Has(key) == Find(key) # {}
TryCopy(key, otherwise) ==
    IF Has(key) THEN val[CHOOSE x \in Find(key) : TRUE] ELSE otherwise

\* The bounds of the range of a key that gives ts alone, and where a range
\* begins: behind the last element when it is empty.
NotLess(t) == {i \in DOMAIN order : val[order[i]].ts >= t}
Greater(t) == {i \in DOMAIN order : val[order[i]].ts > t}
First(is, o) == IF is = {} THEN Len(o) + 1 ELSE CHOOSE i \in is : \A j \in is : i <= j
NodeAt(i) == IF i \in DOMAIN order THEN order[i] ELSE End
Place(x, o) == CHOOSE i \in DOMAIN o : o[i] = x

\* ForEach between two bounds of ts: the places from the first to before the
\* second.
Between(lo, hi) == <<First(NotLess(lo), order), First(Greater(hi), order)>>

\* The places from i to before j cut out of o.
Cut(o, i, j) == SubSeq(o, 1, i - 1) \o SubSeq(o, j, Len(o))

\* Node x with value v put in before the first element that is greater.
Linked(o, x, v) == InsertAt(o, First({i \in DOMAIN o : Less(v, val[o[i]])}, o), x)

Emplaced(v) ==
    IF Find(v) # {} \/ Len(order) = Cardinality(Nodes)
    THEN UNCHANGED index
    ELSE LET x == CHOOSE x \in Nodes : x \notin Range(order) IN
         /\ order' = Linked(order, x, v)
         /\ val' = [val EXCEPT ![x] = v]
         /\ bucket' = [bucket EXCEPT ![x] = KeyHash(v)]
         /\ UNCHANGED inexact

\* The elements at the places from i to before j are erased.
Erased(i, j) ==
    IF j <= i THEN UNCHANGED index
    ELSE LET xs == {order[h] : h \in i .. j - 1} IN
         /\ order' = Cut(order, i, j)
         /\ val' = [x \in Nodes |-> IF x \in xs THEN NoValue ELSE val[x]]
         /\ bucket' = [x \in Nodes |-> IF x \in xs THEN KeyHash(NoValue) ELSE bucket[x]]
         /\ UNCHANGED inexact
ErasedNode(x) == Erased(Place(x, order), Place(x, order) + 1)

\* Mutant: a node is always linked anew.
InPlace_Never(x, v) == FALSE

\* The value v may stay where x is.
InPlace(x, v) ==
    LET i == Place(x, order) IN
    /\ i > 1 => ~Less(v, val[order[i - 1]])
    /\ i < Len(order) => ~Less(val[order[i + 1]], v)

\* Mutant: the other indexes are not asked.
Replaceable_Unchecked(x, v) == TRUE

\* A value with the key of the old one stays in its bucket, and the others
\* there are not looked at; otherwise Boost refuses a key that is taken.
Replaceable(x, v) == KeyEqual(v, val[x]) \/ Find(v) \subseteq {x}

\* order after replace(x, v).
Reordered(x, v) ==
    IF ~Replaceable(x, v) \/ InPlace(x, v) THEN order
    ELSE Linked(Cut(order, Place(x, order), Place(x, order) + 1), x, v)

\* replace(x, v), of which the callers in the code ignore the result.
Replaced(x, v) ==
    /\ order' = Reordered(x, v)
    /\ val' = IF Replaceable(x, v) THEN [val EXCEPT ![x] = v] ELSE val
    /\ bucket' = IF ~Replaceable(x, v) \/ KeyEqual(v, val[x]) THEN bucket
                 ELSE [bucket EXCEPT ![x] = KeyHash(v)]
    /\ inexact' = (inexact \/ (KeyEqual(v, val[x]) /\ v.px # val[x].px))

----------------------------------------------------------------------------
(* The operations of BMIC, and the functions on any container *)

BmicInit ==
    /\ order = <<>> /\ val = NoValues
    /\ bucket = [x \in Nodes |-> KeyHash(NoValue)] /\ inexact = FALSE
    /\ mode = "idle" /\ loop = Idle
    /\ before = NoValues /\ visited = <<>>

Call == mode = "idle" /\ UNCHANGED <<mode, loop, before, visited>>

\* A value whose key is taken is dropped without a word.
SetBmic(v) == Emplaced(v)
Set(v) == Call /\ SetBmic(v)

\* Remove by the unique key and by ts (the first of the equal ones).
RemoveKey(key) == Call /\ \E x \in Find(key) : ErasedNode(x)

RemoveTime(t) ==
    LET i == First(NotLess(t), order) IN
    Call /\ i \in DOMAIN order /\ val[order[i]].ts = t /\ Erased(i, i + 1)

\* RemoveRange by a key, which is the range from t to t, and by two bounds.
RemoveRange(lo, hi) ==
    Call /\ Erased(Between(lo, hi)[1], Between(lo, hi)[2])

\* Mutant: the element found is erased and the new value added.
Update_EraseFirst(key, v) ==
    /\ Call
    /\ \/ \E x \in Find(key) : IF Replaceable(x, v) THEN Replaced(x, v) ELSE ErasedNode(x)
       \/ Find(key) = {} /\ Emplaced(v)

\* Replaces the element found, adds the value if there is none.  Update
\* returns true in the first case, whether or not replace did anything.
UpdateBmic(key, v) ==
    \/ \E x \in Find(key) : Replaced(x, v)
    \/ ~Has(key) /\ Emplaced(v)
Update(key, v) == Call /\ UpdateBmic(key, v)

\* UpdateRange<ts>(t, func) with a func that sets ts.
Retimed(v, to) == [v EXCEPT !.ts = to]

RangeCall(t, to) ==
    /\ mode = "idle" /\ mode' = "range"
    /\ loop' = [key |-> t, to |-> to, iter |-> NodeAt(First(NotLess(t), order)),
                stop |-> NodeAt(First(Greater(t), order))]
    /\ before' = val
    /\ UNCHANGED <<index, visited>>

RangeStep ==
    LET x == loop.iter
        v == Retimed(val[x], loop.to)
        o == Reordered(x, v)
        i == Place(x, o)
    IN
    /\ mode = "range" /\ x # loop.stop
    /\ Replaced(x, v)
    /\ visited' = Append(visited, x)
    /\ loop' = [loop EXCEPT !.iter = IF i < Len(o) THEN o[i + 1] ELSE End]
    /\ mode' = IF loop'.iter = End /\ loop.stop # End THEN "undefined" ELSE mode
    /\ UNCHANGED before

RangeReturn ==
    /\ mode = "range" /\ loop.iter = loop.stop
    /\ mode' = "idle" /\ loop' = Idle
    /\ before' = NoValues /\ visited' = <<>>
    /\ UNCHANGED index

BmicNext ==
    \/ \E v \in Values :
          \/ Set(v) \/ RemoveKey(v)
          \/ \E p \in Prices : Update([v EXCEPT !.px = p], v)
    \/ \E t \in Times :
          RemoveTime(t) \/ \E u \in Times : RemoveRange(t, u) \/ RangeCall(t, u)
    \/ RangeStep
    \/ RangeReturn

BmicSpec == BmicInit /\ [][BmicNext]_bmicVars

----------------------------------------------------------------------------
(* Properties *)

\* The ordered index is sorted and holds each node once.  Every element is
\* found by its own key, and no other one is taken for it, except that a
\* price of exactly 0 and one near it are told apart (my_hash returns a bool)
\* although my_equal takes them for equal; and only as long as no element
\* was replaced by one of an equal, but different, key: as nearness is not
\* transitive, this may give the unique index two equal keys.
IndexesAgree ==
    /\ GetSize = Cardinality(Range(order))
    /\ \A i, j \in DOMAIN order : i < j => ~Less(val[order[j]], val[order[i]])
    /\ ~inexact =>
           \A x \in Range(order) :
               /\ Find(val[x]) = {x}
               /\ TryCopy(val[x], NoValue) = val[x]
               /\ \A y \in Range(order) \ {x} :
                      KeyEqual(val[x], val[y]) => KeyHash(val[x]) # KeyHash(val[y])

AllOrNothing(key, v) ==
    LET lost == Stored \ Stored'
    IN \/ /\ v \in Stored' /\ Cardinality(lost) <= 1
          /\ lost \subseteq {val[x] : x \in Find(key)}
       \/ /\ UNCHANGED index
          /\ Len(order) = Cardinality(Nodes) \/ Find(v) # {}

\* Update stores its value, in place of at most the one element it was asked
\* for, or leaves everything as it was because another element has the key of
\* the value.  (It says true in both cases when it found an element.)
UpdateAllOrNothing ==
    [][\A v \in Values, p \in Prices :
          LET key == [v EXCEPT !.px = p] IN Update(key, v) => AllOrNothing(key, v)]_bmicVars

\* When func does not move the elements of the range to a later place in the
\* index, UpdateRange calls it for each of them and, if it moves them to an
\* earlier one, for elements it moves them past, but for no other element; the
\* iterator stays in the container.  Unless ts is in the unique key, so that
\* an element may be refused its new place, it is called for all the elements
\* it moves others past, and the rounds are bounded: an element that is moved
\* makes the loop walk again over those behind its new place.  (When func moves
\* an element to a later place the loop skips elements or runs past the end.)
UpdateRangeExact ==
    LET moved(x) == Retimed(before[x], loop.to)
        at == {x \in Range(order) : before[x].ts = loop.key}
        between == {x \in Range(order) : loop.to < before[x].ts /\ before[x].ts < loop.key}
        passed == {y \in Range(order) : /\ before[y].ts = loop.to
                                        /\ \E x \in at \union between : Less(moved(x), before[y])}
        all == IF at = {} THEN {} ELSE at \union between \union passed
    IN
    mode # "idle" /\ (loop.iter = loop.stop \/ mode = "undefined") /\ loop.to <= loop.key =>
        /\ mode = "range"
        /\ at \subseteq Range(visited) /\ Range(visited) \subseteq all
        /\ "ts" \notin HashedMembers =>
              /\ all \subseteq Range(visited)
              /\ 2 * Len(visited) <= Len(order) * (Len(order) + 1)

============================================================================
