------------------------------- MODULE ShmOpen -------------------------------
(***************************************************************************)
(* How processes come to share a segment: Initialize of ShmRing            *)
(* (zrt_shm_ring.h) and of DirectShm (zrt_shm_direct.h), and WriteShm and  *)
(* ReadShm (zrt_shm.h), all on one POSIX name, with processes that stop at *)
(* any step and are started again.                                         *)
(*                                                                         *)
(* A name is bound to a segment or to none; remove unbinds it, while those *)
(* who have the segment mapped go on using it.  A segment holds a ring or  *)
(* one value.  The entries of a ring are of one size and MaxItems of them  *)
(* fit, so a position counts entries; a value is a number of words, which  *)
(* are copied one by one, in any order.                                    *)
(***************************************************************************)
EXTENDS Integers, FiniteSets

CONSTANTS Procs,       \* processes
          Programs,    \* what they may run: a set of functions of Procs
          Words,       \* the words of a T
          MaxSegments, \* bound: segments created
          MaxItems,    \* bound: items stored
          MaxStops,    \* bound: exits and crashes
          MaxResets    \* bound: calls of Reset by the application

ASSUME BoundsAssumption ==
    /\ IsFiniteSet(Procs)
    /\ Programs \subseteq
         [Procs -> {"ShmRing", "DirectShm", "WriteShm", "ReadShm"}]
    /\ Words # {}
    /\ {MaxSegments, MaxItems, MaxStops, MaxResets} \subseteq Nat

\* A name serves one kind of use: a ring, a DirectShm, or the object that one
\* WriteShm hands to any number of ReadShm.
ASSUME ProgramsAssumption ==
    \A prg \in Programs :
        \/ \A p \in Procs : prg[p] = "ShmRing"
        \/ \A p \in Procs : prg[p] = "DirectShm"
        \/ \E w \in Procs : /\ prg[w] \in {"WriteShm", "ReadShm"}
                           /\ \A p \in Procs \ {w} : prg[p] = "ReadShm"

Segments == 1..MaxSegments
Positions == 0..MaxItems - 1
None == 0       \* no segment
Blank == -1     \* a word of a page that reads as zero
Default == 0    \* a word of T(); those of the i-th item stored are i
Zeros == [seq |-> 0, item |-> 0]    \* an entry on such a page

VARIABLES
    prog,     \* what each process runs
    name,     \* the segment the name is bound to, or None
    made,     \* segments created so far
    sized     \* segments that have their size, whose pages read as zero

\* What the segments hold.
VARIABLES
    magic,          \* segments whose header holds the magic number
    write_pos, read_pos, confirmed_pos, next_seq,   \* the header of a ring
    buffer,         \* a ring: the entry at each position
    value           \* a DirectShm, or the object of WriteShm: its words

\* What the processes hold.
VARIABLES
    pc,       \* where each process is
    seg,      \* the segment it has opened, or None
    isNew,    \* Initialize: is_new
    source,   \* the item, or T(), that it copies into a value
    todo,     \* the words it has still to copy
    out       \* ReadShm: the words copied; none when it returns false

\* History: no guard of the code's actions depends on it.
VARIABLES
    items,     \* items stored so far, the number of the next one less one
    stored,    \* items the application was told are stored, and that it has
               \* neither confirmed nor replaced nor begun to reset
    stops,     \* stops so far
    resets,    \* Resets by the application so far
    asked,     \* is the process in a Reset the application asked for?
    disturbed, \* has a Reset of a ring been cut short, or a call been made
               \* beside a Reset or Write of another process?
    early,     \* did it begin to open a segment that was not initialised?
    raced,     \* has a process begun while such a one was still opening?
    floor,     \* ReadShm: the last item completely written when it began
    calm       \* ReadShm: has no WriteShm overlapped the last call?

posix == <<name, made, sized>>
ring == <<write_pos, read_pos, confirmed_pos, next_seq, buffer>>
segments == <<magic, ring, value>>
copy == <<source, todo, out>>
opening == <<early, raced>>
reading == <<floor, calm>>
told == <<items, stored, asked, resets, disturbed>>
history == <<told, stops, opening, reading>>
vars == <<prog, posix, segments, pc, seg, isNew, copy, history>>

Init ==
    /\ prog \in Programs
    /\ name = None
    /\ made = 0
    /\ sized = {}
    /\ magic = {}
    /\ write_pos = [s \in Segments |-> 0]
    /\ read_pos = [s \in Segments |-> 0]
    /\ confirmed_pos = [s \in Segments |-> 0]
    /\ next_seq = [s \in Segments |-> 0]
    /\ buffer = [s \in Segments |-> [k \in Positions |-> Zeros]]
    /\ value = [s \in Segments |-> [w \in Words |-> Blank]]
    /\ pc = [p \in Procs |-> "down"]
    /\ seg = [p \in Procs |-> None]
    /\ isNew = [p \in Procs |-> FALSE]
    /\ source = [p \in Procs |-> Default]
    /\ todo = [p \in Procs |-> {}]
    /\ out = [p \in Procs |-> {}]
    /\ items = 0
    /\ stored = {}
    /\ stops = 0
    /\ resets = 0
    /\ asked = [p \in Procs |-> FALSE]
    /\ disturbed = FALSE
    /\ early = [p \in Procs |-> FALSE]
    /\ raced = FALSE
    /\ floor = [p \in Procs |-> Default]
    /\ calm = [p \in Procs |-> FALSE]

Goto(p, l) == pc' = [pc EXCEPT ![p] = l]

\* Is the process in a Reset or Write the application asked for, or in
\* Initialize?
Busy(p) == asked[p] \/ pc[p] = "store"
Opening(p) == pc[p] \notin {"down", "ready", "invalid"} /\ ~Busy(p)

----------------------------------------------------------------------------
(* Initialize of ShmRing and DirectShm *)

\* Beginning to open, for the history: is the segment not initialised yet,
\* and is another process about to initialise it?
Began(p) ==
    /\ early' = [early EXCEPT ![p] = name \notin magic]
    /\ raced' = (raced \/ \E q \in Procs \ {p} : Opening(q) /\ early[q])

\* Mutant: the segment is removed first in any case, as WriteShm does.
Open_RemovesFirst(p) ==
    /\ prog[p] \in {"ShmRing", "DirectShm"}
    /\ pc[p] = "down"
    /\ isNew' = [isNew EXCEPT ![p] = FALSE]
    /\ Goto(p, "remove")
    /\ Began(p)
    /\ UNCHANGED <<prog, posix, segments, seg, copy, told, stops, reading>>

\* open_only: a bound name is opened, whatever the state of its segment;
\* otherwise the exception leads to remove.
Open(p) ==
    /\ prog[p] \in {"ShmRing", "DirectShm"}
    /\ pc[p] = "down"
    /\ seg' = [seg EXCEPT ![p] = name]
    /\ isNew' = [isNew EXCEPT ![p] = FALSE]
    /\ Goto(p, IF name = None THEN "remove" ELSE "map")
    /\ Began(p)
    /\ UNCHANGED <<prog, posix, segments, copy, told, stops, reading>>

\* remove unbinds the name, also one that another process has bound since.
Remove(p) ==
    /\ pc[p] = "remove"
    /\ name' = None
    /\ Goto(p, "create")
    /\ UNCHANGED <<prog, made, sized, segments, seg, isNew, copy, history>>

\* create_only fails when another process has created the segment since.
Create(p) ==
    /\ pc[p] = "create"
    /\ \/ /\ name = None
          /\ made < MaxSegments
          /\ made' = made + 1
          /\ name' = made'
          /\ seg' = [seg EXCEPT ![p] = made']
          /\ isNew' = [isNew EXCEPT ![p] = TRUE]
          /\ Goto(p, "truncate")
       \/ /\ name # None
          /\ Goto(p, "invalid")
          /\ UNCHANGED <<made, name, seg, isNew>>
    /\ UNCHANGED <<prog, sized, segments, copy, history>>

\* truncate gives the segment its size; the managed segment of WriteShm is
\* formatted here.
Truncate(p) ==
    /\ pc[p] = "truncate"
    /\ sized' = sized \cup {seg[p]}
    /\ Goto(p, IF prog[p] = "WriteShm" THEN "construct" ELSE "map")
    /\ UNCHANGED <<prog, name, made, segments, seg, isNew, copy, history>>

\* A segment of size 0 cannot be mapped: the exception leaves the object
\* without a header.
Map(p) ==
    /\ pc[p] = "map"
    /\ Goto(p, IF seg[p] \in sized THEN "check" ELSE "invalid")
    /\ UNCHANGED <<prog, posix, segments, seg, isNew, copy, history>>

\* Mutant: Initialize resets whatever it finds.
NeedsReset_Always(p) == isNew[p] \in BOOLEAN

NeedsReset(p) == isNew[p] \/ seg[p] \notin magic

\* The magic number is looked at once.
Check(p) ==
    /\ pc[p] = "check"
    /\ Goto(p, IF NeedsReset(p) THEN "resetHeader" ELSE "ready")
    /\ isNew' = [isNew EXCEPT ![p] = FALSE]
    /\ UNCHANGED <<prog, posix, segments, seg, copy, history>>

----------------------------------------------------------------------------
(* Resetting, in Initialize or for the application: store by store *)

\* The magic number comes first, in the ring's Reset and in a DirectShm's
\* Initialize, which goes on to construct a T().
ResetHeader(p) ==
    /\ pc[p] = "resetHeader"
    /\ magic' = magic \cup {seg[p]}
    /\ IF prog[p] = "ShmRing"
       THEN Goto(p, "resetWritePos") /\ UNCHANGED copy
       ELSE /\ Goto(p, "resetValue")
            /\ source' = [source EXCEPT ![p] = Default]
            /\ todo' = [todo EXCEPT ![p] = Words]
            /\ UNCHANGED out
    /\ UNCHANGED <<prog, posix, ring, value, seg, isNew, history>>

ResetWritePos(p) ==
    /\ pc[p] = "resetWritePos"
    /\ write_pos' = [write_pos EXCEPT ![seg[p]] = 0]
    /\ Goto(p, "resetReadPos")
    /\ UNCHANGED <<prog, posix, magic, read_pos, confirmed_pos, next_seq,
                   buffer, value, seg, isNew, copy, history>>

ResetReadPos(p) ==
    /\ pc[p] = "resetReadPos"
    /\ read_pos' = [read_pos EXCEPT ![seg[p]] = 0]
    /\ Goto(p, "resetConfirmedPos")
    /\ UNCHANGED <<prog, posix, magic, write_pos, confirmed_pos, next_seq,
                   buffer, value, seg, isNew, copy, history>>

ResetConfirmedPos(p) ==
    /\ pc[p] = "resetConfirmedPos"
    /\ confirmed_pos' = [confirmed_pos EXCEPT ![seg[p]] = 0]
    /\ Goto(p, "resetNextSeq")
    /\ UNCHANGED <<prog, posix, magic, write_pos, read_pos, next_seq, buffer,
                   value, seg, isNew, copy, history>>

ResetNextSeq(p) ==
    /\ pc[p] = "resetNextSeq"
    /\ next_seq' = [next_seq EXCEPT ![seg[p]] = 1]
    /\ Goto(p, "memset")
    /\ UNCHANGED <<prog, posix, magic, write_pos, read_pos, confirmed_pos,
                   buffer, value, seg, isNew, copy, history>>

\* memset clears the buffer, in any number of steps.
Memset(p) ==
    /\ pc[p] = "memset"
    /\ \E cleared \in SUBSET Positions :
        /\ buffer' = [buffer EXCEPT ![seg[p]] =
                        [k \in Positions |->
                            IF k \in cleared THEN Zeros ELSE @[k]]]
        /\ IF cleared = Positions
           THEN Goto(p, "ready") /\ asked' = [asked EXCEPT ![p] = FALSE]
           ELSE UNCHANGED <<pc, asked>>
    /\ UNCHANGED <<prog, posix, magic, write_pos, read_pos, confirmed_pos,
                   next_seq, value, seg, isNew, copy, items, stored, resets,
                   disturbed, stops, opening, reading>>

\* Mutant: the copy ends one word too early.
StoreWord_Short(p) ==
    /\ pc[p] \in {"resetValue", "store"}
    /\ \E w \in todo[p] :
        /\ IF todo[p] = {w} THEN UNCHANGED value
           ELSE value' = [value EXCEPT ![seg[p]][w] = source[p]]
        /\ todo' = [todo EXCEPT ![p] = @ \ {w}]
    /\ IF todo'[p] = {}
       THEN /\ Goto(p, IF prog[p] = "WriteShm" THEN "down" ELSE "ready")
            /\ asked' = [asked EXCEPT ![p] = FALSE]
            /\ stored' = IF pc[p] = "store" THEN {source[p]} ELSE stored
       ELSE UNCHANGED <<pc, asked, stored>>
    /\ UNCHANGED <<prog, posix, magic, ring, seg, isNew, source, out, items,
                   resets, disturbed, stops, opening, reading>>

\* A word of T(), of the value Write was given, or of WriteShm's src_data is
\* copied into the segment; the last one ends the call.
StoreWord(p) ==
    /\ pc[p] \in {"resetValue", "store"}
    /\ \E w \in todo[p] :
        /\ value' = [value EXCEPT ![seg[p]][w] = source[p]]
        /\ todo' = [todo EXCEPT ![p] = @ \ {w}]
    /\ IF todo'[p] = {}
       THEN /\ Goto(p, IF prog[p] = "WriteShm" THEN "down" ELSE "ready")
            /\ asked' = [asked EXCEPT ![p] = FALSE]
            /\ stored' = IF pc[p] = "store" THEN {source[p]} ELSE stored
       ELSE UNCHANGED <<pc, asked, stored>>
    /\ UNCHANGED <<prog, posix, magic, ring, seg, isNew, source, out, items,
                   resets, disturbed, stops, opening, reading>>

----------------------------------------------------------------------------
(* Using the segment *)

\* A call of the application, for the history: is another process busy?
Called(p) == disturbed' = (disturbed \/ \E q \in Procs \ {p} : Busy(q))

\* Append of a ring.  What is used of it is an unsigned difference: with
\* write_pos below confirmed_pos the ring looks full, unless the entry ends
\* just there.  Sequence number 0 tells the application that it failed.
Append(p) ==
    /\ prog[p] = "ShmRing"
    /\ pc[p] = "ready"
    /\ items < MaxItems
    /\ write_pos[seg[p]] + 1 >= confirmed_pos[seg[p]]
    /\ items' = items + 1
    /\ LET pos == write_pos[seg[p]]
           seq == next_seq[seg[p]]
       IN  /\ next_seq' = [next_seq EXCEPT ![seg[p]] = seq + 1]
           /\ buffer' = [buffer EXCEPT ![seg[p]][pos] =
                            [seq |-> seq, item |-> items']]
           /\ write_pos' = [write_pos EXCEPT ![seg[p]] = pos + 1]
           /\ stored' = IF seq = 0 THEN stored ELSE stored \cup {items'}
    /\ Called(p)
    /\ UNCHANGED <<prog, posix, magic, read_pos, confirmed_pos, value, pc, seg,
                   isNew, copy, resets, asked, stops, opening, reading>>

\* A round of ReadNext hands the entry at read_pos to the application, or
\* passes it when its seq is 0.
ReadNext(p) ==
    /\ prog[p] = "ShmRing"
    /\ pc[p] = "ready"
    /\ read_pos[seg[p]] < write_pos[seg[p]]
    /\ read_pos' = [read_pos EXCEPT ![seg[p]] = @ + 1]
    /\ Called(p)
    /\ UNCHANGED <<prog, posix, magic, write_pos, confirmed_pos, next_seq,
                   buffer, value, pc, seg, isNew, copy, items, stored, asked,
                   resets, stops, opening, reading>>

\* Confirm of an entry that ReadNext has handed out: the scan from
\* confirmed_pos ends at the first entry with its seq or a larger one.
Confirm(p) ==
    /\ prog[p] = "ShmRing"
    /\ pc[p] = "ready"
    /\ \E k \in confirmed_pos[seg[p]] .. read_pos[seg[p]] - 1 :
        LET entry == buffer[seg[p]][k]
        IN  /\ k < write_pos[seg[p]]
            /\ entry.seq # 0
            /\ \A j \in confirmed_pos[seg[p]] .. k - 1 :
                  buffer[seg[p]][j].seq < entry.seq
            /\ confirmed_pos' = [confirmed_pos EXCEPT ![seg[p]] = k + 1]
            /\ stored' = {i \in stored : i > entry.item}
    /\ Called(p)
    /\ UNCHANGED <<prog, posix, magic, write_pos, read_pos, next_seq, buffer,
                   value, pc, seg, isNew, copy, items, asked, resets, stops,
                   opening, reading>>

\* Write of a DirectShm, or a store through its pointer, replaces the value.
Write(p) ==
    /\ prog[p] = "DirectShm"
    /\ pc[p] = "ready"
    /\ items < MaxItems
    /\ items' = items + 1
    /\ stored' = {}
    /\ source' = [source EXCEPT ![p] = items']
    /\ todo' = [todo EXCEPT ![p] = Words]
    /\ Goto(p, "store")
    /\ Called(p)
    /\ UNCHANGED <<prog, posix, segments, seg, isNew, out, asked, resets, stops,
                   opening, reading>>

\* The application resets: the ring as in Initialize, a DirectShm its value
\* alone.
Reset(p) ==
    /\ prog[p] \in {"ShmRing", "DirectShm"}
    /\ pc[p] = "ready"
    /\ resets < MaxResets
    /\ resets' = resets + 1
    /\ asked' = [asked EXCEPT ![p] = TRUE]
    /\ stored' = {}
    /\ IF prog[p] = "ShmRing"
       THEN Goto(p, "resetHeader") /\ UNCHANGED copy
       ELSE /\ Goto(p, "resetValue")
            /\ source' = [source EXCEPT ![p] = Default]
            /\ todo' = [todo EXCEPT ![p] = Words]
            /\ UNCHANGED out
    /\ Called(p)
    /\ UNCHANGED <<prog, posix, segments, seg, isNew, items, stops, opening,
                   reading>>

\* An object without a header may be thrown away and constructed again;
\* GetDirectShm keeps a DirectShm for the rest of its thread.
Retry(p) ==
    /\ prog[p] = "ShmRing"
    /\ pc[p] = "invalid"
    /\ Goto(p, "down")
    /\ UNCHANGED <<prog, posix, segments, seg, isNew, copy, history>>

\* A process exits or crashes, wherever it is; the segments stay.
Stop(p) ==
    /\ pc[p] # "down"
    /\ stops < MaxStops
    /\ stops' = stops + 1
    /\ Goto(p, "down")
    /\ seg' = [seg EXCEPT ![p] = None]
    /\ isNew' = [isNew EXCEPT ![p] = FALSE]
    /\ source' = [source EXCEPT ![p] = Default]
    /\ todo' = [todo EXCEPT ![p] = {}]
    /\ out' = [out EXCEPT ![p] = {}]
    /\ asked' = [asked EXCEPT ![p] = FALSE]
    /\ early' = [early EXCEPT ![p] = FALSE]
    /\ disturbed' = (disturbed \/ (asked[p] /\ prog[p] = "ShmRing"))
    /\ calm' = [calm EXCEPT ![p] = FALSE]
    /\ UNCHANGED <<prog, posix, segments, items, stored, resets, raced, floor>>

----------------------------------------------------------------------------
(* WriteShm and ReadShm *)

\* WriteShm removes what there is ...
WriteShm(p) ==
    /\ prog[p] = "WriteShm"
    /\ pc[p] = "down"
    /\ items < MaxItems
    /\ items' = items + 1
    /\ Goto(p, "remove")
    /\ UNCHANGED <<prog, posix, segments, seg, isNew, copy, stored, asked,
                   resets, disturbed, stops, opening, reading>>

\* ... and, in the segment it has created, constructs a T under the lock that
\* find takes as well; the assignment to it is without a lock.
Construct(p) ==
    /\ pc[p] = "construct"
    /\ value' = [value EXCEPT ![seg[p]] = [w \in Words |-> Default]]
    /\ source' = [source EXCEPT ![p] = items]
    /\ todo' = [todo EXCEPT ![p] = Words]
    /\ Goto(p, "store")
    /\ UNCHANGED <<prog, posix, magic, ring, seg, isNew, out, history>>

\* ReadShm opens the segment, or fails.
ReadShm(p) ==
    /\ prog[p] = "ReadShm"
    /\ pc[p] = "down"
    /\ seg' = [seg EXCEPT ![p] = name]
    /\ floor' = [floor EXCEPT ![p] = IF stored = {} THEN Default
                                     ELSE CHOOSE i \in stored : TRUE]
    /\ calm' = [calm EXCEPT ![p] = items \in {0} \cup stored]
    /\ out' = [out EXCEPT ![p] = {}]
    /\ Goto(p, IF name = None THEN "down" ELSE "find")
    /\ UNCHANGED <<prog, posix, segments, isNew, source, todo, told, stops,
                   opening>>

\* The call returns: has a WriteShm begun since it was made, and not ended?
Returned(p) ==
    /\ Goto(p, "down")
    /\ calm' = [calm EXCEPT ![p] = @ /\ items \in {0} \cup stored]

\* It finds the object or fails: boost maps a segment only when it is
\* formatted, and finds only what is constructed.
Find(p) ==
    /\ pc[p] = "find"
    /\ IF \E w \in Words : value[seg[p]][w] = Blank
       THEN Returned(p) /\ UNCHANGED todo
       ELSE /\ Goto(p, "load")
            /\ todo' = [todo EXCEPT ![p] = Words]
            /\ UNCHANGED calm
    /\ UNCHANGED <<prog, posix, segments, seg, isNew, source, out, told, stops,
                   opening, floor>>

\* It copies a word of the object, which WriteShm may be assigning.
LoadWord(p) ==
    /\ pc[p] = "load"
    /\ \E w \in todo[p] :
        /\ out' = [out EXCEPT ![p] = @ \cup {value[seg[p]][w]}]
        /\ todo' = [todo EXCEPT ![p] = @ \ {w}]
    /\ IF todo'[p] = {} THEN Returned(p) ELSE UNCHANGED <<pc, calm>>
    /\ UNCHANGED <<prog, posix, segments, seg, isNew, source, told, stops,
                   opening, floor>>

Next ==
    \E p \in Procs :
        \/ Open(p) \/ Remove(p) \/ Create(p) \/ Truncate(p) \/ Map(p)
        \/ Check(p) \/ ResetHeader(p) \/ ResetWritePos(p) \/ ResetReadPos(p)
        \/ ResetConfirmedPos(p) \/ ResetNextSeq(p) \/ Memset(p) \/ StoreWord(p)
        \/ Append(p) \/ ReadNext(p) \/ Confirm(p) \/ Write(p) \/ Reset(p)
        \/ Retry(p) \/ Stop(p)
        \/ WriteShm(p) \/ Construct(p) \/ ReadShm(p) \/ Find(p) \/ LoadWord(p)

Spec == Init /\ [][Next]_vars

----------------------------------------------------------------------------
(* Properties *)

Shares(p) == prog[p] \in {"ShmRing", "DirectShm"}

\* As long as no process opens the name while another one is about to
\* initialise it, all processes that have opened it (Initialize of ShmRing
\* and DirectShm) use one segment, the one later ones will open; and a
\* process is left without a header only by a crash between create_only and
\* truncate, whose segment of size 0 nothing removes.
OneSegment ==
    ~raced => \A p \in Procs : Shares(p) =>
        /\ pc[p] = "ready" => seg[p] = name /\ name \in magic
        /\ pc[p] = "invalid" => stops > 0 /\ name \notin sized

\* The items a process finds that opens segment s: the entries of a ring that
\* are not confirmed, or the value when it is one item in all its words.
Unconfirmed(s) ==
    {buffer[s][k].item :
        k \in {j \in confirmed_pos[s] .. write_pos[s] - 1 :
                  buffer[s][j].seq # 0}}
Held(s) == {i \in 1..items : \A w \in Words : value[s][w] = i}

\* Under the same condition, what the application was told is stored stays in
\* the segment, over exits, crashes and restarts of everybody at any store of
\* Initialize, until the application confirms, replaces or resets it: opening
\* an existing segment never clears it (docs/shm.md).  A ring holds nothing
\* else, so that no entry comes back after a Reset and none is found whose
\* Append answered 0, and its reader goes on between what is confirmed and
\* what is written.  A Reset of a ring that is cut short, or calls beside the
\* Reset or Write of another process, are not promised any of this.
RestartKeeps ==
    (~raced /\ ~disturbed) =>
        \A p \in Procs :
            /\ Shares(p) /\ stored # {} => name # None
            /\ prog[p] = "ShmRing" /\ name # None =>
                  /\ stored \subseteq Unconfirmed(name)
                  /\ (\A q \in Procs : ~asked[q]) =>
                        /\ Unconfirmed(name) \subseteq stored
                        /\ confirmed_pos[name] <= read_pos[name]
                        /\ read_pos[name] <= write_pos[name]
            /\ prog[p] = "DirectShm" /\ name # None => stored \subseteq Held(name)

\* ReadShm copies without a lock what WriteShm may be assigning, so it may
\* return words of T() and words of the new value side by side; but all words
\* that are not of T() come from one item, which is not older than the last
\* one completely written when it was called.  When no WriteShm overlaps it,
\* or was given up before, it returns just that item, or false when there is
\* none.
ReadShmCurrent ==
    \A p \in Procs : (prog[p] = "ReadShm" /\ pc[p] = "down") =>
        /\ \E i \in floor[p] .. MaxItems : out[p] \subseteq {Default, i}
        /\ calm[p] => out[p] = IF floor[p] = Default THEN {} ELSE {floor[p]}
=============================================================================
