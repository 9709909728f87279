------------------------------ MODULE ShmRing ------------------------------
(***************************************************************************)
(* zrt_shm_ring.h: a write-ahead log of variable-length entries in a ring  *)
(* of shared memory, for one producer process and one consumer process,    *)
(* either of which may crash and be started again.                         *)
(*                                                                         *)
(* The unit of the model is 8 bytes, the alignment of entries: a header    *)
(* takes 3 units (seq; timestamp; type, data_len and crc32) and the data   *)
(* the rest.  A unit is the record [seq, size, i] of the entry it belongs  *)
(* to and its place in it; a skip marker has seq 0.  A consumer that       *)
(* parses a header where none starts finds words whose meaning the layout  *)
(* does not fix, and any value of a field is possible.                     *)
(*                                                                         *)
(* write_pos, read_pos and confirmed_pos grow for ever, as in the code.    *)
(* The statistics (total_entries, total_bytes, wrap_count) are left out.   *)
(***************************************************************************)
EXTENDS Integers, Sequences, FiniteSets

CONSTANTS BufferSize,   \* BUFFER_SIZE, in units
          Sizes,        \* the sizes of the entries the application appends
          Modes,        \* how applications consume: "next", "unconfirmed"
          MaxCount,     \* max_count of ReadUnconfirmed
          MaxAppends,   \* bound: entries the application asks to append
          MaxCrashes    \* bound: crashes of either process

HeaderSize == 3

ASSUME ConstantsAssumption ==
    /\ BufferSize \in Nat \ {0}
    /\ Sizes # {}
    /\ Sizes \subseteq HeaderSize .. BufferSize
    /\ Modes \subseteq {"next", "unconfirmed"}
    /\ MaxCount \in Nat \ {0}
    /\ MaxAppends \in Nat
    /\ MaxCrashes \in Nat

VARIABLES
    buf,        \* buffer_
    write_pos, read_pos, confirmed_pos, next_seq,  \* the header
    ppc,        \* where the producer is in Append
    want,       \* size of the entry it appends, 0 when it has none
    pseq,       \* Append: seq
    pi,         \* units of the entry stored so far
    cpc,        \* where the consumer is
    cur,        \* the loop's pos
    cend,       \* the loop's write_pos
    chdr,       \* ReadNext: the header of the entry being copied
    carg,       \* Confirm: seq; ConfirmBatch: entries still to confirm
    batch       \* ReadUnconfirmed: entries

\* History variables.
VARIABLES
    log,        \* the entries Append returned a seq for, in order
    delivered,  \* the seqs that ReadNext returned, 0 for a damaged entry
    handed,     \* the seqs ReadNext or ReadUnconfirmed gave the consumer
    unmarked,   \* has a wrap left a rest too short for a marker's header?
    asked,      \* entries asked for so far
    crashes     \* crashes so far

\* The application reads with ReadNext or with ReadUnconfirmed, always.
VARIABLE mode

ring == <<buf, write_pos, read_pos, confirmed_pos, next_seq>>
producer == <<ppc, want, pseq, pi>>
consumer == <<cpc, cur, cend, chdr, carg, batch>>
hist == <<log, delivered, handed, unmarked, asked, crashes>>
vars == <<ring, producer, consumer, hist, mode>>

NoHeader == [seq |-> 0, size |-> 0, type |-> FALSE, crc |-> FALSE]
ZeroUnit == [seq |-> 0, size |-> 0, i |-> 0]
Unit(s, z, k) == [seq |-> s, size |-> z, i |-> k]
Offset(pos) == pos % BufferSize

Init ==
    /\ buf = [o \in 0 .. BufferSize - 1 |-> ZeroUnit]
    /\ write_pos = 0
    /\ read_pos = 0
    /\ confirmed_pos = 0
    /\ next_seq = 1
    /\ ppc = "idle"
    /\ want = 0
    /\ pseq = 0
    /\ pi = 0
    /\ cpc = "idle"
    /\ cur = 0
    /\ cend = 0
    /\ chdr = NoHeader
    /\ carg = 0
    /\ batch = <<>>
    /\ log = <<>>
    /\ delivered = <<>>
    /\ handed = {}
    /\ unmarked = FALSE
    /\ asked = 0
    /\ crashes = 0
    /\ mode \in Modes

----------------------------------------------------------------------------
(* The producer: Append *)

\* The application has an entry of z units.  An Append that finds no room
\* returns 0, and the application calls it again with the same entry.
AppendCall(z) ==
    /\ ppc = "idle"
    /\ asked < MaxAppends
    /\ asked' = asked + 1
    /\ want' = z
    /\ ppc' = "try"
    /\ UNCHANGED <<ring, pseq, pi, consumer, log, delivered, handed, unmarked,
                   crashes, mode>>

\* Mutant: the space check looks at read_pos instead of confirmed_pos.
AppendBegin_FreesRead ==
    /\ ppc = "try"
    /\ write_pos - read_pos + want \in 0 .. BufferSize
    /\ next_seq' = next_seq + 1
    /\ pseq' = next_seq
    /\ pi' = 0
    /\ ppc' = IF Offset(write_pos) + want > BufferSize THEN "wrap" ELSE "fill"
    /\ UNCHANGED <<buf, write_pos, read_pos, confirmed_pos, want, consumer, hist,
                   mode>>

\* The space check, the allocation of a seq (also when the entry will not
\* fit before the end of the buffer) and the choice between the two paths.
\* The check is unsigned: a confirmed_pos beyond write_pos refuses an entry
\* that does not reach it and lets a longer one pass.
AppendBegin ==
    /\ ppc = "try"
    /\ write_pos - confirmed_pos + want \in 0 .. BufferSize
    /\ next_seq' = next_seq + 1
    /\ pseq' = next_seq
    /\ pi' = 0
    /\ ppc' = IF Offset(write_pos) + want > BufferSize THEN "wrap" ELSE "fill"
    /\ UNCHANGED <<buf, write_pos, read_pos, confirmed_pos, want, consumer, hist,
                   mode>>

Remaining == BufferSize - Offset(write_pos)

\* The skip marker's header, when a header fits; its data are not touched.
WrapMark ==
    /\ ppc = "wrap"
    /\ buf' = IF Remaining >= HeaderSize
              THEN [o \in DOMAIN buf |->
                        IF o \in Offset(write_pos) .. Offset(write_pos) + 2
                        THEN Unit(0, Remaining, o - Offset(write_pos))
                        ELSE buf[o]]
              ELSE buf
    /\ ppc' = "wrapPublish"
    /\ UNCHANGED <<write_pos, read_pos, confirmed_pos, next_seq, want, pseq, pi,
                   consumer, hist, mode>>

\* write_pos moves to the start of the buffer and Append calls itself.
WrapPublish ==
    /\ ppc = "wrapPublish"
    /\ write_pos' = write_pos + Remaining
    /\ unmarked' = (unmarked \/ Remaining < HeaderSize)
    /\ ppc' = "try"
    /\ UNCHANGED <<buf, read_pos, confirmed_pos, next_seq, want, pseq, pi, consumer,
                   log, delivered, handed, asked, crashes, mode>>

\* One unit of the entry is stored.
AppendFill ==
    /\ ppc = "fill"
    /\ buf' = [buf EXCEPT ![Offset(write_pos) + pi] = Unit(pseq, want, pi)]
    /\ pi' = pi + 1
    /\ ppc' = IF pi + 1 = want THEN "publish" ELSE "fill"
    /\ UNCHANGED <<write_pos, read_pos, confirmed_pos, next_seq, want, pseq,
                   consumer, hist, mode>>

\* The store to write_pos makes the entry visible and Append returns its seq.
AppendPublish ==
    /\ ppc = "publish"
    /\ write_pos' = write_pos + want
    /\ log' = Append(log, [seq |-> pseq, pos |-> write_pos, size |-> want])
    /\ want' = 0
    /\ ppc' = "idle"
    /\ UNCHANGED <<buf, read_pos, confirmed_pos, next_seq, pseq, pi, consumer,
                   delivered, handed, unmarked, asked, crashes, mode>>

\* The producer process dies; what it has stored stays.
ProducerCrash ==
    /\ ppc # "idle"
    /\ crashes < MaxCrashes
    /\ crashes' = crashes + 1
    /\ ppc' = "idle"
    /\ want' = 0
    /\ UNCHANGED <<ring, pseq, pi, consumer, log, delivered, handed, unmarked, asked,
                   mode>>

----------------------------------------------------------------------------
(* What the consumer parses *)

\* Reads past the end of the buffer meet the zero bytes that fill the last
\* page of the mapping.
UnitAt(o) == IF o < BufferSize THEN buf[o] ELSE ZeroUnit

\* header.seq and the fields of the third unit, when a header of the layout
\* is read; any value when the unit is another word of an entry.
SeqsAt(o) == IF UnitAt(o).i = 0 THEN {UnitAt(o).seq} ELSE 0 .. next_seq
MetaAt(o) ==
    LET u == UnitAt(o + 2) IN
    IF u.i = 2 THEN {[size |-> u.size, type |-> u.seq # 0]}
    ELSE IF u = ZeroUnit THEN {[size |-> HeaderSize, type |-> FALSE]}
    ELSE [size : HeaderSize .. BufferSize, type : BOOLEAN]

\* ValidateCrc covers the data, not the header.
CrcOK(o, z) ==
    LET u == UnitAt(o + 2) IN
    /\ u.i = 2
    /\ \A k \in HeaderSize .. z - 1 : UnitAt(o + k) = Unit(u.seq, u.size, k)

Headers(pos) ==
    {[seq |-> s, size |-> m.size, type |-> m.type, crc |-> CrcOK(Offset(pos), m.size)] :
        s \in SeqsAt(Offset(pos)), m \in MetaAt(Offset(pos))}

\* The condition under which ReadNext and ReadUnconfirmed take an entry.
Acceptable(h) == h.seq # 0 /\ h.type /\ h.crc

\* What the copy of an entry holds: its seq, or 0 if some unit is not its own.
CopyOf(pos, h) ==
    IF \A k \in 0 .. h.size - 1 : UnitAt(Offset(pos) + k) = Unit(h.seq, h.size, k)
    THEN h.seq
    ELSE 0

----------------------------------------------------------------------------
(* The consumer: ReadNext *)

ReadNextCall ==
    /\ mode = "next"
    /\ cpc = "idle"
    /\ cpc' = "next"
    /\ UNCHANGED <<ring, producer, cur, cend, chdr, carg, batch, hist, mode>>

\* Mutant: the padding at the end of the buffer is returned as an entry.
ReadNextScan_SkipNotChecked ==
    /\ cpc = "next"
    /\ \/ /\ read_pos >= write_pos
          /\ cpc' = "idle"
          /\ UNCHANGED <<read_pos, chdr>>
       \/ /\ read_pos < write_pos
          /\ \E h \in Headers(read_pos) :
                /\ chdr' = h
                /\ cpc' = "copy"
                /\ UNCHANGED read_pos
    /\ UNCHANGED <<buf, write_pos, confirmed_pos, next_seq, producer, cur, cend,
                   carg, batch, hist, mode>>

\* ReadNext up to the copy: nothing new, returns false; a marker or an entry
\* with a wrong CRC, moves read_pos past it and calls itself.
ReadNextScan ==
    /\ cpc = "next"
    /\ \/ /\ read_pos >= write_pos
          /\ cpc' = "idle"
          /\ UNCHANGED <<read_pos, chdr>>
       \/ /\ read_pos < write_pos
          /\ \E h \in Headers(read_pos) :
                \/ /\ ~Acceptable(h)
                   /\ read_pos' = read_pos + h.size
                   /\ UNCHANGED <<cpc, chdr>>
                \/ /\ Acceptable(h)
                   /\ chdr' = h
                   /\ cpc' = "copy"
                   /\ UNCHANGED read_pos
    /\ UNCHANGED <<buf, write_pos, confirmed_pos, next_seq, producer, cur, cend,
                   carg, batch, hist, mode>>

\* The copy, the store to read_pos, and the return.
ReadNextCopy ==
    /\ cpc = "copy"
    /\ delivered' = Append(delivered, CopyOf(read_pos, chdr))
    /\ handed' = handed \cup {chdr.seq}
    /\ read_pos' = read_pos + chdr.size
    /\ chdr' = NoHeader
    /\ cpc' = "idle"
    /\ UNCHANGED <<buf, write_pos, confirmed_pos, next_seq, producer, cur, cend,
                   carg, batch, log, unmarked, asked, crashes, mode>>

----------------------------------------------------------------------------
(* The consumer: ReadUnconfirmed *)

\* Mutant: the scan starts at read_pos.
ReadUnconfirmedCall_FromReadPos ==
    /\ mode = "unconfirmed"
    /\ cpc = "idle"
    /\ cpc' = "unconfirmed"
    /\ cur' = read_pos
    /\ cend' = write_pos
    /\ batch' = <<>>
    /\ UNCHANGED <<ring, producer, chdr, carg, hist, mode>>

ReadUnconfirmedCall ==
    /\ mode = "unconfirmed"
    /\ cpc = "idle"
    /\ cpc' = "unconfirmed"
    /\ cur' = confirmed_pos
    /\ cend' = write_pos
    /\ batch' = <<>>
    /\ UNCHANGED <<ring, producer, chdr, carg, hist, mode>>

ReadUnconfirmedScan ==
    /\ cpc = "unconfirmed"
    /\ \/ /\ cur >= cend \/ Len(batch) = MaxCount
          /\ cpc' = "idle"
          /\ UNCHANGED <<cur, batch, handed>>
       \/ /\ cur < cend
          /\ Len(batch) < MaxCount
          /\ \E h \in Headers(cur) :
                /\ cur' = cur + h.size
                /\ \/ /\ ~Acceptable(h)
                      /\ UNCHANGED <<batch, handed>>
                   \/ /\ Acceptable(h)
                      /\ batch' = Append(batch, CopyOf(cur, h))
                      /\ handed' = handed \cup {h.seq}
          /\ UNCHANGED cpc
    /\ UNCHANGED <<ring, producer, cend, chdr, carg, log, delivered, unmarked, asked,
                   crashes, mode>>

----------------------------------------------------------------------------
(* The consumer: Confirm and ConfirmBatch *)

\* The application confirms an entry that ReadNext returned, or an entry of
\* the last ReadUnconfirmed together with the ones before it, which it then
\* forgets.
ConfirmCall(s) ==
    /\ cpc = "idle"
    /\ \/ /\ \E k \in DOMAIN delivered : delivered[k] = s
          /\ UNCHANGED batch
       \/ \E k \in DOMAIN batch :
             /\ batch[k] = s
             /\ batch' = SubSeq(batch, k + 1, Len(batch))
    /\ cpc' = "confirm"
    /\ carg' = s
    /\ cur' = confirmed_pos
    /\ cend' = write_pos
    /\ UNCHANGED <<ring, producer, chdr, hist, mode>>

\* Mutant: the scan does not stop at an entry with a larger seq, and a seq
\* it does not find confirms everything.
ConfirmScan_ToTheEnd ==
    /\ cpc = "confirm"
    /\ \/ /\ cur >= cend
          /\ confirmed_pos' = cur
          /\ cpc' = "idle"
          /\ carg' = 0
          /\ UNCHANGED cur
       \/ /\ cur < cend
          /\ \E h \in Headers(cur) :
                \/ /\ h.seq = carg
                   /\ confirmed_pos' = cur + h.size
                   /\ cpc' = "idle"
                   /\ carg' = 0
                   /\ UNCHANGED cur
                \/ /\ h.seq # carg
                   /\ cur' = cur + h.size
                   /\ UNCHANGED <<confirmed_pos, cpc, carg>>
    /\ UNCHANGED <<buf, write_pos, read_pos, next_seq, producer, cend, chdr, batch, hist,
                   mode>>

\* Mutant: the scan gives up at a skip marker.
ConfirmScan_StopsAtMarker ==
    /\ cpc = "confirm"
    /\ \/ /\ cur >= cend
          /\ cpc' = "idle"
          /\ carg' = 0
          /\ UNCHANGED <<confirmed_pos, cur>>
       \/ /\ cur < cend
          /\ \E h \in Headers(cur) :
                \/ /\ h.seq = carg
                   /\ confirmed_pos' = cur + h.size
                   /\ cpc' = "idle"
                   /\ carg' = 0
                   /\ UNCHANGED cur
                \/ /\ h.seq > carg \/ h.seq = 0
                   /\ cpc' = "idle"
                   /\ carg' = 0
                   /\ UNCHANGED <<confirmed_pos, cur>>
                \/ /\ h.seq < carg
                   /\ h.seq # 0
                   /\ cur' = cur + h.size
                   /\ UNCHANGED <<confirmed_pos, cpc, carg>>
    /\ UNCHANGED <<buf, write_pos, read_pos, next_seq, producer, cend, chdr, batch, hist,
                   mode>>

\* Confirm walks from confirmed_pos: past the matching entry, or nowhere.
ConfirmScan ==
    /\ cpc = "confirm"
    /\ \/ /\ cur >= cend
          /\ cpc' = "idle"
          /\ carg' = 0
          /\ UNCHANGED <<confirmed_pos, cur>>
       \/ /\ cur < cend
          /\ \E h \in Headers(cur) :
                \/ /\ h.seq = carg
                   /\ confirmed_pos' = cur + h.size
                   /\ cpc' = "idle"
                   /\ carg' = 0
                   /\ UNCHANGED cur
                \/ /\ h.seq > carg
                   /\ cpc' = "idle"
                   /\ carg' = 0
                   /\ UNCHANGED <<confirmed_pos, cur>>
                \/ /\ h.seq < carg
                   /\ cur' = cur + h.size
                   /\ UNCHANGED <<confirmed_pos, cpc, carg>>
    /\ UNCHANGED <<buf, write_pos, read_pos, next_seq, producer, cend, chdr, batch, hist,
                   mode>>

\* The application confirms the first n entries of the last ReadUnconfirmed
\* and forgets them.
ConfirmBatchCall(n) ==
    /\ cpc = "idle"
    /\ n \in 1 .. Len(batch)
    /\ cpc' = "confirmBatch"
    /\ carg' = n
    /\ cur' = confirmed_pos
    /\ cend' = write_pos
    /\ batch' = SubSeq(batch, n + 1, Len(batch))
    /\ UNCHANGED <<ring, producer, chdr, hist, mode>>

\* ConfirmBatch passes the markers without counting them and stores the
\* position it has reached.
ConfirmBatchScan ==
    /\ cpc = "confirmBatch"
    /\ \/ /\ cur >= cend \/ carg = 0
          /\ confirmed_pos' = cur
          /\ cpc' = "idle"
          /\ carg' = 0
          /\ UNCHANGED cur
       \/ /\ cur < cend
          /\ carg > 0
          /\ \E h \in Headers(cur) :
                /\ cur' = cur + h.size
                /\ carg' = IF h.seq # 0 /\ h.type THEN carg - 1 ELSE carg
          /\ UNCHANGED <<confirmed_pos, cpc>>
    /\ UNCHANGED <<buf, write_pos, read_pos, next_seq, producer, cend, chdr, batch, hist,
                   mode>>

\* The consumer process dies.
ConsumerCrash ==
    /\ cpc # "idle"
    /\ crashes < MaxCrashes
    /\ crashes' = crashes + 1
    /\ cpc' = "idle"
    /\ chdr' = NoHeader
    /\ carg' = 0
    /\ batch' = <<>>
    /\ UNCHANGED <<ring, producer, cur, cend, log, delivered, handed, unmarked, asked,
                   mode>>

----------------------------------------------------------------------------
ProducerStep ==
    \/ AppendBegin
    \/ WrapMark
    \/ WrapPublish
    \/ AppendFill
    \/ AppendPublish

ConsumerStep ==
    \/ ReadNextScan
    \/ ReadNextCopy
    \/ ReadUnconfirmedScan
    \/ ConfirmScan
    \/ ConfirmBatchScan

Next ==
    \/ \E z \in Sizes : AppendCall(z)
    \/ ProducerStep
    \/ ProducerCrash
    \/ ReadNextCall
    \/ ReadUnconfirmedCall
    \/ \E s \in 1 .. next_seq : ConfirmCall(s)
    \/ \E n \in 1 .. MaxCount : ConfirmBatchCall(n)
    \/ ConsumerStep
    \/ ConsumerCrash

Spec == Init /\ [][Next]_vars

\* A producer that keeps trying, and a consumer that keeps reading, confirms
\* what it has read and finishes what it begins.
LastDelivered == IF delivered = <<>> THEN 0 ELSE delivered[Len(delivered)]
FairSpec ==
    /\ Spec
    /\ WF_vars(ProducerStep)
    /\ WF_vars(ConsumerStep)
    /\ SF_vars(ReadNextCall)
    /\ SF_vars(ConfirmCall(LastDelivered))
    /\ SF_vars(ReadUnconfirmedCall)
    /\ SF_vars(ConfirmBatchCall(Len(batch)))

----------------------------------------------------------------------------
(* Properties.  The code stores no marker in a rest that is too short for   *)
(* the marker's header, and a consumer that comes to such a rest parses     *)
(* what an earlier round left there: from the first such rest on, the       *)
(* properties that speak of unmarked promise nothing.                       *)

\* ReadNext returns the appended entries in the order of their Append, none
\* lost, none twice and none damaged, across wraps and crashes of either
\* process, when the application confirms only what ReadNext returned, until
\* a rest was left without a marker.
DeliveredInOrder ==
    ~unmarked =>
        /\ Len(delivered) <= Len(log)
        /\ \A k \in DOMAIN delivered : delivered[k] = log[k].seq

\* Every entry that Append published and nobody confirmed is intact in the
\* buffer at its place, whatever the producer is storing meanwhile and
\* wherever the consumer has strayed.
UnconfirmedIntact ==
    \A k \in DOMAIN log :
        log[k].pos >= confirmed_pos =>
            \A u \in 0 .. log[k].size - 1 :
                buf[Offset(log[k].pos) + u] = Unit(log[k].seq, log[k].size, u)

\* What ReadUnconfirmed has collected when its loop has passed the position
\* cur: exactly the published entries between confirmed_pos and cur, in
\* order; so after a crash of the consumer nothing unconfirmed is missed, until
\* a rest was left without a marker.
EntriesBelow(pos) == Cardinality({j \in DOMAIN log : log[j].pos < pos})
RecoveryComplete ==
    ~unmarked /\ cpc = "unconfirmed" =>
        LET c == EntriesBelow(confirmed_pos)
        IN  batch = [k \in 1 .. EntriesBelow(cur) - c |-> log[c + k].seq]

\* The space of an entry is given back to the producer (Confirm and
\* ConfirmBatch move confirmed_pos past it) only after ReadNext or
\* ReadUnconfirmed has handed the entry to the consumer, until a rest was left
\* without a marker.
ConfirmedWereHanded ==
    ~unmarked => \A k \in DOMAIN log : log[k].pos < confirmed_pos => log[k].seq \in handed

\* A producer that keeps calling Append gets its entry in, as long as the
\* consumer keeps reading and confirming (docs/shm.md: the producer blocks
\* when the consumer does not confirm in time), or until a rest was left
\* without a marker: a consumer that strays may confirm beyond write_pos.
AppendSucceeds == ppc = "try" ~> (ppc = "idle" \/ unmarked)

============================================================================
