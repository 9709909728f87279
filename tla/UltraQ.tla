------------------------------- MODULE UltraQ -------------------------------
(***************************************************************************)
(* ultraq.h: a queue of variable-length messages in a list of blocks.      *)
(* push and pull each take the lock twice: is_full (is_empty) looks under  *)
(* the lock, gives it back, and the change is made under a second lock.    *)
(*                                                                         *)
(* The unit of size is the 8 bytes of a Header.  A block's buf maps the    *)
(* offset of a Header to the message stored there; the bytes are not told  *)
(* apart further.  The blocks of the free list are interchangeable, since  *)
(* a block taken from it is reset, and only their number is kept.  A       *)
(* message is the record of its number and its body_size.                  *)
(***************************************************************************)
EXTENDS Integers, SequencesExt

CONSTANTS Producers,   \* threads that call push
          Consumers,   \* threads that call pull
          BlockSize,   \* ULTRAQ_BLOCK_BUFFER_SIZE
          MaxBlockNo,  \* m_max_block_no, 0 for no limit
          BodySizes,   \* body sizes the application pushes
          MaxMessages  \* bound: messages the application asks to push

ASSUME ConstantsAssumption ==
    /\ BlockSize \in Nat \ {0}
    /\ MaxBlockNo \in Nat
    /\ BodySizes \subseteq Nat \ {0}
    /\ MaxMessages \in Nat

HeaderSize == 1

VARIABLES
    blocks,   \* the list from m_head to m_tail; <<>> once m_head is null
    free,     \* the length of the list from m_empty_head
    used_cnt, \* m_used_block_cnt
    content,  \* m_content_size
    ppc,      \* where each producer is in push
    msg,      \* the message it pushes
    cpc,      \* where each consumer is in pull
    asked,    \* history: messages so far
    got,      \* history: what the pulls returned, in order
    raced     \* history: have two producers passed is_full at a time?

queueVars == <<blocks, free, used_cnt, content, ppc, msg, cpc, asked, got, raced>>

NoMessage == [n |-> 0, size |-> 0]
NewBlock == [left |-> 0, right |-> 0,
             buf |-> [o \in 0 .. BlockSize - 1 |-> NoMessage]]

TailBlock == blocks[Len(blocks)]
HeadBlock == blocks[1]

IsBlockFull(size) == TailBlock.right + HeaderSize + size >= BlockSize
IsBlockEmpty(b) == b.left = b.right

\* Mutant: one block more than the limit is allowed.
IsFull_OneBlockMore(size) ==
    MaxBlockNo # 0 /\ used_cnt > MaxBlockNo /\ IsBlockFull(size)

\* The getters, and is_full and is_empty, each under the lock.
GetSize == content
CntBlockUsed == used_cnt
CntBlockTotal == used_cnt + free
GetCapacity == CntBlockTotal * BlockSize
IsFull(size) == MaxBlockNo # 0 /\ used_cnt = MaxBlockNo /\ IsBlockFull(size)
IsEmpty == Len(blocks) = 1 /\ HeadBlock.left = TailBlock.right

QueueInit ==
    /\ blocks = <<NewBlock>>
    /\ free = 0
    /\ used_cnt = 1
    /\ content = 0
    /\ ppc = [p \in Producers |-> "idle"]
    /\ msg = [p \in Producers |-> NoMessage]
    /\ cpc = [c \in Consumers |-> "idle"]
    /\ asked = 0
    /\ got = <<>>
    /\ raced = FALSE

----------------------------------------------------------------------------
(* push *)

\* The application has a message; while push returns 0 it calls it again
\* with the same one.
PushCall(p, size) ==
    /\ ppc[p] = "idle"
    /\ asked < MaxMessages
    /\ asked' = asked + 1
    /\ msg' = [msg EXCEPT ![p] = [n |-> asked + 1, size |-> size]]
    /\ ppc' = [ppc EXCEPT ![p] = "try"]
    /\ UNCHANGED <<blocks, free, used_cnt, content, cpc, got, raced>>

\* is_full says no, and the message is small enough for a block, or push
\* returns -1 and the message is dropped.
PushCheck(p) ==
    /\ ppc[p] = "try"
    /\ ~IsFull(msg[p].size)
    /\ ppc' = [ppc EXCEPT ![p] = IF msg[p].size > BlockSize - HeaderSize
                                 THEN "idle" ELSE "push"]
    /\ raced' = (raced \/ \E q \in Producers \ {p} : ppc[q] = "push")
    /\ UNCHANGED <<blocks, free, used_cnt, content, msg, cpc, asked, got>>

\* push_impl at the end of block b.
StoredAt(b, m) ==
    [b EXCEPT !.buf[b.right] = m, !.right = @ + HeaderSize + m.size]

\* Mutant: the new block replaces the tail instead of following it.
PushLocked_TailLost(p) ==
    LET m == msg[p] IN
    /\ ppc[p] = "push"
    /\ ppc' = [ppc EXCEPT ![p] = "idle"]
    /\ content' = content + m.size
    /\ \/ /\ ~IsBlockFull(m.size)
          /\ blocks' = [blocks EXCEPT ![Len(blocks)] = StoredAt(@, m)]
          /\ UNCHANGED <<free, used_cnt>>
       \/ /\ IsBlockFull(m.size)
          /\ blocks' = [blocks EXCEPT ![Len(blocks)] = StoredAt(NewBlock, m)]
          /\ free' = IF free > 0 THEN free - 1 ELSE 0
          /\ used_cnt' = used_cnt + 1
    /\ UNCHANGED <<msg, cpc, asked, got, raced>>

\* The change under the second lock: a full tail gets a successor, from the
\* free list or new, and the message goes to the tail.
PushLocked(p) ==
    LET m == msg[p] IN
    /\ ppc[p] = "push"
    /\ ppc' = [ppc EXCEPT ![p] = "idle"]
    /\ content' = content + m.size
    /\ \/ /\ ~IsBlockFull(m.size)
          /\ blocks' = [blocks EXCEPT ![Len(blocks)] = StoredAt(@, m)]
          /\ UNCHANGED <<free, used_cnt>>
       \/ /\ IsBlockFull(m.size)
          /\ blocks' = Append(blocks, StoredAt(NewBlock, m))
          /\ free' = IF free > 0 THEN free - 1 ELSE 0
          /\ used_cnt' = used_cnt + 1
    /\ UNCHANGED <<msg, cpc, asked, got, raced>>

----------------------------------------------------------------------------
(* pull *)

\* is_empty says no; otherwise pull returns 0 and changes nothing.
PullCheck(c) ==
    /\ cpc[c] = "idle"
    /\ blocks # <<>>
    /\ ~IsEmpty
    /\ cpc' = [cpc EXCEPT ![c] = "pull"]
    /\ UNCHANGED <<blocks, free, used_cnt, content, ppc, msg, asked, got,
                   raced>>

\* The blocks at the head of the list that pull's loop moves to the free list.
EmptyPrefix ==
    CHOOSE n \in 0 .. Len(blocks) :
        /\ \A k \in 1 .. n : IsBlockEmpty(blocks[k])
        /\ n < Len(blocks) => ~IsBlockEmpty(blocks[n + 1])

\* Mutant: the blocks that pull recycles are still counted as used.
PullLocked_CountKept(c) ==
    LET n == EmptyPrefix
        h == blocks[n + 1]
        m == h.buf[h.left]
    IN
    /\ cpc[c] = "pull"
    /\ cpc' = [cpc EXCEPT ![c] = "idle"]
    /\ free' = free + n
    /\ UNCHANGED used_cnt
    /\ n < Len(blocks)
    /\ blocks' = [SubSeq(blocks, n + 1, Len(blocks))
                      EXCEPT ![1].left = @ + HeaderSize + m.size]
    /\ content' = content - m.size
    /\ got' = Append(got, m)
    /\ UNCHANGED <<ppc, msg, asked, raced>>

\* The change under the second lock.  A list that has become empty in the
\* meantime is walked off its end: m_head is null, and the process is lost.
PullLocked(c) ==
    LET n == EmptyPrefix
        h == blocks[n + 1]
        m == h.buf[h.left]
    IN
    /\ cpc[c] = "pull"
    /\ cpc' = [cpc EXCEPT ![c] = "idle"]
    /\ free' = free + n
    /\ used_cnt' = used_cnt - n
    /\ \/ /\ n < Len(blocks)
          /\ blocks' = [SubSeq(blocks, n + 1, Len(blocks))
                            EXCEPT ![1].left = @ + HeaderSize + m.size]
          /\ content' = content - m.size
          /\ got' = Append(got, m)
       \/ /\ n = Len(blocks)
          /\ blocks' = <<>>
          /\ UNCHANGED <<content, got>>
    /\ UNCHANGED <<ppc, msg, asked, raced>>

----------------------------------------------------------------------------
QueueNext ==
    \/ /\ blocks # <<>>
       /\ \E p \in Producers :
             \/ \E size \in BodySizes : PushCall(p, size)
             \/ PushCheck(p)
             \/ PushLocked(p)
    \/ /\ blocks # <<>>
       /\ \E c \in Consumers : PullCheck(c) \/ PullLocked(c)

QueueSpec == QueueInit /\ [][QueueNext]_queueVars

\* Producers retry, consumers keep pulling, the lock is handed round.
FairQueueSpec ==
    /\ QueueSpec
    /\ \A p \in Producers : SF_queueVars(PushCheck(p)) /\ WF_queueVars(PushLocked(p))
    /\ \A c \in Consumers : SF_queueVars(PullCheck(c)) /\ WF_queueVars(PullLocked(c))

----------------------------------------------------------------------------
(* Properties *)

\* The messages of a block from left on, each found behind the one before.
Messages(b) ==
    LET from[o \in Nat] ==
            IF o >= b.right THEN <<>>
            ELSE <<b.buf[o]>> \o from[o + HeaderSize + b.buf[o].size]
    IN from[b.left]

ContentOf(bs) == FlattenSeq([k \in DOMAIN bs |-> Messages(bs[k])])

Message == [n : 1 .. MaxMessages, size : BodySizes]
Fifo == INSTANCE MessageFifo WITH queue <- ContentOf(blocks)

\* push and pull implement a FIFO queue: every message accepted is pulled
\* exactly once and in order, across block boundaries and recycled blocks,
\* by any number of producers and one consumer.
ImplementsFifo == Fifo!Spec

SumSizes(q) ==
    LET sum[i \in 0 .. Len(q)] == IF i = 0 THEN 0 ELSE sum[i - 1] + q[i].size
    IN sum[Len(q)]

\* The values of the variables.
TypeOK ==
    /\ \A k \in DOMAIN blocks :
           /\ blocks[k].left \in 0 .. BlockSize
           /\ blocks[k].right \in 0 .. BlockSize
    /\ free \in Nat
    /\ used_cnt \in Nat
    /\ content \in Nat
    /\ ppc \in [Producers -> {"idle", "try", "push"}]
    /\ msg \in [Producers -> [n : Nat, size : Nat]]
    /\ cpc \in [Consumers -> {"idle", "pull"}]
    /\ asked \in Nat
    /\ raced \in BOOLEAN

\* The counters that is_full, get_size and get_capacity answer from agree
\* with the lists: blocks in use, and bytes not yet pulled.
CountersAgree ==
    /\ CntBlockUsed = Len(blocks)
    /\ GetSize = SumSizes(ContentOf(blocks))
    /\ GetSize <= GetCapacity

\* The queue never takes more than max_block_no blocks, in use and free
\* together, unless two pushes have both found it not full before either
\* stored its message.
CapacityBounded == MaxBlockNo # 0 /\ ~raced => CntBlockTotal <= MaxBlockNo

\* The list is never empty, its counters agree with it, and it stays within
\* its limit, in every interleaving of the critical sections of push and pull
\* by several producers and one consumer.  (With two consumers both may find
\* the last message, and the second moves m_head behind the last block.)
WellFormed ==
    /\ TypeOK
    /\ blocks # <<>>
    /\ CountersAgree
    /\ CapacityBounded

\* A message that fits in a block does not block its producer for ever while
\* the consumer keeps pulling (the header comment: push may block if the
\* block is not larger than the message).
PushSucceeds ==
    \A p \in Producers :
        (ppc[p] = "try" /\ msg[p].size + HeaderSize < BlockSize) ~> ppc[p] = "idle"

============================================================================
