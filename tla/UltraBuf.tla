------------------------------ MODULE UltraBuf ------------------------------
(***************************************************************************)
(* ultrabuf.h, ultrabuf.cpp: a byte buffer in a list of blocks, used by    *)
(* one thread.  A call is one step.                                        *)
(*                                                                         *)
(* Bytes are numbered in the order in which they are pushed, so that a     *)
(* byte out of place or from an earlier use of a block shows.  A block is  *)
(* reset when it is taken from the free list: of that list only the length *)
(* is kept, beside the counter m_empty_block_cnt that should agree with it.*)
(***************************************************************************)
EXTENDS Integers, SequencesExt

CONSTANTS BlockSize,   \* BLOCK_BUFFER_SIZE
          MaxBlockNo,  \* m_max_block_no, 0 for no limit
          PushSizes,   \* sizes the application pushes
          PullSizes,   \* sizes it asks pull and read for
          MaxBytes     \* bound: bytes pushed in all

ASSUME BufAssumption ==
    /\ BlockSize \in Nat \ {0}
    /\ MaxBlockNo \in Nat
    /\ PushSizes \subseteq Nat
    /\ PullSizes \subseteq Nat
    /\ MaxBytes \in Nat

EAGAIN == 11

VARIABLES
    blocks,   \* the list from m_head to m_tail
    free,     \* the length of the list from m_empty_head
    used_cnt, \* m_used_block_cnt
    empty_cnt,\* m_empty_block_cnt
    content,  \* m_content_size
    pushed,   \* history: bytes accepted so far
    ret,      \* the last call: what it returned, the bytes given or taken
    spanned   \* history: has a push needed more than one new block?

bufVars == <<blocks, free, used_cnt, empty_cnt, content, pushed, ret, spanned>>

NewBlock == [begin |-> 0, end |-> 0, buf |-> [o \in 0 .. BlockSize - 1 |-> 0]]
HeadBlock == blocks[1]

\* The bytes of a block between begin and end.
BytesOf(b) == [i \in 1 .. b.end - b.begin |-> b.buf[b.begin + i - 1]]

Concat(bs) == FlattenSeq([k \in DOMAIN bs |-> BytesOf(bs[k])])

GetSize == content
CntBlockUsed == used_cnt
CntBlockTotal == used_cnt + empty_cnt
GetCapacity == CntBlockTotal * BlockSize

IsBlockFull(tail, size) == tail.end + size >= BlockSize

IsFull(size) ==
    /\ MaxBlockNo # 0
    /\ used_cnt = MaxBlockNo
    /\ IsBlockFull(blocks[Len(blocks)], size)

IsEmpty == content < 1

BufInit ==
    /\ blocks = <<NewBlock>>
    /\ free = 0 /\ used_cnt = 1 /\ empty_cnt = 0 /\ content = 0
    /\ pushed = 0
    /\ ret = [call |-> "none", size |-> 0, value |-> 0, bytes |-> <<>>]
    /\ spanned = FALSE

Returns(call, size, value, bytes) ==
    ret' = [call |-> call, size |-> size, value |-> value, bytes |-> bytes]

----------------------------------------------------------------------------
(* push *)

\* Bytes first .. first + n - 1 stored at the end of a block.
StoredAt(b, first, n) ==
    [b EXCEPT !.buf = [o \in DOMAIN b.buf |->
                           IF o \in b.end .. b.end + n - 1
                           THEN first + o - b.end ELSE b.buf[o]],
              !.end = @ + n]

\* Mutant: the loop forgets to move data_front on, so that every block gets
\* the first bytes again.
Filled_FrontKept(tail, first, n) ==
    LET space == BlockSize - tail.end
        fill[r \in 0 .. n] ==
            IF IsBlockFull(NewBlock, r)
            THEN <<StoredAt(NewBlock, first, BlockSize)>> \o fill[r - BlockSize]
            ELSE <<StoredAt(NewBlock, first, r)>>
    IN IF IsBlockFull(tail, n)
       THEN <<StoredAt(tail, first, space)>> \o fill[n - space]
       ELSE <<StoredAt(tail, first, n)>>

\* The loop of push: what becomes of the tail, and the blocks appended to it,
\* of which fill[r] takes the last r bytes.  A block that the rest fills
\* exactly is followed by an empty one.
Filled(tail, first, n) ==
    LET space == BlockSize - tail.end
        fill[r \in 0 .. n] ==
            IF IsBlockFull(NewBlock, r)
            THEN <<StoredAt(NewBlock, first + n - r, BlockSize)>> \o fill[r - BlockSize]
            ELSE <<StoredAt(NewBlock, first + n - r, r)>>
    IN IF IsBlockFull(tail, n)
       THEN <<StoredAt(tail, first, space)>> \o fill[n - space]
       ELSE <<StoredAt(tail, first, n)>>

Push(size) ==
    LET k == Len(blocks)
        last == Filled(blocks[k], pushed + 1, size)
        new == Len(last) - 1
        reused == Min({new, free})
        given == [i \in 1 .. size |-> pushed + i]
    IN
    \/ /\ IsFull(size)
       /\ Returns("push", size, EAGAIN, given)
       /\ UNCHANGED <<blocks, free, used_cnt, empty_cnt, content, pushed, spanned>>
    \/ /\ ~IsFull(size)
       /\ pushed + size <= MaxBytes
       /\ blocks' = SubSeq(blocks, 1, k - 1) \o last
       /\ free' = free - reused
       /\ empty_cnt' = empty_cnt - reused
       /\ used_cnt' = used_cnt + new
       /\ content' = content + size
       /\ pushed' = pushed + size
       /\ spanned' = (spanned \/ new > 1)
       /\ Returns("push", size, size, given)

----------------------------------------------------------------------------
(* read, pull, copy_content, shrink_to_fit *)

\* How many blocks the loops of read and pull pass when they want n bytes:
\* a block that holds exactly what is left is not passed.
Passed(n) ==
    CHOOSE k \in 0 .. Len(blocks) - 1 :
        /\ Len(Concat(SubSeq(blocks, 1, k + 1))) >= n
        /\ \A j \in 0 .. k - 1 : Len(Concat(SubSeq(blocks, 1, j + 1))) < n

Taken(size) ==
    LET n == Min({size, content}) IN SubSeq(Concat(SubSeq(blocks, 1, Passed(n) + 1)), 1, n)

Read(size) ==
    /\ Returns("read", size, IF IsEmpty THEN 0 ELSE Min({size, content}),
               IF IsEmpty THEN <<>> ELSE Taken(size))
    /\ UNCHANGED <<blocks, free, used_cnt, empty_cnt, content, pushed, spanned>>

Advanced(b, n) == [b EXCEPT !.begin = @ + n]

\* The blocks passed go to the free list; the one pull ends in stays the
\* head, also when nothing is left in it.
Pull(size) ==
    LET n == Min({size, content})
        k == Passed(n)
        rest == n - Len(Concat(SubSeq(blocks, 1, k)))
    IN
    \/ /\ IsEmpty
       /\ Returns("pull", size, 0, <<>>)
       /\ UNCHANGED <<blocks, free, used_cnt, empty_cnt, content, pushed, spanned>>
    \/ /\ ~IsEmpty
       /\ Returns("pull", size, n, Taken(size))
       /\ blocks' = [SubSeq(blocks, k + 1, Len(blocks)) EXCEPT ![1] = Advanced(@, rest)]
       /\ free' = free + k
       /\ empty_cnt' = empty_cnt + k
       /\ used_cnt' = used_cnt - k
       /\ content' = content - n
       /\ UNCHANGED <<pushed, spanned>>

\* Mutant: a single byte is taken for none.
HasContent_OneIgnored(b) == b.end > b.begin + 1

HasContent(b) == b.end > b.begin

\* The loop ends at the first block without content.
CopyContent ==
    LET k == CHOOSE k \in 0 .. Len(blocks) :
                 /\ \A j \in 1 .. k : HasContent(blocks[j])
                 /\ k < Len(blocks) => ~HasContent(blocks[k + 1])
    IN
    /\ Returns("copy", 0, 0, Concat(SubSeq(blocks, 1, k)))
    /\ UNCHANGED <<blocks, free, used_cnt, empty_cnt, content, pushed, spanned>>

\* Mutant: the counter of the free blocks is not cleared.
ShrinkToFit_CountKept ==
    /\ free' = 0
    /\ UNCHANGED <<blocks, used_cnt, empty_cnt, content, pushed, ret, spanned>>

ShrinkToFit ==
    /\ free' = 0
    /\ empty_cnt' = 0
    /\ UNCHANGED <<blocks, used_cnt, content, pushed, ret, spanned>>

BufNext ==
    \/ \E size \in PushSizes : Push(size)
    \/ \E size \in PullSizes : Read(size) \/ Pull(size)
    \/ CopyContent
    \/ ShrinkToFit

BufSpec == BufInit /\ [][BufNext]_bufVars

----------------------------------------------------------------------------
(* Properties *)

\* With a limit the buffer never has more blocks, used and free together,
\* unless a push had to append more than one: is_full compares with ==, looks
\* only once per push, and is blind once the limit has been passed.
CapacityBounded == MaxBlockNo # 0 /\ ~spanned => CntBlockTotal <= MaxBlockNo

\* The values of the variables; the counters that is_full, get_size and
\* get_capacity answer from agree with the lists, and the tail always has
\* room, which push relies on when it computes space_left.
WellFormed ==
    /\ \A k \in DOMAIN blocks : 0 <= blocks[k].begin /\ blocks[k].begin <= blocks[k].end
    /\ \A k \in DOMAIN blocks : blocks[k].end = BlockSize <=> k < Len(blocks)
    /\ CntBlockUsed = Len(blocks)
    /\ empty_cnt = free
    /\ GetSize = Len(Concat(blocks)) /\ GetSize <= GetCapacity
    /\ CapacityBounded

Stream == INSTANCE ByteStream WITH
    stream <- Concat(blocks),
    Limited <- MaxBlockNo # 0,
    Room <- (MaxBlockNo - 1) * BlockSize,
    Refused <- EAGAIN

\* push, pull and read implement a byte stream: the bytes given to a push are
\* appended in their order, none lost and none twice, and come out so,
\* whatever blocks the bytes of a call are spread over and however often a
\* block was used before.  A push that takes nothing returns EAGAIN, and only
\* when the bytes would reach into the last block of the limit.
ImplementsStream == Stream!Spec

\* copy_content returns all bytes not yet pulled (docs/buffers.md: the whole
\* data), except after a pull that ended exactly at the end of a block: this
\* block stays the head, and the loop of copy_content ends at it.
CopyWhole ==
    ret.call = "copy" /\ HeadBlock.begin < BlockSize => ret.bytes = Concat(blocks)

============================================================================
