---------------------------- MODULE MessageFifo ----------------------------
(***************************************************************************)
(* What a message queue promises: a message accepted by a push comes out   *)
(* of exactly one pull, in the order of acceptance.  Specification that    *)
(* UltraQ is shown to implement.                                           *)
(***************************************************************************)
EXTENDS Sequences

CONSTANT Message

VARIABLES queue,  \* the messages in the queue, oldest first
          got     \* the message each pull so far returned, in order

Init == queue = <<>> /\ got = <<>>

Put(m) == queue' = Append(queue, m) /\ UNCHANGED got

Get ==
    /\ queue # <<>>
    /\ got' = Append(got, Head(queue))
    /\ queue' = Tail(queue)

Next == (\E m \in Message : Put(m)) \/ Get

Spec == Init /\ [][Next]_<<queue, got>>
============================================================================
