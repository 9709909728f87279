----------------------------- MODULE ByteStream -----------------------------
(***************************************************************************)
(* What a byte buffer promises: the bytes given to push leave it in the    *)
(* order in which they were given, none lost and none twice, whatever the  *)
(* sizes of the calls; a push takes all of its bytes, or says that it took *)
(* none.  Specification that UltraBuf is shown to implement.               *)
(***************************************************************************)
EXTENDS Integers, Sequences

CONSTANTS Limited,  \* may a push be refused?
          Room,     \* bytes that find room in a buffer that may refuse
          Refused   \* what push returns when it takes nothing

VARIABLES stream,  \* the bytes in the buffer, oldest first
          ret      \* the last call: its name, its size, what it returned and
                   \* the bytes it was given or gave

Init == stream = <<>> /\ ret = [call |-> "none", size |-> 0, value |-> 0, bytes |-> <<>>]

Front(n) == SubSeq(stream, 1, IF n < Len(stream) THEN n ELSE Len(stream))

\* The bytes given are appended as they are, or nothing changes and the
\* caller is told, which happens only when they would leave less than Room.
Push ==
    /\ ret'.call = "push" /\ ret'.size = Len(ret'.bytes)
    /\ \/ /\ stream' = stream \o ret'.bytes
          /\ ret'.value = ret'.size
       \/ /\ Limited /\ Len(stream) + ret'.size >= Room
          /\ ret'.value = Refused
          /\ UNCHANGED stream

\* read and pull give the oldest bytes, as many as asked for or there are.
Read ==
    /\ ret'.call = "read" /\ ret'.bytes = Front(ret'.size)
    /\ ret'.value = Len(ret'.bytes)
    /\ UNCHANGED stream

Pull ==
    /\ ret'.call = "pull" /\ ret'.bytes = Front(ret'.size)
    /\ ret'.value = Len(ret'.bytes)
    /\ stream' = SubSeq(stream, Len(ret'.bytes) + 1, Len(stream))

\* A copy is a prefix of the content (UltraBuf!CopyWhole says which).
Copy ==
    /\ ret'.call = "copy" /\ ret'.bytes = Front(Len(ret'.bytes))
    /\ UNCHANGED stream

Next == Push \/ Read \/ Pull \/ Copy

Spec == Init /\ [][Next]_<<stream, ret>>
============================================================================
