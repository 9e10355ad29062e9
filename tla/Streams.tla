------------------------------- MODULE Streams -------------------------------
(***************************************************************************)
(* What the streams of kernel/include/ktstream.h promise: a thread has at   *)
(* most one stream to read, from one writer, which it opens after the       *)
(* writer and may go on reading when the writer has closed; the next writer *)
(* has to wait until everybody has closed.                                  *)
(***************************************************************************)
EXTENDS Integers

CONSTANT Threads

VARIABLES writers,    \* who has the stream to a thread open for writing
          readers     \* how often a thread has its own stream open for reading

Init ==
    /\ writers = [d \in Threads |-> {}]
    /\ readers = [d \in Threads |-> 0]

CanWrite(t, d) == t # d /\ writers[d] = {} /\ readers[d] = 0
CanRead(d) == writers[d] # {}

OpenWriter(t, d) ==
    /\ CanWrite(t, d)
    /\ writers' = [writers EXCEPT ![d] = {t}]
    /\ UNCHANGED readers

OpenReader(d) ==
    /\ CanRead(d)
    /\ readers' = [readers EXCEPT ![d] = @ + 1]
    /\ UNCHANGED writers

CloseWriter(d) ==
    /\ writers[d] # {}
    /\ writers' = [writers EXCEPT ![d] = {}]
    /\ UNCHANGED readers

CloseReader(d) ==
    /\ readers[d] > 0
    /\ readers' = [readers EXCEPT ![d] = @ - 1]
    /\ UNCHANGED writers

Next ==
    \E d \in Threads :
        \/ \E t \in Threads : OpenWriter(t, d)
        \/ OpenReader(d)
        \/ CloseWriter(d)
        \/ CloseReader(d)

Spec == Init /\ [][Next]_<<writers, readers>>
=============================================================================
