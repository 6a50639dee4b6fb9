------------------------------ MODULE ByteReader ------------------------------
(***************************************************************************)
(* What the callers of logChunkReader rely on (http.ServeContent, goamz's  *)
(* PutReader, GetArtifactContentChunks): an io.ReadSeeker over the bytes   *)
(* of an artifact.  The byte at position p is written p.                   *)
(***************************************************************************)
EXTENDS Integers, Sequences

CONSTANT Lens      \* lengths of the slices a caller passes to Read

VARIABLES
    size,       \* length of the artifact
    position,   \* where the next Read starts
    result      \* what the last Read returned

vars == <<size, position, result>>

\* The n bytes that follow position a.
Segment(a, n) == [i \in 1 .. n |-> a + i]

Least(a, b) == IF a < b THEN a ELSE b

NoResult == [bytes |-> <<>>, err |-> "nil"]

Init == size = 0 /\ position = 0 /\ result = NoResult

\* A new reader, of a log that never gets shorter.
Open ==
    /\ size' \in Nat /\ size' >= size
    /\ position' = 0 /\ result' = NoResult

\* Read fills the slice or reaches the end.
Read(n) ==
    LET count == Least(n, size - position)
    IN  /\ n > 0
        /\ position' = position + count
        /\ result' = [bytes |-> Segment(position, count),
                      err |-> IF position + count = size THEN "EOF" ELSE "nil"]
        /\ UNCHANGED size

ReadNothing == result' = NoResult /\ UNCHANGED <<size, position>>

\* A Read that fails may have delivered bytes before.
ReadFails(n) ==
    \E count \in 0 .. Least(n, size - position) :
        /\ position' = position + count
        /\ result' = [bytes |-> Segment(position, count), err |-> "db"]
        /\ UNCHANGED size

Seek == position' \in 0 .. size /\ UNCHANGED <<size, result>>

Next == Open \/ Seek \/ ReadNothing \/ \E n \in Lens : Read(n) \/ ReadFails(n)

Spec == Init /\ [][Next]_vars

=============================================================================
