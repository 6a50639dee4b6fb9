---------------------------- MODULE LogChunkReader ----------------------------
(***************************************************************************)
(* logChunkReader (api/logchunkreader.go): reads an artifact from its      *)
(* logchunk rows, with at most one query per Read, and keeps what a query  *)
(* returned beyond the caller's slice in a read-ahead buffer.              *)
(*                                                                         *)
(* The byte at position p of the log is written p.  The rows tile the log  *)
(* (proved in ArtifactDurability) and a reader is opened while no append   *)
(* is half done; rows may be added behind the size it has copied.  What    *)
(* readers see otherwise is in ContentRequests.                            *)
(***************************************************************************)
EXTENDS Integers, Sequences

CONSTANTS
    Lens,           \* lengths of the slices a caller passes to Read
    MaxSize,        \* bound on the length of the log
    ReadAheads,     \* values of ReadaheadBytes; 0 is newLogChunkReader
    Faults          \* {"db"} when queries may fail

ASSUME LensAssumption == Lens \subseteq Nat
ASSUME SizeAssumption == MaxSize \in Nat
ASSUME ReadAheadAssumption == ReadAheads \subseteq Nat
ASSUME FaultAssumption == Faults \subseteq {"db"}

VARIABLES
    rows,       \* the logchunk rows of the artifact in order of byteoffset
    size,       \* artifact.Size, from the row bound to the request
    readAhead,
    offset,
    unread,     \* bytes a query has returned and no Read has delivered yet
    call,       \* the call of Read in progress
    result      \* what the last Read returned

vars == <<rows, size, readAhead, offset, unread, call, result>>

-----------------------------------------------------------------------------
\* The n bytes that follow position a.
Segment(a, n) == [i \in 1 .. n |-> a + i]

Least(a, b) == IF a < b THEN a ELSE b
Greatest(a, b) == IF a < b THEN b ELSE a

Row == [offset : Nat, size : Nat \ {0}]

EndOf(table) ==
    IF table = <<>> THEN 0 ELSE table[Len(table)].offset + table[Len(table)].size

NoResult == [bytes |-> <<>>, err |-> "nil"]

\* toRead is bytesToRead and buf what has been copied to p; then the rows and
\* bounds of the query, and the index of the loop over what it returned.
NoCall == [pc |-> "idle", toRead |-> 0, buf |-> <<>>, chunks |-> <<>>,
    from |-> 0, limit |-> 0, next |-> 1]

\* The WHERE clause of ListLogChunksInArtifact, which also returns a row that
\* ends where the range begins.
InRange(row, from, limit) == row.offset < limit /\ row.offset + row.size >= from

Init ==
    /\ rows = <<>> /\ size = 0
    /\ readAhead = 0 /\ offset = 0 /\ unread = <<>>
    /\ call = NoCall /\ result = NoResult

\* newLogChunkReader and newLogChunkReaderWithReadahead.
Open(ahead) ==
    /\ call.pc = "idle"
    /\ size' = EndOf(rows)
    /\ readAhead' = Least(size', ahead)
    /\ offset' = 0 /\ unread' = <<>>
    /\ result' = NoResult
    /\ UNCHANGED <<rows, call>>

\* AppendLogChunk of another request.
AppendRow(n) ==
    /\ EndOf(rows) + n <= MaxSize
    /\ rows' = Append(rows, [offset |-> EndOf(rows), size |-> n])
    /\ UNCHANGED <<size, readAhead, offset, unread, call, result>>

-----------------------------------------------------------------------------
(***************************************************************************)
(* Read.                                                                   *)
(***************************************************************************)

Return(bytes, err) ==
    /\ call' = NoCall
    /\ result' = [bytes |-> bytes, err |-> err]

AtEnd(position) == IF position = size THEN "EOF" ELSE "nil"

\* Read(p) with Len(p) = n up to its query: what the buffer holds comes first.
Read(n) ==
    LET count == Least(n, Len(unread))
        bytes == SubSeq(unread, 1, count)
        there == offset + count
        toRead == Least(size - there, n - count)
    IN  /\ call.pc = "idle"
        /\ offset' = there
        /\ unread' = SubSeq(unread, count + 1, Len(unread))
        /\ \/ n = 0 /\ Return(<<>>, "nil")
           \/ n > 0 /\ count = n /\ Return(bytes, AtEnd(there))
           \/ count < n /\ there >= size /\ Return(bytes, "EOF")
           \/ /\ count < n /\ there < size
              /\ call' = [NoCall EXCEPT !.pc = "query", !.toRead = toRead, !.buf = bytes]
              /\ UNCHANGED result
        /\ UNCHANGED <<rows, size, readAhead>>

Query ==
    /\ call.pc = "query"
    /\ \/ "db" \in Faults /\ Return(call.buf, "db")
       \/ /\ call' = [call EXCEPT !.pc = "loop", !.chunks = rows, !.from = offset,
                  !.limit = Least(size, offset + Greatest(call.toRead, readAhead))]
          /\ UNCHANGED result
    /\ UNCHANGED <<rows, size, readAhead, offset, unread>>

\* Mutant: what is left of a row that is used in part is not kept.
CopyAndForget(row) ==
    LET start == offset - row.offset
        take == Least(call.toRead, row.size - start)
        used == row.offset < offset + call.toRead /\ row.offset + row.size > offset
    IN  /\ offset' = IF used THEN offset + take ELSE offset
        /\ unread' = IF call.toRead = 0 THEN unread \o Segment(row.offset, row.size)
                     ELSE unread
        /\ call' = IF used
                   THEN [call EXCEPT !.next = @ + 1, !.toRead = @ - take,
                            !.buf = @ \o Segment(row.offset + start, take)]
                   ELSE [call EXCEPT !.next = @ + 1]

\* One round of the loop over the rows: a row behind the slice goes to the
\* buffer, one in the slice to p and what is left of it to the buffer.
Copy(row) ==
    LET start == offset - row.offset
        take == Least(call.toRead, row.size - start)
        used == row.offset < offset + call.toRead /\ row.offset + row.size > offset
    IN  /\ offset' = IF used THEN offset + take ELSE offset
        /\ unread' = (IF call.toRead = 0 THEN unread \o Segment(row.offset, row.size)
                      ELSE unread)
                     \o (IF used
                         THEN Segment(row.offset + start + take, row.size - start - take)
                         ELSE <<>>)
        /\ call' = IF used
                   THEN [call EXCEPT !.next = @ + 1, !.toRead = @ - take,
                            !.buf = @ \o Segment(row.offset + start, take)]
                   ELSE [call EXCEPT !.next = @ + 1]

NextRow ==
    /\ call.pc = "loop" /\ call.next <= Len(call.chunks)
    /\ LET row == call.chunks[call.next]
       IN  IF InRange(row, call.from, call.limit) THEN Copy(row)
           ELSE call' = [call EXCEPT !.next = @ + 1] /\ UNCHANGED <<offset, unread>>
    /\ UNCHANGED <<rows, size, readAhead, result>>

\* Every byte of the slice is reported, whether or not a row has filled it.
Finish ==
    /\ call.pc = "loop" /\ call.next > Len(call.chunks)
    /\ Return(call.buf \o [i \in 1 .. call.toRead |-> 0], AtEnd(offset))
    /\ UNCHANGED <<rows, size, readAhead, offset, unread>>

-----------------------------------------------------------------------------
(***************************************************************************)
(* Seek.                                                                   *)
(***************************************************************************)

\* Mutant: a target before the start is not refused.
SeekAnywhere(target) ==
    /\ call.pc = "idle"
    /\ target <= size
    /\ offset' = target /\ unread' = <<>>
    /\ UNCHANGED <<rows, size, readAhead, call, result>>

\* Mutant: the buffer survives a seek out of it.
SeekKeepingBuffer(target) ==
    /\ call.pc = "idle"
    /\ target \in 0 .. size
    /\ offset' = target
    /\ unread' = IF target >= offset /\ target - offset < Len(unread)
                 THEN SubSeq(unread, target - offset + 1, Len(unread)) ELSE unread
    /\ UNCHANGED <<rows, size, readAhead, call, result>>

\* setOffset; a target out of range is refused and changes nothing.
Seek(target) ==
    LET delta == target - offset
    IN  /\ call.pc = "idle"
        /\ target \in 0 .. size
        /\ offset' = target
        /\ unread' = IF delta >= 0 /\ delta < Len(unread)
                     THEN SubSeq(unread, delta + 1, Len(unread)) ELSE <<>>
        /\ UNCHANGED <<rows, size, readAhead, call, result>>

Next ==
    \/ \E ahead \in ReadAheads : Open(ahead)
    \/ \E n \in 1 .. MaxSize : AppendRow(n)
    \/ \E n \in Lens : Read(n)
    \/ Query \/ NextRow \/ Finish
    \/ \E target \in -1 .. MaxSize + 1 : Seek(target)

Spec == Init /\ [][Next]_vars

-----------------------------------------------------------------------------
(***************************************************************************)
(* Properties.                                                             *)
(***************************************************************************)

Calls == [pc : {"idle", "query", "loop"}, toRead : Nat, buf : Seq(Nat),
    chunks : Seq(Row), from : Nat, limit : Nat, next : Nat]

\* Every variable holds what its Go type allows.
TypeOK ==
    /\ rows \in Seq(Row) /\ size \in Nat /\ readAhead \in Nat
    /\ offset \in Nat /\ unread \in Seq(Nat)
    /\ call \in Calls
    /\ result \in [bytes : Seq(Nat), err : {"nil", "EOF", "db"}]

\* The buffer holds exactly the bytes that follow the offset, wherever Read
\* and Seek have left it.
BufferInStep == call.pc # "loop" => unread = Segment(offset, Len(unread))

\* logChunkReader is a reader of the log's bytes: it implements ByteReader.
\* While a Read is in progress, its position is where the call started.
Bytes == INSTANCE ByteReader WITH position <- offset - Len(call.buf)

IsByteReader == Bytes!Spec

=============================================================================
