------------------------- MODULE LogChunkReaderProofs -------------------------
(***************************************************************************)
(* logChunkReader implements ByteReader, for logs, slices and read-ahead   *)
(* of any length: the inductive invariant and the proof of the refinement. *)
(***************************************************************************)
EXTENDS LogChunkReader, TLAPS

-----------------------------------------------------------------------------
(* What holds of the rows and of the reader.                               *)

\* Where row k starts if the rows before it leave no hole.
StartOf(table, k) == IF k = 1 THEN 0 ELSE table[k - 1].offset + table[k - 1].size

\* The rows follow one another, and the length a reader has copied lies
\* between two of them.
TableInv(table) ==
    /\ \A i \in 1 .. Len(table) :
        /\ table[i].offset = StartOf(table, i)
        /\ table[i].offset + table[i].size <= EndOf(table)
        /\ table[i].offset < size => table[i].offset + table[i].size <= size
    /\ size <= EndOf(table)

\* The buffer continues at the offset and does not reach beyond the copied length.
BufferInv == unread = Segment(offset, Len(unread)) /\ offset + Len(unread) <= size

\* A Read in progress has the bytes before the offset, and asks for no more
\* than the slice and the log have.
CallInv ==
    /\ Len(call.buf) <= offset
    /\ call.buf = Segment(offset - Len(call.buf), Len(call.buf))
    /\ \E n \in Lens : n > 0 /\
        Len(call.buf) + call.toRead = Least(n, size - (offset - Len(call.buf)))

\* The loop over the rows: those before the slice are skipped, those of the
\* slice copied without a hole, and the buffer takes what follows it.
LoopInv ==
    LET next == StartOf(call.chunks, call.next)
    IN  /\ call.next \in 1 .. Len(call.chunks) + 1
        /\ call.limit <= size
        /\ call.from <= offset
        /\ offset + call.toRead <= call.limit
        /\ call.toRead > 0 => offset = Greatest(call.from, next) /\ unread = <<>>
        /\ call.toRead = 0 =>
            BufferInv /\ (offset + Len(unread) = next \/ next >= call.limit)

IInv ==
    /\ TypeOK
    /\ TableInv(rows)
    /\ offset <= size
    /\ call.pc = "idle" => call = NoCall
    /\ call.pc # "loop" => BufferInv
    /\ call.pc = "query" => unread = <<>> /\ call.toRead > 0 /\ call.next = 1
    /\ call.pc # "idle" => CallInv
    /\ call.pc = "loop" => TableInv(call.chunks) /\ LoopInv

-----------------------------------------------------------------------------
(* Segments of the log.                                                    *)

LEMMA LeastNat ==
    ASSUME NEW a \in Nat, NEW b \in Nat
    PROVE  Least(a, b) \in Nat /\ Least(a, b) <= a /\ Least(a, b) <= b
BY DEF Least

LEMMA SegmentType ==
    ASSUME NEW a \in Nat, NEW n \in Nat
    PROVE  Segment(a, n) \in Seq(Nat) /\ Len(Segment(a, n)) = n
BY DEF Segment

\* A segment without a byte, wherever it starts.
LEMMA SegmentEmpty ==
    ASSUME NEW a, NEW b, NEW s \in Seq(Nat), s = Segment(a, 0)
    PROVE  s = <<>> /\ s = Segment(b, 0)
BY DEF Segment

\* A sequence is a segment if each of its elements is in its place.
LEMMA SegmentIs ==
    ASSUME NEW a \in Nat, NEW s \in Seq(Nat)
    PROVE  s = Segment(a, Len(s)) <=> \A i \in 1 .. Len(s) : s[i] = a + i
BY DEF Segment

\* What follows a segment makes it longer.
LEMMA SegmentJoin ==
    ASSUME NEW a \in Nat, NEW s \in Seq(Nat), NEW t \in Seq(Nat),
           s = Segment(a, Len(s)), t = Segment(a + Len(s), Len(t))
    PROVE  s \o t = Segment(a, Len(s) + Len(t))
<1>1. PICK u : u = s \o t
    OBVIOUS
<1>2. u \in Seq(Nat) /\ Len(u) = Len(s) + Len(t)
    BY <1>1
<1>3. ASSUME NEW i \in 1 .. Len(u) PROVE u[i] = a + i
    <2>1. CASE i <= Len(s)
        BY <1>1, <1>2, <2>1, SegmentIs
    <2>2. CASE i > Len(s)
        <3>1. PICK j : j = i - Len(s)
            OBVIOUS
        <3>2. j \in 1 .. Len(t) /\ u[i] = t[j]
            BY <1>1, <1>2, <2>2, <3>1
        <3>3. a + Len(s) \in Nat /\ \A k \in 1 .. Len(t) : t[k] = a + Len(s) + k
            BY SegmentIs
        <3>4. QED
            BY <1>2, <3>1, <3>2, <3>3
    <2>3. QED
        BY <1>2, <2>1, <2>2
<1>4. QED
    BY <1>1, <1>2, <1>3, SegmentIs

\* The two parts of a segment.
LEMMA SegmentTake ==
    ASSUME NEW a \in Nat, NEW s \in Seq(Nat), s = Segment(a, Len(s)),
           NEW c \in 0 .. Len(s)
    PROVE  /\ SubSeq(s, 1, c) \in Seq(Nat) /\ Len(SubSeq(s, 1, c)) = c
           /\ SubSeq(s, 1, c) = Segment(a, c)
<1>1. PICK u : u = SubSeq(s, 1, c)
    OBVIOUS
<1>2. u \in Seq(Nat) /\ Len(u) = c /\ \A k \in 1 .. c : u[k] = s[k]
    BY <1>1
<1>3. \A k \in 1 .. Len(s) : s[k] = a + k
    BY SegmentIs
<1>4. ASSUME NEW k \in 1 .. Len(u) PROVE u[k] = a + k
    <2>1. k \in 1 .. c /\ k \in 1 .. Len(s)
        BY <1>2
    <2>2. u[k] = s[k] /\ s[k] = a + k
        BY <1>2, <1>3, <2>1
    <2>3. QED
        BY <2>2
<1>5. u = Segment(a, Len(u))
    BY <1>2, <1>4, SegmentIs
<1>6. QED
    BY <1>1, <1>2, <1>5

LEMMA SegmentDrop ==
    ASSUME NEW a \in Nat, NEW s \in Seq(Nat), s = Segment(a, Len(s)),
           NEW c \in 0 .. Len(s)
    PROVE  /\ SubSeq(s, c + 1, Len(s)) \in Seq(Nat)
           /\ Len(SubSeq(s, c + 1, Len(s))) = Len(s) - c
           /\ SubSeq(s, c + 1, Len(s)) = Segment(a + c, Len(s) - c)
<1>1. PICK u : u = SubSeq(s, c + 1, Len(s))
    OBVIOUS
<1>2. u \in Seq(Nat) /\ Len(u) = Len(s) - c
    BY <1>1
<1>3. ASSUME NEW k \in 1 .. Len(u) PROVE u[k] = a + c + k
    <2>1. PICK p : p = c + k
        OBVIOUS
    <2>2. p \in 1 .. Len(s)
        BY <1>2, <2>1
    <2>3. u[k] = s[p]
        BY <1>1, <1>2, <2>1
    <2>4. s[p] = a + p
        BY <2>2, SegmentIs
    <2>5. QED
        BY <2>1, <2>3, <2>4
<1>4. a + c \in Nat
    OBVIOUS
<1>5. u = Segment(a + c, Len(u))
    BY <1>2, <1>3, <1>4, SegmentIs
<1>6. QED
    BY <1>1, <1>2, <1>5

-----------------------------------------------------------------------------
(* The rows.                                                               *)

LEMMA EndType ==
    ASSUME NEW table \in Seq(Row)
    PROVE  /\ EndOf(table) \in Nat /\ EndOf(table) = StartOf(table, Len(table) + 1)
           /\ \A i \in 1 .. Len(table) :
                /\ table[i].offset \in Nat /\ table[i].size \in Nat /\ table[i].size > 0
                /\ StartOf(table, i + 1) = table[i].offset + table[i].size
<1>1. ASSUME NEW i \in 1 .. Len(table)
      PROVE  table[i].offset \in Nat /\ table[i].size \in Nat \ {0}
    <2>1. table[i] \in Row
        OBVIOUS
    <2>2. QED
        BY <2>1 DEF Row
<1>2. Len(table) \in Nat /\ (table # <<>> => Len(table) \in 1 .. Len(table))
    OBVIOUS
<1>3. QED
    BY <1>1, <1>2 DEF EndOf, StartOf

\* A new row continues the table behind the length a reader has copied.
LEMMA AppendTable ==
    ASSUME TypeOK, TableInv(rows), NEW n \in 1 .. MaxSize,
           rows' = Append(rows, [offset |-> EndOf(rows), size |-> n]), size' = size
    PROVE  TableInv(rows)' /\ rows' \in Seq(Row)
<1>1. PICK row : row = [offset |-> EndOf(rows), size |-> n]
    OBVIOUS
<1>2. PICK table : table = rows'
    OBVIOUS
<1>3. rows \in Seq(Row) /\ size \in Nat /\ EndOf(rows) \in Nat /\ n \in Nat \ {0}
    BY SizeAssumption, EndType DEF TypeOK
<1>4. row \in Row /\ row.offset = EndOf(rows) /\ row.size = n
    BY <1>1, <1>3 DEF Row
<1>5. table = Append(rows, row) /\ Len(rows) \in Nat
    BY <1>1, <1>2, <1>3
<1>6. table \in Seq(Row) /\ Len(table) = Len(rows) + 1 /\ table[Len(table)] = row
    BY <1>3, <1>4, <1>5
<1>7. \A i \in 1 .. Len(rows) : table[i] = rows[i]
    BY <1>3, <1>4, <1>5
<1>8. EndOf(table) = EndOf(rows) + n
    BY <1>4, <1>5, <1>6 DEF EndOf
<1>9. ASSUME NEW i \in 1 .. Len(table)
      PROVE  /\ table[i].offset = StartOf(table, i)
             /\ table[i].offset + table[i].size <= EndOf(table)
             /\ table[i].offset < size => table[i].offset + table[i].size <= size
    <2>1. CASE i \in 1 .. Len(rows)
        <3>1. StartOf(table, i) = StartOf(rows, i)
            BY <1>5, <1>7, <2>1 DEF StartOf
        <3>2. table[i] = rows[i] /\ rows[i].offset \in Nat /\ rows[i].size \in Nat
            BY <1>3, <1>7, <2>1, EndType
        <3>3. /\ rows[i].offset = StartOf(rows, i)
              /\ rows[i].offset + rows[i].size <= EndOf(rows)
              /\ rows[i].offset < size => rows[i].offset + rows[i].size <= size
            BY <2>1 DEF TableInv
        <3>4. QED
            BY <1>3, <1>8, <3>1, <3>2, <3>3
    <2>2. CASE i = Len(rows) + 1
        <3>1. StartOf(table, i) = StartOf(rows, i)
            BY <1>5, <1>7, <2>2 DEF StartOf
        <3>2. StartOf(rows, i) = EndOf(rows)
            BY <1>3, <2>2, EndType
        <3>3. table[i] = row
            BY <1>6, <2>2
        <3>4. size <= EndOf(rows)
            BY DEF TableInv
        <3>5. QED
            BY <1>3, <1>4, <1>8, <3>1, <3>2, <3>3, <3>4
    <2>3. QED
        BY <1>5, <1>6, <2>1, <2>2
<1>10. size <= EndOf(table)
    BY <1>3, <1>8 DEF TableInv
<1>11. QED
    BY <1>2, <1>6, <1>9, <1>10 DEF TableInv, StartOf, EndOf

-----------------------------------------------------------------------------
(* The reader.                                                             *)

LEMMA OpenKeeps ==
    ASSUME IInv, NEW ahead \in ReadAheads, Open(ahead)
    PROVE  IInv'
<1>1. /\ rows \in Seq(Row) /\ EndOf(rows) \in Nat /\ ahead \in Nat
      /\ \A i \in 1 .. Len(rows) : rows[i].offset \in Nat /\ rows[i].size \in Nat
    BY EndType, ReadAheadAssumption DEF IInv, TypeOK
<1>2. TypeOK'
    BY <1>1 DEF IInv, TypeOK, Open, Least, NoResult
<1>3. TableInv(rows)'
    BY <1>1 DEF IInv, TableInv, Open, StartOf, EndOf
<1>4. BufferInv'
    BY <1>1 DEF Open, BufferInv, Segment
<1>5. QED
    BY <1>1, <1>2, <1>3, <1>4 DEF IInv, Open

LEMMA AppendRowKeeps ==
    ASSUME IInv, NEW n \in 1 .. MaxSize, AppendRow(n)
    PROVE  IInv'
<1>1. TableInv(rows)' /\ rows' \in Seq(Row)
    BY AppendTable DEF IInv, AppendRow
<1>2. TypeOK'
    BY <1>1 DEF IInv, TypeOK, AppendRow
<1>3. UNCHANGED <<size, offset, unread, call>>
    BY DEF AppendRow
<1>4. TableInv(call.chunks) => TableInv(call.chunks)'
    BY <1>3 DEF TableInv, StartOf, EndOf
<1>5. (BufferInv <=> BufferInv') /\ (CallInv <=> CallInv') /\ (LoopInv <=> LoopInv')
    BY <1>3 DEF BufferInv, CallInv, LoopInv, StartOf
<1>6. QED
    BY <1>1, <1>2, <1>3, <1>4, <1>5 DEF IInv

LEMMA SeekKeeps ==
    ASSUME IInv, NEW target \in Int, Seek(target)
    PROVE  IInv'
<1>1. /\ call = NoCall /\ BufferInv /\ size \in Nat /\ offset \in Nat /\ target \in Nat
      /\ target <= size /\ unread \in Seq(Nat) /\ Len(unread) \in Nat /\ offset <= size
    BY DEF IInv, TypeOK, Seek
<1>2. UNCHANGED <<rows, size, call>> /\ offset' = target /\ NoCall.pc = "idle"
    BY DEF Seek, NoCall
<1>3. BufferInv' /\ unread' \in Seq(Nat)
    <2>1. CASE unread' = <<>>
        BY <1>1, <1>2, <2>1 DEF BufferInv, Segment
    <2>2. CASE target >= offset /\ target - offset < Len(unread)
                /\ unread' = SubSeq(unread, target - offset + 1, Len(unread))
        <3>1. PICK c : c = target - offset
            OBVIOUS
        <3>2. c \in 0 .. Len(unread) /\ unread' = SubSeq(unread, c + 1, Len(unread))
            BY <1>1, <2>2, <3>1
        <3>3. /\ unread' \in Seq(Nat) /\ Len(unread') = Len(unread) - c
              /\ unread' = Segment(offset + c, Len(unread) - c)
            BY <1>1, <3>2, SegmentDrop DEF BufferInv
        <3>4. offset + c = target /\ target + Len(unread') = offset + Len(unread)
            BY <1>1, <3>1, <3>3
        <3>5. QED
            BY <1>1, <1>2, <3>3, <3>4 DEF BufferInv
    <2>3. QED
        BY <1>1, <2>1, <2>2 DEF Seek
<1>4. TypeOK'
    BY <1>1, <1>2, <1>3 DEF IInv, TypeOK, Seek
<1>5. TableInv(rows)'
    BY <1>2 DEF IInv, TableInv, StartOf, EndOf
<1>6. QED
    BY <1>1, <1>2, <1>3, <1>4, <1>5 DEF IInv

\* What the buffer gives to a Read, and what is left of it.
Served(n, count, bytes, there, rest) ==
    /\ count \in Nat /\ count <= n /\ count <= Len(unread)
    /\ there \in Nat /\ there <= size
    /\ bytes \in Seq(Nat) /\ Len(bytes) = count /\ bytes = Segment(offset, count)
    /\ rest \in Seq(Nat) /\ Len(rest) = Len(unread) - count
    /\ rest = Segment(there, Len(rest)) /\ there + Len(rest) <= size

LEMMA FromBuffer ==
    ASSUME IInv, call.pc # "loop", NEW n \in Nat
    PROVE  \E count, bytes, there, rest :
            /\ count = Least(n, Len(unread)) /\ there = offset + count
            /\ bytes = SubSeq(unread, 1, count) /\ rest = SubSeq(unread, count + 1, Len(unread))
            /\ Served(n, count, bytes, there, rest)
<1> PICK count : count = Least(n, Len(unread))
    OBVIOUS
<1> PICK bytes : bytes = SubSeq(unread, 1, count)
    OBVIOUS
<1> PICK rest : rest = SubSeq(unread, count + 1, Len(unread))
    OBVIOUS
<1> PICK there : there = offset + count
    OBVIOUS
<1>1. unread \in Seq(Nat) /\ offset \in Nat /\ size \in Nat
    BY DEF IInv, TypeOK
<1>2. unread = Segment(offset, Len(unread))
    BY DEF IInv, BufferInv
<1>3. PICK length \in Nat : length = Len(unread) /\ offset + length <= size
    BY <1>1 DEF IInv, BufferInv
<1>4. count \in Nat /\ count <= length /\ count <= n
    BY <1>3, LeastNat
<1>5. /\ count \in 0 .. length /\ there <= size /\ there \in Nat
      /\ there + (length - count) <= size
    <2>1. offset \in Nat /\ size \in Nat /\ there = offset + count
        BY <1>1
    <2>2. offset + length <= size /\ count \in Nat /\ count <= length
        BY <1>3, <1>4
    <2>3. count \in 0 .. length /\ length - count \in Nat
        BY <1>3, <2>2
    <2>4. offset + count \in Nat /\ offset + count <= size
        BY <1>3, <2>1, <2>2
    <2>5. (offset + count) + (length - count) <= size
        BY <1>3, <2>1, <2>2
    <2>6. QED
        BY <2>1, <2>3, <2>4, <2>5
<1>6. count \in 0 .. Len(unread)
    BY <1>3, <1>5
<1>7. bytes \in Seq(Nat) /\ Len(bytes) = count /\ bytes = Segment(offset, count)
    BY <1>1, <1>2, <1>6, SegmentTake
<1>8. rest \in Seq(Nat) /\ Len(rest) = Len(unread) - count /\ rest = Segment(there, Len(unread) - count)
    BY <1>1, <1>2, <1>6, SegmentDrop
<1>9. Len(rest) = length - count /\ rest = Segment(there, Len(rest))
    BY <1>3, <1>8
<1>10. there + Len(rest) <= size
    BY <1>5, <1>9
<1>11. count <= Len(unread)
    BY <1>3, <1>4
<1>12. Served(n, count, bytes, there, rest)
    BY <1>4, <1>5, <1>7, <1>8, <1>9, <1>10, <1>11, Zenon DEF Served
<1>13. QED
    BY <1>12, Zenon

LEMMA NoCallType == NoCall \in Calls /\ NoCall.pc = "idle" /\ Len(NoCall.buf) = 0
BY DEF NoCall, Calls

LEMMA ReadKeeps ==
    ASSUME IInv, NEW n \in Lens, Read(n)
    PROVE  IInv'
<1>1. n \in Nat /\ size \in Nat /\ offset \in Nat /\ Len(unread) \in Nat /\ call.pc = "idle"
    BY LensAssumption DEF IInv, TypeOK, Read
<1>2. PICK count, bytes, there, rest :
            /\ count = Least(n, Len(unread)) /\ there = offset + count
            /\ bytes = SubSeq(unread, 1, count) /\ rest = SubSeq(unread, count + 1, Len(unread))
            /\ Served(n, count, bytes, there, rest)
    <2>1. call.pc # "loop"
        BY <1>1
    <2>2. QED
        BY <1>1, <2>1, FromBuffer
<1>3. size \in Nat /\ offset \in Nat /\ n \in Nat /\ Len(unread) \in Nat
    BY <1>1
<1>4. /\ count \in Nat /\ count <= n /\ count <= Len(unread)
      /\ there \in Nat /\ there <= size
      /\ bytes \in Seq(Nat) /\ Len(bytes) = count /\ bytes = Segment(offset, count)
      /\ rest \in Seq(Nat) /\ Len(rest) = Len(unread) - count
      /\ rest = Segment(there, Len(rest)) /\ there + Len(rest) <= size
    BY <1>2 DEF Served
<1>5. UNCHANGED <<rows, size, readAhead>> /\ offset' = there /\ unread' = rest
    BY <1>2 DEF Read
<1>6. BufferInv' /\ offset' <= size'
    BY <1>3, <1>4, <1>5 DEF BufferInv, IInv
<1>7. TableInv(rows)'
    BY <1>5 DEF IInv, TableInv, StartOf, EndOf
<1>8. CASE \E b \in {<<>>, bytes}, err \in {"nil", "EOF"} : Return(b, err)
    <2>1. PICK b, err : Return(b, err) /\ b \in {<<>>, bytes} /\ err \in {"nil", "EOF"}
        BY <1>8
    <2>2. call' = NoCall /\ result' \in [bytes : Seq(Nat), err : {"nil", "EOF", "db"}]
        <3>1. b \in Seq(Nat) /\ err \in {"nil", "EOF", "db"}
            <4>1. bytes \in Seq(Nat)
                BY <1>4
            <4>2. <<>> \in Seq(Nat)
                OBVIOUS
            <4>3. QED
                BY <2>1, <4>1, <4>2, Zenon
        <3>2. QED
            BY <2>1, <3>1 DEF Return
    <2>3. TypeOK'
        BY <1>4, <1>5, <2>2, NoCallType DEF IInv, TypeOK
    <2>4. QED
        BY <1>6, <1>7, <2>2, <2>3, NoCallType DEF IInv
<1>9. ASSUME NEW toRead, toRead = Least(size - there, n - count), count < n, there < size,
             call' = [NoCall EXCEPT !.pc = "query", !.toRead = toRead, !.buf = bytes],
             UNCHANGED result
      PROVE  IInv'
    <2>1. PICK C : C = [NoCall EXCEPT !.pc = "query", !.toRead = toRead, !.buf = bytes]
        OBVIOUS
    <2>2. toRead \in Nat /\ toRead > 0 /\ count + toRead = Least(n, size - offset)
        <3>1. there = offset + count
            BY <1>2
        <3>2. size - there \in Nat /\ n - count \in Nat /\ size - there > 0 /\ n - count > 0
            BY <1>3, <1>4, <1>9
        <3>3. size - offset = count + (size - there) /\ n = count + (n - count)
            BY <1>3, <1>4, <3>1
        <3>4. count \in Nat
            BY <1>4
        <3>5. QED
            BY <1>9, <3>2, <3>3, <3>4 DEF Least
    <2>3. /\ C \in Calls /\ C.pc = "query" /\ C.toRead = toRead /\ C.buf = bytes
          /\ C.next = 1
        <3>1. <<>> \in Seq(Row) /\ 0 \in Nat /\ 1 \in Nat
            OBVIOUS
        <3>2. QED
            BY <1>4, <2>1, <2>2, <3>1 DEF NoCall, Calls
    <2>4. call' = C
        BY <1>9, <2>1
    <2>5. TypeOK'
        BY <1>4, <1>5, <1>9, <2>3, <2>4 DEF IInv, TypeOK
    <2>6. unread' = <<>>
        <3>1. Len(unread) - count = 0
            BY <1>2, <1>3, <1>9 DEF Least
        <3>2. QED
            BY <1>4, <1>5, <3>1
    <2>7. there - count = offset /\ count <= there
        <3>1. there = offset + count
            BY <1>2
        <3>2. count \in Nat
            BY <1>4
        <3>3. QED
            BY <1>3, <3>1, <3>2
    <2>8. CallInv'
        <3>1. n > 0
            BY <1>3, <1>4, <1>9
        <3>2. QED
            BY <1>4, <1>5, <2>2, <2>3, <2>4, <2>7, <3>1 DEF CallInv
    <2>9. QED
        BY <1>6, <1>7, <2>2, <2>3, <2>4, <2>5, <2>6, <2>8 DEF IInv
<1>10. \/ \E b \in {<<>>, bytes}, err \in {"nil", "EOF"} : Return(b, err)
       \/ \E toRead :
            /\ toRead = Least(size - there, n - count) /\ count < n /\ there < size
            /\ call' = [NoCall EXCEPT !.pc = "query", !.toRead = toRead, !.buf = bytes]
            /\ UNCHANGED result
    BY <1>2 DEF Read, AtEnd
<1>11. QED
    BY <1>8, <1>9, <1>10

LEMMA QueryKeeps ==
    ASSUME IInv, Query
    PROVE  IInv'
<1>1. PICK C \in Calls : C = call
    BY DEF IInv, TypeOK
<1>2. /\ C.pc = "query" /\ BufferInv /\ CallInv /\ unread = <<>> /\ C.toRead > 0
      /\ C.toRead \in Nat /\ C.buf \in Seq(Nat) /\ C.next = 1
      /\ size \in Nat /\ offset \in Nat /\ readAhead \in Nat /\ offset <= size
      /\ rows \in Seq(Row) /\ TableInv(rows)
    BY <1>1 DEF IInv, TypeOK, Query, Calls
<1>3. UNCHANGED <<rows, size, readAhead, offset, unread>>
    BY DEF Query
<1>4. TableInv(rows)' /\ BufferInv'
    BY <1>2, <1>3 DEF TableInv, StartOf, EndOf, BufferInv
<1>5. CASE Return(C.buf, "db")
    <2>1. TypeOK'
        BY <1>2, <1>3, <1>5, NoCallType DEF IInv, TypeOK, Return
    <2>2. QED
        BY <1>2, <1>3, <1>4, <1>5, <2>1, NoCallType DEF IInv, Return
<1>6. ASSUME NEW limit, limit = Least(size, offset + Greatest(C.toRead, readAhead)),
             call' = [C EXCEPT !.pc = "loop", !.chunks = rows, !.from = offset, !.limit = limit],
             UNCHANGED result
      PROVE  IInv'
    <2>1. PICK D : D = [C EXCEPT !.pc = "loop", !.chunks = rows, !.from = offset, !.limit = limit]
        OBVIOUS
    <2>2. \E n \in Lens : Len(C.buf) + C.toRead = Least(n, size - (offset - Len(C.buf)))
        BY <1>1, <1>2 DEF CallInv
    <2>3. offset + C.toRead <= size
        BY <1>2, <2>2, LensAssumption DEF Least
    <2>4. limit \in Nat /\ limit <= size /\ offset + C.toRead <= limit
        BY <1>2, <1>6, <2>3 DEF Least, Greatest
    <2>5. /\ D \in Calls /\ D.pc = "loop" /\ D.chunks = rows /\ D.from = offset
          /\ D.limit = limit /\ D.toRead = C.toRead /\ D.buf = C.buf /\ D.next = 1
        BY <1>2, <1>6, <2>1, <2>4 DEF Calls
    <2>6. call' = D
        BY <1>6, <2>1
    <2>7. TypeOK'
        BY <1>3, <1>6, <2>5, <2>6 DEF IInv, TypeOK
    <2>8. CallInv'
        BY <1>1, <1>2, <1>3, <2>5, <2>6 DEF CallInv
    <2>9. LoopInv'
        <3>1. Greatest(offset, 0) = offset /\ 1 \in 1 .. Len(rows) + 1
            BY <1>2 DEF Greatest
        <3>2. QED
            BY <1>2, <1>3, <2>4, <2>5, <2>6, <3>1 DEF LoopInv, StartOf
    <2>10. TableInv(call.chunks)'
        BY <1>2, <1>3, <2>5, <2>6 DEF TableInv, StartOf, EndOf
    <2>11. QED
        BY <1>2, <1>3, <1>4, <2>5, <2>6, <2>7, <2>8, <2>9, <2>10 DEF IInv
<1>7. QED
    BY <1>1, <1>5, <1>6 DEF Query

LEMMA FinishKeeps ==
    ASSUME IInv, Finish
    PROVE  IInv' /\ call.toRead = 0 /\ result' = [bytes |-> call.buf, err |-> AtEnd(offset)]
<1>1. PICK C \in Calls : C = call
    BY DEF IInv, TypeOK
<1>2. /\ C.chunks \in Seq(Row) /\ C.toRead \in Nat /\ C.from \in Nat /\ C.next \in Nat
      /\ C.limit \in Nat /\ C.buf \in Seq(Nat) /\ size \in Nat /\ offset \in Nat
    BY <1>1 DEF IInv, TypeOK, Calls
<1>3. C.pc = "loop" /\ TableInv(C.chunks) /\ LoopInv /\ C.next = Len(C.chunks) + 1
    <2>1. C.pc = "loop" /\ TableInv(C.chunks) /\ LoopInv /\ C.next > Len(C.chunks)
        BY <1>1 DEF IInv, Finish
    <2>2. C.next \in 1 .. Len(C.chunks) + 1 /\ Len(C.chunks) \in Nat
        BY <1>1, <1>2, <2>1 DEF LoopInv
    <2>3. QED
        BY <2>1, <2>2
<1>4. StartOf(C.chunks, C.next) = EndOf(C.chunks) /\ EndOf(C.chunks) \in Nat
    BY <1>2, <1>3, EndType
<1>5. size <= EndOf(C.chunks)
    BY <1>3 DEF TableInv
<1>6. C.toRead = 0
    BY <1>1, <1>2, <1>3, <1>4, <1>5 DEF LoopInv, Greatest
<1>7. [i \in 1 .. C.toRead |-> 0] = <<>>
    BY <1>6
<1>8. C.buf \o [i \in 1 .. C.toRead |-> 0] = C.buf
    <2>1. C.buf \in Seq(Nat)
        BY <1>2
    <2>2. C.buf \o <<>> = C.buf
        BY <2>1
    <2>3. QED
        BY <1>7, <2>2
<1>9. UNCHANGED <<rows, size, readAhead, offset, unread>> /\ call' = NoCall
      /\ result' = [bytes |-> C.buf, err |-> AtEnd(offset)]
    BY <1>1, <1>8 DEF Finish, Return
<1>10. TypeOK'
    BY <1>2, <1>9, NoCallType DEF IInv, TypeOK, AtEnd
<1>11. TableInv(rows)' /\ BufferInv'
    BY <1>1, <1>3, <1>6, <1>9 DEF IInv, TableInv, StartOf, EndOf, BufferInv, LoopInv
<1>12. QED
    BY <1>1, <1>6, <1>9, <1>10, <1>11, NoCallType DEF IInv

\* The row the loop is at: where it lies, and where the next one starts.
LEMMA AtRow ==
    ASSUME IInv, call.pc = "loop", call.next <= Len(call.chunks)
    PROVE  LET row == call.chunks[call.next]
           IN  /\ row.offset \in Nat /\ row.size \in Nat /\ row.size > 0
               /\ StartOf(call.chunks, call.next) = row.offset
               /\ StartOf(call.chunks, call.next + 1) = row.offset + row.size
               /\ row.offset < size => row.offset + row.size <= size
               /\ call.next \in 1 .. Len(call.chunks)
               /\ call.next + 1 \in 1 .. Len(call.chunks) + 1
<1>1. PICK k : k = call.next
    OBVIOUS
<1>2. PICK table : table = call.chunks
    OBVIOUS
<1>3. table \in Seq(Row) /\ k \in Nat
    BY <1>1, <1>2 DEF IInv, TypeOK, Calls
<1>4. Len(table) \in Nat
    BY <1>3
<1>5. k \in 1 .. Len(table) /\ k + 1 \in 1 .. Len(table) + 1
    BY <1>1, <1>2, <1>3, <1>4 DEF IInv, LoopInv
<1>6. /\ table[k].offset = StartOf(table, k)
      /\ table[k].offset < size => table[k].offset + table[k].size <= size
    BY <1>2, <1>5 DEF IInv, TableInv
<1>7. /\ table[k].offset \in Nat /\ table[k].size \in Nat /\ table[k].size > 0
      /\ StartOf(table, k + 1) = table[k].offset + table[k].size
    BY <1>3, <1>5, EndType
<1>8. QED
    BY <1>1, <1>2, <1>5, <1>6, <1>7

\* What one round of the loop leaves alone, and the buffer and slice after it.
LEMMA NextRowKeeps ==
    ASSUME IInv, NextRow
    PROVE  IInv' /\ offset' - Len(call'.buf) = offset - Len(call.buf) /\ call'.pc = "loop"
<1>1. PICK C \in Calls : C = call
    BY DEF IInv, TypeOK
<1>2. PICK row : row = C.chunks[C.next]
    OBVIOUS
<1>3. /\ C.pc = "loop" /\ C.next <= Len(C.chunks) /\ CallInv /\ LoopInv
      /\ C.toRead \in Nat /\ C.buf \in Seq(Nat) /\ C.from \in Nat /\ C.limit \in Nat
      /\ C.next \in Nat /\ C.chunks \in Seq(Row)
    BY <1>1 DEF IInv, NextRow, Calls
<1>4. size \in Nat /\ offset \in Nat /\ unread \in Seq(Nat) /\ offset <= size
    BY DEF IInv, TypeOK
<1>5. PICK end : end = row.offset + row.size
    OBVIOUS
<1>6. /\ row.offset \in Nat /\ row.size \in Nat /\ row.size > 0 /\ end \in Nat
      /\ row.offset < end /\ end - row.offset = row.size
      /\ row.offset < size => end <= size
    <2>1. row.offset \in Nat /\ row.size \in Nat /\ row.size > 0
        BY <1>1, <1>2, <1>3, AtRow
    <2>2. row.offset < size => end <= size
        BY <1>1, <1>2, <1>3, <1>5, AtRow
    <2>3. QED
        BY <1>5, <2>1, <2>2
<1>7. /\ StartOf(C.chunks, C.next) = row.offset /\ StartOf(C.chunks, C.next + 1) = end
      /\ C.next + 1 \in 1 .. Len(C.chunks) + 1
    BY <1>1, <1>2, <1>3, <1>5, AtRow
<1>8. /\ C.limit <= size /\ C.from <= offset /\ offset + C.toRead <= C.limit
      /\ C.toRead > 0 => offset = Greatest(C.from, row.offset) /\ unread = <<>>
      /\ C.toRead = 0 =>
            BufferInv /\ (offset + Len(unread) = row.offset \/ row.offset >= C.limit)
    BY <1>1, <1>3, <1>7 DEF LoopInv
<1>9. UNCHANGED <<rows, size, readAhead, result>>
    BY DEF NextRow
<1>10. ASSUME NEW D \in Calls, call' = D, D.pc = "loop", D.chunks = C.chunks,
              offset' \in Nat, offset' <= size, unread' \in Seq(Nat), CallInv', LoopInv'
       PROVE  IInv'
    <2>1. TypeOK'
        BY <1>9, <1>10 DEF IInv, TypeOK
    <2>2. TableInv(rows)' /\ TableInv(call.chunks)'
        BY <1>1, <1>3, <1>9, <1>10 DEF IInv, TableInv, StartOf, EndOf
    <2>3. QED
        BY <1>9, <1>10, <2>1, <2>2 DEF IInv
\* A row that is passed over: what is left to read still starts at its place.
<1>11. ASSUME UNCHANGED offset, unread' \in Seq(Nat), call' = [C EXCEPT !.next = @ + 1],
              C.toRead > 0 => offset = Greatest(C.from, end) /\ unread' = <<>>,
              C.toRead = 0 =>
                BufferInv' /\ (offset' + Len(unread') = end \/ end >= C.limit)
       PROVE  IInv' /\ offset' - Len(call'.buf) = offset - Len(call.buf) /\ call'.pc = "loop"
    <2>1. PICK D : D = [C EXCEPT !.next = @ + 1]
        OBVIOUS
    <2>2. /\ D \in Calls /\ D.pc = "loop" /\ D.toRead = C.toRead /\ D.buf = C.buf
          /\ D.chunks = C.chunks /\ D.from = C.from /\ D.limit = C.limit
          /\ D.next = C.next + 1
        <3>1. PICK k \in Nat : k = C.next + 1
            BY <1>3
        <3>2. D = [C EXCEPT !.next = k]
            BY <2>1, <3>1
        <3>3. QED
            BY <1>3, <3>1, <3>2 DEF Calls
    <2>3. call' = D
        BY <1>11, <2>1
    <2>4. CallInv'
        BY <1>1, <1>3, <1>9, <1>11, <2>2, <2>3 DEF CallInv
    <2>5. LoopInv'
        BY <1>7, <1>8, <1>9, <1>11, <2>2, <2>3 DEF LoopInv, StartOf
    <2>6. IInv'
        BY <1>4, <1>10, <1>11, <2>2, <2>3, <2>4, <2>5
    <2>7. QED
        BY <1>1, <1>11, <2>2, <2>3, <2>6
<1>12. CASE ~ InRange(row, C.from, C.limit)
    <2>1. call' = [C EXCEPT !.next = @ + 1] /\ UNCHANGED <<offset, unread>>
        BY <1>1, <1>2, <1>12 DEF NextRow
    <2>2. row.offset >= C.limit \/ end < C.from
        BY <1>3, <1>5, <1>6, <1>12 DEF InRange
    <2>3. C.toRead > 0 => offset = Greatest(C.from, end)
        BY <1>3, <1>4, <1>6, <1>8, <2>2 DEF Greatest
    <2>4. C.toRead = 0 =>
            BufferInv' /\ (offset' + Len(unread') = end \/ end >= C.limit)
        <3>1. BufferInv => BufferInv'
            BY <1>9, <2>1 DEF BufferInv
        <3>2. PICK length \in Nat : length = Len(unread)
            BY <1>4
        <3>3. C.toRead = 0 => end >= C.limit
            BY <1>3, <1>4, <1>6, <1>8, <2>2, <3>2
        <3>4. QED
            BY <1>8, <3>1, <3>3
    <2>5. QED
        BY <1>4, <1>8, <1>11, <2>1, <2>3, <2>4
<1>13. CASE InRange(row, C.from, C.limit)
    <2>1. Copy(row)
        BY <1>1, <1>2, <1>13 DEF NextRow
    <2>2. row.offset < C.limit /\ end >= C.from /\ end <= size
        <3>1. row.offset < C.limit /\ end >= C.from
            BY <1>5, <1>13 DEF InRange
        <3>2. C.limit \in Nat /\ C.limit <= size /\ size \in Nat
            BY <1>3, <1>4, <1>8
        <3>3. row.offset < size
            BY <1>6, <3>1, <3>2
        <3>4. QED
            BY <1>6, <3>1, <3>3
    <2>3. CASE C.toRead = 0
        <3>1. BufferInv /\ offset + Len(unread) = row.offset
            BY <1>3, <1>6, <1>8, <2>2, <2>3
        <3>2. ~ (row.offset < offset)
            <4>1. PICK length \in Nat : length = Len(unread)
                BY <1>4
            <4>2. QED
                BY <1>4, <1>6, <3>1, <4>1
        <3>3. PICK more : more = Segment(row.offset, row.size)
            OBVIOUS
        <3>4. PICK both : both = unread \o more
            OBVIOUS
        <3>5. /\ UNCHANGED offset /\ call' = [C EXCEPT !.next = @ + 1]
              /\ unread' = both \o <<>>
            <4>1. ~ (row.offset < offset + C.toRead)
                BY <1>4, <2>3, <3>2
            <4>2. QED
                BY <1>1, <2>1, <2>3, <3>3, <3>4, <4>1 DEF Copy
        <3>6. more \in Seq(Nat) /\ Len(more) = row.size
            BY <1>6, <3>3, SegmentType
        <3>7. unread = Segment(offset, Len(unread)) /\ more = Segment(offset + Len(unread), Len(more))
            BY <3>1, <3>3, <3>6 DEF BufferInv
        <3>8. both = Segment(offset, Len(unread) + Len(more))
            BY <1>4, <3>4, <3>6, <3>7, SegmentJoin
        <3>9. both \in Seq(Nat) /\ Len(both) = Len(unread) + Len(more)
            <4>1. unread \in Seq(Nat) /\ more \in Seq(Nat)
                BY <1>4, <3>6
            <4>2. QED
                BY <3>4, <4>1
        <3>10. unread' = both
            BY <3>5, <3>9
        <3>11. offset + Len(both) = end
            <4>1. PICK length \in Nat : length = Len(unread)
                BY <1>4
            <4>2. offset + length = row.offset /\ Len(both) = length + row.size
                BY <3>1, <3>6, <3>9, <4>1
            <4>3. offset \in Nat /\ row.offset \in Nat /\ row.size \in Nat
                BY <1>4, <1>6
            <4>4. PICK a \in Nat, n \in Nat : a = row.offset /\ n = row.size
                BY <4>3
            <4>5. offset + length = a /\ Len(both) = length + n /\ end = a + n
                BY <1>5, <4>2, <4>4
            <4>6. offset + (length + n) = a + n
                BY <4>1, <4>3, <4>5
            <4>7. QED
                BY <4>5, <4>6
        <3>12. BufferInv'
            BY <1>9, <2>2, <3>5, <3>8, <3>9, <3>10, <3>11 DEF BufferInv
        <3>13. QED
            BY <1>11, <2>3, <3>5, <3>9, <3>10, <3>11, <3>12
    <2>4. CASE C.toRead > 0 /\ end <= offset
        <3>1. UNCHANGED offset /\ call' = [C EXCEPT !.next = @ + 1] /\ unread' = unread \o <<>>
            <4>1. ~ (row.offset + row.size > offset) /\ C.toRead # 0
                BY <1>4, <1>5, <1>6, <2>4
            <4>2. QED
                BY <1>1, <2>1, <4>1 DEF Copy
        <3>2. unread = <<>> /\ offset = Greatest(C.from, row.offset)
            BY <1>8, <2>4
        <3>3. unread' = <<>>
            BY <3>1, <3>2
        <3>4. offset = Greatest(C.from, end)
            BY <1>3, <1>4, <1>6, <2>2, <2>4, <3>2 DEF Greatest
        <3>5. unread' \in Seq(Nat) /\ C.toRead # 0
            BY <2>4, <3>3
        <3>6. QED
            BY <1>11, <3>1, <3>3, <3>4, <3>5
    <2>5. CASE C.toRead > 0 /\ offset < end
        <3>1. /\ unread = <<>> /\ row.offset <= offset /\ row.offset < offset + C.toRead
            BY <1>3, <1>4, <1>6, <1>8, <2>5 DEF Greatest
        <3>2. PICK take : take = Least(C.toRead, end - offset)
            OBVIOUS
        <3>3. /\ take \in Nat /\ take > 0 /\ take <= C.toRead /\ offset + take <= end
              /\ C.toRead - take \in Nat /\ end - (offset + take) \in Nat
              /\ C.toRead - take > 0 => offset + take = end
            <4>1. PICK left \in Nat : left = end - offset /\ left > 0 /\ offset + left = end
                BY <1>4, <1>6, <2>5
            <4>2. /\ take \in Nat /\ take > 0 /\ take <= C.toRead /\ take <= left
                  /\ take = C.toRead \/ take = left
                BY <1>3, <2>5, <3>2, <4>1 DEF Least
            <4>3. QED
                BY <1>3, <1>4, <1>6, <4>1, <4>2
        <3>4. PICK piece : piece = Segment(offset, take)
            OBVIOUS
        <3>5. PICK rest : rest = Segment(offset + take, end - (offset + take))
            OBVIOUS
        <3>6. PICK D : D = [C EXCEPT !.next = @ + 1, !.toRead = @ - take, !.buf = @ \o piece]
            OBVIOUS
        <3>7. /\ offset' = offset + take /\ call' = D
              /\ unread' = unread \o rest
            <4>1. row.size - (offset - row.offset) = end - offset
                BY <1>4, <1>5, <1>6
            <4>2. row.offset + (offset - row.offset) = offset
                BY <1>4, <1>6
            <4>3. row.size - (offset - row.offset) - take = end - (offset + take)
                BY <1>4, <1>6, <3>3, <4>1
            <4>4. row.offset + row.size > offset
                BY <1>5, <2>5
            <4>5. C.toRead # 0
                BY <2>5
            <4>6. QED
                BY <1>1, <2>1, <3>1, <3>2, <3>4, <3>5, <3>6, <4>1, <4>2, <4>3, <4>4, <4>5 DEF Copy
        <3>8. piece \in Seq(Nat) /\ Len(piece) = take
            BY <1>4, <3>3, <3>4, SegmentType
        <3>9. offset + take \in Nat
            BY <1>4, <3>3
        <3>10. rest \in Seq(Nat) /\ Len(rest) = end - (offset + take)
            BY <3>3, <3>5, <3>9, SegmentType
        <3>11. unread' = rest
            BY <3>1, <3>7, <3>10
        <3>12. /\ D \in Calls /\ D.pc = "loop" /\ D.toRead = C.toRead - take
               /\ D.buf = C.buf \o piece /\ D.chunks = C.chunks /\ D.from = C.from
               /\ D.limit = C.limit /\ D.next = C.next + 1
            <4>1. PICK k \in Nat : k = C.next + 1
                BY <1>3
            <4>2. PICK m \in Nat : m = C.toRead - take
                BY <3>3
            <4>3. PICK b \in Seq(Nat) : b = C.buf \o piece
                <5>1. C.buf \o piece \in Seq(Nat)
                    BY <1>3, <3>8
                <5>2. QED
                    BY <5>1
            <4>4. D = [C EXCEPT !.next = k, !.toRead = m, !.buf = b]
                BY <3>6, <4>1, <4>2, <4>3
            <4>5. QED
                BY <1>3, <4>1, <4>2, <4>3, <4>4 DEF Calls
        <3>13. PICK done \in Nat : done = Len(C.buf) /\ done <= offset
            BY <1>1, <1>3 DEF CallInv
        <3>14. /\ Len(D.buf) = done + take
               /\ D.buf = Segment(offset - done, done + take)
            <4>1. offset - done \in Nat /\ (offset - done) + done = offset
                BY <1>4, <3>13
            <4>2. C.buf = Segment(offset - done, Len(C.buf))
                BY <1>1, <1>3, <3>13 DEF CallInv
            <4>3. piece = Segment((offset - done) + Len(C.buf), Len(piece))
                BY <3>4, <3>8, <3>13, <4>1
            <4>4. C.buf \o piece = Segment(offset - done, Len(C.buf) + Len(piece))
                BY <1>3, <3>8, <4>1, <4>2, <4>3, SegmentJoin
            <4>5. Len(C.buf \o piece) = Len(C.buf) + Len(piece)
                <5>1. C.buf \in Seq(Nat) /\ piece \in Seq(Nat)
                    BY <1>3, <3>8
                <5>2. QED
                    BY <5>1
            <4>6. QED
                BY <3>8, <3>12, <3>13, <4>4, <4>5
        <3>15. (offset + take) - (done + take) = offset - done
            BY <1>4, <3>3, <3>13
        <3>16. CallInv'
            <4>1. \E n \in Lens : n > 0 /\ done + C.toRead = Least(n, size - (offset - done))
                BY <1>1, <1>3, <3>13 DEF CallInv
            <4>2. (done + take) + (C.toRead - take) = done + C.toRead
                <5>1. C.toRead \in Nat /\ take \in Nat /\ done \in Nat
                    BY <1>3, <3>3, <3>13
                <5>2. QED
                    BY <5>1
            <4>3. done + take <= offset + take
                BY <1>4, <3>3, <3>13
            <4>4. \E n \in Lens : n > 0 /\
                    (done + take) + D.toRead = Least(n, size - ((offset + take) - (done + take)))
                BY <3>12, <3>15, <4>1, <4>2
            <4>5. /\ offset' = offset + take /\ call' = D /\ size' = size
                  /\ Len(D.buf) = done + take
                  /\ D.buf = Segment((offset + take) - (done + take), done + take)
                BY <1>9, <3>7, <3>14, <3>15
            <4>6. QED
                BY <4>3, <4>4, <4>5 DEF CallInv
        <3>17. LoopInv'
            <4>1. /\ C.from <= offset + take
                  /\ (offset + take) + (C.toRead - take) <= C.limit
                BY <1>3, <1>4, <1>8, <3>3
            <4>2. C.toRead - take > 0 => offset + take = Greatest(C.from, end) /\ rest = <<>>
                <5>1. C.toRead - take > 0 => end - (offset + take) = 0 /\ offset + take = end
                    BY <1>6, <3>3, <3>9
                <5>2. Greatest(C.from, end) = end
                    BY <1>3, <1>4, <1>6, <1>8, <2>5 DEF Greatest
                <5>3. QED
                    BY <3>10, <5>1, <5>2
            <4>3. (offset + take) + Len(rest) = end
                BY <1>6, <3>9, <3>10
            <4>4. rest = Segment(offset + take, Len(rest))
                BY <3>5, <3>10
            <4>5. BufferInv'
                BY <1>9, <2>2, <3>7, <3>11, <4>3, <4>4 DEF BufferInv
            <4>6. StartOf(C.chunks, C.next + 1)' = end
                BY <1>1, <1>7 DEF StartOf
            <4>7. QED
                BY <1>7, <1>8, <1>9, <3>7, <3>11, <3>12, <4>1, <4>2, <4>3, <4>5
                DEF LoopInv, StartOf
        <3>18. offset' \in Nat /\ offset' <= size /\ unread' \in Seq(Nat)
            BY <1>4, <1>6, <2>2, <3>3, <3>7, <3>9, <3>10, <3>11
        <3>19. IInv'
            BY <1>10, <3>7, <3>12, <3>16, <3>17, <3>18
        <3>20. QED
            BY <1>1, <3>7, <3>12, <3>13, <3>14, <3>15, <3>19
    <2>6. QED
        BY <1>3, <1>4, <1>6, <2>3, <2>4, <2>5
<1>14. QED
    BY <1>12, <1>13

LEMMA NextInv ==
    ASSUME IInv, [Next]_vars
    PROVE  IInv'
<1>1. ASSUME NEW ahead \in ReadAheads, Open(ahead) PROVE IInv'
    BY <1>1, OpenKeeps
<1>2. ASSUME NEW n \in 1 .. MaxSize, AppendRow(n) PROVE IInv'
    BY <1>2, AppendRowKeeps
<1>3. ASSUME NEW n \in Lens, Read(n) PROVE IInv'
    BY <1>3, ReadKeeps
<1>4. CASE Query
    BY <1>4, QueryKeeps
<1>5. CASE NextRow
    BY <1>5, NextRowKeeps
<1>6. CASE Finish
    BY <1>6, FinishKeeps
<1>7. ASSUME NEW target \in -1 .. MaxSize + 1, Seek(target) PROVE IInv'
    <2>1. target \in Int
        BY <1>7, SizeAssumption
    <2>2. QED
        BY <1>7, <2>1, SeekKeeps
<1>8. CASE UNCHANGED vars
    <2>1. /\ TypeOK <=> TypeOK'
          /\ TableInv(rows) => TableInv(rows)'
          /\ TableInv(call.chunks) => TableInv(call.chunks)'
        BY <1>8 DEF vars, TypeOK, TableInv, StartOf, EndOf
    <2>2. (BufferInv <=> BufferInv') /\ (CallInv <=> CallInv') /\ (LoopInv <=> LoopInv')
        BY <1>8 DEF vars, BufferInv, CallInv, LoopInv, StartOf
    <2>3. QED
        BY <1>8, <2>1, <2>2 DEF IInv, vars
<1>9. QED
    BY <1>1, <1>2, <1>3, <1>4, <1>5, <1>6, <1>7, <1>8 DEF Next

LEMMA InitInv == Init => IInv
<1> SUFFICES ASSUME Init PROVE IInv
    OBVIOUS
<1>1. TypeOK
    BY NoCallType DEF Init, TypeOK, NoResult
<1>2. TableInv(rows)
    BY DEF Init, TableInv, EndOf
<1>3. BufferInv
    BY DEF Init, BufferInv, Segment
<1>4. QED
    BY <1>1, <1>2, <1>3, NoCallType DEF Init, IInv

LEMMA Invariant == Spec => []IInv
BY InitInv, NextInv, PTL DEF Spec

-----------------------------------------------------------------------------
(* The refinement, step by step.                                           *)

LEMMA MinusZero ==
    ASSUME NEW a \in Nat, NEW n, n = 0
    PROVE  a - n = a
OBVIOUS

\* Where ByteReader's position is, before and after a step.
LEMMA Position ==
    ASSUME IInv
    PROVE  /\ offset \in Nat /\ size \in Nat /\ Len(call.buf) \in Nat
           /\ call.pc = "idle" => offset - Len(call.buf) = offset
<1>1. offset \in Nat /\ size \in Nat /\ call.buf \in Seq(Nat)
    BY DEF IInv, TypeOK, Calls
<1>2. call.pc = "idle" => Len(call.buf) = 0
    BY NoCallType DEF IInv
<1>3. Len(call.buf) \in Nat
    BY <1>1
<1>4. QED
    BY <1>1, <1>2, <1>3

LEMMA PositionAfter ==
    ASSUME IInv', call'.pc = "idle"
    PROVE  offset' - Len(call'.buf) = offset' /\ size' \in Nat
<1>1. offset' \in Nat /\ size' \in Nat
    BY DEF IInv, TypeOK
<1>2. PICK count : count = Len(call'.buf)
    OBVIOUS
<1>3. count = 0
    BY <1>2, NoCallType DEF IInv
<1>4. offset' - count = offset'
    BY <1>1, <1>3, MinusZero
<1>5. QED
    BY <1>1, <1>2, <1>4

LEMMA OpenImplements ==
    ASSUME IInv, IInv', NEW ahead \in ReadAheads, Open(ahead)
    PROVE  Bytes!Open
<1>1. size' \in Nat /\ offset' - Len(call'.buf) = 0
    <2>1. offset' = 0 /\ call'.pc = "idle"
        BY DEF Open
    <2>2. QED
        BY <2>1, PositionAfter
<1>2. size' >= size
    BY DEF IInv, TableInv, Open
<1>3. QED
    BY <1>1, <1>2 DEF Open, NoResult, Bytes!Open, Bytes!NoResult

LEMMA SeekImplements ==
    ASSUME IInv, NEW target \in Int, Seek(target)
    PROVE  Bytes!Seek
<1>1. Len(call'.buf) = 0
    BY NoCallType DEF IInv, Seek
<1>2. offset' - Len(call'.buf) = target
    BY <1>1 DEF Seek
<1>3. QED
    BY <1>2 DEF Seek, Bytes!Seek

\* A Read that the buffer serves, or the end of the log, is the whole Read;
\* one that goes on to a query has delivered nothing yet.
LEMMA ReadImplements ==
    ASSUME IInv, IInv', NEW n \in Lens, Read(n)
    PROVE  [Bytes!Next]_(Bytes!vars)
<1>1. /\ n \in Nat /\ size \in Nat /\ offset \in Nat /\ call.pc = "idle"
      /\ offset - Len(call.buf) = offset
    BY Position, LensAssumption DEF Read
<1>2. PICK count, bytes, there, rest :
            /\ count = Least(n, Len(unread)) /\ there = offset + count
            /\ bytes = SubSeq(unread, 1, count) /\ rest = SubSeq(unread, count + 1, Len(unread))
            /\ Served(n, count, bytes, there, rest)
    <2>1. call.pc # "loop"
        BY <1>1
    <2>2. QED
        BY <1>1, <2>1, FromBuffer
<1>3. /\ count \in Nat /\ count <= n /\ there \in Nat /\ there <= size
      /\ Len(bytes) = count /\ bytes = Segment(offset, count)
    BY <1>2 DEF Served
<1>4. there = offset + count
    BY <1>2
<1>5. UNCHANGED size /\ offset' = there
    BY <1>2 DEF Read
<1>6. call'.pc = "idle" => offset' - Len(call'.buf) = there
    <2>1. call'.pc = "idle" => offset' - Len(call'.buf) = offset'
        BY PositionAfter
    <2>2. QED
        BY <1>5, <2>1
<1>7. CASE n = 0 /\ Return(<<>>, "nil")
    <2>1. there = offset /\ call'.pc = "idle"
        BY <1>1, <1>3, <1>4, <1>7, NoCallType DEF Return
    <2>2. QED
        BY <1>1, <1>5, <1>6, <1>7, <2>1
        DEF Return, Bytes!Next, Bytes!ReadNothing, Bytes!NoResult
<1>8. ASSUME n > 0, NEW err, Return(bytes, err),
             count = Least(n, size - offset),
             err = IF there = size THEN "EOF" ELSE "nil"
      PROVE  [Bytes!Next]_(Bytes!vars)
    <2>1. call'.pc = "idle"
        BY <1>8, NoCallType DEF Return
    <2>2. offset' - Len(call'.buf) = offset + count
        BY <1>4, <1>6, <2>1
    <2>3. count = Bytes!Least(n, size - (offset - Len(call.buf)))
        BY <1>1, <1>8 DEF Least, Bytes!Least
    <2>4. bytes = Bytes!Segment(offset - Len(call.buf), count)
        BY <1>1, <1>3 DEF Segment, Bytes!Segment
    <2>5. result' = [bytes |-> bytes, err |-> err]
        BY <1>8 DEF Return
    <2>6. Bytes!Read(n)
        BY <1>1, <1>4, <1>5, <1>8, <2>2, <2>3, <2>4, <2>5 DEF Bytes!Read
    <2>7. QED
        BY <2>6 DEF Bytes!Next
<1>9. CASE n > 0 /\ count = n /\ Return(bytes, AtEnd(there))
    <2>1. count = Least(n, size - offset)
        BY <1>1, <1>3, <1>4, <1>9 DEF Least
    <2>2. QED
        BY <1>8, <1>9, <2>1 DEF AtEnd
<1>10. CASE count < n /\ there >= size /\ Return(bytes, "EOF")
    <2>1. there = size /\ n > 0
        BY <1>1, <1>3, <1>10
    <2>2. count = Least(n, size - offset)
        BY <1>1, <1>3, <1>4, <1>10, <2>1 DEF Least
    <2>3. QED
        BY <1>8, <1>10, <2>1, <2>2
<1>11. ASSUME NEW toRead, UNCHANGED result,
              call' = [NoCall EXCEPT !.pc = "query", !.toRead = toRead, !.buf = bytes]
       PROVE  [Bytes!Next]_(Bytes!vars)
    <2>1. call'.buf = bytes
        BY <1>11 DEF NoCall
    <2>2. offset' - Len(call'.buf) = there - count
        BY <1>3, <1>5, <2>1
    <2>3. offset' - Len(call'.buf) = offset - Len(call.buf)
        BY <1>1, <1>3, <1>4, <2>2
    <2>4. QED
        BY <1>5, <1>11, <2>3 DEF Bytes!vars
<1>12. QED
    BY <1>2, <1>7, <1>9, <1>10, <1>11 DEF Read

\* What a Read has delivered when its query fails or its loop ends.
LEMMA Delivered ==
    ASSUME IInv, IInv', call.pc # "idle", NEW err, Return(call.buf, err),
           UNCHANGED <<size, offset>>
    PROVE  LET position == offset - Len(call.buf)
               count == Len(call.buf)
           IN  /\ offset' - Len(call'.buf) = position + count
               /\ result' = [bytes |-> Bytes!Segment(position, count), err |-> err]
               /\ position \in Nat /\ count \in Nat /\ position + count = offset
<1>1. offset \in Nat /\ Len(call.buf) \in Nat
    BY Position
<1>2. Len(call.buf) <= offset /\ call.buf = Segment(offset - Len(call.buf), Len(call.buf))
    BY DEF IInv, CallInv
<1>3. offset' - Len(call'.buf) = offset
    <2>1. call'.pc = "idle"
        BY NoCallType DEF Return
    <2>2. call'.pc = "idle" => offset' - Len(call'.buf) = offset'
        BY PositionAfter
    <2>3. QED
        BY <2>1, <2>2
<1>4. result' = [bytes |-> Segment(offset - Len(call.buf), Len(call.buf)), err |-> err]
    BY <1>2 DEF Return
<1>5. (offset - Len(call.buf)) + Len(call.buf) = offset /\ offset - Len(call.buf) \in Nat
    BY <1>1, <1>2
<1>6. QED
    BY <1>1, <1>3, <1>4, <1>5 DEF Segment, Bytes!Segment

LEMMA QueryImplements ==
    ASSUME IInv, IInv', Query
    PROVE  [Bytes!Next]_(Bytes!vars)
<1>1. UNCHANGED <<size, offset>> /\ call.pc # "idle"
    BY DEF Query
<1>2. PICK position : position = offset - Len(call.buf)
    OBVIOUS
<1>3. PICK count : count = Len(call.buf)
    OBVIOUS
<1>4. CASE Return(call.buf, "db")
    <2>1. /\ offset' - Len(call'.buf) = position + count
          /\ result' = [bytes |-> Bytes!Segment(position, count), err |-> "db"]
          /\ position \in Nat /\ count \in Nat
        BY <1>1, <1>2, <1>3, <1>4, Delivered
    <2>2. PICK n \in Lens : count + call.toRead = Least(n, size - position)
        BY <1>1, <1>2, <1>3 DEF IInv, CallInv
    <2>3. call.toRead \in Nat /\ Least(n, size - position) = Bytes!Least(n, size - position)
        BY DEF IInv, TypeOK, Calls, Least, Bytes!Least
    <2>4. count \in 0 .. Bytes!Least(n, size - position)
        <3>1. PICK most : most = Bytes!Least(n, size - position)
            OBVIOUS
        <3>2. count + call.toRead = most
            BY <2>2, <2>3, <3>1
        <3>3. count \in 0 .. most
            BY <2>1, <2>3, <3>2
        <3>4. QED
            BY <3>1, <3>3
    <2>5. Bytes!ReadFails(n)
        BY <1>1, <1>2, <2>1, <2>4 DEF Bytes!ReadFails
    <2>6. QED
        BY <2>5 DEF Bytes!Next
<1>5. CASE UNCHANGED result /\ \E limit : call' = [call EXCEPT !.pc = "loop", !.chunks = rows,
                !.from = offset, !.limit = limit]
    <2>1. call'.buf = call.buf
        BY <1>5 DEF IInv, TypeOK, Calls
    <2>2. QED
        BY <1>1, <1>5, <2>1 DEF Bytes!vars
<1>6. QED
    BY <1>4, <1>5 DEF Query

LEMMA FinishImplements ==
    ASSUME IInv, IInv', Finish
    PROVE  [Bytes!Next]_(Bytes!vars)
<1>1. /\ UNCHANGED <<size, offset>> /\ call.pc # "idle" /\ call.toRead = 0
      /\ result' = [bytes |-> call.buf, err |-> AtEnd(offset)] /\ call' = NoCall
    BY FinishKeeps DEF Finish, Return
<1>2. PICK position : position = offset - Len(call.buf)
    OBVIOUS
<1>3. PICK count : count = Len(call.buf)
    OBVIOUS
<1>4. Return(call.buf, AtEnd(offset))
    BY <1>1 DEF Return
<1>5. /\ offset' - Len(call'.buf) = position + count
      /\ result' = [bytes |-> Bytes!Segment(position, count), err |-> AtEnd(offset)]
      /\ position \in Nat /\ count \in Nat /\ position + count = offset
    BY <1>1, <1>2, <1>3, <1>4, Delivered
<1>6. PICK n \in Lens : n > 0 /\ count + call.toRead = Least(n, size - position)
    BY <1>1, <1>2, <1>3 DEF IInv, CallInv
<1>7. count = Bytes!Least(n, size - position)
    <2>1. count + call.toRead = count
        BY <1>1, <1>5
    <2>2. QED
        BY <1>6, <2>1 DEF Least, Bytes!Least
<1>8. Bytes!Read(n)
    BY <1>1, <1>2, <1>5, <1>6, <1>7 DEF Bytes!Read, AtEnd
<1>9. QED
    BY <1>8 DEF Bytes!Next

LEMMA StepImplements ==
    ASSUME IInv, IInv', [Next]_vars
    PROVE  [Bytes!Next]_(Bytes!vars)
<1>1. ASSUME NEW ahead \in ReadAheads, Open(ahead) PROVE [Bytes!Next]_(Bytes!vars)
    BY <1>1, OpenImplements DEF Bytes!Next
<1>2. ASSUME NEW n \in 1 .. MaxSize, AppendRow(n) PROVE [Bytes!Next]_(Bytes!vars)
    BY <1>2 DEF AppendRow, Bytes!vars
<1>3. ASSUME NEW n \in Lens, Read(n) PROVE [Bytes!Next]_(Bytes!vars)
    BY <1>3, ReadImplements
<1>4. CASE Query
    BY <1>4, QueryImplements
<1>5. CASE NextRow
    <2>1. UNCHANGED <<size, result>>
        BY <1>5 DEF NextRow
    <2>2. offset' - Len(call'.buf) = offset - Len(call.buf)
        BY <1>5, NextRowKeeps
    <2>3. QED
        BY <2>1, <2>2 DEF Bytes!vars
<1>6. CASE Finish
    BY <1>6, FinishImplements
<1>7. ASSUME NEW target \in -1 .. MaxSize + 1, Seek(target) PROVE [Bytes!Next]_(Bytes!vars)
    <2>1. target \in Int
        BY <1>7, SizeAssumption
    <2>2. QED
        BY <1>7, <2>1, SeekImplements DEF Bytes!Next
<1>8. CASE UNCHANGED vars
    BY <1>8 DEF vars, Bytes!vars
<1>9. QED
    BY <1>1, <1>2, <1>3, <1>4, <1>5, <1>6, <1>7, <1>8 DEF Next

-----------------------------------------------------------------------------
(* Theorems.                                                               *)

\* Every variable of the reader keeps its type: no length, bound or index the
\* loop computes ever goes below zero.
THEOREM TypeCorrect == Spec => []TypeOK
<1>1. IInv => TypeOK
    BY DEF IInv
<1>2. QED
    BY <1>1, Invariant, PTL

\* Between two queries the read-ahead buffer is the segment of the log that
\* follows the offset, whatever Read and Seek have done to it.
THEOREM BufferFollows == Spec => []BufferInStep
<1>1. IInv => BufferInStep
    BY DEF IInv, BufferInv, BufferInStep
<1>2. QED
    BY <1>1, Invariant, PTL

\* logChunkReader is a reader of the log's bytes, for every log, slice and
\* read-ahead: its initial states are ByteReader's, a Read delivers the bytes
\* at the position it started from when it returns, and every other round of
\* its query and of its loop changes nothing a caller sees.
THEOREM ReadsTheLog == Spec => IsByteReader
<1>1. Init => Bytes!Init
    <2> SUFFICES ASSUME Init PROVE Bytes!Init
        OBVIOUS
    <2>1. offset - Len(call.buf) = 0
        BY NoCallType DEF Init
    <2>2. QED
        BY <2>1 DEF Init, NoResult, Bytes!Init, Bytes!NoResult
<1>2. IInv /\ IInv' /\ [Next]_vars => [Bytes!Next]_(Bytes!vars)
    BY StepImplements
<1>3. QED
    BY <1>1, <1>2, Invariant, PTL DEF Spec, IsByteReader, Bytes!Spec

=============================================================================
