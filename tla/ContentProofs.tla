---------------------------- MODULE ContentProofs ----------------------------
(***************************************************************************)
(* Proofs about ContentRequests.  Whoever reads, the handlers that write   *)
(* see orderly use, so IInv holds beside the readers (Beside).  FollowInv  *)
(* adds what a reader relies on: its copy of the row never claims more     *)
(* than the artifact has, since no artifact shrinks, and the copy of an    *)
(* UPLOADED row stays current, since UPLOADED is final.  LogInv adds what  *)
(* its readers have seen of the log: before the merge each byte is that of *)
(* a row, acknowledged by then or not, and the merge acknowledges nothing. *)
(***************************************************************************)
EXTENDS ContentRequests, ArtifactLasting, FiniteSetTheorems

-----------------------------------------------------------------------------
(***************************************************************************)
(* runeLimitedRead.  The library has no induction rule that the provers    *)
(* can instantiate; that a bounded set of numbers has a greatest member    *)
(* follows from the strict order of finite sets, which is well-founded.    *)
(***************************************************************************)

LEMMA Greatest ==
    ASSUME NEW S \in SUBSET Nat, NEW bound \in Nat, S # {}, \A s \in S : s <= bound
    PROVE  \E m \in S : \A k \in S : k <= m
<1> DEFINE Above(k) == (k + 1) .. bound
           T == {Above(k) : k \in S}
           R == StrictSubsetOrdering(Nat)
<1>1. IsWellFoundedOn(R, FiniteSubsetsOf(Nat))
    BY FS_StrictSubsetOrderingWellFounded
<1>2. T \subseteq FiniteSubsetsOf(Nat)
    <2>1. ASSUME NEW k \in S PROVE Above(k) \in FiniteSubsetsOf(Nat)
        <3>1. k + 1 \in Int /\ bound \in Int
            OBVIOUS
        <3>2. IsFiniteSet(Above(k))
            BY <3>1, FS_Interval
        <3>3. Above(k) \in SUBSET Nat
            OBVIOUS
        <3>4. QED
            BY <3>2, <3>3, Zenon DEF FiniteSubsetsOf
    <2>2. QED
        BY <2>1
<1>3. T # {}
    OBVIOUS
<1>4. PICK x \in T : \A y \in T : ~(<<y, x>> \in R)
    <2> HIDE DEF R, T
    <2>1. QED
        BY <1>1, <1>2, <1>3, WFMin
<1>5. PICK m \in S : x = Above(m)
    OBVIOUS
<1>6. ASSUME NEW k \in S PROVE k <= m
    <2> SUFFICES ASSUME k > m PROVE FALSE
        OBVIOUS
    <2>1. Above(k) \in T /\ ~(<<Above(k), Above(m)>> \in R)
        BY <1>4, <1>5
    <2>2. Above(k) \subseteq Above(m) /\ Above(k) \in SUBSET Nat /\ Above(m) \in SUBSET Nat
        OBVIOUS
    <2>3. k \in Above(m) /\ k \notin Above(k)
        OBVIOUS
    <2>4. <<Above(k), Above(m)>> \in R
        <3> HIDE DEF Above
        <3>1. QED
            BY <2>2, <2>3 DEF StrictSubsetOrdering
    <2>5. QED
        BY <2>1, <2>4
<1>7. QED
    BY <1>6

\* runeLimitedRead returns some of what was read.
LEMMA RuneLimitedBound ==
    ASSUME NEW text \in Seq(Byte)
    PROVE  RuneLimited(text) \in 0 .. Len(text)
<1> DEFINE S == {k \in 0 .. Len(text) : WellFormed(SubSeq(text, 1, k))}
           Best(k) == /\ WellFormed(SubSeq(text, 1, k))
                      /\ \A j \in (k + 1) .. Len(text) : ~WellFormed(SubSeq(text, 1, j))
<1>1. Len(text) \in Nat
    OBVIOUS
<1>2. SubSeq(text, 1, 0) = <<>> /\ WellFormed(<<>>)
    BY DEF WellFormed
<1>3. 0 \in S /\ S \in SUBSET Nat /\ \A s \in S : s <= Len(text)
    <2>1. 0 \in 0 .. Len(text)
        BY <1>1
    <2>2. 0 \in S
        BY <1>2, <2>1
    <2>3. \A s \in S : s \in 0 .. Len(text)
        OBVIOUS
    <2>4. QED
        BY <1>1, <2>2, <2>3
<1>4. PICK m \in S : \A k \in S : k <= m
    <2> HIDE DEF S
    <2>1. S # {}
        BY <1>3
    <2>2. QED
        BY <1>1, <1>3, <2>1, Greatest
<1>5. m \in 0 .. Len(text) /\ WellFormed(SubSeq(text, 1, m))
    OBVIOUS
<1>6. ASSUME NEW j \in (m + 1) .. Len(text), WellFormed(SubSeq(text, 1, j))
      PROVE  FALSE
    <2>1. j \in S /\ ~(j <= m)
        BY <1>1, <1>5, <1>6
    <2>2. QED
        BY <1>4, <2>1
<1>7. m \in 0 .. Len(text) /\ Best(m)
    BY <1>5, <1>6
<1>8. RuneLimited(text) = CHOOSE k \in 0 .. Len(text) : Best(k)
    BY DEF RuneLimited
<1>9. QED
    <2> HIDE DEF Best
    <2>1. QED
        BY <1>7, <1>8

-----------------------------------------------------------------------------
(* What the rows deliver.                                                  *)

LEMMA RowByteType ==
    ASSUME NEW rows \in Seq(Chunk), NEW p
    PROVE  RowByte(rows, p) \in Byte
<1>1. CASE \E i \in DOMAIN rows : Covers(rows[i], p)
    <2>1. PICK i \in DOMAIN rows : RowByte(rows, p) = rows[i].data
        BY <1>1 DEF RowByte, Covered
    <2>2. rows[i] \in Chunk
        OBVIOUS
    <2>3. QED
        BY <2>1, <2>2 DEF Chunk
<1>2. CASE ~\E i \in DOMAIN rows : Covers(rows[i], p)
    BY <1>2 DEF RowByte, Covered, Byte
<1>3. QED
    BY <1>1, <1>2

LEMMA RowBytesType ==
    ASSUME NEW rows \in Seq(Chunk), NEW from \in Int, NEW to \in Int, from <= to
    PROVE  /\ RowBytes(rows, from, to) \in Seq(Byte)
           /\ Len(RowBytes(rows, from, to)) = to - from
           /\ \A i \in 1 .. (to - from) :
                RowBytes(rows, from, to)[i] = RowByte(rows, from + i)
<1>1. \A p : RowByte(rows, p) \in Byte
    BY RowByteType
<1>2. to - from \in Nat
    OBVIOUS
<1>3. QED
    <2>1. RowBytes(rows, from, to) \in [1 .. (to - from) -> Byte]
        BY <1>1 DEF RowBytes
    <2>2. RowBytes(rows, from, to) \in Seq(Byte)
        BY <1>2, <2>1
    <2>3. Len(RowBytes(rows, from, to)) = to - from
        BY <1>2, <2>1, <2>2
    <2>4. QED
        BY <2>2, <2>3 DEF RowBytes

\* A row that covers a position delivers its byte.
LEMMA RowByteExact ==
    ASSUME NEW rows \in Seq(Chunk), NEW size \in Int, Tiles(rows, size),
           NEW i \in DOMAIN rows, NEW p \in Nat, Covers(rows[i], p)
    PROVE  RowByte(rows, p) = rows[i].data
<1>1. PICK j \in DOMAIN rows : Covers(rows[j], p) /\ RowByte(rows, p) = rows[j].data
    BY DEF RowByte, Covered
<1>2. rows[i] \in Chunk /\ rows[j] \in Chunk
    OBVIOUS
<1>3. i = j
    <2> SUFFICES ASSUME i # j PROVE FALSE
        OBVIOUS
    <2>1. \/ rows[i].offset + rows[i].size <= rows[j].offset
          \/ rows[j].offset + rows[j].size <= rows[i].offset
        <3>1. j \in DOMAIN rows \ {i}
            OBVIOUS
        <3>2. QED
            BY <3>1, Zenon DEF Tiles
    <2>2. QED
        BY <1>1, <1>2, <2>1 DEF Covers, Chunk
<1>4. QED
    BY <1>1, <1>3

-----------------------------------------------------------------------------
(***************************************************************************)
(* The invariant of the readers.                                           *)
(***************************************************************************)

ReaderTypeOK ==
    /\ get \in [op : {"none", "chunks", "content"}, pc : {"idle", "rows", "object"},
                art : Row, from : Int, to : Int]
    /\ limit \in Nat /\ nextOffset \in Int /\ received \in Seq(Byte)
    /\ page \in Seq(Byte) /\ sound \in 0 .. Len(page)

\* Where the follower goes on exists, and is where its text ends.
FollowerInv ==
    /\ FollowerIsInStep
    /\ nextOffset > 0 => nextOffset <= artifact[Followed].size
    /\ EofIsTheEnd

\* The range of a request in flight exists, and a request that reads S3 has the
\* row as it is.
GetInv ==
    get.pc # "idle" =>
        /\ get.op = "chunks" => get.from = Greater(nextOffset, 0)
        /\ 0 <= get.from /\ get.from < get.to
        /\ get.to <= get.art.size /\ get.to <= artifact[Followed].size
        /\ get.pc = "object" => artifact[Followed] = get.art /\ get.art.state = "UPLOADED"
        /\ get.pc = "rows" => get.art.state # "UPLOADED"
        /\ get.op # "none"

\* The answer to the browser grows towards its announced length, and as long as
\* nothing was withheld its length says where the logChunkReader is.
PageInv ==
    get.op = "content" /\ get.pc # "idle" =>
        /\ get.from <= Len(page) /\ Len(page) < get.to
        /\ get.pc = "rows" /\ sound = Len(page) => get.from = Len(page)
        /\ get.pc = "object" => sound = Len(page)

FollowInv == ReaderTypeOK /\ FollowerInv /\ GetInv /\ PageInv

\* The tables of the artifact that is read.
LEMMA FollowedTables ==
    ASSUME IInv
    PROVE  /\ artifact[Followed] \in Row /\ artifact[Followed].size \in Int
           /\ logchunk[Followed] \in Seq(Chunk) /\ s3[Followed] \in Seq(Byte)
           /\ TableInv(Followed)
BY FollowedAssumption DEF IInv, TypeOK, Row

LEMMA NoGetType ==
    /\ NoGet \in [op : {"none", "chunks", "content"}, pc : {"idle", "rows", "object"},
                  art : Row, from : Int, to : Int]
    /\ NoGet.pc = "idle"
BY DEF NoGet, NoRow, Row

\* What Greater and Lesser are.
LEMMA Ordered ==
    ASSUME NEW a \in Int, NEW b \in Int
    PROVE  /\ Greater(a, b) \in {a, b} /\ Greater(a, b) >= a /\ Greater(a, b) >= b
           /\ Lesser(a, b) \in {a, b} /\ Lesser(a, b) <= a /\ Lesser(a, b) <= b
BY DEF Greater, Lesser

\* The handlers that write leave the readers in step: the artifact does not
\* shrink, and it stays as it is once it is UPLOADED.
LEMMA WriterKeeps ==
    ASSUME IInv, FollowInv, [OrderlyNext]_vars, UNCHANGED reader, IInv'
    PROVE  FollowInv'
<1>1. Lasts(Followed)
    BY NextLasts, FollowedAssumption
<1>2. artifact[Followed].size \in Int /\ artifact'[Followed].size \in Int
    <2>1. artifact \in [Names -> Row] /\ artifact' \in [Names -> Row]
        BY DEF IInv, TypeOK
    <2>2. QED
        BY <2>1, FollowedAssumption DEF Row
<1>3. artifact[Followed] = NoRow \/ artifact'[Followed].size >= artifact[Followed].size
    BY <1>1 DEF Lasts
<1>4. NoRow.size = 0
    BY DEF NoRow
<1>5. ReaderTypeOK'
    BY DEF FollowInv, ReaderTypeOK, reader
<1>6. FollowerInv'
    <2>1. nextOffset' > 0 => nextOffset' <= artifact'[Followed].size
        BY <1>2, <1>3, <1>4 DEF FollowInv, FollowerInv, ReaderTypeOK, reader
    <2>2. eof' => artifact'[Followed] = artifact[Followed]
        BY <1>1 DEF FollowInv, FollowerInv, EofIsTheEnd, Lasts, reader
    <2>3. QED
        BY <2>1, <2>2 DEF FollowInv, FollowerInv, FollowerIsInStep, EofIsTheEnd, reader
<1>7. GetInv'
    <2> SUFFICES ASSUME get.pc # "idle" PROVE GetInv'
        BY DEF GetInv, reader
    <2>1. get' = get /\ nextOffset' = nextOffset
        BY DEF reader
    <2>2. get.to \in Int /\ get.from \in Int
        BY DEF FollowInv, ReaderTypeOK
    <2>3. get.to > 0 /\ get.to <= artifact[Followed].size
        BY <1>2, <2>2 DEF FollowInv, GetInv
    <2>4. get.to <= artifact'[Followed].size
        BY <1>2, <1>3, <1>4, <2>2, <2>3
    <2>5. get.pc = "object" => artifact'[Followed] = artifact[Followed]
        BY <1>1 DEF FollowInv, GetInv, Lasts
    <2>6. QED
        BY <2>1, <2>4, <2>5 DEF FollowInv, GetInv
<1>8. QED
    BY <1>5, <1>6, <1>7 DEF FollowInv, PageInv, reader

-----------------------------------------------------------------------------
(* The steps of the readers.                                               *)

\* An error or an empty answer.
LEMMA NoResultKeeps ==
    ASSUME IInv, FollowInv, NoResult, UNCHANGED <<vars, limit>>
    PROVE  FollowInv'
<1>1. ReaderTypeOK'
    BY NoGetType DEF FollowInv, ReaderTypeOK, NoResult
<1>2. FollowerInv' /\ GetInv' /\ PageInv'
    BY NoGetType DEF FollowInv, FollowerInv, FollowerIsInStep, EofIsTheEnd, GetInv, PageInv,
        NoResult, vars
<1>3. QED
    BY <1>1, <1>2 DEF FollowInv

\* An answer with text that starts where the follower is, inside the artifact.
LEMMA ResultKeeps ==
    ASSUME IInv, FollowInv, UNCHANGED <<vars, limit>>,
           NEW text \in Seq(Byte), NEW end \in Int, NEW isEof \in BOOLEAN,
           Result(text, isEof, end),
           Greater(end, 0) = Greater(nextOffset, 0) + Len(text),
           end > 0 => end <= artifact[Followed].size,
           isEof => artifact[Followed].state = "UPLOADED" /\ end = artifact[Followed].size
    PROVE  FollowInv'
<1>1. /\ get' = NoGet /\ received' = received \o text
      /\ eof' = isEof /\ nextOffset' = end /\ limit' = limit
      /\ UNCHANGED <<page, sound>>
    BY DEF Result
<1>2. ReaderTypeOK'
    BY <1>1, NoGetType DEF FollowInv, ReaderTypeOK
<1>3. received \in Seq(Byte) /\ Len(received \o text) = Len(received) + Len(text)
    BY DEF FollowInv, ReaderTypeOK
<1>4. FollowerIsInStep'
    BY <1>1, <1>3 DEF FollowInv, FollowerInv, FollowerIsInStep, Greater
<1>5. FollowerInv'
    BY <1>1, <1>4 DEF FollowerInv, EofIsTheEnd, vars
<1>6. GetInv' /\ PageInv'
    BY <1>1, NoGetType DEF GetInv, PageInv
<1>7. QED
    BY <1>2, <1>5, <1>6 DEF FollowInv

LEMMA PollKeeps ==
    ASSUME IInv, FollowInv, Poll
    PROVE  FollowInv'
<1> DEFINE row == artifact[Followed]
           begin == Greater(nextOffset, 0)
<1>1. UNCHANGED <<vars, limit>>
    BY DEF Poll
<1>2. row \in Row /\ row.size \in Int /\ nextOffset \in Int /\ begin \in Nat /\ limit \in Nat
    BY FollowedTables DEF FollowInv, ReaderTypeOK, Greater
<1>3. nextOffset > 0 => nextOffset <= row.size
    BY DEF FollowInv, FollowerInv
<1>4. <<>> \in Seq(Byte) /\ Len(<<>>) = 0
    OBVIOUS
<1>5. CASE NoResult
    BY <1>1, <1>5, NoResultKeeps
<1>6. CASE begin >= row.size /\ Result(<<>>, EofBeyond(row), row.size)
    <2>1. PICK text, isEof, end : text = <<>> /\ isEof = EofBeyond(row) /\ end = row.size
        OBVIOUS
    <2>2. text \in Seq(Byte) /\ Len(text) = 0 /\ end \in Int
        BY <1>2, <1>4, <2>1
    <2>3. isEof \in BOOLEAN /\ (isEof => row.state = "UPLOADED")
        BY <2>1, Zenon DEF EofBeyond
    <2>4. Greater(end, 0) = Greater(nextOffset, 0) + Len(text)
        BY <1>2, <1>3, <1>6, <2>1, <2>2 DEF Greater
    <2>5. Result(text, isEof, end)
        BY <1>6, <2>1, Zenon
    <2>6. end <= row.size
        BY <1>2, <2>1
    <2>7. QED
        BY <1>1, <2>1, <2>2, <2>3, <2>4, <2>5, <2>6, ResultKeeps
<1>7. CASE begin < row.size /\ Result(<<>>, FALSE, begin)
    <2>1. PICK text, end : text = <<>> /\ end = begin
        OBVIOUS
    <2>2. text \in Seq(Byte) /\ Len(text) = 0 /\ end \in Int
        BY <1>2, <1>4, <2>1
    <2>3. Greater(end, 0) = Greater(nextOffset, 0) + Len(text)
        BY <1>2, <2>1, <2>2 DEF Greater
    <2>4. Result(text, FALSE, end)
        BY <1>7, <2>1, Zenon
    <2>5. end <= row.size
        BY <1>2, <1>7, <2>1
    <2>6. QED
        BY <1>1, <2>2, <2>3, <2>4, <2>5, ResultKeeps
<1>8. CASE /\ begin < row.size
           /\ row.state \in {"UPLOADED", "APPENDING", "APPEND_COMPLETE"}
           /\ get' = [op |-> "chunks", pc |-> Source(row), art |-> row,
                      from |-> begin, to |-> RangeEnd(begin, row.size)]
           /\ UNCHANGED <<nextOffset, eof, refused, received, page, sound, cache>>
    <2>1. /\ RangeEnd(begin, row.size) \in Int
          /\ begin < RangeEnd(begin, row.size) /\ RangeEnd(begin, row.size) <= row.size
        <3>1. MaxChunkedRequestBytes \in Nat \ {0}
            BY LimitsAssumption
        <3>2. QED
            BY <1>2, <1>8, <3>1 DEF RangeEnd, Lesser
    <2> HIDE DEF begin, row
    <2>2. ReaderTypeOK'
        BY <1>1, <1>2, <1>4, <1>8, <2>1 DEF FollowInv, ReaderTypeOK, Source
    <2>3. FollowerInv'
        BY <1>1, <1>8 DEF FollowInv, FollowerInv, FollowerIsInStep, EofIsTheEnd, vars
    <2>4. GetInv' /\ PageInv'
        BY <1>1, <1>2, <1>8, <2>1 DEF GetInv, PageInv, Source, vars, begin, row
    <2>5. QED
        BY <2>2, <2>3, <2>4 DEF FollowInv
<1>9. begin >= row.size \/ begin < row.size
    BY <1>2
<1>10. QED
    BY <1>5, <1>6, <1>7, <1>8, <1>9 DEF Poll

LEMMA ChunksFromRowsKeeps ==
    ASSUME IInv, FollowInv, ChunksFromRows
    PROVE  FollowInv'
<1> DEFINE text == RowBytes(logchunk[Followed], get.from, get.to)
           count == RuneLimited(text)
<1>1. UNCHANGED <<vars, limit>> /\ get.pc = "rows" /\ get.op = "chunks"
    BY DEF ChunksFromRows
<1>2. /\ get.from \in Int /\ get.to \in Int /\ 0 <= get.from /\ get.from < get.to
      /\ get.to <= artifact[Followed].size /\ get.from = Greater(nextOffset, 0)
    BY <1>1 DEF FollowInv, GetInv, ReaderTypeOK
<1>3. text \in Seq(Byte) /\ Len(text) = get.to - get.from
    <2>1. get.from <= get.to
        BY <1>2
    <2>2. logchunk[Followed] \in Seq(Chunk)
        BY FollowedTables
    <2>3. QED
        BY <1>2, <2>1, <2>2, RowBytesType
<1>4. count \in 0 .. Len(text)
    BY <1>3, RuneLimitedBound
<1>5. CASE NoResult
    BY <1>1, <1>5, NoResultKeeps
<1>6. CASE Result(SubSeq(text, 1, count), FALSE, get.from + count)
    <2>1. SubSeq(text, 1, count) \in Seq(Byte) /\ Len(SubSeq(text, 1, count)) = count
        <3> HIDE DEF text, count
        <3>1. Len(text) \in Nat /\ count \in Nat /\ count <= Len(text)
            BY <1>3, <1>4
        <3>2. QED
            BY <1>3, <3>1
    <2>2. get.from + count \in Int /\ get.from + count <= artifact[Followed].size
        BY <1>2, <1>3, <1>4, FollowedTables
    <2>3. Greater(get.from + count, 0) = Greater(nextOffset, 0) + Len(SubSeq(text, 1, count))
        BY <1>2, <1>3, <1>4, <2>1 DEF Greater
    <2> HIDE DEF text, count
    <2>4. QED
        BY <1>1, <1>6, <2>1, <2>2, <2>3, ResultKeeps
<1>7. QED
    BY <1>5, <1>6 DEF ChunksFromRows

\* What S3 returns for a range.
LEMMA ObjectRange ==
    ASSUME IInv, FollowInv, get.pc = "object", get.op = "chunks"
    PROVE  LET text == SubSeq(s3[Followed], get.from + 1, get.to)
           IN  /\ text \in Seq(Byte) /\ Len(text) = get.to - get.from
               /\ \A i \in 1 .. Len(text) : text[i] = s3[Followed][get.from + i]
               /\ artifact[Followed].state = "UPLOADED"
<1> DEFINE text == SubSeq(s3[Followed], get.from + 1, get.to)
<1>1. /\ get.from \in Int /\ get.to \in Int /\ 0 <= get.from /\ get.from < get.to
      /\ get.to <= artifact[Followed].size /\ artifact[Followed].state = "UPLOADED"
    BY DEF FollowInv, GetInv, ReaderTypeOK
<1>2. s3[Followed] \in Seq(Byte) /\ Len(s3[Followed]) = artifact[Followed].size
    BY <1>1, FollowedTables DEF TableInv
<1>3. PICK object, from, to : object = s3[Followed] /\ from = get.from /\ to = get.to
    OBVIOUS
<1>4. object \in Seq(Byte) /\ from \in Nat /\ to \in Nat /\ from < to /\ to <= Len(object)
    BY <1>1, <1>2, <1>3
<1>5. /\ SubSeq(object, from + 1, to) \in Seq(Byte)
      /\ Len(SubSeq(object, from + 1, to)) = to - from
      /\ \A i \in 1 .. (to - from) : SubSeq(object, from + 1, to)[i] = object[from + i]
    <2>1. Len(SubSeq(object, from + 1, to)) = to - from
        BY <1>4
    <2>2. SubSeq(object, from + 1, to) \in Seq(Byte)
        BY <1>4
    <2>3. ASSUME NEW i \in 1 .. (to - from)
          PROVE  SubSeq(object, from + 1, to)[i] = object[from + i]
        BY <1>4, <2>3
    <2>4. QED
        BY <2>1, <2>2, <2>3
<1>6. QED
    BY <1>1, <1>3, <1>5

LEMMA ChunksFromS3Keeps ==
    ASSUME IInv, FollowInv, ChunksFromS3
    PROVE  FollowInv'
<1> DEFINE text == SubSeq(s3[Followed], get.from + 1, get.to)
           end == get.from + Len(text)
<1>1. UNCHANGED <<vars, limit>> /\ get.pc = "object" /\ get.op = "chunks"
    BY DEF ChunksFromS3
<1>2. /\ get.from \in Int /\ get.to \in Int /\ 0 <= get.from /\ get.from < get.to
      /\ get.to <= artifact[Followed].size /\ get.from = Greater(nextOffset, 0)
      /\ artifact[Followed] = get.art
    BY <1>1 DEF FollowInv, GetInv, ReaderTypeOK
<1>3. text \in Seq(Byte) /\ Len(text) = get.to - get.from
        /\ artifact[Followed].state = "UPLOADED"
    BY <1>1, ObjectRange
<1>4. CASE NoResult
    BY <1>1, <1>4, NoResultKeeps
<1>5. CASE Result(text, end = get.art.size, end)
    <2>1. end = get.to /\ end \in Int
        BY <1>2, <1>3
    <2>2. Greater(end, 0) = Greater(nextOffset, 0) + Len(text)
        BY <1>2, <1>3, <2>1 DEF Greater
    <2>3. (end = get.art.size) \in BOOLEAN
        OBVIOUS
    <2>4. (end = get.art.size) => end = artifact[Followed].size
        BY <1>2
    <2>5. end <= artifact[Followed].size
        BY <1>2, <2>1
    <2> HIDE DEF text, end
    <2>6. QED
        BY <1>1, <1>3, <1>5, <2>1, <2>2, <2>3, <2>4, <2>5, ResultKeeps
<1>6. QED
    BY <1>4, <1>5 DEF ChunksFromS3

\* The browser's requests leave the follower alone.
LEMMA BrowserKeepsInv ==
    ASSUME IInv, FollowInv, Fetch \/ ContentRead
    PROVE  FollowInv'
<1>1. UNCHANGED <<vars, limit, nextOffset, eof, refused, received>>
    BY DEF Fetch, ContentRead, ContentFromRows, ContentFromS3, BrowserKeeps
<1>2. FollowerInv'
    BY <1>1 DEF FollowInv, FollowerInv, FollowerIsInStep, EofIsTheEnd, vars
<1>3. ASSUME get' = NoGet, page' \in Seq(Byte), sound' \in 0 .. Len(page')
      PROVE  FollowInv'
    BY <1>1, <1>2, <1>3, NoGetType DEF FollowInv, ReaderTypeOK, GetInv, PageInv
<1>4. page \in Seq(Byte) /\ sound \in 0 .. Len(page)
    BY DEF FollowInv, ReaderTypeOK
<1>5. CASE BrokenOff
    BY <1>3, <1>4, <1>5 DEF BrokenOff
<1>6. ASSUME NEW byte \in Byte, page' = Append(page, byte)
      PROVE  page' \in Seq(Byte) /\ Len(page') = Len(page) + 1
    BY <1>4, <1>6
<1>7. CASE Fetch
    <2>1. PICK row \in Row : row = artifact[Followed]
        BY FollowedTables
    <2>2. PICK pc \in {"rows", "object"} :
                /\ get' = [op |-> "content", pc |-> pc, art |-> row, from |-> 0, to |-> row.size]
                /\ row.size > 0 /\ (pc = "object" <=> row.state = "UPLOADED")
                /\ page' = <<>> /\ sound' = 0
        BY <1>7, <2>1 DEF Fetch, Source
    <2>3. row.size \in Int /\ artifact'[Followed] = row
        BY <1>1, <2>1 DEF Row, vars
    <2>4. page' \in Seq(Byte) /\ Len(page') = 0
        BY <2>2
    <2>5. ReaderTypeOK'
        BY <1>1, <2>2, <2>3, <2>4 DEF FollowInv, ReaderTypeOK
    <2>6. GetInv' /\ PageInv'
        BY <2>2, <2>3, <2>4 DEF GetInv, PageInv
    <2>7. QED
        BY <1>2, <2>5, <2>6 DEF FollowInv
<1>8. CASE ContentFromRows /\ ~BrokenOff
    <2> DEFINE covered == Covered(logchunk[Followed], get.from + 1)
    <2>1. get.op = "content" /\ get.pc = "rows"
        BY <1>8 DEF ContentFromRows
    <2>2. PICK byte : /\ page' = Append(page, byte)
                      /\ byte \in IF covered THEN {RowByte(logchunk[Followed], get.from + 1)}
                                  ELSE Leftovers
        BY <1>8 DEF ContentFromRows
    <2>3. byte \in Byte
        <3>1. RowByte(logchunk[Followed], get.from + 1) \in Byte
            BY FollowedTables, RowByteType
        <3>2. Leftovers \subseteq Byte
            BY <1>4 DEF Leftovers, Byte
        <3>3. QED
            BY <2>2, <3>1, <3>2
    <2>4. page' \in Seq(Byte) /\ Len(page') = Len(page) + 1
        BY <1>6, <2>2, <2>3
    <2>5. sound' = IF covered /\ sound = Len(page) THEN sound + 1 ELSE sound
        BY <1>8 DEF ContentFromRows
    <2>6. sound' \in 0 .. Len(page')
        BY <1>4, <2>4, <2>5
    <2>7. CASE get' = NoGet
        BY <1>3, <2>4, <2>6, <2>7
    <2>8. CASE Len(page) + 1 # get.to
        <3>1. PICK from : /\ from = IF covered THEN get.from + 1 ELSE get.from
                          /\ get' = [get EXCEPT !.from = from]
            BY <1>8, <2>8 DEF ContentFromRows
        <3>2. /\ get.from \in Int /\ get.to \in Int /\ 0 <= get.from /\ get.from < get.to
              /\ get.from <= Len(page) /\ Len(page) < get.to /\ get.art \in Row
              /\ sound = Len(page) => get.from = Len(page)
            BY <2>1 DEF FollowInv, ReaderTypeOK, GetInv, PageInv
        <3>3. /\ get'.op = "content" /\ get'.pc = "rows" /\ get'.art = get.art /\ get'.to = get.to
              /\ get'.from = IF covered THEN get.from + 1 ELSE get.from
            BY <2>1, <3>1 DEF FollowInv, ReaderTypeOK
        <3> HIDE DEF covered
        <3>4. ReaderTypeOK'
            <4>1. from \in Int
                BY <3>1, <3>2
            <4>2. QED
                BY <1>1, <2>4, <2>6, <3>1, <4>1 DEF FollowInv, ReaderTypeOK
        <3>5. 0 <= get'.from /\ get'.from < get'.to
            BY <1>4, <2>8, <3>2, <3>3
        <3>6. GetInv'
            BY <1>1, <2>1, <3>3, <3>5 DEF FollowInv, GetInv, vars
        <3>7. PageInv'
            BY <1>4, <2>4, <2>5, <2>8, <3>2, <3>3 DEF PageInv
        <3>8. QED
            BY <1>2, <3>4, <3>6, <3>7 DEF FollowInv
    <2>9. QED
        BY <1>8, <2>7, <2>8 DEF ContentFromRows
<1>9. CASE ContentFromS3 /\ ~BrokenOff
    <2>1. /\ get.op = "content" /\ get.pc = "object" /\ Len(page) + 1 <= Len(s3[Followed])
          /\ page' = Append(page, s3[Followed][Len(page) + 1]) /\ sound' = sound + 1
          /\ get' = IF Len(page) + 1 = get.to THEN NoGet ELSE get
        BY <1>9 DEF ContentFromS3
    <2>2. s3[Followed][Len(page) + 1] \in Byte
        BY <1>4, <2>1, FollowedTables
    <2>3. page' \in Seq(Byte) /\ Len(page') = Len(page) + 1
        BY <1>6, <2>1, <2>2
    <2>4. sound' \in 0 .. Len(page')
        BY <1>4, <2>1, <2>3
    <2>5. CASE get' = NoGet
        BY <1>3, <2>3, <2>4, <2>5
    <2>6. CASE get' = get /\ Len(page) + 1 # get.to
        <3>1. ReaderTypeOK' /\ GetInv'
            BY <1>1, <2>3, <2>4, <2>6 DEF FollowInv, ReaderTypeOK, GetInv, vars
        <3>2. PageInv'
            BY <1>4, <2>1, <2>3, <2>6 DEF FollowInv, ReaderTypeOK, PageInv
        <3>3. QED
            BY <1>2, <3>1, <3>2 DEF FollowInv
    <2>7. QED
        BY <2>1, <2>5, <2>6
<1>10. QED
    BY <1>5, <1>7, <1>8, <1>9 DEF ContentRead

-----------------------------------------------------------------------------
(* The invariant holds.                                                    *)

\* Whoever reads, the handlers that write see orderly use.
LEMMA FollowIsOrderly == [FollowNext]_follow => [OrderlyNext]_vars
BY DEF FollowNext, follow, Poll, ChunksRead, ChunksFromRows, ChunksFromS3, Fetch,
    ContentRead, ContentFromRows, ContentFromS3

LEMMA Beside == FollowSpec => OrderlySpec
BY FollowIsOrderly, PTL DEF FollowSpec, OrderlySpec

LEMMA InitFollows == Init /\ FollowInit => FollowInv
<1> SUFFICES ASSUME Init, FollowInit PROVE FollowInv
    OBVIOUS
<1>1. limit \in Nat
    BY LimitsAssumption DEF FollowInit
<1>2. /\ get = NoGet /\ nextOffset = 0 /\ received = <<>> /\ eof = FALSE
      /\ page = <<>> /\ sound = 0
    BY DEF FollowInit
<1>3. QED
    BY <1>1, <1>2, NoGetType DEF FollowInv, ReaderTypeOK, FollowerInv, FollowerIsInStep,
        EofIsTheEnd, GetInv, PageInv, Greater

LEMMA NextFollows == IInv /\ IInv' /\ FollowInv /\ [FollowNext]_follow => FollowInv'
<1> SUFFICES ASSUME IInv, IInv', FollowInv, [FollowNext]_follow PROVE FollowInv'
    OBVIOUS
<1>1. CASE UNCHANGED follow
    BY <1>1, WriterKeeps DEF follow
<1>2. CASE OrderlyNext /\ UNCHANGED reader
    BY <1>2, WriterKeeps
<1>3. CASE Poll \/ ChunksRead \/ Fetch \/ ContentRead
    BY <1>3, PollKeeps, ChunksFromRowsKeeps, ChunksFromS3Keeps, BrowserKeepsInv
    DEF ChunksRead
<1>4. QED
    BY <1>1, <1>2, <1>3 DEF FollowNext

LEMMA ReadersInv == FollowSpec => [](IInv /\ FollowInv)
<1>1. FollowSpec => []IInv
    BY Beside, Inductive, PTL
<1>2. QED
    BY <1>1, InitFollows, NextFollows, PTL DEF FollowSpec

\* A follower of GetArtifactContentChunks is given each byte once and in order,
\* through renewed polls, errors, runes that are held back, and the merge of
\* the log into S3 between two polls or under one.
THEOREM InStep == FollowSpec => []FollowerIsInStep
<1>1. FollowInv => FollowerIsInStep
    BY DEF FollowInv, FollowerInv
<1>2. QED
    BY <1>1, ReadersInv, PTL

\* A follower that GetArtifactContentChunks has told of the end has all of an
\* artifact that is UPLOADED, and no later write makes that untrue.
THEOREM EndIsTrue == FollowSpec => []EofIsTheEnd
<1>1. FollowInv => EofIsTheEnd
    BY DEF FollowInv, FollowerInv
<1>2. QED
    BY <1>1, ReadersInv, PTL

-----------------------------------------------------------------------------
(***************************************************************************)
(* How a step of the server moves the rows of one artifact, and what it    *)
(* acknowledges with them.                                                 *)
(***************************************************************************)

\* Uploads at once, which no log precedes.
Uploads(q) ==
    q.op = "post" /\ q.pc \in {"setUploading", "readBody", "putObject", "setUploaded", "setError"}

NoRowsYet(n) ==
    /\ artifact[n].state = "WAITING_FOR_UPLOAD" => logchunk[n] = <<>>
    /\ \A r \in Requests : Uploads(req[r]) /\ req[r].name = n => logchunk[n] = <<>>

\* The rows of a log are only added to before the merge; what makes the artifact
\* UPLOADED acknowledges nothing unless there are none; and then they are deleted.
RowsMove(n) ==
    LET done == artifact[n].state = "UPLOADED"
    IN  /\ ~done => \/ logchunk'[n] = logchunk[n]
                    \/ \E c : logchunk'[n] = Append(logchunk[n], c)
        /\ ~done /\ artifact'[n].state = "UPLOADED" =>
            logchunk'[n] = logchunk[n] /\ (acked'[n] = acked[n] \/ logchunk[n] = <<>>)
        /\ done => acked'[n] = acked[n] /\ logchunk'[n] \in {logchunk[n], <<>>}

LEMMA StepMovesRows ==
    ASSUME IInv, NEW n \in Names, NoRowsYet(n), NEW r \in Requests, Step(r)
    PROVE  RowsMove(n)
<1>1. PICK Q : Q = req[r]
    OBVIOUS
<1>2. Q.pc \in Holding =>
        /\ RequestInv(Q) /\ Q.name \in Names /\ artifact[Q.name] = Q.art
    BY <1>1, AtHolding
<1>3. logchunk \in [Names -> Seq(Chunk)] /\ acked \in [Names -> SUBSET Chunk]
    BY DEF IInv, TypeOK
<1>4. \A code : Respond(r, code) => acked' = acked
    BY DEF Respond, history
<1>5. Acknowledge(r) => acked' = [acked EXCEPT ![Q.name] = acked[Q.name] \cup {Q.load}]
    BY <1>1 DEF Acknowledge
<1>6. CASE InsertLogChunk(r)
    <2>1. Q.pc = "insertLogChunk" /\ Q.pc \in Holding
        BY <1>1, <1>6 DEF InsertLogChunk, At, Holding
    <2>2. artifact[Q.name].state = "APPENDING"
        BY <1>2, <2>1 DEF RequestInv, PointInv
    <2>3. /\ logchunk' = logchunk
             \/ logchunk' = [logchunk EXCEPT ![Q.name] = Append(logchunk[Q.name], Q.load)]
          /\ artifact' = artifact
          /\ Acknowledge(r) \/ Respond(r, "400")
        BY <1>1, <1>6 DEF InsertLogChunk
    <2>4. CASE n = Q.name
        BY <1>2, <1>3, <2>1, <2>2, <2>3, <2>4 DEF RowsMove
    <2>5. CASE n # Q.name
        <3>1. logchunk'[n] = logchunk[n] /\ acked'[n] = acked[n]
            BY <1>3, <1>4, <1>5, <2>3, <2>5
        <3>2. QED
            BY <3>1 DEF RowsMove
    <2>6. QED
        BY <2>4, <2>5
<1>7. CASE LastLogChunk(r)
    <2>1. Q.pc = "lastLogChunk" /\ Q.pc \in Holding
        BY <1>1, <1>7 DEF LastLogChunk, At, Holding
    <2>2. artifact[Q.name].state = "APPENDING"
        BY <1>2, <2>1 DEF RequestInv, PointInv
    <2>3. logchunk' = logchunk /\ artifact' = artifact /\ (Acknowledge(r) \/ Respond(r, "400"))
        BY <1>7 DEF LastLogChunk, tables
    <2>4. CASE n = Q.name
        BY <2>2, <2>3, <2>4 DEF RowsMove
    <2>5. CASE n # Q.name
        <3>1. logchunk'[n] = logchunk[n] /\ acked'[n] = acked[n]
            BY <1>3, <1>4, <1>5, <2>3, <2>5
        <3>2. QED
            BY <3>1 DEF RowsMove
    <2>6. QED
        BY <2>4, <2>5
<1>8. CASE SetUploaded(r)
    <2>1. Q.pc = "setUploaded" /\ Q.pc \in Holding
        BY <1>1, <1>8 DEF SetUploaded, At, Holding
    <2>2. artifact[Q.name].state = "UPLOADING"
        BY <1>2, <2>1 DEF RequestInv, PointInv
    <2>3. logchunk' = logchunk
        BY <1>8 DEF SetUploaded
    <2>4. acked' = acked \/ (Acknowledge(r) /\ Q.op = "post")
        BY <1>1, <1>8 DEF SetUploaded, Continue, Respond, CloseFailed, Merging, history
    <2>5. CASE n = Q.name
        <3>1. Q.op = "post" => logchunk[n] = <<>>
            BY <1>1, <2>1, <2>5 DEF NoRowsYet, Uploads
        <3>2. QED
            BY <2>2, <2>3, <2>4, <2>5, <3>1 DEF RowsMove
    <2>6. CASE n # Q.name
        <3>1. acked'[n] = acked[n]
            BY <1>3, <1>5, <2>4, <2>6
        <3>2. QED
            BY <2>3, <3>1 DEF RowsMove
    <2>7. QED
        BY <2>5, <2>6
<1>9. CASE DeleteLogChunks(r)
    <2>1. Q.pc = "deleteLogChunks" /\ Q.pc \in Holding
        BY <1>1, <1>9 DEF DeleteLogChunks, At, Holding
    <2>2. artifact[Q.name].state = "UPLOADED"
        BY <1>2, <2>1 DEF RequestInv, PointInv
    <2>3. /\ logchunk' = logchunk \/ logchunk' = [logchunk EXCEPT ![Q.name] = <<>>]
          /\ artifact' = artifact /\ acked' = acked
        BY <1>1, <1>4, <1>9 DEF DeleteLogChunks, Closed, Continue, history
    <2>4. QED
        BY <1>3, <2>2, <2>3 DEF RowsMove
<1>10. CASE \/ BindCreateBucket(r) \/ InsertBucket(r) \/ BindCreate(r) \/ InsertArtifact(r)
            \/ LookupArtifact(r) \/ BindPost(r) \/ GrowArtifact(r) \/ SetUploading(r)
            \/ ReadBody(r) \/ ReadChunks(r) \/ PutObject(r) \/ SetError(r) \/ BindClose(r)
            \/ MarkComplete(r) \/ SetClosedWithoutData(r) \/ BindCloseBucket(r)
            \/ UpdateBucket(r) \/ ListArtifacts(r) \/ NextArtifact(r) \/ ReaderPanics(r)
    <2>1. UNCHANGED <<logchunk, acked>>
        BY <1>4, <1>10 DEF BindCreateBucket, InsertBucket, BindCreate, InsertArtifact,
            LookupArtifact, BindPost, BindAppend, GrowArtifact, SetUploading, ReadBody,
            ReadChunks, PutObject, AttemptFailed, UploadFailed, SetError, BindClose,
            CloseArtifact, Closed, CloseFailed, MarkComplete, SetClosedWithoutData,
            BindCloseBucket, UpdateBucket, ListArtifacts, NextArtifact, ReaderPanics, Stop,
            Continue, history, tables
    <2>2. QED
        BY <2>1 DEF RowsMove
<1>11. QED
    BY <1>6, <1>7, <1>8, <1>9, <1>10 DEF Step

LEMMA NextMovesRows ==
    ASSUME IInv, NEW n \in Names, NoRowsYet(n), [OrderlyNext]_vars
    PROVE  RowsMove(n)
<1>1. CASE UNCHANGED <<logchunk, acked>>
    BY <1>1 DEF RowsMove
<1>2. CASE \E r \in Requests : Step(r)
    BY <1>2, StepMovesRows
<1>3. QED
    BY <1>1, <1>2 DEF OrderlyNext, Crash, Stop, OrderlyReceive, Receive, vars, tables, history

\* An upload goes on with the artifact it has bound.
LEMMA UploadGoesOn ==
    ASSUME IInv, NEW r \in Requests, Step(r), Uploads(req'[r])
    PROVE  /\ req'[r].name = req[r].name
           /\ \/ Uploads(req[r])
              \/ artifact[req[r].name].state = "WAITING_FOR_UPLOAD" /\ UNCHANGED tables
<1>1. PICK Q : Q = req[r]
    OBVIOUS
<1>2. Q \in Memory /\ RequestInv(Q) /\ req \in [Requests -> Request]
    BY <1>1 DEF IInv, TypeOK, Request
<1>3. \A q : req' = [req EXCEPT ![r] = q] => req'[r] = q
    BY <1>2
<1>4. ~Uploads(Idle)
    BY DEF Uploads, Idle
<1>5. ASSUME NEW dying, Stop(dying)
      PROVE  Uploads(req[r]) /\ req'[r].name = req[r].name
    BY <1>4, <1>5 DEF Stop
<1>6. CASE Moves(r)
    <2>1. Q.op = "post"
        BY <1>1, <1>3, <1>4, <1>6 DEF Moves, Carries, Uploads
    <2>2. CASE BindPost(r)
        <3>1. PICK b : b = [Q EXCEPT !.pc = "setUploading", !.art = artifact[Q.name]]
            OBVIOUS
        <3>2. b.name = Q.name /\ [b EXCEPT !.load.offset = 0].name = Q.name
            BY <1>2, <3>1 DEF Memory
        <3>3. ASSUME NEW pc, pc \in {"growArtifact", "lastLogChunk"}, Continue(r, Bound(r, pc))
              PROVE  FALSE
            <4>1. req'[r].pc = pc
                BY <1>1, <1>2, <1>3, <3>3 DEF Continue, Bound, Memory
            <4>2. QED
                BY <3>3, <4>1 DEF Uploads
        <3>4. ~\E code : Respond(r, code)
            BY <1>3, <1>4 DEF Respond, Answer
        <3>5. /\ artifact[Q.name].state = "WAITING_FOR_UPLOAD" /\ UNCHANGED tables
              /\ Continue(r, [b EXCEPT !.load.offset = 0])
            BY <1>1, <2>2, <3>1, <3>3, <3>4 DEF BindPost, BindAppend, Bound
        <3>6. QED
            BY <1>1, <1>3, <3>2, <3>5 DEF Continue
    <2>3. CASE SetUploading(r) \/ ReadBody(r) \/ PutObject(r) \/ SetUploaded(r) \/ SetError(r)
        <3>1. Uploads(Q)
            BY <1>1, <2>1, <2>3 DEF SetUploading, ReadBody, PutObject, SetUploaded, SetError,
                At, Uploads
        <3>2. ASSUME NEW q, req' = [req EXCEPT ![r] = q], q.name = Q.name
              PROVE  req'[r].name = Q.name
            BY <1>3, <3>2
        <3>3. \A code : ~Respond(r, code) /\ ~Answer(r, code)
            BY <1>3, <1>4 DEF Respond, Answer
        <3>4. ASSUME NEW pc, NEW row, NEW body, NEW t,
                     \/ Continue(r, [Q EXCEPT !.pc = pc])
                     \/ Continue(r, [Q EXCEPT !.pc = pc, !.art = row])
                     \/ Continue(r, [Q EXCEPT !.pc = pc, !.body = body])
                     \/ Continue(r, [Q EXCEPT !.tries = t, !.pc = pc, !.body = body])
              PROVE  req'[r].name = Q.name
            BY <1>2, <3>2, <3>4 DEF Continue, Memory
        <3>5. ASSUME AttemptFailed(r) \/ UploadFailed(r) PROVE req'[r].name = Q.name
            BY <1>1, <3>3, <3>4, <3>5 DEF AttemptFailed, UploadFailed, CloseFailed
        <3>6. CASE SetUploading(r) \/ SetUploaded(r) \/ SetError(r)
            BY <1>1, <3>1, <3>3, <3>4, <3>6 DEF SetUploading, SetUploaded, SetError, CloseFailed,
                Acknowledge
        <3>7. CASE ReadBody(r) \/ PutObject(r)
            BY <1>1, <3>1, <3>4, <3>5, <3>7 DEF ReadBody, PutObject
        <3>8. QED
            BY <2>3, <3>6, <3>7
    <2>4. CASE GrowArtifact(r) \/ InsertLogChunk(r) \/ LastLogChunk(r)
        <3>1. \A code : ~Respond(r, code) /\ ~Answer(r, code)
            BY <1>3, <1>4 DEF Respond, Answer
        <3>2. PICK row : Continue(r, [Q EXCEPT !.pc = "insertLogChunk", !.art = row])
            BY <1>1, <2>4, <3>1 DEF GrowArtifact, InsertLogChunk, LastLogChunk, Acknowledge
        <3>3. req'[r].pc = "insertLogChunk"
            BY <1>2, <1>3, <3>2 DEF Continue, Memory
        <3>4. QED
            BY <3>3 DEF Uploads
    <2>5. CASE \/ BindCreateBucket(r) \/ InsertBucket(r) \/ BindCreate(r) \/ InsertArtifact(r)
               \/ LookupArtifact(r) \/ ReadChunks(r) \/ DeleteLogChunks(r) \/ BindClose(r)
               \/ MarkComplete(r) \/ SetClosedWithoutData(r) \/ BindCloseBucket(r)
               \/ UpdateBucket(r) \/ ListArtifacts(r) \/ NextArtifact(r)
        BY <1>1, <1>2, <2>1, <2>5 DEF BindCreateBucket, InsertBucket, BindCreate, InsertArtifact,
            LookupArtifact, ReadChunks, DeleteLogChunks, BindClose, MarkComplete,
            SetClosedWithoutData, BindCloseBucket, UpdateBucket, ListArtifacts, NextArtifact,
            At, RequestInv, PointInv
    <2>6. CASE ReaderPanics(r)
        BY <1>5, <2>6 DEF ReaderPanics
    <2>7. QED
        BY <2>2, <2>3, <2>4, <2>5, <2>6 DEF Step
<1>7. QED
    BY <1>5, <1>6, OneMoves DEF IInv

\* Only a fresh row is WAITING_FOR_UPLOAD.
LEMMA FreshRow ==
    ASSUME IInv, NEW n \in Names, NEW r \in Requests, Step(r),
           artifact'[n].state = "WAITING_FOR_UPLOAD"
    PROVE  artifact'[n] = artifact[n] \/ (artifact[n] = NoRow /\ UNCHANGED logchunk)
<1>1. PICK Q : Q = req[r]
    OBVIOUS
<1>2. Q \in Memory /\ RequestInv(Q) /\ artifact \in [Names -> Row]
    BY <1>1 DEF IInv, TypeOK, Request
<1>3. CASE InsertArtifact(r)
    BY <1>1, <1>2, <1>3 DEF InsertArtifact
<1>4. ASSUME NEW row, NEW outcome, UpdateArtifact(Q.name, row, outcome),
             row.state # "WAITING_FOR_UPLOAD"
      PROVE  artifact'[n] = artifact[n]
    BY <1>2, <1>4 DEF UpdateArtifact
<1>5. CASE GrowArtifact(r)
    <2>1. Q.art.state = "APPENDING"
        BY <1>1, <1>2, <1>5 DEF GrowArtifact, At, RequestInv, PointInv
    <2>2. PICK row : row = [Q.art EXCEPT !.size = Q.load.offset + Q.load.size]
        OBVIOUS
    <2>3. row.state = "APPENDING"
        BY <1>2, <2>1, <2>2 DEF Memory, Row
    <2>4. QED
        BY <1>1, <1>4, <1>5, <2>2, <2>3 DEF GrowArtifact
<1>6. CASE SetUploading(r) \/ SetUploaded(r) \/ SetError(r) \/ MarkComplete(r)
            \/ SetClosedWithoutData(r)
    <2>1. \A s : [Q.art EXCEPT !.state = s].state = s
        BY <1>2 DEF Memory, Row
    <2>2. ASSUME NEW s, NEW outcome, s # "WAITING_FOR_UPLOAD",
                 UpdateArtifact(Q.name, [Q.art EXCEPT !.state = s], outcome)
          PROVE  artifact'[n] = artifact[n]
        BY <1>4, <2>1, <2>2
    <2>3. CASE SetUploading(r) \/ SetUploaded(r)
        BY <1>1, <2>2, <2>3 DEF SetUploading, SetUploaded
    <2>4. CASE SetError(r) \/ MarkComplete(r)
        BY <1>1, <2>2, <2>4 DEF SetError, MarkComplete
    <2>5. CASE SetClosedWithoutData(r)
        BY <1>1, <2>2, <2>5 DEF SetClosedWithoutData
    <2>6. QED
        BY <1>6, <2>3, <2>4, <2>5
<1>7. CASE \/ BindCreateBucket(r) \/ InsertBucket(r) \/ BindCreate(r) \/ LookupArtifact(r)
           \/ BindPost(r) \/ InsertLogChunk(r) \/ LastLogChunk(r) \/ ReadBody(r)
           \/ ReadChunks(r) \/ PutObject(r) \/ DeleteLogChunks(r) \/ BindClose(r)
           \/ BindCloseBucket(r) \/ UpdateBucket(r) \/ ListArtifacts(r) \/ NextArtifact(r)
           \/ ReaderPanics(r)
    BY <1>7 DEF BindCreateBucket, InsertBucket, BindCreate, LookupArtifact, BindPost,
        InsertLogChunk, LastLogChunk, ReadBody, ReadChunks, PutObject, DeleteLogChunks,
        BindClose, BindCloseBucket, UpdateBucket, ListArtifacts, NextArtifact, ReaderPanics,
        Stop, tables
<1>8. QED
    BY <1>3, <1>5, <1>6, <1>7 DEF Step

\* While the artifact is there to be uploaded at once, its rows stay what they are.
LEMMA RowsStay ==
    ASSUME IInv, NEW n \in Names, NEW r \in Requests, Step(r),
           artifact[n].state \in {"WAITING_FOR_UPLOAD", "UPLOADING"}
    PROVE  logchunk'[n] = logchunk[n]
<1>1. PICK Q : Q = req[r]
    OBVIOUS
<1>2. logchunk \in [Names -> Seq(Chunk)]
    BY DEF IInv, TypeOK
<1>3. CASE InsertLogChunk(r) \/ DeleteLogChunks(r)
    <2>1. Q.pc \in {"insertLogChunk", "deleteLogChunks"} /\ Q.pc \in Holding
        BY <1>1, <1>3 DEF InsertLogChunk, DeleteLogChunks, At, Holding
    <2>2. artifact[Q.name].state \in {"APPENDING", "UPLOADED"}
        BY <1>1, <2>1, AtHolding DEF RequestInv, PointInv
    <2>3. \E rows : logchunk' = [logchunk EXCEPT ![Q.name] = rows] \/ logchunk' = logchunk
        BY <1>1, <1>3 DEF InsertLogChunk, DeleteLogChunks
    <2>4. QED
        BY <1>2, <2>2, <2>3
<1>4. CASE \/ BindCreateBucket(r) \/ InsertBucket(r) \/ BindCreate(r) \/ InsertArtifact(r)
           \/ LookupArtifact(r) \/ BindPost(r) \/ GrowArtifact(r) \/ LastLogChunk(r)
           \/ SetUploading(r) \/ ReadBody(r) \/ ReadChunks(r) \/ PutObject(r)
           \/ SetUploaded(r) \/ SetError(r) \/ BindClose(r) \/ MarkComplete(r)
           \/ SetClosedWithoutData(r) \/ BindCloseBucket(r) \/ UpdateBucket(r)
           \/ ListArtifacts(r) \/ NextArtifact(r) \/ ReaderPanics(r)
    <2>1. UNCHANGED logchunk
        BY <1>4 DEF BindCreateBucket, InsertBucket, BindCreate, InsertArtifact, LookupArtifact,
            BindPost, GrowArtifact, LastLogChunk, SetUploading, ReadBody, ReadChunks, PutObject,
            SetUploaded, SetError, BindClose, MarkComplete, SetClosedWithoutData,
            BindCloseBucket, UpdateBucket, ListArtifacts, NextArtifact, ReaderPanics, Stop, tables
    <2>2. QED
        BY <2>1
<1>5. QED
    BY <1>3, <1>4 DEF Step

LEMMA NoRowsYetKept ==
    ASSUME IInv, NEW n \in Names, NoRowsYet(n), [OrderlyNext]_vars
    PROVE  NoRowsYet(n)'
<1>1. req \in [Requests -> Request]
    BY DEF IInv, TypeOK
<1>2. ASSUME UNCHANGED tables,
             \A q \in Requests : req'[q] = req[q] \/ ~Uploads(req'[q])
      PROVE  NoRowsYet(n)'
    <2>1. artifact' = artifact /\ logchunk' = logchunk
        BY <1>2 DEF tables
    <2>2. ASSUME NEW q \in Requests, Uploads(req[q])', req'[q].name = n
          PROVE  logchunk'[n] = <<>>
        <3>1. req'[q] = req[q]
            BY <1>2, <2>2 DEF Uploads
        <3>2. Uploads(req[q]) /\ req[q].name = n
            BY <2>2, <3>1 DEF Uploads
        <3>3. QED
            BY <2>1, <3>2 DEF NoRowsYet
    <2>3. QED
        BY <2>1, <2>2 DEF NoRowsYet
<1>3. CASE UNCHANGED vars
    <2>1. UNCHANGED tables /\ req' = req
        BY <1>3 DEF vars, tables
    <2>2. QED
        BY <1>2, <2>1
<1>4. CASE Crash
    <2>1. ~Uploads(Idle)
        BY DEF Uploads, Idle
    <2>2. QED
        BY <1>2, <1>4, <2>1 DEF Crash, Stop
<1>5. ASSUME NEW r \in Requests, NEW q \in Arrivals, OrderlyReceive(r, q) PROVE NoRowsYet(n)'
    <2>1. q.pc = "bind"
        BY ArrivalPoint
    <2>2. UNCHANGED tables /\ req' = [req EXCEPT ![r] = q]
        BY <1>5 DEF OrderlyReceive, Receive
    <2>3. QED
        BY <1>1, <1>2, <2>1, <2>2 DEF Uploads
<1>6. ASSUME NEW r \in Requests, Step(r) PROVE NoRowsYet(n)'
    <2>1. artifact'[n].state = "WAITING_FOR_UPLOAD" => logchunk'[n] = <<>>
        <3> SUFFICES ASSUME artifact'[n].state = "WAITING_FOR_UPLOAD" PROVE logchunk'[n] = <<>>
            OBVIOUS
        <3>1. CASE artifact'[n] = artifact[n]
            BY <1>6, <3>1, RowsStay DEF NoRowsYet
        <3>2. CASE artifact[n] = NoRow /\ UNCHANGED logchunk
            <4>1. logchunk[n] \in Seq(Chunk) /\ Tiles(logchunk[n], 0)
                BY <3>2 DEF IInv, TypeOK, TableInv, NoRow
            <4>2. ASSUME 1 \in DOMAIN logchunk[n] PROVE FALSE
                <5>1. logchunk[n][1] \in Chunk
                    BY <4>1, <4>2
                <5>2. /\ logchunk[n][1].size > 0
                      /\ logchunk[n][1].offset + logchunk[n][1].size <= 0
                    BY <4>1, <4>2 DEF Tiles
                <5>3. QED
                    BY <5>1, <5>2 DEF Chunk
            <4>3. QED
                BY <3>2, <4>1, <4>2
        <3>3. QED
            BY <1>6, <3>1, <3>2, FreshRow
    <2>2. ASSUME NEW q \in Requests, Uploads(req'[q]), req'[q].name = n
          PROVE  logchunk'[n] = <<>>
        <3>1. CASE Uploads(req[q]) /\ req[q].name = n
            <4>1. req[q].pc \in Holding
                BY <3>1 DEF Uploads, Holding
            <4>2. artifact[n].state \in {"WAITING_FOR_UPLOAD", "UPLOADING"}
                BY <3>1, <4>1, AtHolding DEF Uploads, RequestInv, PointInv
            <4>3. QED
                BY <1>6, <3>1, <4>2, RowsStay DEF NoRowsYet
        <3>2. CASE req'[q] = req[q]
            BY <2>2, <3>1, <3>2
        <3>3. CASE q = r
            BY <1>6, <2>2, <3>1, <3>3, UploadGoesOn DEF NoRowsYet, tables
        <3>4. CASE q # r /\ req'[q] # req[q]
            <4>1. PICK dying : Stop(dying)
                BY <1>1, <1>6, <3>4, OneMoves DEF IInv, Moves
            <4>2. req'[q] = Idle
                BY <3>4, <4>1 DEF Stop
            <4>3. QED
                BY <2>2, <4>2 DEF Uploads, Idle
        <3>5. QED
            BY <3>2, <3>3, <3>4
    <2>3. QED
        BY <2>1, <2>2 DEF NoRowsYet
<1>7. QED
    BY <1>3, <1>4, <1>5, <1>6 DEF OrderlyNext

-----------------------------------------------------------------------------
(***************************************************************************)
(* What readers are given.                                                 *)
(***************************************************************************)

\* A row delivers the byte at the position; the byte is that of every chunk
\* acknowledged there; and what a reader may have read so far.
InRows(p, byte) ==
    \E i \in DOMAIN logchunk[Followed] :
        Covers(logchunk[Followed][i], p) /\ logchunk[Followed][i].data = byte

Right(p, byte) == \A c \in acked[Followed] : Covers(c, p) => byte = c.data

Known(p, byte) ==
    IF artifact[Followed].state = "UPLOADED" THEN Right(p, byte) ELSE InRows(p, byte)

AckedInRows ==
    \A c \in acked[Followed] : \E i \in DOMAIN logchunk[Followed] : logchunk[Followed][i] = c

LogInv ==
    /\ NoRowsYet(Followed)
    /\ artifact[Followed].state = "UPLOADED" => logchunk[Followed] = <<>> \/ AckedInRows
    /\ \A i \in DOMAIN received : received[i] = Junk \/ Known(i, received[i])
    /\ \A i \in 1 .. sound : Known(i, page[i])

\* A byte that a row delivers is right where the rows have what was acknowledged.
LEMMA RowIsRight ==
    ASSUME IInv, AckedInRows, NEW p \in Nat, NEW byte, InRows(p, byte)
    PROVE  Right(p, byte)
<1> SUFFICES ASSUME NEW c \in acked[Followed], Covers(c, p) PROVE byte = c.data
    BY DEF Right
<1>1. PICK rows \in Seq(Chunk) : rows = logchunk[Followed] /\ Tiles(rows, artifact[Followed].size)
    BY FollowedTables DEF TableInv
<1>2. PICK i \in DOMAIN rows : Covers(rows[i], p) /\ rows[i].data = byte
    BY <1>1 DEF InRows
<1>3. PICK j \in DOMAIN rows : rows[j] = c
    BY <1>1 DEF AckedInRows
<1>4. artifact[Followed].size \in Int
    BY FollowedTables
<1>5. RowByte(rows, p) = rows[i].data /\ RowByte(rows, p) = rows[j].data
    BY <1>1, <1>2, <1>3, <1>4, RowByteExact
<1>6. QED
    BY <1>2, <1>3, <1>5

\* Until the merge has deleted them, the rows have what was acknowledged.
LEMMA RowsHold ==
    ASSUME IInv, LogInv, artifact[Followed].state # "UPLOADED" \/ logchunk[Followed] # <<>>
    PROVE  AckedInRows
<1>1. CASE artifact[Followed].state # "UPLOADED"
    BY <1>1, FollowedTables DEF TableInv, Stored, AckedInRows
<1>2. CASE artifact[Followed].state = "UPLOADED"
    BY <1>2 DEF LogInv
<1>3. QED
    BY <1>1, <1>2

LEMMA KnownIsRight ==
    ASSUME IInv, LogInv, NEW p \in Nat, NEW byte, Known(p, byte)
    PROVE  Right(p, byte)
<1>1. CASE artifact[Followed].state # "UPLOADED"
    BY <1>1, RowsHold, RowIsRight DEF Known
<1>2. CASE artifact[Followed].state = "UPLOADED"
    BY <1>2 DEF Known
<1>3. QED
    BY <1>1, <1>2

\* What a row delivers may be read.
LEMMA RowIsKnown ==
    ASSUME IInv, LogInv, NEW p \in Nat, Covered(logchunk[Followed], p)
    PROVE  Known(p, RowByte(logchunk[Followed], p))
<1>1. PICK i \in DOMAIN logchunk[Followed] :
            /\ Covers(logchunk[Followed][i], p)
            /\ RowByte(logchunk[Followed], p) = logchunk[Followed][i].data
    BY DEF Covered, RowByte
<1>2. InRows(p, RowByte(logchunk[Followed], p))
    BY <1>1 DEF InRows
<1>3. logchunk[Followed] # <<>>
    BY <1>1
<1>4. QED
    BY <1>2, <1>3, RowsHold, RowIsRight DEF Known

\* So may what the object of an UPLOADED artifact holds.
LEMMA ObjectIsKnown ==
    ASSUME IInv, artifact[Followed].state = "UPLOADED", NEW p \in Nat
    PROVE  Known(p, s3[Followed][p])
<1> SUFFICES ASSUME NEW c \in acked[Followed], Covers(c, p) PROVE s3[Followed][p] = c.data
    BY DEF Known, Right
<1>1. Holds(s3[Followed], c)
    BY FollowedTables DEF TableInv, Stored
<1>2. c \in Chunk
    BY FollowedAssumption DEF IInv, TypeOK
<1>3. p \in (c.offset + 1) .. (c.offset + c.size)
    BY <1>2 DEF Covers, Chunk
<1>4. QED
    BY <1>1, <1>3 DEF Holds

\* What may be read is right for good: a row stays, and is acknowledged or not,
\* until the artifact is UPLOADED, and from then on nothing is acknowledged.
LEMMA KnownStays ==
    ASSUME IInv, LogInv, [OrderlyNext]_vars, NEW p \in Nat, NEW byte, Known(p, byte)
    PROVE  Known(p, byte)'
<1>1. RowsMove(Followed) /\ Lasts(Followed)
    BY NextMovesRows, NextLasts, FollowedAssumption DEF LogInv
<1>2. CASE artifact[Followed].state = "UPLOADED"
    <2>1. artifact'[Followed].state = "UPLOADED" /\ acked'[Followed] = acked[Followed]
        BY <1>1, <1>2 DEF RowsMove, Lasts
    <2>2. QED
        BY <1>2, <2>1 DEF Known, Right
<1>3. CASE artifact[Followed].state # "UPLOADED" /\ artifact'[Followed].state # "UPLOADED"
    <2>1. PICK i \in DOMAIN logchunk[Followed] :
                Covers(logchunk[Followed][i], p) /\ logchunk[Followed][i].data = byte
        BY <1>3 DEF Known, InRows
    <2>2. i \in DOMAIN logchunk'[Followed] /\ logchunk'[Followed][i] = logchunk[Followed][i]
        <3>1. CASE logchunk'[Followed] = logchunk[Followed]
            BY <3>1
        <3>2. ASSUME NEW c, logchunk'[Followed] = Append(logchunk[Followed], c)
              PROVE  i \in DOMAIN logchunk'[Followed]
                        /\ logchunk'[Followed][i] = logchunk[Followed][i]
            <4>1. PICK rows \in Seq(Chunk) : rows = logchunk[Followed]
                BY FollowedTables
            <4>2. i \in DOMAIN Append(rows, c) /\ Append(rows, c)[i] = rows[i]
                BY <4>1
            <4>3. QED
                BY <3>2, <4>1, <4>2
        <3>3. QED
            BY <1>1, <1>3, <3>1, <3>2 DEF RowsMove
    <2>3. InRows(p, byte)'
        BY <2>1, <2>2 DEF InRows
    <2>4. QED
        BY <1>3, <2>3 DEF Known
<1>4. CASE artifact[Followed].state # "UPLOADED" /\ artifact'[Followed].state = "UPLOADED"
    <2>1. InRows(p, byte)
        BY <1>4 DEF Known
    <2>2. logchunk[Followed] # <<>>
        BY <2>1 DEF InRows
    <2>3. acked'[Followed] = acked[Followed]
        BY <1>1, <1>4, <2>2 DEF RowsMove
    <2>4. Right(p, byte)
        BY <1>4, <2>1, RowsHold, RowIsRight
    <2>5. QED
        BY <1>4, <2>3, <2>4 DEF Known, Right
<1>5. QED
    BY <1>2, <1>3, <1>4

\* The handlers that write leave what was read as right as it was.
LEMMA WriterKeepsLog ==
    ASSUME IInv, FollowInv, LogInv, [OrderlyNext]_vars, UNCHANGED reader
    PROVE  LogInv'
<1>1. NoRowsYet(Followed)'
    BY NoRowsYetKept, FollowedAssumption DEF LogInv
<1>2. RowsMove(Followed) /\ Lasts(Followed)
    BY NextMovesRows, NextLasts, FollowedAssumption DEF LogInv
<1>3. artifact'[Followed].state = "UPLOADED" => logchunk'[Followed] = <<>> \/ AckedInRows'
    <2>1. CASE artifact[Followed].state = "UPLOADED"
        BY <1>2, <2>1 DEF LogInv, RowsMove, AckedInRows
    <2>2. CASE artifact[Followed].state # "UPLOADED"
        BY <1>2, <2>2, RowsHold DEF RowsMove, AckedInRows
    <2>3. QED
        BY <2>1, <2>2
<1>4. /\ received' = received /\ page' = page /\ sound' = sound
      /\ DOMAIN received \subseteq Nat /\ 1 .. sound \subseteq Nat
    BY DEF reader, FollowInv, ReaderTypeOK
<1>5. \A i \in DOMAIN received' : received'[i] = Junk \/ Known(i, received[i])'
    BY <1>4, KnownStays DEF LogInv
<1>6. \A i \in 1 .. sound' : Known(i, page[i])'
    BY <1>4, KnownStays DEF LogInv
<1>7. QED
    BY <1>1, <1>3, <1>4, <1>5, <1>6 DEF LogInv, Known, Right, InRows

\* What a step of the follower's requests reads, and where it puts it.
LEMMA FollowerReads ==
    ASSUME IInv, FollowInv, Poll \/ ChunksRead
    PROVE  /\ UNCHANGED <<vars, page, sound>>
           /\ \A i \in DOMAIN received : i \in DOMAIN received' /\ received'[i] = received[i]
           /\ \A i \in DOMAIN received' \ DOMAIN received :
                /\ i \in Nat
                /\ \/ get.pc = "rows" /\ received'[i] = RowByte(logchunk[Followed], i)
                   \/ /\ get.pc = "object" /\ received'[i] = s3[Followed][i]
                      /\ artifact[Followed].state = "UPLOADED"
<1> DEFINE Put(i, byte) ==
                \/ get.pc = "rows" /\ byte = RowByte(logchunk[Followed], i)
                \/ /\ get.pc = "object" /\ byte = s3[Followed][i]
                   /\ artifact[Followed].state = "UPLOADED"
<1>1. UNCHANGED <<vars, page, sound>>
    BY DEF Poll, ChunksRead, ChunksFromRows, ChunksFromS3, Result, NoResult
<1>2. received \in Seq(Byte) /\ received \o <<>> = received
    BY DEF FollowInv, ReaderTypeOK
<1>3. CASE Poll
    <2>1. received' = received
        BY <1>2, <1>3 DEF Poll, Result, NoResult
    <2>2. QED
        BY <1>1, <2>1
<1>4. CASE received' = received
    BY <1>1, <1>4
<1>5. ASSUME NEW text \in Seq(Byte), NEW count \in 0 .. Len(text),
             received' = received \o SubSeq(text, 1, count), ChunksRead,
             \A k \in 1 .. Len(text) : Put(get.from + k, text[k])
      PROVE  /\ \A i \in DOMAIN received : i \in DOMAIN received' /\ received'[i] = received[i]
             /\ \A i \in DOMAIN received' \ DOMAIN received : i \in Nat /\ Put(i, received'[i])
    <2>1. get.from = Len(received)
        BY <1>5 DEF ChunksRead, ChunksFromRows, ChunksFromS3, FollowInv, FollowerInv,
            FollowerIsInStep, GetInv
    <2>2. PICK old, more : old = received /\ more = SubSeq(text, 1, count)
        OBVIOUS
    <2>3. /\ more \in Seq(Byte) /\ Len(more) = count /\ count <= Len(text)
          /\ \A k \in 1 .. count : more[k] = text[k]
        BY <2>2
    <2>4. /\ DOMAIN (old \o more) = 1 .. (Len(old) + Len(more)) /\ DOMAIN old = 1 .. Len(old)
          /\ Len(old) \in Nat /\ Len(more) \in Nat
          /\ \A j \in 1 .. Len(old) : (old \o more)[j] = old[j]
          /\ \A j \in (Len(old) + 1) .. (Len(old) + Len(more)) :
                (old \o more)[j] = more[j - Len(old)]
        BY <1>2, <2>2, <2>3
    <2>5. ASSUME NEW i \in DOMAIN received' \ DOMAIN received
          PROVE  i \in Nat /\ Put(i, received'[i])
        <3>1. /\ i \in (Len(old) + 1) .. (Len(old) + Len(more))
              /\ received'[i] = more[i - Len(old)]
            BY <1>5, <2>2, <2>4
        <3>2. PICK k \in 1 .. count : k = i - Len(old)
            BY <2>3, <2>4, <3>1
        <3>3. received'[i] = text[k]
            BY <2>3, <3>1, <3>2
        <3>4. get.from = Len(old) /\ Len(text) \in Nat /\ count \in Nat
            BY <2>1, <2>2
        <3>5. i = get.from + k /\ k \in 1 .. Len(text) /\ i \in Nat
            BY <2>3, <2>4, <3>1, <3>2, <3>4
        <3> HIDE DEF Put
        <3>6. QED
            BY <1>5, <3>3, <3>5
    <2>6. ASSUME NEW i \in DOMAIN received
          PROVE  i \in DOMAIN received' /\ received'[i] = received[i]
        BY <1>5, <2>2, <2>4, <2>6
    <2>7. QED
        BY <2>5, <2>6
<1>6. CASE ChunksFromRows
    <2> DEFINE text == RowBytes(logchunk[Followed], get.from, get.to)
               count == RuneLimited(text)
    <2>1. /\ get.from \in Int /\ get.to \in Int /\ 0 <= get.from /\ get.from <= get.to
          /\ get.pc = "rows" /\ logchunk[Followed] \in Seq(Chunk)
        BY <1>6, FollowedTables DEF ChunksFromRows, FollowInv, GetInv, ReaderTypeOK
    <2>2. /\ text \in Seq(Byte) /\ Len(text) = get.to - get.from
          /\ \A k \in 1 .. (get.to - get.from) :
                text[k] = RowByte(logchunk[Followed], get.from + k)
        BY <2>1, RowBytesType
    <2>3. count \in 0 .. Len(text)
        BY <2>2, RuneLimitedBound
    <2>4. CASE received' = received \o SubSeq(text, 1, count)
        <3> HIDE DEF text, count
        <3>1. \A k \in 1 .. Len(text) : Put(get.from + k, text[k])
            BY <2>1, <2>2
        <3> HIDE DEF Put
        <3>2. ChunksRead
            BY <1>6 DEF ChunksRead
        <3>3. /\ \A i \in DOMAIN received : i \in DOMAIN received' /\ received'[i] = received[i]
              /\ \A i \in DOMAIN received' \ DOMAIN received : i \in Nat /\ Put(i, received'[i])
            BY <1>5, <2>2, <2>3, <2>4, <3>1, <3>2
        <3>4. QED
            BY <1>1, <3>3 DEF Put
    <2>5. QED
        BY <1>4, <1>6, <2>4 DEF ChunksFromRows, Result, NoResult
<1>7. CASE ChunksFromS3
    <2> DEFINE text == SubSeq(s3[Followed], get.from + 1, get.to)
    <2>1. /\ text \in Seq(Byte) /\ get.pc = "object" /\ artifact[Followed].state = "UPLOADED"
          /\ \A k \in 1 .. Len(text) : text[k] = s3[Followed][get.from + k]
        BY <1>7, ObjectRange DEF ChunksFromS3
    <2>2. Len(text) \in 0 .. Len(text) /\ SubSeq(text, 1, Len(text)) = text
        <3> HIDE DEF text
        <3>1. QED
            BY <2>1
    <2>3. CASE received' = received \o text
        <3> HIDE DEF text
        <3>1. \A k \in 1 .. Len(text) : Put(get.from + k, text[k])
            BY <2>1
        <3> HIDE DEF Put
        <3>2. ChunksRead /\ received' = received \o SubSeq(text, 1, Len(text))
            BY <1>7, <2>2, <2>3 DEF ChunksRead
        <3>3. /\ \A i \in DOMAIN received : i \in DOMAIN received' /\ received'[i] = received[i]
              /\ \A i \in DOMAIN received' \ DOMAIN received : i \in Nat /\ Put(i, received'[i])
            BY <1>5, <2>1, <2>2, <3>1, <3>2
        <3>4. QED
            BY <1>1, <3>3 DEF Put
    <2>4. QED
        BY <1>4, <1>7, <2>3 DEF ChunksFromS3, Result, NoResult
<1>8. QED
    BY <1>3, <1>6, <1>7 DEF ChunksRead

\* What a step of the browser's request adds to its answer.
PageSound(byte) ==
    LET p == Len(page) + 1
    IN  /\ sound = Len(page) /\ sound' = sound + 1
        /\ \/ Covered(logchunk[Followed], p) /\ byte = RowByte(logchunk[Followed], p)
           \/ artifact[Followed].state = "UPLOADED" /\ byte = s3[Followed][p]

PageUnsound ==
    /\ sound' = sound
    /\ sound = Len(page) => get.pc = "rows" /\ ~Covered(logchunk[Followed], Len(page) + 1)

LEMMA BrowserReads ==
    ASSUME IInv, FollowInv, Fetch \/ ContentRead
    PROVE  /\ UNCHANGED <<vars, received>>
           /\ \/ page' = <<>> /\ sound' = 0
              \/ UNCHANGED <<page, sound>>
              \/ \E byte : page' = Append(page, byte) /\ (PageSound(byte) \/ PageUnsound)
<1>1. UNCHANGED <<vars, received>>
    BY DEF Fetch, ContentRead, ContentFromRows, ContentFromS3, BrowserKeeps
<1>2. CASE Fetch \/ BrokenOff
    BY <1>1, <1>2 DEF Fetch, BrokenOff
<1>3. CASE ContentFromRows /\ ~BrokenOff
    <2>1. sound = Len(page) => get.from = Len(page)
        BY <1>3 DEF ContentFromRows, FollowInv, PageInv
    <2>2. PICK byte :
            /\ page' = Append(page, byte) /\ get.pc = "rows"
            /\ Covered(logchunk[Followed], get.from + 1) =>
                    byte = RowByte(logchunk[Followed], get.from + 1)
            /\ sound' = IF Covered(logchunk[Followed], get.from + 1) /\ sound = Len(page)
                        THEN sound + 1 ELSE sound
        BY <1>3 DEF ContentFromRows
    <2>3. PageSound(byte) \/ PageUnsound
        BY <2>1, <2>2 DEF PageSound, PageUnsound
    <2>4. QED
        BY <1>1, <2>2, <2>3
<1>4. CASE ContentFromS3 /\ ~BrokenOff
    <2>1. /\ page' = Append(page, s3[Followed][Len(page) + 1]) /\ sound' = sound + 1
          /\ get.op = "content" /\ get.pc = "object"
        BY <1>4 DEF ContentFromS3
    <2>2. sound = Len(page) /\ artifact[Followed].state = "UPLOADED"
        BY <2>1 DEF FollowInv, PageInv, GetInv
    <2>3. QED
        BY <1>1, <2>1, <2>2 DEF PageSound
<1>5. QED
    BY <1>2, <1>3, <1>4 DEF ContentRead

LEMMA ReadersKeepLog ==
    ASSUME IInv, FollowInv, LogInv, Poll \/ ChunksRead \/ Fetch \/ ContentRead
    PROVE  LogInv'
<1>1. UNCHANGED vars
    BY FollowerReads, BrowserReads
<1>2. UNCHANGED <<artifact, logchunk, s3, req, acked>>
    BY <1>1 DEF vars
<1>3. NoRowsYet(Followed)'
    BY <1>2 DEF LogInv, NoRowsYet
<1>4. artifact'[Followed].state = "UPLOADED" => logchunk'[Followed] = <<>> \/ AckedInRows'
    BY <1>2 DEF LogInv, AckedInRows
<1>5. \A p, byte : Known(p, byte) => Known(p, byte)'
    BY <1>2 DEF Known, Right, InRows
<1>6. /\ received \in Seq(Byte) /\ page \in Seq(Byte) /\ sound \in 0 .. Len(page)
      /\ DOMAIN received \subseteq Nat
    BY DEF FollowInv, ReaderTypeOK
<1>7. CASE Poll \/ ChunksRead
    <2>1. ASSUME NEW i \in DOMAIN received' PROVE received'[i] = Junk \/ Known(i, received'[i])
        <3>1. CASE i \in DOMAIN received
            BY <1>7, <3>1, FollowerReads DEF LogInv
        <3>2. CASE i \notin DOMAIN received /\ get.pc = "rows"
            <4>1. i \in Nat /\ received'[i] = RowByte(logchunk[Followed], i)
                BY <1>7, <3>2, FollowerReads
            <4>2. CASE Covered(logchunk[Followed], i)
                BY <4>1, <4>2, RowIsKnown
            <4>3. CASE ~Covered(logchunk[Followed], i)
                BY <4>1, <4>3 DEF RowByte
            <4>4. QED
                BY <4>2, <4>3
        <3>3. CASE i \notin DOMAIN received /\ get.pc # "rows"
            BY <1>7, <3>3, FollowerReads, ObjectIsKnown
        <3>4. QED
            BY <3>1, <3>2, <3>3
    <2>2. \A i \in 1 .. sound' : Known(i, page'[i])
        BY <1>7, FollowerReads DEF LogInv
    <2>3. /\ \A i \in DOMAIN received' : received'[i] = Junk \/ Known(i, received[i])'
          /\ \A i \in 1 .. sound' : Known(i, page[i])'
        BY <1>2, <2>1, <2>2 DEF Known, Right, InRows
    <2>4. QED
        BY <1>3, <1>4, <2>3 DEF LogInv
<1>8. CASE Fetch \/ ContentRead
    <2>1. received' = received
        BY <1>8, BrowserReads
    <2>2. \A i \in 1 .. sound' : Known(i, page'[i])
        <3>1. CASE sound' = 0 \/ UNCHANGED <<page, sound>>
            BY <3>1 DEF LogInv
        <3>2. ASSUME NEW byte, page' = Append(page, byte), PageSound(byte) \/ PageUnsound
              PROVE  \A i \in 1 .. sound' : Known(i, page'[i])
            <4>1. \A i \in 1 .. Len(page) : page'[i] = page[i]
                BY <1>6, <3>2
            <4>2. \A i \in 1 .. sound : Known(i, page'[i])
                BY <1>6, <4>1 DEF LogInv
            <4>3. CASE PageUnsound
                BY <4>2, <4>3 DEF PageUnsound
            <4>4. CASE PageSound(byte)
                <5>1. PICK p \in Nat : p = Len(page) + 1
                    BY <1>6
                <5>2. page'[p] = byte
                    BY <1>6, <3>2, <5>1
                <5>3. Known(p, byte)
                    BY <4>4, <5>1, RowIsKnown, ObjectIsKnown DEF PageSound
                <5>4. sound' = p /\ sound = p - 1
                    BY <1>6, <4>4, <5>1 DEF PageSound
                <5>5. \A i \in 1 .. p : i \in 1 .. (p - 1) \/ i = p
                    BY <5>1
                <5>6. QED
                    BY <4>2, <5>2, <5>3, <5>4, <5>5
            <4>5. QED
                BY <3>2, <4>3, <4>4
        <3>3. QED
            BY <1>8, <3>1, <3>2, BrowserReads
    <2>3. /\ \A i \in DOMAIN received' : received'[i] = Junk \/ Known(i, received[i])'
          /\ \A i \in 1 .. sound' : Known(i, page[i])'
        BY <1>2, <2>1, <2>2 DEF LogInv, Known, Right, InRows
    <2>4. QED
        BY <1>3, <1>4, <2>3 DEF LogInv
<1>9. QED
    BY <1>7, <1>8

\* Which bytes a step withholds.
OnlyMerge ==
    \A c \in acked[Followed] : Withholds(c) =>
        /\ get.pc = "rows" /\ get.art.state # "UPLOADED"
        /\ artifact[Followed].state = "UPLOADED" /\ logchunk[Followed] = <<>>

LEMMA ReadersWithhold ==
    ASSUME IInv, FollowInv, LogInv, Poll \/ ChunksRead \/ Fetch \/ ContentRead
    PROVE  OnlyMerge
<1> SUFFICES ASSUME NEW c \in acked[Followed], Withholds(c)
             PROVE  /\ get.pc = "rows"
                    /\ artifact[Followed].state = "UPLOADED" /\ logchunk[Followed] = <<>>
    BY DEF OnlyMerge, FollowInv, GetInv
<1>1. page \in Seq(Byte) /\ sound \in 0 .. Len(page) /\ c \in Chunk
    BY FollowedAssumption DEF FollowInv, ReaderTypeOK, IInv, TypeOK
<1>2. ASSUME NEW p \in Nat, Covers(c, p), get.pc = "rows",
             Covered(logchunk[Followed], p) => RowByte(logchunk[Followed], p) # c.data
      PROVE  artifact[Followed].state = "UPLOADED" /\ logchunk[Followed] = <<>>
    <2> SUFFICES ASSUME AckedInRows PROVE FALSE
        BY RowsHold
    <2>1. PICK i \in DOMAIN logchunk[Followed] : logchunk[Followed][i] = c
        BY DEF AckedInRows
    <2>2. RowByte(logchunk[Followed], p) = c.data
        BY <1>2, <2>1, FollowedTables, RowByteExact DEF TableInv
    <2>3. QED
        BY <1>2, <2>1, <2>2 DEF Covered
<1>3. CASE Poll \/ ChunksRead
    <2>1. PICK i \in DOMAIN received' \ DOMAIN received : Covers(c, i) /\ received'[i] # c.data
        BY <1>3, FollowerReads DEF Withholds
    <2>2. i \in Nat
        BY <1>3, <2>1, FollowerReads
    <2>3. CASE get.pc = "rows"
        BY <1>2, <1>3, <2>1, <2>2, <2>3, FollowerReads
    <2>4. CASE get.pc # "rows"
        <3>1. Right(i, received'[i])
            BY <1>3, <2>1, <2>2, <2>4, FollowerReads, ObjectIsKnown DEF Known
        <3>2. QED
            BY <2>1, <3>1 DEF Right
    <2>5. QED
        BY <2>3, <2>4
<1>4. CASE Fetch \/ ContentRead
    <2>1. received' = received
        BY <1>4, BrowserReads
    <2>2. sound = Len(page) /\ sound' < Len(page') /\ Covers(c, Len(page'))
        BY <2>1 DEF Withholds
    <2>3. PICK byte : page' = Append(page, byte) /\ (PageSound(byte) \/ PageUnsound)
        <3>1. ~(page' = <<>> /\ sound' = 0) /\ ~UNCHANGED <<page, sound>>
            BY <2>2
        <3>2. QED
            BY <1>4, <3>1, BrowserReads
    <2>4. Len(page') = Len(page) + 1
        BY <1>1, <2>3
    <2>5. get.pc = "rows" /\ ~Covered(logchunk[Followed], Len(page'))
        BY <1>1, <2>2, <2>3, <2>4 DEF PageSound, PageUnsound
    <2>6. QED
        BY <1>1, <1>2, <2>2, <2>4, <2>5
<1>5. QED
    BY <1>3, <1>4

LEMMA WriterWithholds ==
    ASSUME FollowInv, UNCHANGED reader
    PROVE  OnlyMerge
<1>1. received' = received /\ page' = page /\ sound' = sound
    BY DEF reader
<1>2. QED
    BY <1>1 DEF OnlyMerge, Withholds

LEMMA LogFollows ==
    IInv /\ FollowInv /\ LogInv /\ [FollowNext]_follow => LogInv' /\ OnlyMerge
<1> SUFFICES ASSUME IInv, FollowInv, LogInv, [FollowNext]_follow PROVE LogInv' /\ OnlyMerge
    OBVIOUS
<1>1. CASE UNCHANGED follow
    BY <1>1, WriterKeepsLog, WriterWithholds DEF follow
<1>2. CASE OrderlyNext /\ UNCHANGED reader
    BY <1>2, WriterKeepsLog, WriterWithholds
<1>3. CASE Poll \/ ChunksRead \/ Fetch \/ ContentRead
    BY <1>3, ReadersKeepLog, ReadersWithhold
<1>4. QED
    BY <1>1, <1>2, <1>3 DEF FollowNext

LEMMA LogBegins == Init /\ FollowInit => LogInv
<1> SUFFICES ASSUME Init, FollowInit PROVE LogInv
    OBVIOUS
<1>1. logchunk[Followed] = <<>> /\ received = <<>> /\ sound = 0
    BY FollowedAssumption DEF Init, FollowInit
<1>2. QED
    BY <1>1 DEF LogInv, NoRowsYet

LEMMA LogStays == FollowSpec => [](IInv /\ FollowInv /\ LogInv)
<1>1. IInv /\ FollowInv /\ LogInv /\ [FollowNext]_follow => LogInv'
    BY LogFollows
<1>2. QED
    BY <1>1, LogBegins, ReadersInv, PTL DEF FollowSpec

\* Whatever a reader was given of the log is what was acknowledged, then or
\* later, or a zero in the place of it: the rows of a log are only added to
\* before the merge, which acknowledges nothing, and the object of an UPLOADED
\* artifact is final (GetArtifactContentChunks, GetArtifactContent).
THEOREM ReadsAreRight == FollowSpec => []ReadersSeeTheLog
<1>1. ASSUME IInv, FollowInv, LogInv PROVE ReadersSeeTheLog
    <2>1. DOMAIN received \subseteq Nat /\ 1 .. sound \subseteq Nat
        BY <1>1 DEF FollowInv, ReaderTypeOK
    <2>2. \A i \in DOMAIN received : received[i] = Junk \/ Right(i, received[i])
        BY <1>1, <2>1, KnownIsRight DEF LogInv
    <2>3. \A i \in 1 .. sound : Right(i, page[i])
        BY <1>1, <2>1, KnownIsRight DEF LogInv
    <2>4. QED
        BY <2>2, <2>3 DEF ReadersSeeTheLog, Right
<1>2. QED
    BY <1>1, LogStays, PTL

\* Only the merge withholds an acknowledged byte from a reader, and only from a
\* request that bound the artifact before the merge and reads its rows after
\* their deletion (DeleteLogChunksForArtifact).
THEOREM OnlyTheMergeWithholds == FollowSpec => WithheldOnlyByMerge
<1>1. IInv /\ FollowInv /\ LogInv /\ [FollowNext]_follow => [OnlyMerge]_follow
    BY LogFollows
<1>2. [OnlyMerge]_follow =>
        [\A c \in acked[Followed] : Withholds(c) =>
            /\ get.pc = "rows" /\ get.art.state # "UPLOADED"
            /\ artifact[Followed].state = "UPLOADED" /\ logchunk[Followed] = <<>>]_follow
    BY DEF OnlyMerge
<1>3. QED
    BY <1>1, <1>2, LogStays, PTL DEF FollowSpec, WithheldOnlyByMerge

=============================================================================
