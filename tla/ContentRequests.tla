---------------------------- MODULE ContentRequests ----------------------------
(***************************************************************************)
(* Requests for the content of an artifact (api/artifacthandler.go)        *)
(* beside the requests of ArtifactStore that write it: a follower polls    *)
(* GetArtifactContentChunks from where the last answer left it, as the     *)
(* Changes UI does, and a browser fetches GetArtifactContent and caches    *)
(* what has an ETag.  Like every request they work with a copy of the row, *)
(* and read the logchunk rows or S3 some time later.                       *)
(***************************************************************************)
EXTENDS ArtifactStore

CONSTANTS
    Followed,                   \* the artifact that is read
    Lead, Tail2,                \* bytes that begin and end a rune of two bytes
    Limits,                     \* values of the parameter limit; 0 when absent
    MaxChunkedRequestBytes,
    ReadFaults                  \* {"db", "s3"}: what may fail under these requests

ASSUME FollowedAssumption == Followed \in Names
ASSUME RunesAssumption == Lead \subseteq Data /\ Tail2 \subseteq Data /\ Lead \cap Tail2 = {}
ASSUME ReadFaultsAssumption == ReadFaults \subseteq {"db", "s3"}
ASSUME LimitsAssumption == Limits \subseteq Nat /\ MaxChunkedRequestBytes \in Nat \ {0}

VARIABLES
    get,        \* the request for content in flight
    limit,      \* what the follower passes as limit
    nextOffset,       \* NextOffset of the follower's last answer
    eof,        \* EOF of the follower's last answer
    refused,    \* the follower's last request was answered with an error
    received,   \* history: the text of the chunks the follower was given
    page,       \* the bytes of the browser's last answer, complete or not
    sound,      \* history: how many of its first bytes a row or S3 had in store
    cache       \* the browser's copy; its length is its ETag, the artifact's size

reader == <<get, limit, nextOffset, eof, refused, received, page, sound, cache>>
follow == <<vars, reader>>

-----------------------------------------------------------------------------
\* from and to delimit the bytes from+1 .. to.  op is "none", "chunks" or
\* "content", and pc "idle", "rows" or "object".
NoGet == [op |-> "none", pc |-> "idle", art |-> NoRow, from |-> 0, to |-> 0]

QueryOutcome == {"ok"} \cup (IF "db" \in ReadFaults THEN {"refused"} ELSE {})

Lesser(a, b) == IF a < b THEN a ELSE b
Greater(a, b) == IF a < b THEN b ELSE a

\* Every rune is whole.
WellFormed(text) ==
    \A i \in DOMAIN text :
        /\ text[i] \in Lead => i < Len(text) /\ text[i + 1] \in Tail2
        /\ text[i] \in Tail2 => i > 1 /\ text[i - 1] \in Lead

\* Mutant: a rune that ends the text is taken for one that goes on.
RuneLimitedShort(text) ==
    CHOOSE k \in 0 .. Len(text) :
        /\ WellFormed(SubSeq(text, 1, k)) /\ (k = Len(text) => k = 0)
        /\ \A j \in (k + 1) .. (Len(text) - 1) : ~WellFormed(SubSeq(text, 1, j))

\* runeLimitedRead: how much of what was read is returned.
RuneLimited(text) ==
    CHOOSE k \in 0 .. Len(text) :
        /\ WellFormed(SubSeq(text, 1, k))
        /\ \A j \in (k + 1) .. Len(text) : ~WellFormed(SubSeq(text, 1, j))

\* Mutant: an UPLOADED artifact is read like one that is still a log.
SourceRows(row) == "rows"

\* Where the switch of both handlers sends a request whose copy of the row has
\* content to read.
Source(row) == IF row.state = "UPLOADED" THEN "object" ELSE "rows"

\* logChunkReader over rows that tile, into a fresh buffer: what no row covers
\* stays zero.
Covered(rows, p) == \E i \in DOMAIN rows : Covers(rows[i], p)

RowByte(rows, p) ==
    IF Covered(rows, p)
    THEN rows[CHOOSE i \in DOMAIN rows : Covers(rows[i], p)].data ELSE Junk

RowBytes(rows, from, to) == [i \in 1 .. (to - from) |-> RowByte(rows, from + i)]

FollowInit ==
    /\ get = NoGet /\ limit \in Limits /\ nextOffset = 0 /\ eof = FALSE
    /\ refused = FALSE /\ received = <<>>
    /\ page = <<>> /\ sound = 0 /\ cache = <<>>

-----------------------------------------------------------------------------
(***************************************************************************)
(* GetArtifactContentChunks.                                               *)
(***************************************************************************)

\* An answer with status 200 and a Result.
Result(text, isEof, end) ==
    /\ get' = NoGet
    /\ received' = received \o text /\ eof' = isEof /\ nextOffset' = end
    /\ refused' = FALSE
    /\ UNCHANGED <<page, sound, cache>>

\* An error, or an empty answer, from which the follower learns nothing.
NoResult ==
    /\ get' = NoGet /\ refused' = TRUE
    /\ UNCHANGED <<nextOffset, eof, received, page, sound, cache>>

\* getByteRangeFromRequest; the last byte is exclusive here.
RangeEnd(begin, size) ==
    LET wanted == IF limit = 0 THEN MaxChunkedRequestBytes ELSE limit
    IN  Lesser(size, begin + Lesser(wanted, MaxChunkedRequestBytes))

\* Mutant: a follower that has read everything there is has read all.
EofAlways(row) == TRUE

\* Mutant: only an answer with text can be the last.
EofNever(row) == FALSE

\* Whether a follower beyond the last byte has reached the end.
EofBeyond(row) == row.state = "UPLOADED"

\* bindArtifact and everything up to the read.  A follower that has been told
\* of the end stops.
Poll ==
    LET row == artifact[Followed]
        begin == Greater(nextOffset, 0)
    IN  /\ get.pc = "idle" /\ ~eof
        /\ \E outcome \in QueryOutcome :
            \/ (outcome # "ok" \/ row = NoRow) /\ NoResult
            \/ /\ outcome = "ok" /\ row # NoRow
               /\ IF begin >= row.size THEN Result(<<>>, EofBeyond(row), row.size)
                  ELSE \/ row.state \in {"UPLOADING", "WAITING_FOR_UPLOAD"}
                          /\ Result(<<>>, FALSE, begin)
                       \/ row.state \in {"ERROR", "CLOSED_WITHOUT_DATA"} /\ NoResult
                       \/ /\ row.state \in {"UPLOADED", "APPENDING", "APPEND_COMPLETE"}
                          /\ get' = [op |-> "chunks", pc |-> Source(row), art |-> row,
                                from |-> begin, to |-> RangeEnd(begin, row.size)]
                          /\ UNCHANGED <<nextOffset, eof, refused, received, page,
                                sound, cache>>
        /\ UNCHANGED <<vars, limit>>

\* Mutant: the next offset is the end of the range, held back bytes included.
ChunksFromRowsSkipping ==
    LET text == RowBytes(logchunk[Followed], get.from, get.to)
        count == RuneLimited(text)
    IN  /\ get.op = "chunks" /\ get.pc = "rows"
        /\ IF text[1] \in Tail2 THEN NoResult
           ELSE Result(SubSeq(text, 1, count), FALSE, get.to)
        /\ UNCHANGED <<vars, limit>>

\* Mutant: the reader is not moved to the offset.
ChunksFromStart ==
    LET text == RowBytes(logchunk[Followed], 0, get.to - get.from)
        count == RuneLimited(text)
    IN  /\ get.op = "chunks" /\ get.pc = "rows"
        /\ IF text[1] \in Tail2 THEN NoResult
           ELSE Result(SubSeq(text, 1, count), FALSE, get.from + count)
        /\ UNCHANGED <<vars, limit>>

\* The query and runeLimitedRead, which refuses to start inside a rune.
ChunksFromRows ==
    LET text == RowBytes(logchunk[Followed], get.from, get.to)
        count == RuneLimited(text)
    IN  /\ get.op = "chunks" /\ get.pc = "rows"
        /\ \E outcome \in QueryOutcome :
            IF outcome # "ok" \/ text[1] \in Tail2 THEN NoResult
            ELSE Result(SubSeq(text, 1, count), FALSE, get.from + count)
        /\ UNCHANGED <<vars, limit>>

\* A GET of the range; an object that is missing or refused is an error.
ChunksFromS3 ==
    LET text == SubSeq(s3[Followed], get.from + 1, get.to)
        end == get.from + Len(text)
    IN  /\ get.op = "chunks" /\ get.pc = "object"
        /\ \/ "s3" \in ReadFaults /\ NoResult
           \/ s3[Followed] = <<>> /\ NoResult
           \/ s3[Followed] # <<>> /\ Result(text, end = get.art.size, end)
        /\ UNCHANGED <<vars, limit>>

-----------------------------------------------------------------------------
(***************************************************************************)
(* GetArtifactContent.                                                     *)
(***************************************************************************)

BrowserKeeps == UNCHANGED <<limit, nextOffset, eof, refused, received>>

\* http.ServeContent answers 304 when the browser has the ETag.  A request for
\* an artifact without content changes nothing on either side, and one with a
\* Range header is not modelled.
Fetch ==
    LET row == artifact[Followed]
        served == row.state \in {"APPENDING", "APPEND_COMPLETE"}
    IN  /\ get.pc = "idle" /\ row.size > 0
        /\ row.state = "UPLOADED" \/ (served /\ Len(cache) # row.size)
        /\ get' = [op |-> "content", pc |-> Source(row), art |-> row,
                from |-> 0, to |-> row.size]
        /\ page' = <<>> /\ sound' = 0
        /\ UNCHANGED cache /\ BrowserKeeps
        /\ UNCHANGED vars

\* The answer ends before its last byte, and nothing is cached.
BrokenOff == get' = NoGet /\ UNCHANGED <<page, sound, cache>>

\* What a Read puts where no row covers the reader's offset: zeros, or what an
\* earlier Read has left in the buffer of ServeContent.
Leftovers == {Junk} \cup {page[i] : i \in DOMAIN page}

\* A Read of the logChunkReader that delivers the next byte (one that delivers
\* several is several steps in a row).  Over a byte that no row covers its
\* offset, get.from, does not move, and the rest of the answer is displaced.
ContentFromRows ==
    LET rows == logchunk[Followed]
        covered == Covered(rows, get.from + 1)
    IN  /\ get.op = "content" /\ get.pc = "rows"
        /\ \E outcome \in QueryOutcome :
            \/ outcome # "ok" /\ BrokenOff
            \/ /\ outcome = "ok"
               /\ \E byte \in IF covered THEN {RowByte(rows, get.from + 1)} ELSE Leftovers :
                    page' = Append(page, byte)
               /\ sound' = IF covered /\ sound = Len(page) THEN sound + 1 ELSE sound
               /\ IF Len(page) + 1 = get.to
                  THEN get' = NoGet /\ cache' = page'
                  ELSE /\ get' = [get EXCEPT !.from = IF covered THEN @ + 1 ELSE @]
                       /\ UNCHANGED cache
        /\ BrowserKeeps
        /\ UNCHANGED vars

\* io.CopyN of the object, byte for byte, after the status of the answer of S3
\* has been looked at.  An object that is missing, refused or too short breaks
\* the answer off.  It has no ETag.
ContentFromS3 ==
    LET next == Len(page) + 1
    IN  /\ get.op = "content" /\ get.pc = "object"
        /\ \/ ("s3" \in ReadFaults \/ next > Len(s3[Followed])) /\ BrokenOff
           \/ /\ next <= Len(s3[Followed])
              /\ page' = Append(page, s3[Followed][next]) /\ sound' = sound + 1
              /\ get' = IF next = get.to THEN NoGet ELSE get
              /\ UNCHANGED cache
        /\ BrowserKeeps
        /\ UNCHANGED vars

-----------------------------------------------------------------------------
ChunksRead == ChunksFromRows \/ ChunksFromS3
ContentRead == ContentFromRows \/ ContentFromS3

FollowNext ==
    \/ OrderlyNext /\ UNCHANGED reader
    \/ Poll \/ ChunksRead \/ Fetch \/ ContentRead

FollowSpec == Init /\ FollowInit /\ [][FollowNext]_follow

\* Requests are served, and the follower polls until it is told of the end,
\* whoever else asks for content: follower and browser share get.  The fairness
\* is about polls that do not fail, because a poll may change nothing else; those
\* that keep failing are excluded by the properties.
FairFollowSpec ==
    /\ FollowSpec
    /\ \A r \in Requests : WF_follow(Step(r) /\ UNCHANGED reader)
    /\ SF_follow(Poll /\ ~refused') /\ WF_follow(ChunksRead) /\ WF_follow(ContentRead)

-----------------------------------------------------------------------------
(***************************************************************************)
(* Properties.                                                             *)
(***************************************************************************)

\* A follower misses nothing and gets nothing twice: where it goes on is where
\* the text it has been given ends, across the merge of the log into S3.  The
\* offset it is told is negative while the artifact's announced size is, which
\* the next request takes for 0 (getByteRangeFromRequest).
FollowerIsInStep == Greater(nextOffset, 0) = Len(received)

\* A follower that is told of the end has all of an artifact that is finished.
EofIsTheEnd ==
    eof => artifact[Followed].state = "UPLOADED" /\ nextOffset = artifact[Followed].size

\* The log as its readers see it, at any time after they have read it: a byte
\* that has been acknowledged, before the read or since, is in the follower's
\* text as it was sent or was withheld (a zero, which a read between the two
\* writes of AppendLogChunk or under the merge delivers); and it is in a
\* browser's answer as it was sent, up to the first byte that was withheld.
ReadersSeeTheLog ==
    \A c \in acked[Followed] :
        /\ \A i \in DOMAIN received : Covers(c, i) => received[i] \in {c.data, Junk}
        /\ \A i \in 1 .. sound : Covers(c, i) => page[i] = c.data

\* The step withholds a byte of the chunk from the follower, or is the first of
\* an answer to withhold one from the browser.
Withholds(c) ==
    \/ \E i \in DOMAIN received' \ DOMAIN received : Covers(c, i) /\ received'[i] # c.data
    \/ sound = Len(page) /\ sound' < Len(page') /\ Covers(c, Len(page'))

\* Only the merge withholds a byte that has been acknowledged, and only from a
\* request that had looked at the row before it: by then the object is whole,
\* the row UPLOADED and the logchunk rows are deleted (MergeLogChunks).
WithheldOnlyByMerge ==
    [][\A c \in acked[Followed] : Withholds(c) =>
        /\ get.pc = "rows" /\ get.art.state # "UPLOADED"
        /\ artifact[Followed].state = "UPLOADED" /\ logchunk[Followed] = <<>>]_follow

\* "All written bytes are immutable. So, unless size changes, all previously
\* read contents can be cached" (GetArtifactContent): what is cached under the
\* artifact's size is what was acknowledged.
CacheIsCurrent ==
    LET row == artifact[Followed]
    IN  row.state \in {"APPENDING", "APPEND_COMPLETE"} /\ row.size = Len(cache) =>
            \A c \in acked[Followed], p \in DOMAIN cache : Covers(c, p) => cache[p] = c.data

\* The follower of an artifact that is finished is told so once requests for
\* content stop failing.
FollowerFinishes ==
    <>[]~refused => []<>(artifact[Followed].state = "UPLOADED" => eof)

\* The rows hold all of a log, and it is text a request can serve.
Readable ==
    LET row == artifact[Followed]
    IN  /\ row.state = "APPENDING"
        /\ \A p \in 1 .. row.size : \E i \in DOMAIN logchunk[Followed] :
                Covers(logchunk[Followed][i], p)
        /\ WellFormed(RowBytes(logchunk[Followed], 0, row.size))

\* The follower of a log that nobody writes to any more catches up with it,
\* provided that its limit has room for a rune and its requests stop failing.
FollowerCatchesUp ==
    <>[](limit # 1 /\ Readable /\ ~refused) => []<>(nextOffset = artifact[Followed].size)

=============================================================================
