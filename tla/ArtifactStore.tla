---------------------------- MODULE ArtifactStore ----------------------------
(***************************************************************************)
(* The artifact server (api/artifacthandler.go, api/buckethandler.go) over *)
(* its SQL database (database/gorp_database.go) and S3, for the requests   *)
(* that change state: create and close a bucket, create, post to and close *)
(* an artifact.  One bucket is modelled: no statement of the server        *)
(* touches the rows of two buckets.                                        *)
(*                                                                         *)
(* Every request runs in a goroutine of its own and takes no lock and no   *)
(* transaction: it reads a row, keeps the copy, and later writes the whole *)
(* row back.  A step of a request is one call on the database, S3 or the   *)
(* request body, so steps of different requests interleave between them.   *)
(***************************************************************************)
EXTENDS Integers, Sequences

CONSTANTS
    Names,              \* artifact names of the bucket, generated ones included
    NoName,             \* the name of a request that is not about an artifact
    Requests,           \* slots for requests in flight at the same time
    Data,               \* what one byte of a payload can hold
    Junk,               \* a byte nobody sent (uninitialised read buffer)
    Sizes,              \* sizes a client may announce; 0 and less are malformed
    MaxSize,            \* bound on offset + size of a payload
    MaxArtifactSize,    \* MaxArtifactSizeBytes
    MaxUploadAttempts,
    MaxNameAttempts,    \* MaxDuplicateFileNameResolutionAttempts
    Faults              \* which parts of the environment may fail

ASSUME NamesAssumption == NoName \notin Names
ASSUME DataAssumption == Junk \notin Data
ASSUME SizesAssumption ==
    /\ Sizes \subseteq Int
    /\ MaxSize \in Nat
    /\ MaxArtifactSize \in Nat
ASSUME AttemptsAssumption ==
    /\ MaxUploadAttempts \in Nat \ {0}
    /\ MaxNameAttempts \in Nat
ASSUME FaultsAssumption == Faults \subseteq {"db", "s3", "body", "crash"}

VARIABLES
    bucket,     \* state of the bucket's row, "NONE" when it does not exist
    artifact,   \* [Names -> Row], the artifact table
    logchunk,   \* [Names -> Seq(Chunk)], the logchunk table in order of id
    s3,         \* [Names -> Seq(Byte)], the stored object, <<>> when there is none
    req,        \* [Requests -> Request], what each goroutine holds in memory
    reply,      \* [Requests -> Replies], the last answer of each slot
    acked,      \* history: payloads whose POST was answered 200 with the artifact
    settled     \* history: a CloseBucket request was answered 200

tables == <<bucket, artifact, logchunk, s3>>
history == <<acked, settled>>
vars == <<bucket, artifact, logchunk, s3, req, reply, acked, settled>>

-----------------------------------------------------------------------------
(***************************************************************************)
(* Data.  A chunk stands for offset, size and content: size equal bytes.   *)
(***************************************************************************)

ArtifactState == {"ERROR", "APPENDING", "APPEND_COMPLETE",
    "WAITING_FOR_UPLOAD", "UPLOADING", "UPLOADED", "CLOSED_WITHOUT_DATA"}

BucketState == {"NONE", "OPEN", "CLOSED"}

NoRow == [state |-> "NO_ROW", size |-> 0]
Row == [state : ArtifactState \cup {"NO_ROW"}, size : Int]

Byte == Data \cup {Junk}
Chunk == [offset : Nat, size : Nat, data : Byte]
NoLoad == [offset |-> 0, size |-> 0, data |-> Junk]

Replies == {"none", "200", "200 empty", "400", "404", "413", "500", "lost"}

Ops == {"none", "createBucket", "create", "post", "close", "closeBucket"}

ProgramPoints == {"idle", "bind",
    "insertBucket", "insertArtifact", "lookupArtifact",
    "growArtifact", "insertLogChunk", "lastLogChunk",
    "setUploading", "readBody", "readChunks", "putObject", "setUploaded",
    "setError", "markComplete", "setClosedWithoutData", "deleteLogChunks",
    "updateBucket", "listArtifacts", "nextArtifact"}

\* art is the goroutine's *model.Artifact, listing the rows CloseBucket has
\* listed and not closed yet, tries counts renames or failed uploads.
Memory == [op : Ops, pc : ProgramPoints, base : Names \cup {NoName},
    name : Names \cup {NoName}, art : Row, load : Chunk, body : Seq(Byte),
    tries : Nat, listing : [Names -> Row]]

Request == {q \in Memory : q.op \in {"post", "close"} => q.name \in Names}

NoListing == [n \in Names |-> NoRow]

Idle == [op |-> "none", pc |-> "idle", base |-> NoName, name |-> NoName,
    art |-> NoRow, load |-> NoLoad, body |-> <<>>, tries |-> 0,
    listing |-> NoListing]

Covers(c, p) == c.offset < p /\ p <= c.offset + c.size

\* The chunk's bytes are where they belong in the object.
Holds(object, c) ==
    \A p \in (c.offset + 1) .. (c.offset + c.size) :
        p <= Len(object) /\ object[p] = c.data

-----------------------------------------------------------------------------
(***************************************************************************)
(* The environment.  A database write may be refused, or be applied while  *)
(* the caller is told it failed (the connection drops after the commit).   *)
(***************************************************************************)

WriteOutcome == {"ok"} \cup (IF "db" \in Faults THEN {"refused", "lost"} ELSE {})
ReadOutcome == {"ok"} \cup (IF "db" \in Faults THEN {"refused"} ELSE {})
PutOutcome == {"ok"} \cup (IF "s3" \in Faults THEN {"refused", "lost"} ELSE {})
BodyOutcome == {"ok"} \cup (IF "body" \in Faults THEN {"refused"} ELSE {})

Applied(outcome) == outcome # "refused"

\* UPDATE artifact SET <every column> WHERE id = ..., whatever the row holds now.
UpdateArtifact(n, row, outcome) ==
    artifact' = IF Applied(outcome) THEN [artifact EXCEPT ![n] = row] ELSE artifact

-----------------------------------------------------------------------------
(***************************************************************************)
(* The goroutine of a request: where it goes next, and its answer.         *)
(***************************************************************************)

At(r, pc) == req[r].pc = pc

Continue(r, request) ==
    req' = [req EXCEPT ![r] = request] /\ UNCHANGED <<reply, history>>

Answer(r, code) ==
    /\ req' = [req EXCEPT ![r] = Idle]
    /\ reply' = [reply EXCEPT ![r] = code]

Respond(r, code) == Answer(r, code) /\ UNCHANGED history

\* PostArtifact answers 200 with the artifact.
Acknowledge(r) ==
    /\ Answer(r, "200")
    /\ acked' = [acked EXCEPT ![req[r].name] = @ \cup {req[r].load}]
    /\ UNCHANGED settled

\* CloseArtifact returns nil: the request is over, or CloseBucket goes on.
Closed(r, request) ==
    \/ /\ request.op = "close"
       /\ Respond(r, "200")
    \/ /\ request.op = "closeBucket"
       /\ Continue(r, [request EXCEPT !.pc = "nextArtifact", !.name = NoName,
                           !.art = NoRow, !.body = <<>>, !.tries = 0])

\* CloseArtifact returns an error: HandleCloseArtifact and HandleCloseBucket
\* answer 400, the latter without looking at the rest of its listing.
CloseFailed(r) == Respond(r, "400")

-----------------------------------------------------------------------------
(***************************************************************************)
(* Requests as they arrive.                                                *)
(***************************************************************************)

Loads == {load \in [offset : 0 .. MaxSize, size : Sizes, data : Data] :
            load.size >= 0 /\ load.offset + load.size <= MaxSize}

\* Mutant: CreateArtifact leaves the state of a chunked artifact at its zero value.
NewArtifactUnknown ==
    {[state |-> "UNKNOWN_ARTIFACT_STATE", size |-> 0]} \cup
    {[state |-> "WAITING_FOR_UPLOAD", size |-> size] : size \in Sizes}

NewArtifact ==
    {[state |-> "APPENDING", size |-> 0]} \cup
    {[state |-> "WAITING_FOR_UPLOAD", size |-> size] : size \in Sizes}

BucketRequest(op) == [Idle EXCEPT !.op = op, !.pc = "bind"]
CreateRequest(n, row) ==
    [Idle EXCEPT !.op = "create", !.pc = "bind", !.base = n, !.name = n, !.art = row]
PostRequest(n, load) ==
    [Idle EXCEPT !.op = "post", !.pc = "bind", !.name = n, !.load = load]
CloseRequest(n) == [Idle EXCEPT !.op = "close", !.pc = "bind", !.name = n]

\* The requests that name the artifact.
ArrivalsFor(n) ==
    {CreateRequest(n, row) : row \in NewArtifact}
    \cup {PostRequest(n, load) : load \in Loads}
    \cup {CloseRequest(n)}

Arrivals ==
    {BucketRequest("createBucket"), BucketRequest("closeBucket")}
    \cup UNION {ArrivalsFor(n) : n \in Names}

Receive(r, request) ==
    /\ At(r, "idle")
    /\ req' = [req EXCEPT ![r] = request]
    /\ reply' = [reply EXCEPT ![r] = "none"]
    /\ UNCHANGED <<tables, history>>

-----------------------------------------------------------------------------
(***************************************************************************)
(* CreateBucket and CreateArtifact.                                        *)
(***************************************************************************)

\* GetBucket, and "Entity exists".
BindCreateBucket(r) ==
    /\ At(r, "bind") /\ req[r].op = "createBucket"
    /\ \E outcome \in ReadOutcome :
        \/ outcome # "ok" /\ Respond(r, "500")
        \/ outcome = "ok" /\ bucket # "NONE" /\ Respond(r, "400")
        \/ /\ outcome = "ok" /\ bucket = "NONE"
           /\ Continue(r, [req[r] EXCEPT !.pc = "insertBucket"])
    /\ UNCHANGED tables

\* The id is the primary key: a second insert fails.
InsertBucket(r) ==
    /\ At(r, "insertBucket")
    /\ \E outcome \in WriteOutcome :
        /\ bucket' = IF bucket = "NONE" /\ Applied(outcome) THEN "OPEN" ELSE bucket
        /\ Respond(r, IF bucket = "NONE" /\ outcome = "ok" THEN "200" ELSE "400")
    /\ UNCHANGED <<artifact, logchunk, s3>>

\* Mutant: CreateArtifact does not look at the bucket's state.
BindCreateInClosedBucket(r) ==
    /\ At(r, "bind") /\ req[r].op = "create"
    /\ bucket # "NONE"
    /\ Continue(r, [req[r] EXCEPT !.pc = "insertArtifact"])
    /\ UNCHANGED tables

\* bindBucket and the checks CreateArtifact makes before it touches the database.
BindCreate(r) ==
    LET art == req[r].art
        streamed == art.state = "WAITING_FOR_UPLOAD"
    IN  /\ At(r, "bind") /\ req[r].op = "create"
        /\ \E outcome \in ReadOutcome :
            \/ outcome # "ok" /\ Respond(r, "500")
            \/ outcome = "ok" /\ bucket = "NONE" /\ Respond(r, "404")
            \/ outcome = "ok" /\ bucket = "CLOSED" /\ Respond(r, "400")
            \/ /\ outcome = "ok" /\ bucket = "OPEN"
               /\ \/ streamed /\ art.size = 0 /\ Respond(r, "400")
                  \/ streamed /\ art.size > MaxArtifactSize /\ Respond(r, "413")
                  \/ /\ streamed => art.size # 0 /\ art.size <= MaxArtifactSize
                     /\ Continue(r, [req[r] EXCEPT !.pc = "insertArtifact"])
        /\ UNCHANGED tables

\* UNIQUE (bucketid, name) refuses a taken name.  Any failure is first taken
\* for a collision, until MaxNameAttempts names have been tried.
InsertArtifact(r) ==
    LET n == req[r].name
        free == artifact[n] = NoRow
    IN  /\ At(r, "insertArtifact")
        /\ \E outcome \in WriteOutcome :
            /\ artifact' = IF free /\ Applied(outcome)
                           THEN [artifact EXCEPT ![n] = req[r].art] ELSE artifact
            /\ \/ free /\ outcome = "ok" /\ Respond(r, "200")
               \/ /\ ~free \/ outcome # "ok"
                  /\ IF req[r].tries = MaxNameAttempts
                     THEN Respond(r, "500")
                     ELSE Continue(r, [req[r] EXCEPT !.pc = "lookupArtifact"])
        /\ UNCHANGED <<bucket, logchunk, s3>>

\* Nothing found means the insert did not fail for a collision: give up.
\* Otherwise the next name is the requested one with a random suffix.
LookupArtifact(r) ==
    /\ At(r, "lookupArtifact")
    /\ \E outcome \in ReadOutcome :
        \/ outcome # "ok" /\ Respond(r, "500")
        \/ outcome = "ok" /\ artifact[req[r].name] = NoRow /\ Respond(r, "500")
        \/ /\ outcome = "ok" /\ artifact[req[r].name] # NoRow
           /\ \E n \in Names \ {req[r].base} :
                Continue(r, [req[r] EXCEPT !.pc = "insertArtifact", !.name = n,
                                 !.tries = @ + 1])
    /\ UNCHANGED tables

-----------------------------------------------------------------------------
(***************************************************************************)
(* PostArtifact.  The route binds the artifact, not the bucket.            *)
(***************************************************************************)

\* The copy of the row the whole request works with.
Bound(r, pc) == [req[r] EXCEPT !.pc = pc, !.art = artifact[req[r].name]]

\* Mutant: a chunk may start anywhere before the end of the artifact.
BindOverlappingAppend(r) ==
    LET load == req[r].load
    IN  IF load.size > 0 /\ load.offset <= artifact[req[r].name].size
        THEN Continue(r, Bound(r, "growArtifact"))
        ELSE Respond(r, "400")

\* AppendLogChunk before its first write: the chunk must start where the
\* artifact ends, or be a repetition of the last chunk.
BindAppend(r) ==
    LET load == req[r].load
        size == artifact[req[r].name].size
    IN  \/ load.size <= 0 /\ Respond(r, "400")
        \/ load.size > 0 /\ load.offset = size /\ Continue(r, Bound(r, "growArtifact"))
        \/ /\ load.size > 0 /\ load.offset # size
           /\ IF size # 0 /\ size = load.offset + load.size
              THEN Continue(r, Bound(r, "lastLogChunk"))
              ELSE Respond(r, "400")

BindPost(r) ==
    LET row == artifact[req[r].name]
    IN  /\ At(r, "bind") /\ req[r].op = "post"
        /\ \E outcome \in ReadOutcome :
            \/ (outcome # "ok" \/ row = NoRow) /\ Respond(r, "500")
            \/ /\ outcome = "ok"
               /\ \/ /\ row.state = "WAITING_FOR_UPLOAD"
                     /\ IF req[r].load.size = row.size     \* an upload has no offset
                        THEN Continue(r, [Bound(r, "setUploading") EXCEPT !.load.offset = 0])
                        ELSE Respond(r, "400")
                  \/ row.state = "APPENDING" /\ BindAppend(r)
                  \/ /\ row.state \in {"UPLOADING", "UPLOADED", "APPEND_COMPLETE"}
                     /\ Respond(r, "400")
                  \/ /\ row.state \in {"ERROR", "CLOSED_WITHOUT_DATA"}
                     /\ Respond(r, "200 empty")     \* the switch has no case for these
        /\ UNCHANGED tables

GrowArtifact(r) ==
    LET load == req[r].load
        row == [req[r].art EXCEPT !.size = load.offset + load.size]
    IN  /\ At(r, "growArtifact")
        /\ \E outcome \in WriteOutcome :
            /\ UpdateArtifact(req[r].name, row, outcome)
            /\ IF outcome = "ok"
               THEN Continue(r, [req[r] EXCEPT !.pc = "insertLogChunk", !.art = row])
               ELSE Respond(r, "500")
        /\ UNCHANGED <<bucket, logchunk, s3>>

\* Mutant: the error of the insert is dropped.
InsertLogChunkUnchecked(r) ==
    /\ At(r, "insertLogChunk")
    /\ \E outcome \in WriteOutcome :
        logchunk' = IF Applied(outcome)
                    THEN [logchunk EXCEPT ![req[r].name] = Append(@, req[r].load)]
                    ELSE logchunk
    /\ Acknowledge(r)
    /\ UNCHANGED <<bucket, artifact, s3>>

InsertLogChunk(r) ==
    LET n == req[r].name
    IN  /\ At(r, "insertLogChunk")
        /\ \E outcome \in WriteOutcome :
            /\ logchunk' = IF Applied(outcome)
                           THEN [logchunk EXCEPT ![n] = Append(@, req[r].load)]
                           ELSE logchunk
            /\ IF outcome = "ok" THEN Acknowledge(r) ELSE Respond(r, "400")
        /\ UNCHANGED <<bucket, artifact, s3>>

\* GetLastLogChunkSeenForArtifact: a row with the greatest offset.
IsLast(rows, i) == \A j \in DOMAIN rows : rows[j].offset <= rows[i].offset

LastLogChunk(r) ==
    LET rows == logchunk[req[r].name]
    IN  /\ At(r, "lastLogChunk")
        /\ \E outcome \in ReadOutcome :
            \/ (outcome # "ok" \/ rows = <<>>) /\ Respond(r, "400")
            \/ /\ outcome = "ok"
               /\ \E i \in DOMAIN rows :
                    /\ IsLast(rows, i)
                    /\ IF rows[i] = req[r].load THEN Acknowledge(r) ELSE Respond(r, "400")
        /\ UNCHANGED tables

-----------------------------------------------------------------------------
(***************************************************************************)
(* PutArtifact, MergeLogChunks and uploadArtifactToS3.                     *)
(***************************************************************************)

Merging(r) == req[r].op # "post"

\* Mutant: the error of uploadArtifactToS3 is dropped.
UploadFailedUnchecked(r) == Continue(r, [req[r] EXCEPT !.pc = "setUploaded"])

\* uploadArtifactToS3 or the write that follows it has failed for good.
UploadFailed(r) ==
    IF Merging(r) THEN CloseFailed(r)
    ELSE Continue(r, [req[r] EXCEPT !.pc = "setError"])

SetUploading(r) ==
    LET row == [req[r].art EXCEPT !.state = "UPLOADING"]
        next == IF Merging(r) THEN "readChunks" ELSE "readBody"
    IN  /\ At(r, "setUploading")
        /\ \E outcome \in WriteOutcome :
            /\ UpdateArtifact(req[r].name, row, outcome)
            /\ \/ outcome = "ok" /\ Continue(r, [req[r] EXCEPT !.pc = next, !.art = row])
               \/ outcome # "ok" /\ Merging(r) /\ CloseFailed(r)
               \/ outcome # "ok" /\ ~Merging(r) /\ Respond(r, "500")
        /\ UNCHANGED <<bucket, logchunk, s3>>

\* io.CopyN of the request's body into memory.
ReadBody(r) ==
    /\ At(r, "readBody")
    /\ \E outcome \in BodyOutcome :
        \/ outcome # "ok" /\ UploadFailed(r)
        \/ /\ outcome = "ok"
           /\ Continue(r, [req[r] EXCEPT !.pc = "putObject",
                    !.body = [i \in 1 .. req[r].art.size |-> req[r].load.data]])
    /\ UNCHANGED tables

\* Exactly one row covers each position up to p.
Exact(rows, p) ==
    \A q \in 1 .. p : \E i \in DOMAIN rows :
        Covers(rows[i], q) /\ \A j \in DOMAIN rows : Covers(rows[j], q) => j = i

\* What logChunkReader delivers at position p.  Where no row or several rows
\* cover a position it delivers bytes of its buffers from there on.
BytesAt(rows, p) ==
    {b \in Byte : Exact(rows, p) =>
        \E i \in DOMAIN rows : Covers(rows[i], p) /\ b = rows[i].data}

\* A hole before a row makes logChunkReader.Read slice at a negative index.
HasHole(rows) ==
    \E i \in DOMAIN rows : \E q \in 1 .. rows[i].offset :
        \A j \in DOMAIN rows : ~Covers(rows[j], q)

\* Mutant: failed attempts are not counted.
AttemptFailedUncounted(r) ==
    Continue(r, [req[r] EXCEPT !.pc = IF Merging(r) THEN "readChunks" ELSE "putObject",
                     !.body = IF Merging(r) THEN <<>> ELSE @])

\* Mutant: the reader is not rewound before the next attempt.
AttemptFailedNotRewound(r) ==
    IF req[r].tries + 1 < MaxUploadAttempts
    THEN Continue(r, [req[r] EXCEPT !.tries = @ + 1,
            !.pc = IF Merging(r) THEN "readChunks" ELSE "putObject"])
    ELSE UploadFailed(r)

\* An attempt has failed: rewind and try again, or give up.
AttemptFailed(r) ==
    IF req[r].tries + 1 < MaxUploadAttempts
    THEN Continue(r, [req[r] EXCEPT !.tries = @ + 1,
            !.pc = IF Merging(r) THEN "readChunks" ELSE "putObject",
            !.body = IF Merging(r) THEN <<>> ELSE @])
    ELSE UploadFailed(r)

\* PutReader sends the bytes of a logChunkReader.  Each query serves some of
\* them; a query that serves several is several steps in a row.
ReadChunks(r) ==
    /\ At(r, "readChunks")
    /\ \E outcome \in ReadOutcome :
        \/ outcome # "ok" /\ AttemptFailed(r)
        \/ /\ outcome = "ok"
           /\ \E b \in BytesAt(logchunk[req[r].name], Len(req[r].body) + 1) :
                Continue(r, [req[r] EXCEPT !.body = Append(@, b),
                    !.pc = IF Len(req[r].body) + 1 = req[r].art.size
                           THEN "putObject" ELSE "readChunks"])
    /\ UNCHANGED tables

\* S3 has the whole object or none of it; the answer may be lost.
PutObject(r) ==
    /\ At(r, "putObject")
    /\ \E outcome \in PutOutcome :
        /\ s3' = IF Applied(outcome) THEN [s3 EXCEPT ![req[r].name] = req[r].body] ELSE s3
        /\ \/ outcome = "ok" /\ Continue(r, [req[r] EXCEPT !.pc = "setUploaded"])
           \/ outcome # "ok" /\ AttemptFailed(r)
    /\ UNCHANGED <<bucket, artifact, logchunk>>

\* A failure here does not reach cleanupAndReturn.
SetUploaded(r) ==
    LET row == [req[r].art EXCEPT !.state = "UPLOADED"]
    IN  /\ At(r, "setUploaded")
        /\ \E outcome \in WriteOutcome :
            /\ UpdateArtifact(req[r].name, row, outcome)
            /\ \/ /\ outcome = "ok" /\ Merging(r)
                  /\ Continue(r, [req[r] EXCEPT !.pc = "deleteLogChunks", !.art = row])
               \/ outcome = "ok" /\ ~Merging(r) /\ Acknowledge(r)
               \/ outcome # "ok" /\ Merging(r) /\ CloseFailed(r)
               \/ outcome # "ok" /\ ~Merging(r) /\ Respond(r, "500")
        /\ UNCHANGED <<bucket, logchunk, s3>>

\* cleanupAndReturn, which ignores the outcome of its own write.
SetError(r) ==
    /\ At(r, "setError")
    /\ \E outcome \in WriteOutcome :
        UpdateArtifact(req[r].name, [req[r].art EXCEPT !.state = "ERROR"], outcome)
    /\ Respond(r, "500")
    /\ UNCHANGED <<bucket, logchunk, s3>>

\* DeleteLogChunksForArtifact dereferences the nil result of a failed DELETE,
\* and the panic is answered by gin's recovery handler.
DeleteLogChunks(r) ==
    /\ At(r, "deleteLogChunks")
    /\ \E outcome \in WriteOutcome :
        /\ logchunk' = IF Applied(outcome)
                       THEN [logchunk EXCEPT ![req[r].name] = <<>>] ELSE logchunk
        /\ \/ outcome = "ok" /\ Closed(r, req[r])
           \/ outcome # "ok" /\ Respond(r, "500")
    /\ UNCHANGED <<bucket, artifact, s3>>

-----------------------------------------------------------------------------
(***************************************************************************)
(* CloseArtifact and CloseBucket.                                          *)
(***************************************************************************)

\* Mutant: an UPLOADED artifact is closed like one that is APPENDING.
CloseUploadedAgain(r, request) ==
    \/ request.art.state = "APPEND_COMPLETE" /\ Closed(r, request)
    \/ /\ request.art.state \in {"APPENDING", "UPLOADED"}
       /\ Continue(r, [request EXCEPT !.pc = "markComplete"])
    \/ /\ request.art.state = "WAITING_FOR_UPLOAD"
       /\ Continue(r, [request EXCEPT !.pc = "setClosedWithoutData"])
    \/ /\ request.art.state \in {"UPLOADING", "ERROR", "CLOSED_WITHOUT_DATA"}
       /\ CloseFailed(r)

\* Mutant: an upload that never came is left as it is.
CloseLeavesWaiting(r, request) ==
    \/ /\ request.art.state \in {"UPLOADED", "APPEND_COMPLETE", "WAITING_FOR_UPLOAD"}
       /\ Closed(r, request)
    \/ /\ request.art.state = "APPENDING"
       /\ Continue(r, [request EXCEPT !.pc = "markComplete"])
    \/ /\ request.art.state \in {"UPLOADING", "ERROR", "CLOSED_WITHOUT_DATA"}
       /\ CloseFailed(r)

\* CloseArtifact on the copy of the row the request holds.
CloseArtifact(r, request) ==
    \/ request.art.state \in {"UPLOADED", "APPEND_COMPLETE"} /\ Closed(r, request)
    \/ /\ request.art.state = "APPENDING"
       /\ Continue(r, [request EXCEPT !.pc = "markComplete"])
    \/ /\ request.art.state = "WAITING_FOR_UPLOAD"
       /\ Continue(r, [request EXCEPT !.pc = "setClosedWithoutData"])
    \/ /\ request.art.state \in {"UPLOADING", "ERROR", "CLOSED_WITHOUT_DATA"}
       /\ CloseFailed(r)

BindClose(r) ==
    /\ At(r, "bind") /\ req[r].op = "close"
    /\ \E outcome \in ReadOutcome :
        \/ outcome # "ok" /\ Respond(r, "500")
        \/ outcome = "ok" /\ bucket = "NONE" /\ Respond(r, "404")
        \/ /\ outcome = "ok" /\ bucket # "NONE"
           /\ IF artifact[req[r].name] = NoRow THEN Respond(r, "500")
              ELSE CloseArtifact(r, Bound(r, "bind"))
    /\ UNCHANGED tables

\* Mutant: CloseArtifact returns without merging.
MarkCompleteOnly(r) ==
    /\ At(r, "markComplete")
    /\ \E outcome \in WriteOutcome :
        /\ UpdateArtifact(req[r].name,
                [req[r].art EXCEPT !.state = "APPEND_COMPLETE"], outcome)
        /\ IF outcome = "ok" THEN Closed(r, req[r]) ELSE CloseFailed(r)
    /\ UNCHANGED <<bucket, logchunk, s3>>

\* Mutant: every log is closed like one without a byte.
MarkCompleteDiscards(r) ==
    LET row == [req[r].art EXCEPT !.state = "APPEND_COMPLETE"]
    IN  /\ At(r, "markComplete")
        /\ \E outcome \in WriteOutcome :
            /\ UpdateArtifact(req[r].name, row, outcome)
            /\ IF outcome = "ok"
               THEN Continue(r, [req[r] EXCEPT !.pc = "setClosedWithoutData", !.art = row])
               ELSE CloseFailed(r)
        /\ UNCHANGED <<bucket, logchunk, s3>>

MarkComplete(r) ==
    LET row == [req[r].art EXCEPT !.state = "APPEND_COMPLETE"]
        next == IF row.size = 0 THEN "setClosedWithoutData" ELSE "setUploading"
    IN  /\ At(r, "markComplete")
        /\ \E outcome \in WriteOutcome :
            /\ UpdateArtifact(req[r].name, row, outcome)
            /\ IF outcome = "ok"
               THEN Continue(r, [req[r] EXCEPT !.pc = next, !.art = row])
               ELSE CloseFailed(r)
        /\ UNCHANGED <<bucket, logchunk, s3>>

\* An upload that never came, or a chunked artifact without a byte.
SetClosedWithoutData(r) ==
    /\ At(r, "setClosedWithoutData")
    /\ \E outcome \in WriteOutcome :
        /\ UpdateArtifact(req[r].name,
                [req[r].art EXCEPT !.state = "CLOSED_WITHOUT_DATA"], outcome)
        /\ IF outcome = "ok" THEN Closed(r, req[r]) ELSE CloseFailed(r)
    /\ UNCHANGED <<bucket, logchunk, s3>>

BindCloseBucket(r) ==
    /\ At(r, "bind") /\ req[r].op = "closeBucket"
    /\ \E outcome \in ReadOutcome :
        \/ outcome # "ok" /\ Respond(r, "500")
        \/ outcome = "ok" /\ bucket = "NONE" /\ Respond(r, "404")
        \/ outcome = "ok" /\ bucket = "CLOSED" /\ Respond(r, "400")
        \/ /\ outcome = "ok" /\ bucket = "OPEN"
           /\ Continue(r, [req[r] EXCEPT !.pc = "updateBucket"])
    /\ UNCHANGED tables

UpdateBucket(r) ==
    /\ At(r, "updateBucket")
    /\ \E outcome \in WriteOutcome :
        /\ bucket' = IF Applied(outcome) THEN "CLOSED" ELSE bucket
        /\ IF outcome = "ok"
           THEN Continue(r, [req[r] EXCEPT !.pc = "listArtifacts"])
           ELSE CloseFailed(r)
    /\ UNCHANGED <<artifact, logchunk, s3>>

ListArtifacts(r) ==
    /\ At(r, "listArtifacts")
    /\ \E outcome \in ReadOutcome :
        IF outcome = "ok"
        THEN Continue(r, [req[r] EXCEPT !.pc = "nextArtifact", !.listing = artifact])
        ELSE CloseFailed(r)
    /\ UNCHANGED tables

\* The listing has no order.
NextArtifact(r) ==
    /\ At(r, "nextArtifact")
    /\ \/ /\ req[r].listing = NoListing
          /\ Answer(r, "200")
          /\ settled' = TRUE
          /\ UNCHANGED acked
       \/ \E n \in Names :
            /\ req[r].listing[n] # NoRow
            /\ CloseArtifact(r, [req[r] EXCEPT !.name = n, !.art = req[r].listing[n],
                                     !.listing = [@ EXCEPT ![n] = NoRow]])
    /\ UNCHANGED tables

-----------------------------------------------------------------------------
(***************************************************************************)
(* The end of a process takes the requests it serves with it; requests of  *)
(* the process that replaces it during a restart may go on.                *)
(***************************************************************************)

InFlight == {r \in Requests : ~At(r, "idle")}

Stop(dying) ==
    /\ req' = [r \in Requests |-> IF r \in dying THEN Idle ELSE req[r]]
    /\ reply' = [r \in Requests |-> IF r \in dying THEN "lost" ELSE reply[r]]
    /\ UNCHANGED <<tables, history>>

Crash == "crash" \in Faults /\ \E dying \in SUBSET InFlight \ {{}} : Stop(dying)

\* The reader panics in a goroutine of the HTTP transport, where nothing recovers.
ReaderPanics(r) ==
    /\ At(r, "readChunks")
    /\ HasHole(logchunk[req[r].name])
    /\ \E dying \in SUBSET InFlight : r \in dying /\ Stop(dying)

Step(r) ==
    \/ BindCreateBucket(r) \/ InsertBucket(r)
    \/ BindCreate(r) \/ InsertArtifact(r) \/ LookupArtifact(r)
    \/ BindPost(r) \/ GrowArtifact(r) \/ InsertLogChunk(r) \/ LastLogChunk(r)
    \/ SetUploading(r) \/ ReadBody(r) \/ ReadChunks(r) \/ PutObject(r)
    \/ SetUploaded(r) \/ SetError(r) \/ DeleteLogChunks(r)
    \/ BindClose(r) \/ MarkComplete(r) \/ SetClosedWithoutData(r)
    \/ BindCloseBucket(r) \/ UpdateBucket(r) \/ ListArtifacts(r) \/ NextArtifact(r)
    \/ ReaderPanics(r)

Init ==
    /\ bucket = "NONE"
    /\ artifact = [n \in Names |-> NoRow]
    /\ logchunk = [n \in Names |-> <<>>]
    /\ s3 = [n \in Names |-> <<>>]
    /\ req = [r \in Requests |-> Idle]
    /\ reply = [r \in Requests |-> "none"]
    /\ acked = [n \in Names |-> {}]
    /\ settled = FALSE

Next ==
    \/ \E r \in Requests : (\E request \in Arrivals : Receive(r, request)) \/ Step(r)
    \/ Crash

\* Any requests at any time: several clients, and requests that go on after
\* their client has timed out and retried.
Spec == Init /\ [][Next]_vars

-----------------------------------------------------------------------------
(***************************************************************************)
(* Orderly use: what a client sees to when it talks to the server alone    *)
(* and waits for each answer.  No request starts while one in flight could *)
(* write the same rows, and a chunk is posted only where everything before *)
(* it has been acknowledged.                                               *)
(***************************************************************************)

Conflict(q1, q2) ==
    \/ q1.op = "closeBucket" /\ q2.op \in {"create", "post", "close", "closeBucket"}
    \/ q2.op = "closeBucket" /\ q1.op \in {"create", "post", "close", "closeBucket"}
    \/ q1.op \in {"post", "close"} /\ q2.op \in {"post", "close"} /\ q1.name = q2.name

\* The client was told that the server has every byte before the position.
Acknowledged(n, offset) == \A p \in 1 .. offset : \E c \in acked[n] : Covers(c, p)

OrderlyReceive(r, request) ==
    /\ \A other \in Requests : ~Conflict(request, req[other])
    /\ request.op = "post" => Acknowledged(request.name, request.load.offset)
    /\ Receive(r, request)

OrderlyNext ==
    \/ \E r \in Requests :
        (\E request \in Arrivals : OrderlyReceive(r, request)) \/ Step(r)
    \/ Crash

OrderlySpec == Init /\ [][OrderlyNext]_vars

\* The runtime keeps running every goroutine, and calls to the database and
\* to S3 return.  Nothing makes a client send a request.
Fairness == \A r \in Requests : WF_vars(Step(r))

FairSpec == Spec /\ Fairness
FairOrderlySpec == OrderlySpec /\ Fairness

-----------------------------------------------------------------------------
(***************************************************************************)
(* Properties.                                                             *)
(***************************************************************************)

\* Every variable, and the memory of every goroutine, holds what its column
\* or Go type allows.
TypeOK ==
    /\ bucket \in BucketState
    /\ artifact \in [Names -> Row]
    /\ logchunk \in [Names -> Seq(Chunk)]
    /\ s3 \in [Names -> Seq(Byte)]
    /\ req \in [Requests -> Request]
    /\ reply \in [Requests -> Replies]
    /\ acked \in [Names -> SUBSET Chunk]
    /\ settled \in BOOLEAN

\* A payload whose POST was answered 200 is never lost: its bytes are in a
\* logchunk row while the artifact is served from those rows, and at their
\* place in the S3 object once the artifact is UPLOADED.
Stored(n, c) ==
    IF artifact[n].state = "UPLOADED" THEN Holds(s3[n], c)
    ELSE /\ artifact[n].state \in {"APPENDING", "APPEND_COMPLETE", "UPLOADING"}
         /\ \E i \in DOMAIN logchunk[n] : logchunk[n][i] = c

AckedDurable == \A n \in Names : \A c \in acked[n] : Stored(n, c)

\* The logchunk rows of an artifact never overlap, leave no hole and never
\* reach beyond the artifact's size, which logChunkReader takes for granted.
Tiles(rows, size) ==
    \A i \in DOMAIN rows :
        /\ rows[i].size > 0
        /\ rows[i].offset + rows[i].size <= size
        /\ \A j \in DOMAIN rows \ {i} :
            \/ rows[i].offset + rows[i].size <= rows[j].offset
            \/ rows[j].offset + rows[j].size <= rows[i].offset
        /\ \A p \in 1 .. rows[i].offset : \E j \in DOMAIN rows : Covers(rows[j], p)

ChunksTile == \A n \in Names : Tiles(logchunk[n], artifact[n].size)

\* "Terminal state: the artifact is in S3 in its entirety" (model/artifact.go):
\* the object of an UPLOADED artifact has exactly the size the row claims.
UploadedWhole ==
    \A n \in Names : artifact[n].state = "UPLOADED" => Len(s3[n]) = artifact[n].size

\* The same comment with requests in any order: an artifact that is UPLOADED
\* has some object for its readers to fetch.
UploadedHasObject ==
    \A n \in Names : artifact[n].state = "UPLOADED" => s3[n] # <<>>

\* Logchunk rows are deleted only once the artifact has an object in S3, however
\* many requests merge it at the same time and whatever fails (MergeLogChunks).
RowsOutliveMerge ==
    [][\A n \in Names : logchunk'[n] # logchunk[n] /\ logchunk'[n] = <<>> =>
            s3[n] # <<>>]_vars

\* Nothing changes the row or the object of an UPLOADED artifact.
UploadedIsTerminal ==
    [][\A n \in Names : artifact[n].state = "UPLOADED" =>
            artifact'[n] = artifact[n] /\ s3'[n] = s3[n]]_vars

\* No artifact shrinks: a reader that has followed a log up to some position
\* never finds the end before it.
NeverShrinks ==
    [][\A n \in Names : artifact[n] # NoRow => artifact'[n].size >= artifact[n].size]_vars

\* Once CloseBucket has been answered 200, no artifact of the bucket accepts
\* data or is being uploaded, and no new one appears.
SettledAfterClose ==
    settled => \A n \in Names :
        artifact[n].state \notin {"APPENDING", "WAITING_FOR_UPLOAD", "UPLOADING"}

\* "No further changes to this bucket. No new artifacts or appends to existing
\* ones" (model/bucket.go): once CloseBucket has been answered 200 every row,
\* chunk and object of the bucket stays what it is, whatever arrives or is
\* still being served.
ClosedForGood == [][settled => UNCHANGED tables]_vars

\* Every request that was received is answered, or dies with its process.
RequestsTerminate == \A r \in Requests : ~At(r, "idle") ~> At(r, "idle")

\* A close that begins to merge a log ships it or reports an error, whatever
\* fails in the middle of it and however the other requests interleave.
MergeShipsOrReports ==
    \A r \in Requests, n \in Names : At(r, "setUploading") /\ req[r].name = n ~>
        artifact[n].state = "UPLOADED" \/ reply[r] \in {"400", "500", "lost"}

\* "This artifact will be eventually shipped to S3" (CloseArtifact): a
\* complete artifact ends up UPLOADED, or closed without data.
CompleteIsShipped ==
    \A n \in Names : artifact[n].state = "APPEND_COMPLETE" ~>
        artifact[n].state \in {"UPLOADED", "CLOSED_WITHOUT_DATA"}

=============================================================================
