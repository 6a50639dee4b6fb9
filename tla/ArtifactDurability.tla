-------------------------- MODULE ArtifactDurability --------------------------
(***************************************************************************)
(* Under orderly use no acknowledged byte is lost, whatever fails: the     *)
(* inductive invariant of OrderlySpec and the proof that it is one.        *)
(***************************************************************************)
EXTENDS ArtifactStoreProofs

\* Program points at which a request works with its copy of an artifact's row.
Holding == {"growArtifact", "insertLogChunk", "lastLogChunk", "setUploading",
    "readBody", "readChunks", "putObject", "setUploaded", "setError",
    "markComplete", "setClosedWithoutData", "deleteLogChunks"}

\* Requests that may write the rows of an artifact never get in each other's way.
Exclusive ==
    \A r, q \in Requests : r # q => ~Conflict(req[r], req[q])

-----------------------------------------------------------------------------
(* What holds of the tables of one artifact.                               *)

TableInv(n) ==
    /\ Tiles(logchunk[n], artifact[n].size)
    /\ \A c \in acked[n] : Stored(n, c)
    /\ artifact[n].state = "UPLOADED" => Len(s3[n]) = artifact[n].size
    /\ artifact[n].state \in {"APPENDING", "APPEND_COMPLETE"} => artifact[n].size >= 0

-----------------------------------------------------------------------------
(* What holds of the memory of one request.                                *)

\* Where a request is tells what it is and which row it holds.
PointInv(q) ==
    /\ q.pc = "insertBucket" => q.op = "createBucket"
    /\ q.pc \in {"insertArtifact", "lookupArtifact"} => q.op = "create"
    /\ q.pc \in {"updateBucket", "listArtifacts", "nextArtifact"} => q.op = "closeBucket"
    /\ q.pc \in {"growArtifact", "insertLogChunk", "lastLogChunk"} =>
        q.op = "post" /\ q.art.state = "APPENDING" /\ q.load.size > 0
    /\ q.pc = "setUploading" =>
        \/ q.op = "post" /\ q.art.state = "WAITING_FOR_UPLOAD"
        \/ q.op \in {"close", "closeBucket"} /\ q.art.state = "APPEND_COMPLETE" /\ q.art.size > 0
    /\ q.pc \in {"readBody", "setError"} => q.op = "post" /\ q.art.state = "UPLOADING"
    /\ q.pc = "readChunks" =>
        q.op \in {"close", "closeBucket"} /\ q.art.state = "UPLOADING"
    /\ q.pc \in {"putObject", "setUploaded"} =>
        q.op \in {"post", "close", "closeBucket"} /\ q.art.state = "UPLOADING"
    /\ q.pc = "markComplete" => q.op \in {"close", "closeBucket"} /\ q.art.state = "APPENDING"
    /\ q.pc = "setClosedWithoutData" =>
        /\ q.op \in {"close", "closeBucket"}
        /\ \/ q.art.state = "WAITING_FOR_UPLOAD"
           \/ q.art.state = "APPEND_COMPLETE" /\ q.art.size = 0
    /\ q.pc = "deleteLogChunks" =>
        q.op \in {"close", "closeBucket"} /\ q.art.state = "UPLOADED"

\* The copy of the row is up to date; so is what is left of a listing.
CopyInv(q) ==
    /\ q.pc \in Holding => q.name \in Names /\ artifact[q.name] = q.art
    /\ q.op = "closeBucket" => \A n \in Names :
        q.listing[n] # NoRow =>
            /\ artifact[n] = q.listing[n]
            /\ q.pc \in Holding => n # q.name

\* A new artifact is empty and open; a chunk starts where the rows end.
CreateInv(q) == q.op = "create" => q.art \in NewArtifact

AppendInv(q) ==
    /\ q.op = "post" => Acknowledged(q.name, q.load.offset)
    /\ q.pc = "growArtifact" => q.load.offset = q.art.size
    /\ q.pc = "insertLogChunk" =>
        /\ q.art.size = q.load.offset + q.load.size
        /\ \A i \in DOMAIN logchunk[q.name] :
            logchunk[q.name][i].offset + logchunk[q.name][i].size <= q.load.offset

\* The bytes read so far are those that were acknowledged.
Agrees(n, body) ==
    \A c \in acked[n] : \A p \in 1 .. Len(body) : Covers(c, p) => body[p] = c.data

UploadInv(q) ==
    /\ q.pc \notin {"readChunks", "putObject", "setUploaded", "setError", "deleteLogChunks"} =>
        q.body = <<>>
    /\ q.op = "post" /\ q.pc \in {"setUploading", "readBody", "putObject", "setUploaded",
                                  "setError"} =>
        /\ acked[q.name] = {}
        /\ q.load.offset = 0 /\ q.load.size = q.art.size
    /\ q.pc = "readChunks" => Len(q.body) < q.art.size /\ Agrees(q.name, q.body)
    /\ q.pc = "putObject" /\ q.op # "post" => q.art.size > 0
    /\ q.pc \in {"putObject", "setUploaded"} =>
        /\ Len(q.body) = q.art.size
        /\ IF q.op = "post" THEN Holds(q.body, q.load) ELSE Agrees(q.name, q.body)
    /\ q.pc = "setUploaded" => s3[q.name] = q.body

RequestInv(q) ==
    PointInv(q) /\ CopyInv(q) /\ CreateInv(q) /\ AppendInv(q) /\ UploadInv(q)

IInv ==
    /\ TypeOK
    /\ Exclusive
    /\ \A n \in Names : TableInv(n)
    /\ \A r \in Requests : RequestInv(req[r])


-----------------------------------------------------------------------------
(***************************************************************************)
(* Frame lemmas.  A request that is busy with an artifact leaves the       *)
(* others alone, and no other request is busy with the same one.           *)
(***************************************************************************)

Untouched(n) ==
    /\ artifact'[n] = artifact[n]
    /\ logchunk'[n] = logchunk[n]
    /\ s3'[n] = s3[n]
    /\ acked'[n] = acked[n]

Busy(q) == q.op \in {"post", "close", "closeBucket"}

\* A request keeps its operation, and its artifact, until it ends.
SameWork(q1, q2) ==
    q2 = Idle \/ (q2.op = q1.op /\ (q1.op \in {"post", "close"} => q2.name = q1.name))

\* A free slot satisfies the invariant, whatever the tables hold.
LEMMA IdleInv == RequestInv(Idle) /\ RequestInv(Idle)'
BY DEF RequestInv, PointInv, CopyInv, CreateInv, AppendInv, UploadInv, Idle, Holding

\* The tables of an artifact nobody has touched keep their invariant.
LEMMA UntouchedTables ==
    ASSUME NEW n \in Names, TableInv(n), Untouched(n)
    PROVE  TableInv(n)'
BY DEF TableInv, Stored, Untouched

\* The program point of a request that is busy with an artifact.
LEMMA HoldingIsBusy ==
    ASSUME NEW q, PointInv(q), q.pc \in Holding
    PROVE  Busy(q) /\ q.art.state # "NO_ROW"
BY DEF PointInv, Holding, Busy

\* Exclusion is kept by a step that changes one request.
LEMMA ExclusiveKept ==
    ASSUME Exclusive, NEW r \in Requests, req \in [Requests -> Request],
           req' \in [Requests -> Request],
           \A q \in Requests \ {r} : req'[q] = req[q],
           SameWork(req[r], req'[r])
    PROVE  Exclusive'
<1> SUFFICES ASSUME NEW p \in Requests, NEW q \in Requests, p # q
             PROVE  ~Conflict(req'[p], req'[q])
    BY DEF Exclusive
<1>1. ~Conflict(req[p], req[q])
    BY DEF Exclusive
<1>2. ASSUME NEW a \in Requests, SameWork(req[a], req'[a]),
             NEW b \in Requests, req'[b] = req[b], ~Conflict(req[a], req[b])
      PROVE  ~Conflict(req'[a], req'[b]) /\ ~Conflict(req'[b], req'[a])
    BY <1>2 DEF Conflict, SameWork, Idle
<1>3. Conflict(req[p], req[q]) <=> Conflict(req[q], req[p])
    BY DEF Conflict
<1>4. QED
    BY <1>1, <1>2, <1>3

\* Requests other than the one that moves keep their invariant.
LEMMA OthersKept ==
    ASSUME IInv, NEW r \in Requests, NEW q \in Requests, q # r, req'[q] = req[q],
           \A n \in Names : Untouched(n) \/ (Busy(req[r]) /\ n = req[r].name)
    PROVE  RequestInv(req[q])'
<1> DEFINE Q == req[q]
<1>1. RequestInv(Q) /\ Q \in Request
    BY DEF IInv, TypeOK
<1>2. ~Conflict(req[r], Q)
    BY DEF IInv, Exclusive
<1>3. Q.op = "closeBucket" => \A n \in Names : Untouched(n)
    BY <1>2 DEF Conflict, Busy
<1>4. Busy(Q) /\ Q.name \in Names => Untouched(Q.name)
    BY <1>2, <1>3 DEF Conflict, Busy
<1>5. Q.pc \in Holding => Busy(Q) /\ Q.name \in Names
    BY <1>1, HoldingIsBusy DEF RequestInv, CopyInv
<1>6. PointInv(Q)' /\ CreateInv(Q)'
    BY <1>1 DEF RequestInv, PointInv, CreateInv
<1>7. CopyInv(Q)'
    BY <1>1, <1>3, <1>4, <1>5 DEF RequestInv, CopyInv, Untouched
<1>8. AppendInv(Q)'
    <2>1. Q.op = "post" => Q.name \in Names
        BY <1>1 DEF Request
    <2>2. Q.op = "post" => Acknowledged(Q.name, Q.load.offset)'
        BY <1>1, <1>4, <2>1 DEF RequestInv, AppendInv, Acknowledged, Untouched, Busy
    <2>3. Q.pc = "insertLogChunk" => logchunk'[Q.name] = logchunk[Q.name]
        BY <1>4, <1>5 DEF Untouched, Holding
    <2>4. QED
        BY <1>1, <2>2, <2>3 DEF RequestInv, AppendInv
<1>9. UploadInv(Q)'
    <2>1. Q.pc \in Holding => s3'[Q.name] = s3[Q.name] /\ acked'[Q.name] = acked[Q.name]
        BY <1>4, <1>5 DEF Untouched
    <2>2. QED
        BY <1>1, <2>1 DEF RequestInv, UploadInv, Agrees, Holding
<1>10. RequestInv(Q)'
    BY <1>6, <1>7, <1>8, <1>9 DEF RequestInv
<1>11. QED
    BY <1>10


-----------------------------------------------------------------------------
(* How a step of one request keeps the whole invariant.                    *)

LEMMA StepKept ==
    ASSUME IInv, TypeOK', NEW r \in Requests,
           \A q \in Requests \ {r} : req'[q] = req[q],
           SameWork(req[r], req'[r]),
           \A n \in Names : Untouched(n) \/ (Busy(req[r]) /\ n = req[r].name),
           \A n \in Names : n = req[r].name => TableInv(n)',
           RequestInv(req[r])'
    PROVE  IInv'
<1>1. Exclusive'
    BY ExclusiveKept DEF IInv, TypeOK
<1>2. ASSUME NEW n \in Names PROVE TableInv(n)'
    <2>1. CASE Untouched(n)
        BY <2>1, UntouchedTables DEF IInv
    <2>2. QED
        BY <2>1
<1>3. ASSUME NEW q \in Requests PROVE RequestInv(req[q])'
    BY OthersKept
<1>4. QED
    BY <1>1, <1>2, <1>3 DEF IInv

\* The request ends and the tables stay as they are.
LEMMA AnswerKept ==
    ASSUME IInv, TypeOK', NEW r \in Requests, NEW code, Answer(r, code),
           UNCHANGED <<artifact, logchunk, s3, acked>>
    PROVE  IInv'
<1>1. /\ \A q \in Requests \ {r} : req'[q] = req[q]
      /\ req'[r] = Idle
      /\ \A n \in Names : Untouched(n)
    BY DEF Answer, Untouched, IInv, TypeOK
<1>2. \A n \in Names : TableInv(n)'
    BY <1>1, UntouchedTables DEF IInv
<1>3. RequestInv(req[r])'
    BY <1>1, IdleInv DEF RequestInv, PointInv, CopyInv, CreateInv, AppendInv, UploadInv, Idle, Holding
<1>4. QED
    BY <1>1, <1>2, <1>3, StepKept DEF SameWork

LEMMA RespondKept ==
    ASSUME IInv, TypeOK', NEW r \in Requests, NEW code, Respond(r, code),
           UNCHANGED <<artifact, logchunk, s3>>
    PROVE  IInv'
BY AnswerKept DEF Respond, history

\* The request goes on and the tables stay as they are.
LEMMA ContinueKept ==
    ASSUME IInv, TypeOK', NEW r \in Requests, NEW q, Continue(r, q),
           UNCHANGED <<artifact, logchunk, s3>>, SameWork(req[r], q), RequestInv(q)
    PROVE  IInv'
<1>1. /\ \A p \in Requests \ {r} : req'[p] = req[p]
      /\ req'[r] = q
      /\ \A n \in Names : Untouched(n)
    BY DEF Continue, history, Untouched, IInv, TypeOK
<1>2. \A n \in Names : TableInv(n)'
    BY <1>1, UntouchedTables DEF IInv
<1>3. RequestInv(req[r])'
    <2>1. UNCHANGED <<artifact, logchunk, s3, acked>>
        BY DEF Continue, history
    <2>2. QED
        BY <1>1, <2>1 DEF RequestInv, PointInv, CopyInv, CreateInv, AppendInv, UploadInv,
            Acknowledged, Agrees
<1>4. QED
    BY <1>1, <1>2, <1>3, StepKept


-----------------------------------------------------------------------------
(* Steps that leave the tables of every artifact alone.                    *)

\* A request that moves to a program point with no obligations keeps its own.
LEMMA PlainPoint ==
    ASSUME NEW q, q \in Memory, RequestInv(q), q.body = <<>>,
           NEW pc, pc \notin Holding,
           pc = "insertBucket" => q.op = "createBucket",
           pc \in {"insertArtifact", "lookupArtifact"} => q.op = "create",
           pc \in {"updateBucket", "listArtifacts", "nextArtifact"} => q.op = "closeBucket"
    PROVE  RequestInv([q EXCEPT !.pc = pc]) /\ SameWork(q, [q EXCEPT !.pc = pc])
BY DEF RequestInv, PointInv, CopyInv, CreateInv, AppendInv, UploadInv, Holding, Memory,
       SameWork

LEMMA BucketSteps ==
    ASSUME IInv, TypeOK', NEW r \in Requests,
           \/ BindCreateBucket(r) \/ InsertBucket(r) \/ BindCloseBucket(r)
           \/ UpdateBucket(r) \/ BindCreate(r)
    PROVE  IInv'
<1> DEFINE Q == req[r]
<1>1. Q \in Memory /\ RequestInv(Q)
    BY DEF IInv, TypeOK, Request
<1>2. Q.body = <<>>
    BY <1>1 DEF RequestInv, UploadInv, BindCreateBucket, InsertBucket, BindCloseBucket,
        UpdateBucket, BindCreate, At
<1>3. UNCHANGED <<artifact, logchunk, s3>>
    BY DEF BindCreateBucket, InsertBucket, BindCloseBucket, UpdateBucket, BindCreate, tables
<1>4. ASSUME NEW code, Respond(r, code)
      PROVE  IInv'
    BY <1>3, <1>4, RespondKept
<1>5. ASSUME NEW pc, pc \notin Holding, Continue(r, [Q EXCEPT !.pc = pc]),
             pc = "insertBucket" => Q.op = "createBucket",
             pc \in {"insertArtifact", "lookupArtifact"} => Q.op = "create",
             pc \in {"updateBucket", "listArtifacts", "nextArtifact"} => Q.op = "closeBucket"
      PROVE  IInv'
    BY <1>1, <1>2, <1>3, <1>5, PlainPoint, ContinueKept
<1>6. CASE BindCreateBucket(r)
    BY <1>4, <1>5, <1>6 DEF BindCreateBucket, Holding
<1>7. CASE InsertBucket(r)
    BY <1>4, <1>7 DEF InsertBucket
<1>8. CASE BindCloseBucket(r)
    BY <1>4, <1>5, <1>8 DEF BindCloseBucket, Holding
<1>9. CASE UpdateBucket(r)
    BY <1>1, <1>4, <1>5, <1>9 DEF UpdateBucket, CloseFailed, Holding, RequestInv, PointInv, At
<1>10. CASE BindCreate(r)
    BY <1>4, <1>5, <1>10 DEF BindCreate, Holding
<1>11. QED
    BY <1>6, <1>7, <1>8, <1>9, <1>10

LEMMA LookupArtifactKept ==
    ASSUME IInv, TypeOK', NEW r \in Requests, LookupArtifact(r)
    PROVE  IInv'
<1> DEFINE Q == req[r]
<1>1. Q \in Memory /\ RequestInv(Q) /\ Q.pc = "lookupArtifact" /\ Q.op = "create"
    BY DEF IInv, TypeOK, Request, LookupArtifact, At, RequestInv, PointInv
<1>2. UNCHANGED <<artifact, logchunk, s3>>
    BY DEF LookupArtifact, tables
<1>3. ASSUME NEW code, Respond(r, code) PROVE IInv'
    BY <1>2, <1>3, RespondKept
<1>4. ASSUME NEW n \in Names, NEW t,
             Continue(r, [Q EXCEPT !.pc = "insertArtifact", !.name = n, !.tries = t])
      PROVE  IInv'
    <2> DEFINE q == [Q EXCEPT !.pc = "insertArtifact", !.name = n, !.tries = t]
    <2>1. RequestInv(q)
        BY <1>1 DEF RequestInv, PointInv, CopyInv, CreateInv, AppendInv, UploadInv,
            Holding, Memory
    <2>2. SameWork(Q, q)
        BY <1>1 DEF SameWork, Memory
    <2>3. QED
        BY <1>2, <1>4, <2>1, <2>2, ContinueKept
<1>5. QED
    BY <1>3, <1>4 DEF LookupArtifact

\* An artifact of size 0 has no rows.
LEMMA NoRoom ==
    ASSUME NEW rows \in Seq(Chunk), Tiles(rows, 0)
    PROVE  DOMAIN rows = {}
<1> SUFFICES ASSUME NEW i \in DOMAIN rows PROVE FALSE
    OBVIOUS
<1>1. rows[i].offset \in Nat /\ rows[i].size \in Nat
    <2>1. rows[i] \in Chunk
        OBVIOUS
    <2>2. QED
        BY <2>1 DEF Chunk
<1>2. rows[i].size > 0 /\ rows[i].offset + rows[i].size <= 0
    BY DEF Tiles
<1>3. QED
    BY <1>1, <1>2

\* Only a request that creates an artifact writes a row nobody else can hold.
LEMMA InsertArtifactKept ==
    ASSUME IInv, TypeOK', NEW r \in Requests, InsertArtifact(r)
    PROVE  IInv'
<1> DEFINE Q == req[r]
           n == Q.name
<1>1. Q \in Memory /\ RequestInv(Q) /\ Q.pc = "insertArtifact" /\ Q.op = "create"
    BY DEF IInv, TypeOK, Request, InsertArtifact, At, RequestInv, PointInv
<1>2. UNCHANGED <<logchunk, s3, acked>>
    BY DEF InsertArtifact, Respond, Continue, history
<1>3. req' = [req EXCEPT ![r] = Idle] \/ req' = [req EXCEPT ![r].pc = "lookupArtifact"]
    BY DEF InsertArtifact, Respond, Answer, Continue
<1>4. artifact' = artifact
        \/ (artifact[n] = NoRow /\ artifact' = [artifact EXCEPT ![n] = Q.art])
    BY DEF InsertArtifact
<1>5. Q.art \in NewArtifact
    BY <1>1 DEF RequestInv, CreateInv
<1>6. ASSUME NEW m \in Names PROVE TableInv(m)'
    <2>1. CASE Untouched(m)
        BY <2>1, UntouchedTables DEF IInv
    <2>2. CASE m = n /\ artifact[n] = NoRow /\ artifact'[n] = Q.art
        <3>1. TableInv(m) /\ logchunk[m] \in Seq(Chunk)
            BY DEF IInv, TypeOK
        <3>2. DOMAIN logchunk[m] = {}
            BY <2>2, <3>1, NoRoom DEF TableInv, NoRow
        <3>3. acked[m] = {}
            BY <2>2, <3>1 DEF TableInv, Stored, NoRow
        <3>4. QED
            BY <1>2, <1>5, <2>2, <3>2, <3>3 DEF TableInv, Tiles, NewArtifact
    <2>3. QED
        BY <1>2, <1>4, <2>1, <2>2 DEF Untouched, IInv, TypeOK
<1>7. ASSUME NEW q \in Requests, q # r PROVE RequestInv(req[q])'
    <2> DEFINE P == req[q]
    <2>1. req'[q] = P /\ RequestInv(P) /\ P \in Request
        BY <1>3, <1>7 DEF IInv, TypeOK
    <2>2. ASSUME NEW m \in Names, artifact[m] # NoRow PROVE artifact'[m] = artifact[m]
        BY <1>4, <2>2 DEF IInv, TypeOK
    <2>3. P.pc \in Holding => artifact[P.name] # NoRow /\ P.name \in Names
        BY <2>1, HoldingIsBusy DEF RequestInv, CopyInv, NoRow
    <2>4. CopyInv(P)'
        BY <2>1, <2>2, <2>3 DEF RequestInv, CopyInv
    <2>5. (PointInv(P) /\ CreateInv(P) /\ AppendInv(P) /\ UploadInv(P))'
        BY <1>2, <2>1 DEF RequestInv, PointInv, CreateInv, AppendInv, UploadInv,
            Acknowledged, Agrees
    <2>6. RequestInv(P)'
        BY <2>4, <2>5 DEF RequestInv
    <2>7. QED
        BY <2>6
<1>8. RequestInv(req[r])' /\ SameWork(Q, req'[r])
    <2>1. CASE req'[r] = Idle
        BY <2>1, IdleInv DEF SameWork, RequestInv, PointInv, CopyInv, CreateInv, AppendInv,
            UploadInv, Idle, Holding
    <2>2. CASE req'[r] = [Q EXCEPT !.pc = "lookupArtifact"]
        BY <1>1, <2>2 DEF SameWork, RequestInv, PointInv, CopyInv, CreateInv, AppendInv,
            UploadInv, Holding, Memory
    <2>3. QED
        BY <1>3, <2>1, <2>2 DEF IInv, TypeOK
<1>9. Exclusive'
    BY <1>3, <1>8, ExclusiveKept DEF IInv, TypeOK
<1>10. QED
    BY <1>6, <1>7, <1>8, <1>9 DEF IInv


-----------------------------------------------------------------------------
(* PostArtifact.                                                           *)

\* No payload has been acknowledged for an artifact that has not been filled.
LEMMA NothingAcked ==
    ASSUME NEW n \in Names, TableInv(n),
           artifact[n].state \notin {"APPENDING", "APPEND_COMPLETE", "UPLOADING", "UPLOADED"}
    PROVE  acked[n] = {}
BY DEF TableInv, Stored

LEMMA BindPostKept ==
    ASSUME IInv, TypeOK', NEW r \in Requests, BindPost(r)
    PROVE  IInv'
<1> DEFINE Q == req[r]
           n == Q.name
<1>1. Q \in Memory /\ RequestInv(Q) /\ Q.pc = "bind" /\ Q.op = "post" /\ n \in Names
    BY DEF IInv, TypeOK, Request, BindPost, At
<1>2. UNCHANGED <<artifact, logchunk, s3>>
    BY DEF BindPost, tables
<1>3. ASSUME NEW code, Respond(r, code) PROVE IInv'
    BY <1>2, <1>3, RespondKept
<1>4. TableInv(n) /\ artifact[n] \in Row
    BY <1>1 DEF IInv, TypeOK
<1>5. ASSUME NEW pc \in {"growArtifact", "lastLogChunk"}, artifact[n].state = "APPENDING",
             Q.load.size > 0, pc = "growArtifact" => Q.load.offset = artifact[n].size,
             Continue(r, Bound(r, pc))
      PROVE  IInv'
    <2>1. Bound(r, pc) = [Q EXCEPT !.pc = pc, !.art = artifact[n]]
        BY DEF Bound
    <2>2. RequestInv(Bound(r, pc)) /\ SameWork(Q, Bound(r, pc))
        BY <1>1, <1>5, <2>1 DEF RequestInv, PointInv, CopyInv, CreateInv, AppendInv,
            UploadInv, SameWork, Holding, Memory
    <2>3. QED
        BY <1>2, <1>5, <2>2, ContinueKept
<1>6. ASSUME artifact[n].state = "WAITING_FOR_UPLOAD", Q.load.size = artifact[n].size,
             Continue(r, [Bound(r, "setUploading") EXCEPT !.load.offset = 0])
      PROVE  IInv'
    <2> DEFINE q == [Bound(r, "setUploading") EXCEPT !.load.offset = 0]
    <2>1. q = [Q EXCEPT !.pc = "setUploading", !.art = artifact[n],
                   !.load = [Q.load EXCEPT !.offset = 0]]
        BY <1>1 DEF Bound, Memory
    <2>2. acked[n] = {}
        BY <1>1, <1>4, <1>6, NothingAcked
    <2>3. Q.load \in Chunk
        BY <1>1 DEF Memory
    <2>4. q.load.offset = 0 /\ q.load.size = Q.load.size
        <3>1. q.load = [Q.load EXCEPT !.offset = 0]
            BY <1>1, <2>1 DEF Memory
        <3>2. QED
            BY <2>3, <3>1 DEF Chunk
    <2>5. /\ q.op = "post" /\ q.pc = "setUploading" /\ q.name = n /\ q.art = artifact[n]
          /\ q.body = Q.body /\ q.listing = Q.listing
        BY <1>1, <2>1 DEF Memory
    <2>6. RequestInv(q) /\ SameWork(Q, q)
        BY <1>1, <1>6, <2>2, <2>4, <2>5 DEF RequestInv, PointInv, CopyInv, CreateInv,
            AppendInv, UploadInv, SameWork, Holding, Acknowledged
    <2>7. QED
        BY <1>2, <1>6, <2>6, ContinueKept
<1>7. CASE BindAppend(r) /\ artifact[n].state = "APPENDING"
    BY <1>3, <1>5, <1>7 DEF BindAppend
<1>8. QED
    BY <1>3, <1>6, <1>7 DEF BindPost

\* What a request at a program point in Holding knows.
LEMMA AtHolding ==
    ASSUME IInv, NEW r \in Requests, req[r].pc \in Holding
    PROVE  /\ req[r] \in Memory /\ RequestInv(req[r]) /\ Busy(req[r])
           /\ req[r].name \in Names
           /\ artifact[req[r].name] = req[r].art
           /\ TableInv(req[r].name)
BY HoldingIsBusy DEF IInv, TypeOK, Request, RequestInv, CopyInv

\* A step that writes the tables of the request's artifact, and ends or goes on.
LEMMA WriteKept ==
    ASSUME IInv, TypeOK', NEW r \in Requests, req[r].pc \in Holding,
           NEW n \in Names, n = req[r].name, TableInv(n)',
           \A m \in Names \ {n} : Untouched(m),
           NEW q, req' = [req EXCEPT ![r] = q],
           q = Idle \/ (SameWork(req[r], q) /\ RequestInv(q)')
    PROVE  IInv'
<1>1. Busy(req[r])
    BY AtHolding
<1>2. req'[r] = q /\ \A p \in Requests \ {r} : req'[p] = req[p]
    BY DEF IInv, TypeOK
<1>3. RequestInv(Idle)'
    BY IdleInv
<1>4. SameWork(req[r], req'[r])
    BY <1>2 DEF SameWork
<1>5. RequestInv(q)'
    BY <1>3
<1>6. RequestInv(req[r])'
    <2>1. PointInv(req[r])' /\ CopyInv(req[r])' /\ CreateInv(req[r])'
        BY <1>2, <1>5 DEF RequestInv, PointInv, CopyInv, CreateInv
    <2>2. AppendInv(req[r])'
        BY <1>2, <1>5 DEF RequestInv, AppendInv, Acknowledged
    <2>3. UploadInv(req[r])'
        BY <1>2, <1>5 DEF RequestInv, UploadInv, Agrees
    <2>4. QED
        BY <2>1, <2>2, <2>3 DEF RequestInv
<1>7. QED
    BY <1>1, <1>2, <1>4, <1>6, StepKept

LEMMA GrowArtifactKept ==
    ASSUME IInv, TypeOK', NEW r \in Requests, GrowArtifact(r)
    PROVE  IInv'
<1>1. req[r].pc \in Holding /\ req[r].pc = "growArtifact"
    BY DEF GrowArtifact, At, Holding
<1>2. PICK n \in Names, Q \in Memory : n = req[r].name /\ Q = req[r]
    BY <1>1, AtHolding
<1>3. /\ RequestInv(Q) /\ TableInv(n) /\ artifact[n] = Q.art
      /\ Q.op = "post" /\ Q.art.state = "APPENDING" /\ Q.load.size > 0
      /\ Q.load.offset = Q.art.size
    BY <1>1, <1>2, AtHolding DEF RequestInv, PointInv, AppendInv
<1>4. /\ Q.load \in Chunk /\ Q.art \in Row /\ artifact \in [Names -> Row]
      /\ logchunk[n] \in Seq(Chunk)
    BY DEF Memory, IInv, TypeOK
<1>5. PICK row : row = [Q.art EXCEPT !.size = Q.load.offset + Q.load.size]
    OBVIOUS
<1>6. /\ row.state = "APPENDING" /\ row.size = Q.load.offset + Q.load.size
      /\ row.size \in Int /\ row.size > Q.art.size /\ row.size >= 0
    BY <1>3, <1>4, <1>5 DEF Chunk, Row
<1>7. UNCHANGED <<logchunk, s3, acked>>
    BY DEF GrowArtifact, Continue, Respond, history
<1>8. artifact' = artifact \/ artifact' = [artifact EXCEPT ![n] = row]
    BY <1>2, <1>5 DEF GrowArtifact, UpdateArtifact
<1>9. \A m \in Names \ {n} : Untouched(m)
    BY <1>4, <1>7, <1>8 DEF Untouched
<1>10. ASSUME NEW i \in DOMAIN logchunk[n]
       PROVE  logchunk[n][i].offset + logchunk[n][i].size <= Q.load.offset
    BY <1>3, <1>10 DEF TableInv, Tiles
<1>11. TableInv(n)'
    <2>1. CASE Untouched(n)
        BY <1>3, <2>1, UntouchedTables
    <2>2. CASE artifact'[n] = row
        <3>1. Tiles(logchunk[n], row.size)
            <4>1. ASSUME NEW i \in DOMAIN logchunk[n]
                  PROVE  logchunk[n][i].offset + logchunk[n][i].size <= row.size
                <5>1. logchunk[n][i] \in Chunk
                    BY <1>4
                <5>2. /\ logchunk[n][i].offset \in Nat /\ logchunk[n][i].size \in Nat
                      /\ Q.load.offset \in Nat /\ Q.load.size \in Nat
                    BY <1>4, <5>1 DEF Chunk
                <5>3. /\ logchunk[n][i].offset + logchunk[n][i].size <= Q.load.offset
                      /\ row.size = Q.load.offset + Q.load.size
                    BY <1>6, <1>10
                <5>4. QED
                    BY <5>2, <5>3
            <4>2. QED
                BY <1>3, <4>1 DEF TableInv, Tiles
        <3>2. \A c \in acked'[n] : Stored(n, c)'
            BY <1>3, <1>6, <1>7, <2>2 DEF TableInv, Stored
        <3>3. QED
            BY <1>6, <1>7, <2>2, <3>1, <3>2 DEF TableInv
    <2>3. QED
        BY <1>4, <1>7, <1>8, <2>1, <2>2 DEF Untouched
<1>12. CASE req' = [req EXCEPT ![r] = Idle]
    BY <1>1, <1>2, <1>9, <1>11, <1>12, WriteKept
<1>13. CASE /\ req' = [req EXCEPT ![r] = [Q EXCEPT !.pc = "insertLogChunk", !.art = row]]
            /\ artifact' = [artifact EXCEPT ![n] = row]
    <2>1. PICK q : q = [Q EXCEPT !.pc = "insertLogChunk", !.art = row]
        OBVIOUS
    <2>2. /\ q.pc = "insertLogChunk" /\ q.art = row /\ q.op = "post" /\ q.name = n
          /\ q.load = Q.load /\ q.body = Q.body
        BY <1>2, <1>3, <2>1 DEF Memory
    <2>3. PointInv(q)' /\ CreateInv(q)'
        BY <1>3, <1>6, <2>2 DEF PointInv, CreateInv
    <2>4. CopyInv(q)'
        BY <1>4, <1>13, <2>2 DEF CopyInv
    <2>5. AppendInv(q)'
        BY <1>2, <1>3, <1>6, <1>7, <1>10, <2>2
        DEF AppendInv, RequestInv, Acknowledged
    <2>6. UploadInv(q)'
        BY <1>1, <1>2, <1>3, <2>2 DEF UploadInv, RequestInv
    <2>7. SameWork(req[r], q)
        BY <1>2, <1>3, <2>2 DEF SameWork
    <2>8. RequestInv(q)'
        BY <2>3, <2>4, <2>5, <2>6 DEF RequestInv
    <2>9. req' = [req EXCEPT ![r] = q]
        BY <1>13, <2>1
    <2>10. QED
        BY <1>1, <1>2, <1>9, <1>11, <2>7, <2>8, <2>9, WriteKept
<1>14. QED
    BY <1>2, <1>5, <1>12, <1>13
    DEF GrowArtifact, UpdateArtifact, Applied, Continue, Respond, Answer


\* A chunk that starts where the rows end extends them without hole or overlap.
LEMMA AppendTiles ==
    ASSUME NEW rows \in Seq(Chunk), NEW c \in Chunk, NEW size \in Int, Tiles(rows, size),
           c.size > 0, size = c.offset + c.size,
           \A i \in DOMAIN rows : rows[i].offset + rows[i].size <= c.offset,
           \A p \in 1 .. c.offset : \E i \in DOMAIN rows : Covers(rows[i], p)
    PROVE  Tiles(Append(rows, c), size)
<1> DEFINE new == Append(rows, c)
           last == Len(rows) + 1
<1>1. /\ DOMAIN rows = 1 .. Len(rows) /\ Len(rows) \in Nat
      /\ DOMAIN new = 1 .. last
      /\ new[last] = c /\ \A i \in DOMAIN rows : new[i] = rows[i]
    OBVIOUS
<1>2. \A i \in DOMAIN rows : rows[i] \in Chunk
    OBVIOUS
<1>3. \A i \in DOMAIN new : i \in DOMAIN rows \/ i = last
    BY <1>1
<1>4. DOMAIN rows \subseteq DOMAIN new /\ last \in DOMAIN new
    BY <1>1
<1> HIDE DEF new, last
<1>5. ASSUME NEW i \in DOMAIN new
      PROVE  new[i].size > 0 /\ new[i].offset + new[i].size <= size
    BY <1>1, <1>3 DEF Tiles
<1>6. ASSUME NEW i \in DOMAIN new, NEW j \in DOMAIN new \ {i}
      PROVE  \/ new[i].offset + new[i].size <= new[j].offset
             \/ new[j].offset + new[j].size <= new[i].offset
    BY <1>1, <1>3 DEF Tiles
<1>7. ASSUME NEW i \in DOMAIN new, NEW p \in 1 .. new[i].offset
      PROVE  \E j \in DOMAIN new : Covers(new[j], p)
    <2>1. \E j \in DOMAIN rows : Covers(rows[j], p)
        BY <1>1, <1>3 DEF Tiles
    <2>2. QED
        BY <1>1, <1>4, <2>1
<1>8. QED
    BY <1>5, <1>6, <1>7 DEF Tiles, new

LEMMA InsertLogChunkKept ==
    ASSUME IInv, TypeOK', NEW r \in Requests, InsertLogChunk(r)
    PROVE  IInv'
<1>1. req[r].pc \in Holding /\ req[r].pc = "insertLogChunk"
    BY DEF InsertLogChunk, At, Holding
<1>2. PICK n \in Names, Q \in Memory : n = req[r].name /\ Q = req[r]
    BY <1>1, AtHolding
<1>3. /\ RequestInv(Q) /\ TableInv(n) /\ artifact[n] = Q.art
      /\ Q.op = "post" /\ Q.art.state = "APPENDING" /\ Q.load.size > 0
      /\ Q.art.size = Q.load.offset + Q.load.size
      /\ Acknowledged(n, Q.load.offset)
      /\ \A i \in DOMAIN logchunk[n] :
            logchunk[n][i].offset + logchunk[n][i].size <= Q.load.offset
    BY <1>1, <1>2, AtHolding DEF RequestInv, PointInv, AppendInv
<1>4. /\ Q.load \in Chunk /\ Q.art \in Row /\ artifact \in [Names -> Row]
      /\ logchunk \in [Names -> Seq(Chunk)] /\ acked \in [Names -> SUBSET Chunk]
    BY DEF Memory, IInv, TypeOK
<1>5. Q.art.size \in Int
    BY <1>4 DEF Row
<1>6. UNCHANGED <<artifact, s3>> /\ req' = [req EXCEPT ![r] = Idle]
    BY DEF InsertLogChunk, Acknowledge, Answer, Respond
<1>7. \/ logchunk' = logchunk /\ acked' = acked
      \/ /\ logchunk' = [logchunk EXCEPT ![n] = Append(logchunk[n], Q.load)]
         /\ acked' \in {acked, [acked EXCEPT ![n] = acked[n] \cup {Q.load}]}
    BY <1>2 DEF InsertLogChunk, Acknowledge, Respond, history, Applied
<1>8. \A m \in Names \ {n} : Untouched(m)
    BY <1>4, <1>6, <1>7 DEF Untouched
<1>9. TableInv(n)'
    <2>1. CASE Untouched(n)
        BY <1>3, <2>1, UntouchedTables
    <2>2. CASE /\ logchunk'[n] = Append(logchunk[n], Q.load)
               /\ acked'[n] \subseteq acked[n] \cup {Q.load}
        <3>1. \A c \in acked[n] : \E i \in DOMAIN logchunk[n] : logchunk[n][i] = c
            BY <1>3 DEF TableInv, Stored
        <3>2. \A p \in 1 .. Q.load.offset : \E i \in DOMAIN logchunk[n] :
                Covers(logchunk[n][i], p)
            BY <1>3, <3>1 DEF Acknowledged
        <3>3. Tiles(logchunk'[n], artifact'[n].size)
            BY <1>3, <1>4, <1>5, <1>6, <2>2, <3>2, AppendTiles DEF TableInv
        <3>6. LET rows == Append(logchunk[n], Q.load)
              IN  /\ \A i \in DOMAIN logchunk[n] : i \in DOMAIN rows /\ rows[i] = logchunk[n][i]
                  /\ Len(logchunk[n]) + 1 \in DOMAIN rows
                  /\ rows[Len(logchunk[n]) + 1] = Q.load
            <4>1. logchunk[n] \in Seq(Chunk)
                BY <1>4
            <4>2. QED
                BY <4>1
        <3>4. ASSUME NEW c \in acked'[n]
              PROVE  \E i \in DOMAIN logchunk'[n] : logchunk'[n][i] = c
            <4>1. CASE c \in acked[n]
                <5>1. PICK i \in DOMAIN logchunk[n] : logchunk[n][i] = c
                    BY <3>1, <4>1
                <5>2. QED
                    BY <2>2, <3>6, <5>1
            <4>2. CASE c = Q.load
                BY <2>2, <3>6, <4>2
            <4>3. QED
                BY <2>2, <3>4, <4>1, <4>2
        <3>5. QED
            BY <1>3, <1>6, <3>3, <3>4 DEF TableInv, Stored
    <2>3. QED
        BY <1>4, <1>6, <1>7, <2>1, <2>2 DEF Untouched
<1>10. QED
    BY <1>1, <1>2, <1>6, <1>8, <1>9, WriteKept

LEMMA LastLogChunkKept ==
    ASSUME IInv, TypeOK', NEW r \in Requests, LastLogChunk(r)
    PROVE  IInv'
<1>1. req[r].pc \in Holding /\ req[r].pc = "lastLogChunk"
    BY DEF LastLogChunk, At, Holding
<1>2. PICK n \in Names, Q \in Memory : n = req[r].name /\ Q = req[r]
    BY <1>1, AtHolding
<1>3. TableInv(n) /\ artifact[n].state = "APPENDING"
    BY <1>1, <1>2, AtHolding DEF RequestInv, PointInv
<1>4. UNCHANGED <<artifact, logchunk, s3>>
    BY DEF LastLogChunk, tables
<1>5. ASSUME NEW code, Respond(r, code) PROVE IInv'
    BY <1>4, <1>5, RespondKept
<1>6. ASSUME NEW i \in DOMAIN logchunk[n], logchunk[n][i] = Q.load, Acknowledge(r)
      PROVE  IInv'
    <2>1. req' = [req EXCEPT ![r] = Idle] /\ acked' = [acked EXCEPT ![n] = @ \cup {Q.load}]
        BY <1>2, <1>6 DEF Acknowledge, Answer
    <2>2. TableInv(n)'
        BY <1>3, <1>4, <1>6, <2>1 DEF TableInv, Stored, IInv, TypeOK
    <2>3. \A m \in Names \ {n} : Untouched(m)
        BY <1>4, <2>1 DEF Untouched, IInv, TypeOK
    <2>4. QED
        BY <1>1, <1>2, <2>1, <2>2, <2>3, WriteKept
<1>7. QED
    BY <1>2, <1>5, <1>6 DEF LastLogChunk


-----------------------------------------------------------------------------
(* Steps of PutArtifact and MergeLogChunks.                                *)

\* A write that changes the state of a row and not its size, of an artifact
\* that is not UPLOADED and does not become so.
LEMMA RowKept ==
    ASSUME IInv, NEW n \in Names, NEW row \in Row,
           artifact' \in {artifact, [artifact EXCEPT ![n] = row]},
           UNCHANGED <<logchunk, s3, acked>>,
           row.size = artifact[n].size, artifact[n].state # "UPLOADED",
           \/ row.state = "UPLOADING"
           \/ row.state = "APPEND_COMPLETE" /\ row.size >= 0
           \/ row.state \in {"ERROR", "CLOSED_WITHOUT_DATA"} /\ acked[n] = {}
    PROVE  TableInv(n)' /\ \A m \in Names \ {n} : Untouched(m)
<1>1. TableInv(n) /\ artifact \in [Names -> Row]
    BY DEF IInv, TypeOK
<1>2. \A m \in Names \ {n} : Untouched(m)
    BY <1>1 DEF Untouched
<1>3. CASE artifact' = artifact
    BY <1>1, <1>3, UntouchedTables DEF Untouched
<1>4. CASE artifact' = [artifact EXCEPT ![n] = row]
    <2>1. artifact'[n] = row
        BY <1>1, <1>4
    <2>2. Tiles(logchunk'[n], artifact'[n].size)
        BY <1>1, <2>1 DEF TableInv
    <2>3. ASSUME NEW c \in acked'[n] PROVE Stored(n, c)'
        BY <1>1, <2>1, <2>3 DEF TableInv, Stored
    <2>4. QED
        BY <1>2, <2>1, <2>2, <2>3 DEF TableInv
<1>5. QED
    BY <1>2, <1>3, <1>4

LEMMA SetUploadingKept ==
    ASSUME IInv, TypeOK', NEW r \in Requests, SetUploading(r)
    PROVE  IInv'
<1>1. req[r].pc \in Holding /\ req[r].pc = "setUploading"
    BY DEF SetUploading, At, Holding
<1>2. PICK n \in Names, Q \in Memory : n = req[r].name /\ Q = req[r]
    BY <1>1, AtHolding
<1>3. /\ RequestInv(Q) /\ artifact[n] = Q.art /\ Q.body = <<>> /\ Q.pc = "setUploading"
      /\ \/ /\ Q.op = "post" /\ Q.art.state = "WAITING_FOR_UPLOAD"
            /\ acked[n] = {} /\ Q.load.offset = 0 /\ Q.load.size = Q.art.size
         \/ Q.op \in {"close", "closeBucket"} /\ Q.art.state = "APPEND_COMPLETE" /\ Q.art.size > 0
    BY <1>1, <1>2, AtHolding DEF RequestInv, PointInv, UploadInv
<1>4. Q.art \in Row /\ artifact \in [Names -> Row]
    BY DEF Memory, IInv, TypeOK
<1>5. PICK row : row = [Q.art EXCEPT !.state = "UPLOADING"]
    OBVIOUS
<1>6. row \in Row /\ row.state = "UPLOADING" /\ row.size = Q.art.size
    BY <1>4, <1>5 DEF Row, ArtifactState
<1>7. UNCHANGED <<logchunk, s3, acked>>
    BY DEF SetUploading, Continue, CloseFailed, Respond, history
<1>8. artifact' \in {artifact, [artifact EXCEPT ![n] = row]}
    BY <1>2, <1>5 DEF SetUploading, UpdateArtifact
<1>9. TableInv(n)' /\ \A m \in Names \ {n} : Untouched(m)
    BY <1>3, <1>6, <1>7, <1>8, RowKept
<1>10. CASE req' = [req EXCEPT ![r] = Idle]
    BY <1>1, <1>2, <1>9, <1>10, WriteKept
<1>11. ASSUME NEW pc, pc = (IF Q.op = "post" THEN "readBody" ELSE "readChunks"),
              req' = [req EXCEPT ![r] = [Q EXCEPT !.pc = pc, !.art = row]],
              artifact' = [artifact EXCEPT ![n] = row]
       PROVE  IInv'
    <2>1. PICK q : q = [Q EXCEPT !.pc = pc, !.art = row]
        OBVIOUS
    <2>2. /\ q.pc = pc /\ q.art = row /\ q.op = Q.op /\ q.name = n
          /\ q.load = Q.load /\ q.body = <<>> /\ q.listing = Q.listing
        BY <1>2, <1>3, <2>1 DEF Memory
    <2>3. PointInv(q)' /\ CreateInv(q)'
        BY <1>3, <1>6, <1>11, <2>2 DEF PointInv, CreateInv
    <2>4. CopyInv(q)'
        BY <1>1, <1>2, <1>3, <1>4, <1>11, <2>2 DEF CopyInv, RequestInv
    <2>5. AppendInv(q)'
        BY <1>2, <1>3, <1>7, <1>11, <2>2 DEF AppendInv, RequestInv, Acknowledged
    <2>6. UploadInv(q)'
        BY <1>3, <1>6, <1>7, <1>11, <2>2 DEF UploadInv, Agrees
    <2>7. SameWork(req[r], q) /\ RequestInv(q)'
        BY <1>2, <2>2, <2>3, <2>4, <2>5, <2>6 DEF SameWork, RequestInv
    <2>8. req' = [req EXCEPT ![r] = q]
        BY <1>11, <2>1
    <2>9. QED
        BY <1>1, <1>2, <1>9, <2>7, <2>8, WriteKept
<1>12. QED
    BY <1>2, <1>3, <1>5, <1>10, <1>11
    DEF SetUploading, UpdateArtifact, Applied, Continue, CloseFailed, Respond, Answer, Merging

LEMMA ReadBodyKept ==
    ASSUME IInv, TypeOK', NEW r \in Requests, ReadBody(r)
    PROVE  IInv'
<1>1. req[r].pc \in Holding /\ req[r].pc = "readBody"
    BY DEF ReadBody, At, Holding
<1>2. PICK n \in Names, Q \in Memory : n = req[r].name /\ Q = req[r]
    BY <1>1, AtHolding
<1>3. /\ RequestInv(Q) /\ Q.body = <<>> /\ Q.pc = "readBody"
      /\ Q.op = "post" /\ Q.art.state = "UPLOADING"
      /\ acked[n] = {} /\ Q.load.offset = 0 /\ Q.load.size = Q.art.size
    BY <1>1, <1>2, AtHolding DEF RequestInv, PointInv, UploadInv
<1>4. UNCHANGED <<artifact, logchunk, s3>>
    BY DEF ReadBody, tables
<1>5. Q.load \in Chunk
    BY DEF Memory
<1>6. Q.load.size \in Nat
    BY <1>5 DEF Chunk
<1>7. ASSUME NEW pc, NEW body, Continue(r, [Q EXCEPT !.pc = pc, !.body = body]),
             \/ pc = "setError"
             \/ pc = "putObject" /\ body = [i \in 1 .. Q.art.size |-> Q.load.data]
      PROVE  IInv'
    <2>1. PICK q : q = [Q EXCEPT !.pc = pc, !.body = body]
        OBVIOUS
    <2>2. /\ q.pc = pc /\ q.art = Q.art /\ q.op = Q.op /\ q.name = n
          /\ q.load = Q.load /\ q.body = body /\ q.listing = Q.listing
        BY <1>2, <2>1 DEF Memory
    <2>3. PointInv(q) /\ CreateInv(q) /\ CopyInv(q) /\ AppendInv(q)
        BY <1>1, <1>2, <1>3, <1>7, <2>2
        DEF PointInv, CreateInv, CopyInv, AppendInv, RequestInv, Holding
    <2>4. pc = "putObject" => Len(body) = Q.art.size /\ Holds(body, Q.load)
        BY <1>3, <1>6, <1>7 DEF Holds
    <2>5. UploadInv(q)
        BY <1>2, <1>3, <1>7, <2>2, <2>4 DEF UploadInv
    <2>6. SameWork(req[r], q) /\ RequestInv(q)
        BY <1>2, <2>2, <2>3, <2>5 DEF SameWork, RequestInv
    <2>7. QED
        BY <1>4, <1>7, <2>1, <2>6, ContinueKept
<1>8. [Q EXCEPT !.pc = "setError"] = [Q EXCEPT !.pc = "setError", !.body = Q.body]
    BY DEF Memory
<1>9. CASE Continue(r, [Q EXCEPT !.pc = "setError"])
    BY <1>7, <1>8, <1>9
<1>10. CASE Continue(r, [Q EXCEPT !.pc = "putObject",
                            !.body = [i \in 1 .. Q.art.size |-> Q.load.data]])
    BY <1>7, <1>10
<1>11. QED
    BY <1>2, <1>3, <1>9, <1>10, Zenon DEF ReadBody, UploadFailed, Merging


\* Of rows that tile, one and no other covers each position up to a row's last.
LEMMA TiledExact ==
    ASSUME NEW rows \in Seq(Chunk), NEW size \in Int, Tiles(rows, size),
           NEW i \in DOMAIN rows, NEW p \in Nat \ {0}, Covers(rows[i], p)
    PROVE  Exact(rows, p) /\ \A j \in DOMAIN rows : Covers(rows[j], p) => j = i
<1>1. \A j \in DOMAIN rows : rows[j].offset \in Nat /\ rows[j].size \in Nat
    <2>1. \A j \in DOMAIN rows : rows[j] \in Chunk
        OBVIOUS
    <2>2. QED
        BY <2>1 DEF Chunk
<1>2. ASSUME NEW j \in DOMAIN rows, NEW k \in DOMAIN rows, NEW q \in Nat,
             Covers(rows[j], q), Covers(rows[k], q)
      PROVE  j = k
    <2>1. SUFFICES ASSUME j # k PROVE FALSE
        OBVIOUS
    <2>2. \/ rows[j].offset + rows[j].size <= rows[k].offset
          \/ rows[k].offset + rows[k].size <= rows[j].offset
        <3>1. k \in DOMAIN rows \ {j}
            BY <2>1
        <3>2. QED
            BY <3>1, Zenon DEF Tiles
    <2>3. /\ rows[j].offset < q /\ q <= rows[j].offset + rows[j].size
          /\ rows[k].offset < q /\ q <= rows[k].offset + rows[k].size
        BY <1>2 DEF Covers
    <2>4. PICK a \in Nat, m \in Nat, b \in Nat, n \in Nat :
            a = rows[j].offset /\ m = rows[j].size /\ b = rows[k].offset /\ n = rows[k].size
        BY <1>1
    <2>5. (a + m <= b \/ b + n <= a) /\ a < q /\ q <= a + m /\ b < q /\ q <= b + n
        BY <2>2, <2>3, <2>4
    <2>6. QED
        BY <2>5
<1>3. ASSUME NEW q \in 1 .. p PROVE \E j \in DOMAIN rows : Covers(rows[j], q)
    <2>1. CASE q \in 1 .. rows[i].offset
        BY <2>1 DEF Tiles
    <2>2. CASE q > rows[i].offset
        BY <1>1, <2>2 DEF Covers
    <2>3. QED
        BY <1>1, <2>1, <2>2
<1>4. Exact(rows, p)
    <2>1. SUFFICES ASSUME NEW q \in 1 .. p
                   PROVE  \E j \in DOMAIN rows : Covers(rows[j], q)
                            /\ \A k \in DOMAIN rows : Covers(rows[k], q) => k = j
        BY DEF Exact
    <2>2. PICK j \in DOMAIN rows : Covers(rows[j], q)
        BY <1>3
    <2>3. q \in Nat
        OBVIOUS
    <2>4. QED
        BY <1>2, <2>2, <2>3
<1>5. QED
    BY <1>2, <1>4

\* A reader of rows that tile delivers the bytes of the chunk at a position.
LEMMA ReadExact ==
    ASSUME NEW rows \in Seq(Chunk), NEW size \in Int, Tiles(rows, size),
           NEW i \in DOMAIN rows, NEW p \in Nat \ {0}, Covers(rows[i], p),
           NEW b \in BytesAt(rows, p)
    PROVE  b = rows[i].data
BY TiledExact DEF BytesAt

LEMMA ReadChunksKept ==
    ASSUME IInv, TypeOK', NEW r \in Requests, ReadChunks(r)
    PROVE  IInv'
<1>1. req[r].pc \in Holding /\ req[r].pc = "readChunks"
    BY DEF ReadChunks, At, Holding
<1>2. PICK n \in Names, Q \in Memory : n = req[r].name /\ Q = req[r]
    BY <1>1, AtHolding
<1>3. /\ RequestInv(Q) /\ TableInv(n) /\ artifact[n] = Q.art
      /\ Q.pc = "readChunks" /\ Q.op \in {"close", "closeBucket"} /\ Q.art.state = "UPLOADING"
      /\ Len(Q.body) < Q.art.size /\ Agrees(n, Q.body)
    BY <1>1, <1>2, AtHolding DEF RequestInv, PointInv, UploadInv
<1>4. UNCHANGED <<artifact, logchunk, s3>>
    BY DEF ReadChunks, tables
<1>5. /\ Q.body \in Seq(Byte) /\ Q.art.size \in Int /\ logchunk[n] \in Seq(Chunk)
      /\ acked[n] \subseteq Chunk
    <2>1. Q.art \in Row
        BY DEF Memory
    <2>2. QED
        BY <2>1 DEF Memory, Row, IInv, TypeOK
<1>6. ASSUME NEW pc, NEW body, NEW t,
             Continue(r, [Q EXCEPT !.pc = pc, !.body = body, !.tries = t]),
             Agrees(n, body), body \in Seq(Byte),
             \/ pc = "readChunks" /\ Len(body) < Q.art.size
             \/ pc = "putObject" /\ Len(body) = Q.art.size /\ Q.art.size > 0
      PROVE  IInv'
    <2>1. PICK q : q = [Q EXCEPT !.pc = pc, !.body = body, !.tries = t]
        OBVIOUS
    <2>2. /\ q.pc = pc /\ q.art = Q.art /\ q.op = Q.op /\ q.name = n
          /\ q.load = Q.load /\ q.body = body /\ q.listing = Q.listing
        BY <1>2, <2>1 DEF Memory
    <2>3. PointInv(q) /\ CreateInv(q) /\ CopyInv(q) /\ AppendInv(q)
        BY <1>1, <1>2, <1>3, <1>6, <2>2
        DEF PointInv, CreateInv, CopyInv, AppendInv, RequestInv, Holding
    <2>4. UploadInv(q)
        BY <1>3, <1>6, <2>2 DEF UploadInv
    <2>5. SameWork(req[r], q) /\ RequestInv(q)
        BY <1>2, <2>2, <2>3, <2>4 DEF SameWork, RequestInv
    <2>6. QED
        BY <1>4, <1>6, <2>1, <2>5, ContinueKept
<1>7. ASSUME NEW b \in BytesAt(logchunk[n], Len(Q.body) + 1),
             Continue(r, [Q EXCEPT !.body = Append(Q.body, b),
                            !.pc = IF Len(Q.body) + 1 = Q.art.size
                                   THEN "putObject" ELSE "readChunks"])
      PROVE  IInv'
    <2>1. PICK body : body = Append(Q.body, b)
        OBVIOUS
    <2>2. /\ body \in Seq(Byte) /\ Len(body) = Len(Q.body) + 1 /\ Len(Q.body) \in Nat
          /\ body[Len(Q.body) + 1] = b /\ \A p \in 1 .. Len(Q.body) : body[p] = Q.body[p]
        BY <1>5, <2>1 DEF BytesAt
    <2>3. ASSUME NEW c \in acked[n], Covers(c, Len(Q.body) + 1)
          PROVE  b = c.data
        <3>1. PICK i \in DOMAIN logchunk[n] : logchunk[n][i] = c
            BY <1>3 DEF TableInv, Stored
        <3>2. QED
            BY <1>3, <1>5, <2>2, <2>3, <3>1, ReadExact DEF TableInv
    <2>4. Agrees(n, body)
        <3>1. SUFFICES ASSUME NEW c \in acked[n], NEW p \in 1 .. Len(body), Covers(c, p)
                       PROVE  body[p] = c.data
            BY DEF Agrees
        <3>2. p \in 1 .. Len(Q.body) \/ p = Len(Q.body) + 1
            BY <2>2
        <3>3. QED
            BY <1>3, <2>2, <2>3, <3>1, <3>2 DEF Agrees
    <2>5. PICK pc : pc = IF Len(Q.body) + 1 = Q.art.size THEN "putObject" ELSE "readChunks"
        OBVIOUS
    <2>6. [Q EXCEPT !.body = Append(Q.body, b),
              !.pc = IF Len(Q.body) + 1 = Q.art.size THEN "putObject" ELSE "readChunks"] =
          [Q EXCEPT !.pc = pc, !.body = body, !.tries = Q.tries]
        BY <2>1, <2>5 DEF Memory
    <2>7. Continue(r, [Q EXCEPT !.pc = pc, !.body = body, !.tries = Q.tries])
        BY <1>7, <2>6, Zenon
    <2>8. \/ pc = "readChunks" /\ Len(body) < Q.art.size
          \/ pc = "putObject" /\ Len(body) = Q.art.size /\ Q.art.size > 0
        BY <1>3, <1>5, <2>2, <2>5
    <2>9. QED
        BY <1>6, <2>2, <2>4, <2>7, <2>8
<1>8. ASSUME AttemptFailed(r) PROVE IInv'
    <2>1. Merging(r)
        BY <1>2, <1>3 DEF Merging
    <2>2. CASE CloseFailed(r)
        BY <1>4, <2>2, RespondKept DEF CloseFailed
    <2>3. CASE Continue(r, [Q EXCEPT !.tries = Q.tries + 1, !.pc = "readChunks", !.body = <<>>])
        <3>1. [Q EXCEPT !.tries = Q.tries + 1, !.pc = "readChunks", !.body = <<>>] =
              [Q EXCEPT !.pc = "readChunks", !.body = <<>>, !.tries = Q.tries + 1]
            BY DEF Memory
        <3>2. /\ Agrees(n, <<>>) /\ <<>> \in Seq(Byte)
              /\ Len(<<>>) < Q.art.size
            BY <1>3, <1>5 DEF Agrees
        <3>3. QED
            BY <1>6, <2>3, <3>1, <3>2
    <2>4. QED
        BY <1>2, <1>8, <2>1, <2>2, <2>3 DEF AttemptFailed, UploadFailed
<1>9. QED
    BY <1>2, <1>7, <1>8 DEF ReadChunks


LEMMA PutObjectKept ==
    ASSUME IInv, TypeOK', NEW r \in Requests, PutObject(r)
    PROVE  IInv'
<1>1. req[r].pc \in Holding /\ req[r].pc = "putObject"
    BY DEF PutObject, At, Holding
<1>2. PICK n \in Names, Q \in Memory : n = req[r].name /\ Q = req[r]
    BY <1>1, AtHolding
<1>3. /\ RequestInv(Q) /\ TableInv(n) /\ artifact[n] = Q.art /\ Q.pc = "putObject"
      /\ Q.op \in {"post", "close", "closeBucket"} /\ Q.art.state = "UPLOADING"
      /\ Q.op # "post" => Q.art.size > 0 /\ Agrees(n, Q.body)
      /\ Q.op = "post" =>
            /\ acked[n] = {} /\ Q.load.offset = 0 /\ Q.load.size = Q.art.size
            /\ Holds(Q.body, Q.load)
      /\ Len(Q.body) = Q.art.size
    BY <1>1, <1>2, AtHolding DEF RequestInv, PointInv, UploadInv
<1>4. UNCHANGED <<artifact, logchunk, acked>>
    BY DEF PutObject, Continue, AttemptFailed, UploadFailed, CloseFailed, Respond, history
<1>5. s3' = s3 \/ s3' = [s3 EXCEPT ![n] = Q.body]
    BY <1>2 DEF PutObject
<1>6. s3 \in [Names -> Seq(Byte)]
    BY DEF IInv, TypeOK
<1>7. TableInv(n)'
    BY <1>3, <1>4 DEF TableInv, Stored
<1>8. \A m \in Names \ {n} : Untouched(m)
    BY <1>4, <1>5, <1>6 DEF Untouched
<1>9. ASSUME NEW pc, NEW body, NEW t,
             Continue(r, [Q EXCEPT !.pc = pc, !.body = body, !.tries = t]),
             \/ pc = "setUploaded" /\ body = Q.body /\ s3' = [s3 EXCEPT ![n] = Q.body]
             \/ pc = "putObject" /\ body = Q.body
             \/ pc = "readChunks" /\ body = <<>> /\ Q.op # "post"
             \/ pc = "setError" /\ Q.op = "post"
      PROVE  IInv'
    <2>1. PICK q : q = [Q EXCEPT !.pc = pc, !.body = body, !.tries = t]
        OBVIOUS
    <2>2. /\ q.pc = pc /\ q.art = Q.art /\ q.op = Q.op /\ q.name = n
          /\ q.load = Q.load /\ q.body = body /\ q.listing = Q.listing
        BY <1>2, <2>1 DEF Memory
    <2>3. (PointInv(q) /\ CreateInv(q) /\ CopyInv(q) /\ AppendInv(q))'
        BY <1>1, <1>2, <1>3, <1>4, <1>9, <2>2
        DEF PointInv, CreateInv, CopyInv, AppendInv, Acknowledged, RequestInv, Holding
    <2>4. Agrees(n, <<>>)'
        BY DEF Agrees
    <2>5. Agrees(n, Q.body) => Agrees(n, Q.body)'
        BY <1>4 DEF Agrees
    <2>6. pc = "setUploaded" => s3'[n] = body
        BY <1>6, <1>9
    <2>7. UploadInv(q)'
        BY <1>3, <1>4, <1>9, <2>2, <2>4, <2>5, <2>6 DEF UploadInv
    <2>8. SameWork(req[r], q) /\ RequestInv(q)'
        BY <1>2, <2>2, <2>3, <2>7 DEF SameWork, RequestInv
    <2>9. req' = [req EXCEPT ![r] = q]
        BY <1>9, <2>1 DEF Continue
    <2>10. QED
        BY <1>1, <1>2, <1>7, <1>8, <2>8, <2>9, WriteKept
<1>10. CASE req' = [req EXCEPT ![r] = Idle]
    BY <1>1, <1>2, <1>7, <1>8, <1>10, WriteKept
<1>11. CASE Continue(r, [Q EXCEPT !.pc = "setUploaded"]) /\ s3' = [s3 EXCEPT ![n] = Q.body]
    <2>1. [Q EXCEPT !.pc = "setUploaded"] =
          [Q EXCEPT !.pc = "setUploaded", !.body = Q.body, !.tries = Q.tries]
        BY DEF Memory
    <2>2. Continue(r, [Q EXCEPT !.pc = "setUploaded", !.body = Q.body, !.tries = Q.tries])
        BY <1>11, <2>1, Zenon
    <2>3. QED
        BY <1>9, <1>11, <2>2
<1>12. CASE Continue(r, [Q EXCEPT !.pc = "setError"]) /\ Q.op = "post"
    <2>1. [Q EXCEPT !.pc = "setError"] =
          [Q EXCEPT !.pc = "setError", !.body = Q.body, !.tries = Q.tries]
        BY DEF Memory
    <2>2. Continue(r, [Q EXCEPT !.pc = "setError", !.body = Q.body, !.tries = Q.tries])
        BY <1>12, <2>1, Zenon
    <2>3. QED
        BY <1>9, <1>12, <2>2
<1>13. CASE Q.op = "post" /\ Continue(r, [Q EXCEPT !.tries = Q.tries + 1,
                !.pc = "putObject", !.body = Q.body])
    <2>1. [Q EXCEPT !.tries = Q.tries + 1, !.pc = "putObject", !.body = Q.body] =
          [Q EXCEPT !.pc = "putObject", !.body = Q.body, !.tries = Q.tries + 1]
        BY DEF Memory
    <2>2. QED
        BY <1>9, <1>13, <2>1
<1>14. CASE Q.op # "post" /\ Continue(r, [Q EXCEPT !.tries = Q.tries + 1,
                !.pc = "readChunks", !.body = <<>>])
    <2>1. [Q EXCEPT !.tries = Q.tries + 1, !.pc = "readChunks", !.body = <<>>] =
          [Q EXCEPT !.pc = "readChunks", !.body = <<>>, !.tries = Q.tries + 1]
        BY DEF Memory
    <2>2. QED
        BY <1>9, <1>14, <2>1
<1>15. CASE AttemptFailed(r)
    <2>1. CASE UploadFailed(r)
        BY <1>2, <1>10, <1>12, <2>1 DEF UploadFailed, CloseFailed, Respond, Answer, Merging
    <2>2. QED
        BY <1>2, <1>13, <1>14, <1>15, <2>1 DEF AttemptFailed, Merging
<1>16. QED
    BY <1>2, <1>11, <1>15 DEF PutObject, Applied

LEMMA SetUploadedKept ==
    ASSUME IInv, TypeOK', NEW r \in Requests, SetUploaded(r)
    PROVE  IInv'
<1>1. req[r].pc \in Holding /\ req[r].pc = "setUploaded"
    BY DEF SetUploaded, At, Holding
<1>2. PICK n \in Names, Q \in Memory : n = req[r].name /\ Q = req[r]
    BY <1>1, AtHolding
<1>3. /\ RequestInv(Q) /\ TableInv(n) /\ artifact[n] = Q.art /\ Q.pc = "setUploaded"
      /\ Q.op \in {"post", "close", "closeBucket"} /\ Q.art.state = "UPLOADING"
      /\ Q.op # "post" => Agrees(n, Q.body)
      /\ Q.op = "post" => acked[n] = {} /\ Holds(Q.body, Q.load)
      /\ Len(Q.body) = Q.art.size
      /\ s3[n] = Q.body
    BY <1>1, <1>2, AtHolding DEF RequestInv, PointInv, UploadInv
<1>4. /\ Q.art \in Row /\ artifact \in [Names -> Row] /\ acked \in [Names -> SUBSET Chunk]
      /\ logchunk[n] \in Seq(Chunk) /\ Q.body \in Seq(Byte)
    BY DEF Memory, IInv, TypeOK
<1>5. PICK row : row = [Q.art EXCEPT !.state = "UPLOADED"]
    OBVIOUS
<1>6. row.state = "UPLOADED" /\ row.size = Q.art.size
    BY <1>4, <1>5 DEF Row
<1>7. UNCHANGED <<logchunk, s3>>
    BY DEF SetUploaded
<1>8. \/ artifact' = artifact /\ acked' = acked
      \/ /\ artifact' = [artifact EXCEPT ![n] = row]
         /\ \/ acked' = acked
            \/ Q.op = "post" /\ acked' = [acked EXCEPT ![n] = acked[n] \cup {Q.load}]
    BY <1>2, <1>5 DEF SetUploaded, UpdateArtifact, Applied, Acknowledge, Continue,
        CloseFailed, Respond, history, Merging
<1>9. \A m \in Names \ {n} : Untouched(m)
    BY <1>4, <1>7, <1>8 DEF Untouched
<1>10. ASSUME NEW c \in acked[n] PROVE Holds(Q.body, c)
    <2>1. Q.op # "post"
        BY <1>3, <1>10
    <2>2. PICK i \in DOMAIN logchunk[n] : logchunk[n][i] = c
        BY <1>3 DEF TableInv, Stored
    <2>3. c.offset \in Nat /\ c.size \in Nat
        BY <1>4 DEF Chunk
    <2>4. c.offset + c.size <= Len(Q.body)
        BY <1>3, <2>2 DEF TableInv, Tiles
    <2>5. QED
        BY <1>3, <1>4, <2>1, <2>3, <2>4 DEF Holds, Agrees, Covers
<1>11. TableInv(n)'
    <2>1. CASE Untouched(n)
        BY <1>3, <2>1, UntouchedTables
    <2>2. CASE artifact' = [artifact EXCEPT ![n] = row]
        <3>1. artifact'[n] = row
            BY <1>4, <2>2
        <3>2. ASSUME NEW c \in acked'[n] PROVE Holds(Q.body, c)
            BY <1>3, <1>4, <1>8, <1>10
        <3>3. \A c \in acked'[n] : Stored(n, c)'
            BY <1>3, <1>6, <1>7, <3>1, <3>2 DEF Stored
        <3>4. Tiles(logchunk'[n], artifact'[n].size)
            BY <1>3, <1>6, <1>7, <3>1 DEF TableInv
        <3>5. QED
            BY <1>3, <1>6, <1>7, <3>1, <3>3, <3>4 DEF TableInv
    <2>3. QED
        BY <1>7, <1>8, <2>1, <2>2 DEF Untouched
<1>12. CASE req' = [req EXCEPT ![r] = Idle]
    BY <1>1, <1>2, <1>9, <1>11, <1>12, WriteKept
<1>13. CASE /\ Q.op # "post" /\ artifact' = [artifact EXCEPT ![n] = row]
            /\ req' = [req EXCEPT ![r] = [Q EXCEPT !.pc = "deleteLogChunks", !.art = row]]
    <2>1. PICK q : q = [Q EXCEPT !.pc = "deleteLogChunks", !.art = row]
        OBVIOUS
    <2>2. /\ q.pc = "deleteLogChunks" /\ q.art = row /\ q.op = Q.op /\ q.name = n
          /\ q.load = Q.load /\ q.listing = Q.listing
        BY <1>2, <2>1 DEF Memory
    <2>3. (PointInv(q) /\ CreateInv(q) /\ AppendInv(q) /\ UploadInv(q))'
        BY <1>3, <1>6, <1>13, <2>2 DEF PointInv, CreateInv, AppendInv, UploadInv
    <2>4. CopyInv(q)'
        BY <1>1, <1>2, <1>3, <1>4, <1>13, <2>2 DEF CopyInv, RequestInv
    <2>5. SameWork(req[r], q) /\ RequestInv(q)'
        BY <1>2, <2>2, <2>3, <2>4 DEF SameWork, RequestInv
    <2>6. req' = [req EXCEPT ![r] = q]
        BY <1>13, <2>1
    <2>7. QED
        BY <1>1, <1>2, <1>9, <1>11, <2>5, <2>6, WriteKept
<1>14. QED
    BY <1>2, <1>5, <1>12, <1>13 DEF SetUploaded, UpdateArtifact, Applied, Acknowledge,
        Continue, CloseFailed, Respond, Answer, Merging

LEMMA SetErrorKept ==
    ASSUME IInv, TypeOK', NEW r \in Requests, SetError(r)
    PROVE  IInv'
<1>1. req[r].pc \in Holding /\ req[r].pc = "setError"
    BY DEF SetError, At, Holding
<1>2. PICK n \in Names, Q \in Memory : n = req[r].name /\ Q = req[r]
    BY <1>1, AtHolding
<1>3. artifact[n] = Q.art /\ Q.art.state = "UPLOADING" /\ acked[n] = {}
    BY <1>1, <1>2, AtHolding DEF RequestInv, PointInv, UploadInv
<1>4. PICK row : row = [Q.art EXCEPT !.state = "ERROR"]
    OBVIOUS
<1>5. row \in Row /\ row.state = "ERROR" /\ row.size = Q.art.size
    <2>1. Q.art \in Row
        BY DEF Memory
    <2>2. QED
        BY <1>4, <2>1 DEF Row, ArtifactState
<1>6. artifact' \in {artifact, [artifact EXCEPT ![n] = row]}
    BY <1>2, <1>4 DEF SetError, UpdateArtifact
<1>7. UNCHANGED <<logchunk, s3, acked>> /\ req' = [req EXCEPT ![r] = Idle]
    BY DEF SetError, Respond, Answer, history
<1>8. TableInv(n)' /\ \A m \in Names \ {n} : Untouched(m)
    BY <1>3, <1>5, <1>6, <1>7, RowKept
<1>9. QED
    BY <1>1, <1>2, <1>7, <1>8, WriteKept


-----------------------------------------------------------------------------
(* Steps of CloseArtifact and CloseBucket.                                 *)

Closes(q) == q.op \in {"close", "closeBucket"}

\* CloseBucket goes on with the rest of its listing.
LEMMA GoOn ==
    ASSUME NEW q \in Memory, q.op = "closeBucket",
           \A m \in Names : q.listing[m] # NoRow => artifact'[m] = q.listing[m]
    PROVE  RequestInv([q EXCEPT !.pc = "nextArtifact", !.name = NoName, !.art = NoRow,
                           !.body = <<>>, !.tries = 0])'
<1>1. PICK g : g = [q EXCEPT !.pc = "nextArtifact", !.name = NoName, !.art = NoRow,
                        !.body = <<>>, !.tries = 0]
    OBVIOUS
<1>2. g.pc = "nextArtifact" /\ g.op = "closeBucket" /\ g.body = <<>> /\ g.listing = q.listing
    BY <1>1 DEF Memory
<1>3. (PointInv(g) /\ CreateInv(g) /\ AppendInv(g) /\ UploadInv(g))'
    BY <1>2 DEF PointInv, CreateInv, AppendInv, UploadInv
<1>4. CopyInv(g)'
    BY <1>2 DEF CopyInv, Holding
<1>5. RequestInv(g)'
    BY <1>3, <1>4 DEF RequestInv
<1>6. QED
    BY <1>1, <1>5

\* An artifact has been closed and written.
LEMMA ClosedKept ==
    ASSUME IInv, TypeOK', NEW r \in Requests, req[r].pc \in Holding, Closes(req[r]),
           NEW n \in Names, n = req[r].name, TableInv(n)',
           \A m \in Names \ {n} : Untouched(m),
           Closed(r, req[r])
    PROVE  IInv'
<1>1. PICK Q \in Memory : Q = req[r]
    BY AtHolding
<1>2. CASE Respond(r, "200")
    BY <1>2, WriteKept DEF Respond, Answer
<1>3. CASE /\ Q.op = "closeBucket"
           /\ Continue(r, [Q EXCEPT !.pc = "nextArtifact", !.name = NoName, !.art = NoRow,
                              !.body = <<>>, !.tries = 0])
    <2>1. PICK g : g = [Q EXCEPT !.pc = "nextArtifact", !.name = NoName, !.art = NoRow,
                            !.body = <<>>, !.tries = 0]
        OBVIOUS
    <2>2. \A m \in Names : Q.listing[m] # NoRow => artifact'[m] = Q.listing[m]
        BY <1>1, <1>3, AtHolding DEF RequestInv, CopyInv, Untouched
    <2>3. RequestInv(g)'
        BY <1>3, <2>1, <2>2, GoOn
    <2>4. SameWork(Q, g)
        BY <1>3, <2>1 DEF SameWork, Memory
    <2>5. req' = [req EXCEPT ![r] = g]
        BY <1>3, <2>1 DEF Continue
    <2>6. QED
        BY <1>1, <2>3, <2>4, <2>5, WriteKept
<1>4. QED
    BY <1>1, <1>2, <1>3 DEF Closed

LEMMA DeleteLogChunksKept ==
    ASSUME IInv, TypeOK', NEW r \in Requests, DeleteLogChunks(r)
    PROVE  IInv'
<1>1. req[r].pc \in Holding /\ req[r].pc = "deleteLogChunks"
    BY DEF DeleteLogChunks, At, Holding
<1>2. PICK n \in Names, Q \in Memory : n = req[r].name /\ Q = req[r]
    BY <1>1, AtHolding
<1>3. TableInv(n) /\ artifact[n].state = "UPLOADED" /\ Closes(req[r])
    BY <1>1, <1>2, AtHolding DEF RequestInv, PointInv, Closes
<1>4. UNCHANGED <<artifact, s3, acked>>
    BY DEF DeleteLogChunks, Closed, Continue, Respond, history
<1>5. logchunk' = logchunk \/ logchunk' = [logchunk EXCEPT ![n] = <<>>]
    BY <1>2 DEF DeleteLogChunks
<1>6. logchunk \in [Names -> Seq(Chunk)]
    BY DEF IInv, TypeOK
<1>7. TableInv(n)'
    <2>1. Tiles(<<>>, artifact[n].size)
        BY DEF Tiles
    <2>2. Tiles(logchunk'[n], artifact'[n].size)
        BY <1>3, <1>4, <1>5, <1>6, <2>1 DEF TableInv
    <2>3. QED
        BY <1>3, <1>4, <2>2 DEF TableInv, Stored
<1>8. \A m \in Names \ {n} : Untouched(m)
    BY <1>4, <1>5, <1>6 DEF Untouched
<1>9. CASE Closed(r, req[r])
    BY <1>1, <1>2, <1>3, <1>7, <1>8, <1>9, ClosedKept
<1>10. CASE Respond(r, "500")
    BY <1>1, <1>2, <1>7, <1>8, <1>10, WriteKept DEF Respond, Answer
<1>11. QED
    BY <1>9, <1>10 DEF DeleteLogChunks

LEMMA MarkCompleteKept ==
    ASSUME IInv, TypeOK', NEW r \in Requests, MarkComplete(r)
    PROVE  IInv'
<1>1. req[r].pc \in Holding /\ req[r].pc = "markComplete"
    BY DEF MarkComplete, At, Holding
<1>2. PICK n \in Names, Q \in Memory : n = req[r].name /\ Q = req[r]
    BY <1>1, AtHolding
<1>3. /\ RequestInv(Q) /\ artifact[n] = Q.art /\ Q.body = <<>> /\ Q.pc = "markComplete"
      /\ Q.op \in {"close", "closeBucket"} /\ Q.art.state = "APPENDING" /\ Q.art.size >= 0
    BY <1>1, <1>2, AtHolding DEF RequestInv, PointInv, UploadInv, TableInv
<1>4. Q.art \in Row /\ artifact \in [Names -> Row]
    BY DEF Memory, IInv, TypeOK
<1>5. PICK row : row = [Q.art EXCEPT !.state = "APPEND_COMPLETE"]
    OBVIOUS
<1>6. row \in Row /\ row.state = "APPEND_COMPLETE" /\ row.size = Q.art.size /\ row.size \in Int
    BY <1>4, <1>5 DEF Row, ArtifactState
<1>7. UNCHANGED <<logchunk, s3, acked>>
    BY DEF MarkComplete, Continue, CloseFailed, Respond, history
<1>8. artifact' \in {artifact, [artifact EXCEPT ![n] = row]}
    BY <1>2, <1>5 DEF MarkComplete, UpdateArtifact
<1>9. TableInv(n)' /\ \A m \in Names \ {n} : Untouched(m)
    BY <1>3, <1>6, <1>7, <1>8, RowKept
<1>10. CASE req' = [req EXCEPT ![r] = Idle]
    BY <1>1, <1>2, <1>9, <1>10, WriteKept
<1>11. ASSUME NEW pc, pc = (IF row.size = 0 THEN "setClosedWithoutData" ELSE "setUploading"),
              req' = [req EXCEPT ![r] = [Q EXCEPT !.pc = pc, !.art = row]],
              artifact' = [artifact EXCEPT ![n] = row]
       PROVE  IInv'
    <2>1. PICK q : q = [Q EXCEPT !.pc = pc, !.art = row]
        OBVIOUS
    <2>2. /\ q.pc = pc /\ q.art = row /\ q.op = Q.op /\ q.name = n
          /\ q.load = Q.load /\ q.body = <<>> /\ q.listing = Q.listing
        BY <1>2, <1>3, <2>1 DEF Memory
    <2>3. (PointInv(q) /\ CreateInv(q) /\ AppendInv(q) /\ UploadInv(q))'
        BY <1>3, <1>6, <1>11, <2>2 DEF PointInv, CreateInv, AppendInv, UploadInv
    <2>4. CopyInv(q)'
        BY <1>1, <1>2, <1>3, <1>4, <1>11, <2>2 DEF CopyInv, RequestInv
    <2>5. SameWork(req[r], q) /\ RequestInv(q)'
        BY <1>2, <2>2, <2>3, <2>4 DEF SameWork, RequestInv
    <2>6. req' = [req EXCEPT ![r] = q]
        BY <1>11, <2>1
    <2>7. QED
        BY <1>1, <1>2, <1>9, <2>5, <2>6, WriteKept
<1>12. QED
    BY <1>2, <1>5, <1>10, <1>11
    DEF MarkComplete, UpdateArtifact, Applied, Continue, CloseFailed, Respond, Answer

LEMMA SetClosedWithoutDataKept ==
    ASSUME IInv, TypeOK', NEW r \in Requests, SetClosedWithoutData(r)
    PROVE  IInv'
<1>1. req[r].pc \in Holding /\ req[r].pc = "setClosedWithoutData"
    BY DEF SetClosedWithoutData, At, Holding
<1>2. PICK n \in Names, Q \in Memory : n = req[r].name /\ Q = req[r]
    BY <1>1, AtHolding
<1>3. /\ TableInv(n) /\ artifact[n] = Q.art /\ Closes(Q)
      /\ \/ Q.art.state = "WAITING_FOR_UPLOAD"
         \/ Q.art.state = "APPEND_COMPLETE" /\ Q.art.size = 0
    BY <1>1, <1>2, AtHolding DEF RequestInv, PointInv, Closes
<1>4. acked[n] = {}
    <2>1. CASE Q.art.state = "WAITING_FOR_UPLOAD"
        BY <1>3, <2>1, NothingAcked
    <2>2. CASE Q.art.state = "APPEND_COMPLETE" /\ Q.art.size = 0
        <3>1. logchunk[n] \in Seq(Chunk)
            BY DEF IInv, TypeOK
        <3>2. DOMAIN logchunk[n] = {}
            BY <1>3, <2>2, <3>1, NoRoom DEF TableInv
        <3>3. QED
            BY <1>3, <2>2, <3>2 DEF TableInv, Stored
    <2>3. QED
        BY <1>3, <2>1, <2>2
<1>5. PICK row : row = [Q.art EXCEPT !.state = "CLOSED_WITHOUT_DATA"]
    OBVIOUS
<1>6. row \in Row /\ row.state = "CLOSED_WITHOUT_DATA" /\ row.size = Q.art.size
    <2>1. Q.art \in Row
        BY DEF Memory
    <2>2. QED
        BY <1>5, <2>1 DEF Row, ArtifactState
<1>7. UNCHANGED <<logchunk, s3, acked>>
    BY DEF SetClosedWithoutData, Closed, Continue, CloseFailed, Respond, history
<1>8. artifact' \in {artifact, [artifact EXCEPT ![n] = row]}
    BY <1>2, <1>5 DEF SetClosedWithoutData, UpdateArtifact
<1>9. TableInv(n)' /\ \A m \in Names \ {n} : Untouched(m)
    BY <1>3, <1>4, <1>6, <1>7, <1>8, RowKept
<1>10. CASE Closed(r, req[r])
    BY <1>1, <1>2, <1>3, <1>9, <1>10, ClosedKept
<1>11. CASE CloseFailed(r)
    BY <1>1, <1>2, <1>9, <1>11, WriteKept DEF CloseFailed, Respond, Answer
<1>12. QED
    BY <1>10, <1>11 DEF SetClosedWithoutData


\* CloseArtifact decides what to do with the row it has been given.
LEMMA CloseArtifactKept ==
    ASSUME IInv, TypeOK', NEW r \in Requests, NEW q \in Memory, CloseArtifact(r, q),
           UNCHANGED <<artifact, logchunk, s3>>,
           q.op = req[r].op, Closes(q), q.op = "close" => q.name = req[r].name,
           q.name \in Names, artifact[q.name] = q.art, q.body = <<>>,
           q.op = "closeBucket" => \A m \in Names :
                q.listing[m] # NoRow => artifact[m] = q.listing[m] /\ m # q.name
    PROVE  IInv'
<1>1. CASE Respond(r, "200")
    BY <1>1, RespondKept
<1>2. CASE CloseFailed(r)
    BY <1>2, RespondKept DEF CloseFailed
<1>3. CASE /\ q.op = "closeBucket"
           /\ Continue(r, [q EXCEPT !.pc = "nextArtifact", !.name = NoName, !.art = NoRow,
                              !.body = <<>>, !.tries = 0])
    <2>1. PICK g : g = [q EXCEPT !.pc = "nextArtifact", !.name = NoName, !.art = NoRow,
                            !.body = <<>>, !.tries = 0]
        OBVIOUS
    <2>2. /\ g.pc = "nextArtifact" /\ g.op = "closeBucket" /\ g.body = <<>>
          /\ g.listing = q.listing
        BY <1>3, <2>1 DEF Memory
    <2>3. RequestInv(g)
        BY <1>3, <2>2 DEF RequestInv, PointInv, CreateInv, AppendInv, UploadInv, CopyInv, Holding
    <2>4. QED
        BY <1>3, <2>1, <2>2, <2>3, ContinueKept DEF SameWork
<1>4. ASSUME NEW pc, Continue(r, [q EXCEPT !.pc = pc]),
             \/ pc = "markComplete" /\ q.art.state = "APPENDING"
             \/ pc = "setClosedWithoutData" /\ q.art.state = "WAITING_FOR_UPLOAD"
      PROVE  IInv'
    <2>1. PICK g : g = [q EXCEPT !.pc = pc]
        OBVIOUS
    <2>2. /\ g.pc = pc /\ g.op = q.op /\ g.name = q.name /\ g.art = q.art
          /\ g.body = <<>> /\ g.listing = q.listing
        BY <2>1 DEF Memory
    <2>3. PointInv(g) /\ CreateInv(g) /\ AppendInv(g) /\ UploadInv(g)
        BY <1>4, <2>2 DEF PointInv, CreateInv, AppendInv, UploadInv, Closes
    <2>4. CopyInv(g)
        BY <2>2 DEF CopyInv
    <2>5. RequestInv(g) /\ SameWork(req[r], g)
        BY <2>2, <2>3, <2>4 DEF RequestInv, SameWork, Closes
    <2>6. QED
        BY <1>4, <2>1, <2>5, ContinueKept
<1>5. QED
    BY <1>1, <1>2, <1>3, <1>4 DEF CloseArtifact, Closed

LEMMA BindCloseKept ==
    ASSUME IInv, TypeOK', NEW r \in Requests, BindClose(r)
    PROVE  IInv'
<1>1. /\ req[r] \in Request /\ req[r] \in Memory /\ RequestInv(req[r])
      /\ req[r].op = "close" /\ req[r].pc = "bind"
    BY DEF IInv, TypeOK, Request, BindClose, At
<1>2. UNCHANGED <<artifact, logchunk, s3>>
    BY DEF BindClose, tables
<1>3. ASSUME NEW code, Respond(r, code) PROVE IInv'
    BY <1>2, <1>3, RespondKept
<1>4. CASE CloseArtifact(r, Bound(r, "bind"))
    <2>1. PICK q : q = Bound(r, "bind")
        OBVIOUS
    <2>2. req[r].name \in Names /\ artifact[req[r].name] \in Row
        BY <1>1 DEF Request, IInv, TypeOK
    <2>3. q \in Memory
        BY <1>1, <2>1, <2>2 DEF Bound, Memory, ProgramPoints
    <2>4. /\ q.op = "close" /\ q.name = req[r].name /\ q.art = artifact[req[r].name]
          /\ q.body = req[r].body
        BY <1>1, <2>1 DEF Bound, Memory
    <2>5. q.body = <<>>
        BY <1>1, <2>4 DEF RequestInv, UploadInv
    <2>6. QED
        BY <1>1, <1>2, <1>4, <2>1, <2>2, <2>3, <2>4, <2>5, CloseArtifactKept DEF Closes
<1>5. QED
    BY <1>3, <1>4 DEF BindClose

LEMMA ListArtifactsKept ==
    ASSUME IInv, TypeOK', NEW r \in Requests, ListArtifacts(r)
    PROVE  IInv'
<1>1. PICK Q \in Memory : Q = req[r]
    BY DEF IInv, TypeOK, Request
<1>2. RequestInv(Q) /\ Q.pc = "listArtifacts"
    BY <1>1 DEF IInv, ListArtifacts, At
<1>3. Q.op = "closeBucket" /\ Q.body = <<>>
    BY <1>2 DEF RequestInv, PointInv, UploadInv
<1>4. UNCHANGED <<artifact, logchunk, s3>>
    BY DEF ListArtifacts, tables
<1>5. CASE CloseFailed(r)
    BY <1>4, <1>5, RespondKept DEF CloseFailed
<1>6. CASE Continue(r, [Q EXCEPT !.pc = "nextArtifact", !.listing = artifact])
    <2>1. PICK q : q = [Q EXCEPT !.pc = "nextArtifact", !.listing = artifact]
        OBVIOUS
    <2>2. q.pc = "nextArtifact" /\ q.op = "closeBucket" /\ q.body = <<>> /\ q.listing = artifact
        BY <1>3, <2>1 DEF Memory
    <2>3. RequestInv(q)
        BY <2>2 DEF RequestInv, PointInv, CreateInv, AppendInv, UploadInv, CopyInv, Holding
    <2>4. QED
        BY <1>1, <1>3, <1>4, <1>6, <2>1, <2>2, <2>3, ContinueKept DEF SameWork
<1>7. QED
    BY <1>1, <1>5, <1>6 DEF ListArtifacts

LEMMA NextArtifactKept ==
    ASSUME IInv, TypeOK', NEW r \in Requests, NextArtifact(r)
    PROVE  IInv'
<1>1. PICK Q \in Memory : Q = req[r]
    BY DEF IInv, TypeOK, Request
<1>2. RequestInv(Q) /\ Q.pc = "nextArtifact"
    BY <1>1 DEF IInv, NextArtifact, At
<1>3. Q.op = "closeBucket" /\ Q.body = <<>>
    BY <1>2 DEF RequestInv, PointInv, UploadInv
<1>4. UNCHANGED <<artifact, logchunk, s3>>
    BY DEF NextArtifact, tables
<1>5. CASE Answer(r, "200") /\ acked' = acked
    BY <1>4, <1>5, AnswerKept
<1>6. ASSUME NEW n \in Names, Q.listing[n] # NoRow,
             CloseArtifact(r, [Q EXCEPT !.name = n, !.art = Q.listing[n],
                                  !.listing = [Q.listing EXCEPT ![n] = NoRow]])
      PROVE  IInv'
    <2>1. PICK q : q = [Q EXCEPT !.name = n, !.art = Q.listing[n],
                           !.listing = [Q.listing EXCEPT ![n] = NoRow]]
        OBVIOUS
    <2>2. Q.listing \in [Names -> Row]
        BY DEF Memory
    <2>3. NoRow \in Row
        BY DEF NoRow, Row
    <2>4. q \in Memory
        BY <2>1, <2>2, <2>3 DEF Memory
    <2>5. /\ q.op = "closeBucket" /\ q.body = <<>> /\ q.name = n /\ q.art = Q.listing[n]
          /\ q.listing = [Q.listing EXCEPT ![n] = NoRow]
        BY <1>3, <2>1 DEF Memory
    <2>6. \A m \in Names : Q.listing[m] # NoRow => artifact[m] = Q.listing[m]
        BY <1>2, <1>3 DEF RequestInv, CopyInv
    <2>7. \A m \in Names : q.listing[m] # NoRow => artifact[m] = q.listing[m] /\ m # q.name
        BY <2>2, <2>5, <2>6
    <2>8. CloseArtifact(r, q)
        BY <1>6, <2>1
    <2>9. QED
        BY <1>1, <1>3, <1>4, <1>6, <2>4, <2>5, <2>6, <2>7, <2>8, CloseArtifactKept DEF Closes
<1>7. QED
    BY <1>1, <1>5, <1>6 DEF NextArtifact


-----------------------------------------------------------------------------
(* The end of a process, and requests that arrive.                         *)

LEMMA StopKept ==
    ASSUME IInv, TypeOK', NEW dying, Stop(dying)
    PROVE  IInv'
<1>1. \A q \in Requests : req'[q] = Idle \/ req'[q] = req[q]
    BY DEF Stop
<1>2. UNCHANGED <<artifact, logchunk, s3, acked>>
    BY DEF Stop, tables, history
<1>3. \A n \in Names : TableInv(n)'
    BY <1>2 DEF IInv, TableInv, Stored
<1>4. ASSUME NEW q \in Requests PROVE RequestInv(req[q])'
    <2>1. CASE req'[q] = Idle
        BY <2>1 DEF RequestInv, PointInv, CopyInv, CreateInv, AppendInv, UploadInv, Idle,
            Holding
    <2>2. CASE req'[q] = req[q]
        <3>1. RequestInv(req[q])
            BY DEF IInv
        <3>2. QED
            BY <1>2, <2>2, <3>1 DEF RequestInv, PointInv, CopyInv, CreateInv, AppendInv,
                UploadInv, Acknowledged, Agrees
    <2>3. QED
        BY <1>1, <2>1, <2>2
<1>5. Exclusive'
    <2> SUFFICES ASSUME NEW p \in Requests, NEW q \in Requests, p # q
                 PROVE  ~Conflict(req'[p], req'[q])
        BY DEF Exclusive
    <2>1. ~Conflict(req[p], req[q])
        BY DEF IInv, Exclusive
    <2>2. QED
        BY <1>1, <2>1 DEF Conflict, Idle
<1>6. QED
    BY <1>3, <1>4, <1>5 DEF IInv

\* A request that arrives satisfies the invariant if its offset is acknowledged.
LEMMA ArrivalInv ==
    ASSUME NEW q \in Arrivals,
           q.op = "post" => Acknowledged(q.name, q.load.offset)
    PROVE  RequestInv(q)
<1>1. q.pc = "bind" /\ q.body = <<>> /\ q.listing = NoListing
            /\ (q.op = "create" => q.art \in NewArtifact)
    <2>1. Idle \in Memory /\ Idle.op = "none" /\ Idle.body = <<>> /\ Idle.listing = NoListing
        BY IdleType DEF Request, Idle
    <2>2. ASSUME NEW op \in {"createBucket", "closeBucket"}, q = BucketRequest(op)
          PROVE  <1>1!:
        BY <2>1, <2>2 DEF BucketRequest, Memory
    <2>3. ASSUME NEW n \in Names, NEW row \in NewArtifact, q = CreateRequest(n, row)
          PROVE  <1>1!:
        BY <2>1, <2>3 DEF CreateRequest, Memory
    <2>4. ASSUME NEW n \in Names, NEW load \in Loads, q = PostRequest(n, load)
          PROVE  <1>1!:
        BY <2>1, <2>4 DEF PostRequest, Memory
    <2>5. ASSUME NEW n \in Names, q = CloseRequest(n)
          PROVE  <1>1!:
        BY <2>1, <2>5 DEF CloseRequest, Memory
    <2>6. QED
        BY <2>2, <2>3, <2>4, <2>5 DEF Arrivals, ArrivalsFor
<1>2. QED
    BY <1>1 DEF RequestInv, PointInv, CopyInv, CreateInv, AppendInv, UploadInv,
        NoListing, Holding

LEMMA OrderlyReceiveKept ==
    ASSUME IInv, TypeOK', NEW r \in Requests, NEW q \in Arrivals, OrderlyReceive(r, q)
    PROVE  IInv'
<1>1. req' = [req EXCEPT ![r] = q] /\ UNCHANGED <<artifact, logchunk, s3, acked>>
    BY DEF OrderlyReceive, Receive, tables, history
<1>2. req'[r] = q /\ \A p \in Requests \ {r} : req'[p] = req[p]
    BY <1>1 DEF IInv, TypeOK
<1>3. RequestInv(q)
    BY ArrivalInv DEF OrderlyReceive
<1>4. \A n \in Names : TableInv(n)'
    BY <1>1 DEF IInv, TableInv, Stored
<1>5. ASSUME NEW p \in Requests PROVE RequestInv(req[p])'
    <2>1. req'[p] = req[p] \/ req'[p] = q
        BY <1>2
    <2>2. RequestInv(req[p])
        BY DEF IInv
    <2>3. RequestInv(req'[p])
        BY <1>3, <2>1, <2>2
    <2>4. QED
        BY <1>1, <2>3 DEF RequestInv, PointInv, CopyInv, CreateInv, AppendInv,
            UploadInv, Acknowledged, Agrees
<1>6. Exclusive'
    <2> SUFFICES ASSUME NEW a \in Requests, NEW b \in Requests, a # b
                 PROVE  ~Conflict(req'[a], req'[b])
        BY DEF Exclusive
    <2>1. \A p \in Requests : ~Conflict(q, req[p]) /\ ~Conflict(req[p], q)
        BY DEF OrderlyReceive, Conflict
    <2>2. ~Conflict(req[a], req[b])
        BY DEF IInv, Exclusive
    <2>3. QED
        BY <1>2, <2>1, <2>2
<1>7. QED
    BY <1>4, <1>5, <1>6 DEF IInv

LEMMA StepInv ==
    ASSUME IInv, TypeOK', NEW r \in Requests, Step(r)
    PROVE  IInv'
<1>1. CASE ReaderPanics(r)
    BY <1>1, StopKept DEF ReaderPanics
<1>2. QED
    BY <1>1, BucketSteps, InsertArtifactKept, LookupArtifactKept, BindPostKept,
       GrowArtifactKept, InsertLogChunkKept, LastLogChunkKept, SetUploadingKept,
       ReadBodyKept, ReadChunksKept, PutObjectKept, SetUploadedKept, SetErrorKept,
       DeleteLogChunksKept, BindCloseKept, MarkCompleteKept, SetClosedWithoutDataKept,
       ListArtifactsKept, NextArtifactKept
    DEF Step

-----------------------------------------------------------------------------
(* The theorems.                                                           *)

\* Orderly use is a way to use the server.
LEMMA OrderlyIsNext == OrderlyNext => Next
BY DEF OrderlyNext, Next, OrderlyReceive

LEMMA OrderlyType == OrderlySpec => []TypeOK
<1>1. Init => TypeOK
    BY InitType
<1>2. TypeOK /\ [OrderlyNext]_vars => TypeOK'
    BY OrderlyIsNext, NextType
<1>3. QED
    BY <1>1, <1>2, PTL DEF OrderlySpec

LEMMA InitInv == Init => IInv
<1> SUFFICES ASSUME Init PROVE IInv
    OBVIOUS
<1>1. TypeOK
    BY InitType
<1>2. \A r \in Requests : req[r] = Idle
    BY DEF Init
<1>3. Exclusive
    BY <1>2 DEF Exclusive, Conflict, Idle
<1>4. \A n \in Names : TableInv(n)
    <2> SUFFICES ASSUME NEW n \in Names PROVE TableInv(n)
        OBVIOUS
    <2>1. artifact[n] = NoRow /\ logchunk[n] = <<>> /\ acked[n] = {}
        BY DEF Init
    <2>2. Tiles(<<>>, 0)
        BY DEF Tiles
    <2>3. QED
        BY <2>1, <2>2 DEF TableInv, NoRow
<1>5. \A r \in Requests : RequestInv(req[r])
    BY <1>2, IdleInv
<1>6. QED
    BY <1>1, <1>3, <1>4, <1>5 DEF IInv

LEMMA NextInv == IInv /\ TypeOK' /\ [OrderlyNext]_vars => IInv'
<1> SUFFICES ASSUME IInv, TypeOK', [OrderlyNext]_vars PROVE IInv'
    OBVIOUS
<1>1. CASE UNCHANGED vars
    <2>1. Exclusive' /\ \A n \in Names : TableInv(n)'
        BY <1>1 DEF vars, IInv, Exclusive, TableInv, Stored
    <2>2. ASSUME NEW r \in Requests PROVE RequestInv(req[r])'
        <3>1. RequestInv(req[r]) /\ req'[r] = req[r]
            BY <1>1 DEF vars, IInv
        <3>2. PointInv(req[r])' /\ CopyInv(req[r])' /\ CreateInv(req[r])'
            BY <1>1, <3>1 DEF vars, RequestInv, PointInv, CopyInv, CreateInv
        <3>3. AppendInv(req[r])' /\ UploadInv(req[r])'
            BY <1>1, <3>1 DEF vars, RequestInv, AppendInv, UploadInv, Acknowledged, Agrees
        <3>4. QED
            BY <3>2, <3>3 DEF RequestInv
    <2>3. QED
        BY <2>1, <2>2 DEF IInv
<1>2. CASE Crash
    BY <1>2, StopKept DEF Crash
<1>3. ASSUME NEW r \in Requests, NEW q \in Arrivals, OrderlyReceive(r, q)
      PROVE  IInv'
    BY <1>3, OrderlyReceiveKept
<1>4. ASSUME NEW r \in Requests, Step(r) PROVE IInv'
    BY <1>4, StepInv
<1>5. QED
    BY <1>1, <1>2, <1>3, <1>4 DEF OrderlyNext

\* The strengthened invariant holds in every state of an orderly history.
THEOREM Inductive == OrderlySpec => []IInv
BY InitInv, NextInv, OrderlyType, PTL DEF OrderlySpec

\* Whatever fails, and whenever a process dies, a payload that PostArtifact has
\* acknowledged is in a logchunk row or in the S3 object (PostArtifact,
\* MergeLogChunks).
THEOREM AcknowledgedIsDurable == OrderlySpec => []AckedDurable
<1>1. IInv => AckedDurable
    BY DEF IInv, TableInv, AckedDurable
<1>2. QED
    BY <1>1, Inductive, PTL

\* The rows of an artifact cover it without hole or overlap, so logChunkReader
\* finds what it takes for granted (AppendLogChunk).
THEOREM RowsTile == OrderlySpec => []ChunksTile
<1>1. IInv => ChunksTile
    BY DEF IInv, TableInv, ChunksTile
<1>2. QED
    BY <1>1, Inductive, PTL

\* The object of an UPLOADED artifact has the size its row claims.
THEOREM UploadIsWhole == OrderlySpec => []UploadedWhole
<1>1. IInv => UploadedWhole
    BY DEF IInv, TableInv, UploadedWhole
<1>2. QED
    BY <1>1, Inductive, PTL

=============================================================================
