------------------------- MODULE ArtifactStoreProofs -------------------------
(***************************************************************************)
(* Theorems about ArtifactStore, for any number of requests, names and     *)
(* contents, any bounds and any set of faults.                             *)
(***************************************************************************)
EXTENDS ArtifactStore, TLAPS

-----------------------------------------------------------------------------
(* Type correctness.                                                       *)

\* The two halves of TypeOK: what outlives a process, and the rest.
TablesOK ==
    /\ bucket \in BucketState
    /\ artifact \in [Names -> Row]
    /\ logchunk \in [Names -> Seq(Chunk)]
    /\ s3 \in [Names -> Seq(Byte)]

RequestsOK ==
    /\ req \in [Requests -> Request]
    /\ reply \in [Requests -> Replies]
    /\ acked \in [Names -> SUBSET Chunk]
    /\ settled \in BOOLEAN

\* The memory of a free slot is well typed.
LEMMA IdleType == Idle \in Request
BY DEF Idle, Request, Memory, Ops, ProgramPoints, NoRow, Row, NoLoad, Chunk, Byte,
       NoListing

\* Requests arrive well typed.
LEMMA NewArtifactType == NewArtifact \subseteq Row
BY SizesAssumption DEF NewArtifact, Row, ArtifactState

LEMMA LoadsType == Loads \subseteq Chunk
<1> SUFFICES ASSUME NEW load \in Loads PROVE load \in Chunk
    OBVIOUS
<1>1. load \in [offset : 0 .. MaxSize, size : Sizes, data : Data] /\ load.size >= 0
    BY DEF Loads
<1>2. load.size \in Sizes /\ load.offset \in 0 .. MaxSize /\ load.data \in Data
    BY <1>1
<1>3. load.size \in Int
    BY <1>2, SizesAssumption
<1>4. load.size \in Nat /\ load.offset \in Nat
    BY <1>1, <1>2, <1>3, SizesAssumption
<1>5. QED
    BY <1>1, <1>2, <1>4 DEF Chunk, Byte

LEMMA ArrivalsType ==
    ASSUME NEW q \in Arrivals
    PROVE  q \in Request
<1>1. Idle \in Memory
    BY IdleType DEF Request
<1>2. ASSUME NEW op \in {"createBucket", "closeBucket"}, q = BucketRequest(op)
      PROVE  q \in Request
    BY <1>1, <1>2 DEF BucketRequest, Idle, Request, Memory, Ops, ProgramPoints
<1>3. ASSUME NEW n \in Names, q \in ArrivalsFor(n)
      PROVE  q \in Request
    <2>1. CASE \E row \in NewArtifact : q = CreateRequest(n, row)
        <3>1. PICK row \in Row : q = CreateRequest(n, row)
            BY <2>1, NewArtifactType
        <3>2. q \in Memory /\ q.op = "create"
            BY <1>1, <1>3, <3>1 DEF CreateRequest, Memory, Ops, ProgramPoints
        <3>3. QED
            BY <3>2 DEF Request
    <2>2. CASE \E load \in Loads : q = PostRequest(n, load)
        <3>1. PICK load \in Chunk : q = PostRequest(n, load)
            BY <2>2, LoadsType
        <3>2. q \in Memory /\ q.op = "post" /\ q.name = n
            BY <1>1, <1>3, <3>1 DEF PostRequest, Memory, Ops, ProgramPoints
        <3>3. QED
            BY <1>3, <3>2 DEF Request
    <2>3. CASE q = CloseRequest(n)
        BY <1>1, <2>3 DEF CloseRequest, Idle, Request, Memory, Ops, ProgramPoints
    <2>4. QED
        BY <1>3, <2>1, <2>2, <2>3 DEF ArrivalsFor
<1>4. QED
    BY <1>2, <1>3 DEF Arrivals

\* A slot that gets a well typed request keeps req well typed.
LEMMA ContinueType ==
    ASSUME TypeOK, NEW r \in Requests, NEW q \in Request, Continue(r, q)
    PROVE  RequestsOK'
BY DEF TypeOK, Continue, history, RequestsOK

\* So does a slot that is freed with an answer.
LEMMA RespondType ==
    ASSUME TypeOK, NEW r \in Requests, NEW code \in Replies, Respond(r, code)
    PROVE  RequestsOK'
BY IdleType DEF TypeOK, Respond, Answer, history, RequestsOK

\* And one that acknowledges its payload.
LEMMA AcknowledgeType ==
    ASSUME TypeOK, NEW r \in Requests, Acknowledge(r)
    PROVE  RequestsOK'
<1>1. req' = [req EXCEPT ![r] = Idle] /\ "200" \in Replies
    BY DEF Acknowledge, Answer, Replies
<1>2. reply' = [reply EXCEPT ![r] = "200"]
    BY DEF Acknowledge, Answer
<1>3. req[r] \in Memory
    BY DEF TypeOK, Request
<1>4. req[r].load \in Chunk
    BY <1>3 DEF Memory
<1>5. QED
    BY <1>1, <1>2, <1>4, IdleType DEF TypeOK, Acknowledge, RequestsOK

\* The goroutine's memory at a new program point.
LEMMA GotoType ==
    ASSUME TypeOK, NEW r \in Requests, NEW pc \in ProgramPoints
    PROVE  [req[r] EXCEPT !.pc = pc] \in Request
<1>1. PICK q \in Request : q = req[r]
    BY DEF TypeOK
<1>2. q \in Memory /\ (q.op \in {"post", "close"} => q.name \in Names)
    BY DEF Request
<1>3. [q EXCEPT !.pc = pc] \in Memory
    BY <1>2 DEF Memory
<1>4. QED
    BY <1>1, <1>2, <1>3 DEF Request, Memory

\* The same with a new copy of the row.
LEMMA GotoWithType ==
    ASSUME TypeOK, NEW r \in Requests, NEW pc \in ProgramPoints, NEW row \in Row
    PROVE  [req[r] EXCEPT !.pc = pc, !.art = row] \in Request
<1>1. PICK q \in Request : q = req[r]
    BY DEF TypeOK
<1>2. q \in Memory /\ (q.op \in {"post", "close"} => q.name \in Names)
    BY DEF Request
<1>3. [q EXCEPT !.pc = pc, !.art = row] \in Memory
    BY <1>2 DEF Memory
<1>4. QED
    BY <1>1, <1>2, <1>3 DEF Request, Memory

LEMMA UpdateArtifactType ==
    ASSUME TypeOK, NEW n, NEW row \in Row, NEW outcome, UpdateArtifact(n, row, outcome)
    PROVE  artifact' \in [Names -> Row]
BY DEF TypeOK, UpdateArtifact

LEMMA ClosedType ==
    ASSUME TypeOK, NEW r \in Requests, NEW q \in Request, Closed(r, q)
    PROVE  RequestsOK'
<1>1. CASE Respond(r, "200")
    BY <1>1, RespondType DEF Replies
<1>2. CASE /\ q.op = "closeBucket"
           /\ Continue(r, [q EXCEPT !.pc = "nextArtifact", !.name = NoName,
                               !.art = NoRow, !.body = <<>>, !.tries = 0])
    <2>1. [q EXCEPT !.pc = "nextArtifact", !.name = NoName,
               !.art = NoRow, !.body = <<>>, !.tries = 0] \in Request
        <3>1. "nextArtifact" \in ProgramPoints /\ NoRow \in Row /\ <<>> \in Seq(Byte)
            BY DEF ProgramPoints, NoRow, Row
        <3>2. q \in Memory /\ q.op = "closeBucket"
            BY <1>2 DEF Request
        <3>3. [q EXCEPT !.pc = "nextArtifact", !.name = NoName,
                   !.art = NoRow, !.body = <<>>, !.tries = 0] \in Memory
            BY <3>1, <3>2 DEF Memory
        <3>4. QED
            BY <3>2, <3>3 DEF Request, Memory
    <2>2. QED
        BY <1>2, <2>1, ContinueType
<1>3. QED
    BY <1>1, <1>2 DEF Closed

LEMMA CloseArtifactType ==
    ASSUME TypeOK, NEW r \in Requests, NEW q \in Request, CloseArtifact(r, q)
    PROVE  RequestsOK'
<1>1. CASE Closed(r, q)
    BY <1>1, ClosedType
<1>2. CASE CloseFailed(r)
    BY <1>2, RespondType DEF CloseFailed, Replies
<1>3. ASSUME NEW pc \in {"markComplete", "setClosedWithoutData"},
             Continue(r, [q EXCEPT !.pc = pc])
      PROVE  RequestsOK'
    <2>1. [q EXCEPT !.pc = pc] \in Request
        BY DEF Request, Memory, ProgramPoints
    <2>2. QED
        BY <1>3, <2>1, ContinueType
<1>4. QED
    BY <1>1, <1>2, <1>3 DEF CloseArtifact

LEMMA StopType ==
    ASSUME TypeOK, NEW dying, Stop(dying)
    PROVE  RequestsOK'
BY IdleType DEF TypeOK, Stop, history, RequestsOK, Replies

\* A body of equal bytes is a sequence, whatever its length.
LEMMA UniformType ==
    ASSUME NEW size \in Int, NEW b \in Byte
    PROVE  [i \in 1 .. size |-> b] \in Seq(Byte)
<1>1. CASE size \in Nat
    BY <1>1
<1>2. CASE size \notin Nat
    <2>1. 1 .. size = 1 .. 0
        BY <1>2
    <2>2. QED
        BY <2>1
<1>3. QED
    BY <1>1, <1>2

\* Writing one entry of the logchunk table, if it is an entry at all.
LEMMA InsertRowType ==
    ASSUME NEW f \in [Names -> Seq(Chunk)], NEW n, NEW rows,
           n \in Names => rows \in Seq(Chunk)
    PROVE  [f EXCEPT ![n] = rows] \in [Names -> Seq(Chunk)]
OBVIOUS

\* One step of a request, action by action.
LEMMA StepType ==
    ASSUME TypeOK, NEW r \in Requests, Step(r)
    PROVE  TypeOK'
<1> USE DEF RequestsOK, TablesOK
<1>0. TablesOK /\ RequestsOK /\ req[r] \in Memory /\ req[r] \in Request
    BY DEF TypeOK, Request
<1>1. ASSUME UNCHANGED tables, RequestsOK'
      PROVE  TypeOK'
    BY <1>0, <1>1 DEF tables, TypeOK
<1>2. ASSUME NEW code \in Replies, Respond(r, code)
      PROVE  RequestsOK'
    BY <1>2, RespondType
<1>3. ASSUME NEW pc \in ProgramPoints, Continue(r, [req[r] EXCEPT !.pc = pc])
      PROVE  RequestsOK'
    BY <1>3, GotoType, ContinueType
<1>4. ASSUME NEW pc \in ProgramPoints, NEW row \in Row,
             Continue(r, [req[r] EXCEPT !.pc = pc, !.art = row])
      PROVE  RequestsOK'
    BY <1>4, GotoWithType, ContinueType
<1>5. ASSUME NEW pc \in ProgramPoints, req[r].op \in {"post", "close"},
             Continue(r, Bound(r, pc))
      PROVE  RequestsOK'
    <2>1. artifact[req[r].name] \in Row
        BY <1>0, <1>5 DEF Request
    <2>2. QED
        BY <1>4, <1>5, <2>1 DEF Bound
<1>6. ASSUME UploadFailed(r)
      PROVE  RequestsOK'
    BY <1>2, <1>3, <1>6 DEF UploadFailed, CloseFailed, Replies, ProgramPoints
<1>7. ASSUME AttemptFailed(r)
      PROVE  RequestsOK'
    <2>1. CASE UploadFailed(r)
        BY <1>6, <2>1
    <2>2. ASSUME NEW pc \in ProgramPoints, NEW body \in Seq(Byte),
                 Continue(r, [req[r] EXCEPT !.tries = @ + 1, !.pc = pc, !.body = body])
          PROVE  RequestsOK'
        <3>1. req[r].tries + 1 \in Nat
            BY <1>0 DEF Memory
        <3>2. ASSUME NEW t \in Nat
              PROVE  [req[r] EXCEPT !.tries = t, !.pc = pc, !.body = body] \in Request
            BY <1>0 DEF Request, Memory
        <3>3. QED
            BY <2>2, <3>1, <3>2, ContinueType
    <2>3. <<>> \in Seq(Byte) /\ req[r].body \in Seq(Byte)
        BY <1>0 DEF Memory
    <2>4. QED
        BY <1>7, <2>1, <2>2, <2>3 DEF AttemptFailed, ProgramPoints
<1>10. CASE BindCreateBucket(r)
    BY <1>1, <1>2, <1>3, <1>10 DEF BindCreateBucket, Replies, ProgramPoints
<1>11. CASE InsertBucket(r)
    BY <1>0, <1>2, <1>11 DEF InsertBucket, Replies, BucketState, TypeOK
<1>12. CASE BindCreate(r)
    BY <1>1, <1>2, <1>3, <1>12 DEF BindCreate, Replies, ProgramPoints
<1>13. CASE InsertArtifact(r)
    BY <1>0, <1>2, <1>3, <1>13 DEF InsertArtifact, Memory, Replies, ProgramPoints, TypeOK
<1>14. CASE LookupArtifact(r)
    <2>1. req[r].tries + 1 \in Nat
        BY <1>0 DEF Memory
    <2>2. ASSUME NEW n \in Names, NEW t \in Nat
          PROVE  [req[r] EXCEPT !.pc = "insertArtifact", !.name = n, !.tries = t]
                    \in Request
        BY <1>0 DEF Request, Memory, ProgramPoints
    <2>3. QED
        BY <1>1, <1>2, <1>14, <2>1, <2>2, ContinueType DEF LookupArtifact, Replies
<1>15. CASE BindPost(r)
    <2>1. CASE BindAppend(r)
        BY <1>1, <1>2, <1>5, <1>15, <2>1 DEF BindPost, BindAppend, Replies, ProgramPoints
    <2>2. ASSUME Continue(r, [Bound(r, "setUploading") EXCEPT !.load.offset = 0])
          PROVE  RequestsOK'
        <3>1. [req[r].load EXCEPT !.offset = 0] \in Chunk
            BY <1>0 DEF Memory, Chunk
        <3>2. artifact[req[r].name] \in Row
            BY <1>0, <1>15 DEF Request, BindPost
        <3>3. [Bound(r, "setUploading") EXCEPT !.load.offset = 0] =
                [req[r] EXCEPT !.pc = "setUploading", !.art = artifact[req[r].name],
                    !.load = [req[r].load EXCEPT !.offset = 0]]
            <4>1. PICK Q \in Memory : Q = req[r]
                BY <1>0
            <4>2. PICK row : row = artifact[req[r].name]
                OBVIOUS
            <4>3. [[Q EXCEPT !.pc = "setUploading", !.art = row] EXCEPT !.load.offset = 0] =
                    [Q EXCEPT !.pc = "setUploading", !.art = row,
                        !.load = [Q.load EXCEPT !.offset = 0]]
                BY DEF Memory
            <4>4. QED
                BY <4>1, <4>2, <4>3 DEF Bound
        <3>4. [Bound(r, "setUploading") EXCEPT !.load.offset = 0] \in Request
            BY <1>0, <3>1, <3>2, <3>3 DEF Request, Memory, ProgramPoints
        <3>5. QED
            BY <2>2, <3>4, ContinueType
    <2>3. QED
        BY <1>1, <1>2, <1>15, <2>1, <2>2 DEF BindPost, Replies
<1>16. CASE GrowArtifact(r)
    <2>1. [req[r].art EXCEPT !.size = req[r].load.offset + req[r].load.size] \in Row
        <3>1. req[r].load.offset + req[r].load.size \in Int
            BY <1>0 DEF Memory, Chunk
        <3>2. req[r].art \in Row
            BY <1>0 DEF Memory
        <3>3. QED
            BY <3>1, <3>2 DEF Row
    <2>2. artifact' \in [Names -> Row]
        BY <1>16, <2>1, UpdateArtifactType DEF GrowArtifact
    <2>3. RequestsOK'
        BY <1>2, <1>4, <1>16, <2>1 DEF GrowArtifact, Replies, ProgramPoints
    <2>4. QED
        BY <1>0, <1>16, <2>2, <2>3 DEF GrowArtifact, TypeOK
<1>17. CASE InsertLogChunk(r)
    <2>1. logchunk' \in [Names -> Seq(Chunk)]
        <3>1. ASSUME req[r].name \in Names
              PROVE  Append(logchunk[req[r].name], req[r].load) \in Seq(Chunk)
            BY <1>0, <3>1 DEF Memory
        <3>2. QED
            BY <1>0, <1>17, <3>1, InsertRowType DEF InsertLogChunk
    <2>2. RequestsOK'
        BY <1>2, <1>17, AcknowledgeType DEF InsertLogChunk, Replies
    <2>3. QED
        BY <1>0, <1>17, <2>1, <2>2 DEF InsertLogChunk, TypeOK
<1>18. CASE LastLogChunk(r)
    BY <1>1, <1>2, <1>18, AcknowledgeType DEF LastLogChunk, Replies
<1>19. CASE SetUploading(r)
    <2>1. [req[r].art EXCEPT !.state = "UPLOADING"] \in Row
        BY <1>0 DEF Memory, Row, ArtifactState
    <2>2. artifact' \in [Names -> Row]
        BY <1>19, <2>1, UpdateArtifactType DEF SetUploading
    <2>3. RequestsOK'
        BY <1>2, <1>4, <1>19, <2>1 DEF SetUploading, CloseFailed, Replies, ProgramPoints
    <2>4. QED
        BY <1>0, <1>19, <2>2, <2>3 DEF SetUploading, TypeOK
<1>20. CASE ReadBody(r)
    <2>1. [i \in 1 .. req[r].art.size |-> req[r].load.data] \in Seq(Byte)
        <3>1. req[r].art.size \in Int /\ req[r].load.data \in Byte
            BY <1>0 DEF Memory, Row, Chunk
        <3>2. QED
            BY <3>1, UniformType
    <2>2. ASSUME NEW body \in Seq(Byte)
          PROVE  [req[r] EXCEPT !.pc = "putObject", !.body = body] \in Request
        BY <1>0 DEF Request, Memory, ProgramPoints
    <2>3. QED
        BY <1>1, <1>6, <1>20, <2>1, <2>2, ContinueType DEF ReadBody
<1>21. CASE ReadChunks(r)
    <2>1. ASSUME NEW b \in Byte, NEW pc \in ProgramPoints
          PROVE  [req[r] EXCEPT !.body = Append(@, b), !.pc = pc] \in Request
        <3>1. Append(req[r].body, b) \in Seq(Byte)
            BY <1>0 DEF Memory
        <3>2. QED
            BY <1>0, <3>1 DEF Request, Memory
    <2>2. QED
        BY <1>1, <1>7, <1>21, <2>1, ContinueType DEF ReadChunks, BytesAt, ProgramPoints
<1>22. CASE PutObject(r)
    <2>1. s3' \in [Names -> Seq(Byte)]
        BY <1>0, <1>22 DEF PutObject, Memory
    <2>2. RequestsOK'
        BY <1>3, <1>7, <1>22 DEF PutObject, ProgramPoints
    <2>3. QED
        BY <1>0, <1>22, <2>1, <2>2 DEF PutObject, TypeOK
<1>23. CASE SetUploaded(r)
    <2>1. [req[r].art EXCEPT !.state = "UPLOADED"] \in Row
        BY <1>0 DEF Memory, Row, ArtifactState
    <2>2. artifact' \in [Names -> Row]
        BY <1>23, <2>1, UpdateArtifactType DEF SetUploaded
    <2>3. RequestsOK'
        BY <1>2, <1>4, <1>23, <2>1, AcknowledgeType
        DEF SetUploaded, CloseFailed, Replies, ProgramPoints
    <2>4. QED
        BY <1>0, <1>23, <2>2, <2>3 DEF SetUploaded, TypeOK
<1>24. CASE SetError(r)
    <2>1. [req[r].art EXCEPT !.state = "ERROR"] \in Row
        BY <1>0 DEF Memory, Row, ArtifactState
    <2>2. artifact' \in [Names -> Row]
        BY <1>24, <2>1, UpdateArtifactType DEF SetError
    <2>3. QED
        BY <1>0, <1>2, <1>24, <2>2 DEF SetError, Replies, TypeOK
<1>25. CASE DeleteLogChunks(r)
    <2>1. logchunk' \in [Names -> Seq(Chunk)]
        <3>1. <<>> \in Seq(Chunk)
            OBVIOUS
        <3>2. QED
            BY <1>0, <1>25, <3>1 DEF DeleteLogChunks
    <2>2. RequestsOK'
        BY <1>0, <1>2, <1>25, ClosedType DEF DeleteLogChunks, Replies
    <2>3. QED
        BY <1>0, <1>25, <2>1, <2>2 DEF DeleteLogChunks, TypeOK
<1>26. CASE BindClose(r)
    <2>1. req[r].op = "close" => Bound(r, "bind") \in Request
        BY <1>0, GotoWithType DEF Bound, Request, ProgramPoints
    <2>2. QED
        BY <1>1, <1>2, <1>26, <2>1, CloseArtifactType DEF BindClose, Replies
<1>27. CASE MarkComplete(r)
    <2>1. [req[r].art EXCEPT !.state = "APPEND_COMPLETE"] \in Row
        BY <1>0 DEF Memory, Row, ArtifactState
    <2>2. artifact' \in [Names -> Row]
        BY <1>27, <2>1, UpdateArtifactType DEF MarkComplete
    <2>3. RequestsOK'
        BY <1>2, <1>4, <1>27, <2>1 DEF MarkComplete, CloseFailed, Replies, ProgramPoints
    <2>4. QED
        BY <1>0, <1>27, <2>2, <2>3 DEF MarkComplete, TypeOK
<1>28. CASE SetClosedWithoutData(r)
    <2>1. [req[r].art EXCEPT !.state = "CLOSED_WITHOUT_DATA"] \in Row
        BY <1>0 DEF Memory, Row, ArtifactState
    <2>2. artifact' \in [Names -> Row]
        BY <1>28, <2>1, UpdateArtifactType DEF SetClosedWithoutData
    <2>3. RequestsOK'
        BY <1>0, <1>2, <1>28, ClosedType DEF SetClosedWithoutData, CloseFailed, Replies
    <2>4. QED
        BY <1>0, <1>28, <2>2, <2>3 DEF SetClosedWithoutData, TypeOK
<1>29. CASE BindCloseBucket(r)
    BY <1>1, <1>2, <1>3, <1>29 DEF BindCloseBucket, Replies, ProgramPoints
<1>30. CASE UpdateBucket(r)
    BY <1>0, <1>2, <1>3, <1>30
    DEF UpdateBucket, CloseFailed, Replies, ProgramPoints, BucketState, TypeOK
<1>31. CASE ListArtifacts(r)
    <2>1. [req[r] EXCEPT !.pc = "nextArtifact", !.listing = artifact] \in Request
        BY <1>0 DEF Request, Memory, ProgramPoints
    <2>2. QED
        BY <1>1, <1>2, <1>31, <2>1, ContinueType DEF ListArtifacts, CloseFailed, Replies
<1>32. CASE NextArtifact(r)
    <2>1. ASSUME NEW n \in Names
          PROVE  [req[r] EXCEPT !.name = n, !.art = req[r].listing[n],
                      !.listing = [@ EXCEPT ![n] = NoRow]] \in Request
        <3>1. req[r].listing \in [Names -> Row] /\ NoRow \in Row
            BY <1>0 DEF Memory, NoRow, Row
        <3>2. req[r].listing[n] \in Row
            BY <3>1
        <3>3. [req[r].listing EXCEPT ![n] = NoRow] \in [Names -> Row]
            BY <3>1
        <3>4. QED
            BY <1>0, <3>2, <3>3 DEF Request, Memory
    <2>2. ASSUME Answer(r, "200"), settled' = TRUE, UNCHANGED acked
          PROVE  RequestsOK'
        BY <1>0, <2>2, IdleType DEF Answer, Replies
    <2>3. QED
        BY <1>1, <1>32, <2>1, <2>2, CloseArtifactType DEF NextArtifact
<1>33. CASE ReaderPanics(r)
    BY <1>1, <1>33, StopType DEF ReaderPanics, Stop
<1>40. QED
    BY <1>10, <1>11, <1>12, <1>13, <1>14, <1>15, <1>16, <1>17, <1>18, <1>19, <1>20,
       <1>21, <1>22, <1>23, <1>24, <1>25, <1>26, <1>27, <1>28, <1>29, <1>30, <1>31,
       <1>32, <1>33 DEF Step

\* A step of the whole system, in any order of requests.
LEMMA NextType ==
    ASSUME TypeOK, [Next]_vars
    PROVE  TypeOK'
<1>1. ASSUME NEW r \in Requests, NEW q \in Arrivals, Receive(r, q)
      PROVE  TypeOK'
    BY <1>1, ArrivalsType DEF Receive, TypeOK, tables, history, Replies
<1>2. ASSUME NEW r \in Requests, Step(r)
      PROVE  TypeOK'
    BY <1>2, StepType
<1>3. CASE Crash
    BY <1>3, StopType DEF Crash, Stop, InFlight, tables, TypeOK, RequestsOK
<1>4. CASE UNCHANGED vars
    BY <1>4 DEF vars, TypeOK
<1>5. QED
    BY <1>1, <1>2, <1>3, <1>4 DEF Next

LEMMA InitType == Init => TypeOK
<1> SUFFICES ASSUME Init PROVE TypeOK
    OBVIOUS
<1>1. NoRow \in Row /\ <<>> \in Seq(Chunk) /\ <<>> \in Seq(Byte)
    BY DEF NoRow, Row
<1>2. TablesOK
    BY <1>1 DEF Init, TablesOK, BucketState
<1>3. RequestsOK
    BY IdleType DEF Init, RequestsOK, Replies
<1>4. QED
    BY <1>2, <1>3 DEF TypeOK, TablesOK, RequestsOK

\* In every reachable state, in any order of requests, the tables and the
\* memory of every goroutine are well typed.
THEOREM TypeCorrect == Spec => []TypeOK
BY InitType, NextType, PTL DEF Spec

-----------------------------------------------------------------------------
(* Objects, with requests in any order.                                    *)

\* An artifact that is UPLOADED has an object; an upload that is waited for
\* announced at least a byte (or less than none, which no payload matches).
RowInv(n) ==
    /\ artifact[n].state = "UPLOADED" => s3[n] # <<>>
    /\ artifact[n].state = "WAITING_FOR_UPLOAD" => artifact[n].size # 0

\* On its way to S3 a request holds bytes, and behind it there is an object:
\* what nobody can take back, whatever the copy of the row has become.
ShipInv(q) ==
    /\ q.pc = "putObject" => q.body # <<>>
    /\ q.pc \in {"setUploaded", "deleteLogChunks"} /\ q.name \in Names => s3[q.name] # <<>>
    /\ q.pc = "readBody" => q.op = "post"
    /\ q.pc \in {"setUploading", "readBody"} /\ q.op = "post" => q.art.size > 0
    /\ q.pc \in {"markComplete", "readChunks"} => q.op # "post"
    /\ q.pc \in {"updateBucket", "listArtifacts", "nextArtifact"} => q.op = "closeBucket"
    /\ q.pc = "growArtifact" => q.art.state = "APPENDING"
    /\ q.op = "create" =>
        q.art \in NewArtifact /\ q.pc \in {"bind", "insertArtifact", "lookupArtifact"}
    /\ q.pc \in {"insertArtifact", "lookupArtifact"} =>
        q.op = "create" /\ (q.art.state = "WAITING_FOR_UPLOAD" => q.art.size # 0)

ObjectInv ==
    /\ \A n \in Names : RowInv(n)
    /\ \A r \in Requests : ShipInv(req[r])

\* No object is ever lost, and the rows that change keep the invariant.
NoLoss == \A n \in Names : s3[n] # <<>> => s3'[n] # <<>>
RowsShip == \A n \in Names : artifact'[n] # artifact[n] => RowInv(n)'

LEMMA IdleShips == ShipInv(Idle) /\ ShipInv(Idle)'
BY DEF ShipInv, Idle

\* A step of one request leaves what holds of the others alone.
LEMMA OneShips ==
    ASSUME TypeOK, ObjectInv, NEW r \in Requests, NEW q, req' = [req EXCEPT ![r] = q],
           ShipInv(q)', NoLoss, RowsShip
    PROVE  ObjectInv'
<1>1. ASSUME NEW n \in Names PROVE RowInv(n)'
    <2>1. RowInv(n) /\ (s3[n] # <<>> => s3'[n] # <<>>)
        BY DEF ObjectInv, NoLoss
    <2>2. CASE artifact'[n] = artifact[n]
        BY <2>1, <2>2 DEF RowInv
    <2>3. QED
        BY <2>2 DEF RowsShip
<1>2. ASSUME NEW p \in Requests PROVE ShipInv(req[p])'
    <2>1. CASE p = r
        BY <2>1 DEF TypeOK
    <2>2. CASE p # r
        <3>1. req'[p] = req[p]
            BY <2>2 DEF TypeOK
        <3>2. ShipInv(req[p])
            BY DEF ObjectInv
        <3>3. QED
            BY <3>1, <3>2 DEF ShipInv, NoLoss
    <2>3. QED
        BY <2>1, <2>2
<1>3. QED
    BY <1>1, <1>2 DEF ObjectInv

LEMMA AnswerShips ==
    ASSUME TypeOK, ObjectInv, NEW r \in Requests, NEW code, Answer(r, code),
           NoLoss, RowsShip
    PROVE  ObjectInv'
BY OneShips, IdleShips DEF Answer

\* Steps that write no artifact and no object.
LEMMA QuietShips ==
    ASSUME UNCHANGED <<artifact, s3>>
    PROVE  NoLoss /\ RowsShip
BY DEF NoLoss, RowsShip

\* The writes of a row: it is UPLOADED only behind an object.
LEMMA UpdateShips ==
    ASSUME TypeOK, NEW n, NEW row, NEW outcome, UpdateArtifact(n, row, outcome), UNCHANGED s3,
           row.state # "WAITING_FOR_UPLOAD",
           row.state = "UPLOADED" /\ n \in Names => s3[n] # <<>>
    PROVE  NoLoss /\ RowsShip
<1>1. ASSUME NEW m \in Names, artifact'[m] # artifact[m] PROVE m = n /\ artifact'[m] = row
    BY <1>1 DEF TypeOK, UpdateArtifact
<1>2. QED
    BY <1>1 DEF NoLoss, RowsShip, RowInv

LEMMA ClosedShips ==
    ASSUME TypeOK, ObjectInv, NEW r \in Requests, NEW q \in Memory, Closed(r, q),
           NoLoss, RowsShip
    PROVE  ObjectInv'
<1>1. CASE Respond(r, "200")
    BY <1>1, AnswerShips DEF Respond
<1>2. CASE /\ q.op = "closeBucket"
           /\ Continue(r, [q EXCEPT !.pc = "nextArtifact", !.name = NoName,
                               !.art = NoRow, !.body = <<>>, !.tries = 0])
    <2>1. PICK g : g = [q EXCEPT !.pc = "nextArtifact", !.name = NoName,
                               !.art = NoRow, !.body = <<>>, !.tries = 0]
        OBVIOUS
    <2>2. g.pc = "nextArtifact" /\ g.op = "closeBucket"
        BY <1>2, <2>1 DEF Memory
    <2>3. ShipInv(g)'
        BY <2>2 DEF ShipInv
    <2>4. QED
        BY <1>2, <2>1, <2>3, OneShips DEF Continue
<1>3. QED
    BY <1>1, <1>2 DEF Closed

LEMMA CloseArtifactShips ==
    ASSUME TypeOK, ObjectInv, NEW r \in Requests, NEW q \in Memory, CloseArtifact(r, q),
           q.op \in {"close", "closeBucket"}, UNCHANGED <<artifact, s3>>
    PROVE  ObjectInv'
<1>1. NoLoss /\ RowsShip
    BY QuietShips
<1>2. CASE Closed(r, q)
    BY <1>1, <1>2, ClosedShips
<1>3. CASE CloseFailed(r)
    BY <1>1, <1>3, AnswerShips DEF CloseFailed, Respond
<1>4. ASSUME NEW pc \in {"markComplete", "setClosedWithoutData"},
             Continue(r, [q EXCEPT !.pc = pc])
      PROVE  ObjectInv'
    <2>1. PICK g : g = [q EXCEPT !.pc = pc]
        OBVIOUS
    <2>2. g.pc = pc /\ g.op = q.op
        BY <2>1 DEF Memory
    <2>3. ShipInv(g)'
        BY <1>4, <2>2 DEF ShipInv
    <2>4. QED
        BY <1>1, <1>4, <2>1, <2>3, OneShips DEF Continue
<1>5. QED
    BY <1>2, <1>3, <1>4 DEF CloseArtifact

LEMMA StopShips ==
    ASSUME ObjectInv, NEW dying, Stop(dying)
    PROVE  ObjectInv' /\ NoLoss
<1>1. UNCHANGED <<artifact, s3>>
    BY DEF Stop, tables
<1>2. ASSUME NEW p \in Requests PROVE ShipInv(req[p])'
    <2>1. req'[p] = Idle \/ req'[p] = req[p]
        BY DEF Stop
    <2>2. ShipInv(req[p])
        BY DEF ObjectInv
    <2>3. QED
        BY <1>1, <2>1, <2>2, IdleShips DEF ShipInv
<1>3. QED
    BY <1>1, <1>2 DEF ObjectInv, RowInv, NoLoss

\* One step of a request, action by action.
LEMMA StepShips ==
    ASSUME TypeOK, ObjectInv, NEW r \in Requests, Step(r)
    PROVE  ObjectInv' /\ NoLoss
<1>1. PICK Q \in Memory : Q = req[r]
    BY DEF TypeOK, Request
<1>2. ShipInv(Q) /\ Q \in Request
    BY <1>1 DEF ObjectInv, TypeOK
<1>3. ASSUME NEW code, Respond(r, code), NoLoss, RowsShip PROVE ObjectInv' /\ NoLoss
    BY <1>3, AnswerShips DEF Respond
<1>4. ASSUME Acknowledge(r), NoLoss, RowsShip PROVE ObjectInv' /\ NoLoss
    BY <1>4, AnswerShips DEF Acknowledge
<1>5. ASSUME NEW q, Continue(r, q), ShipInv(q)', NoLoss, RowsShip PROVE ObjectInv' /\ NoLoss
    BY <1>5, OneShips DEF Continue
<1>6. ASSUME NEW pc \in {"insertBucket", "lookupArtifact", "insertLogChunk", "lastLogChunk",
                         "setError", "setClosedWithoutData"},
             IF pc = "lookupArtifact" THEN Q.pc = "insertArtifact" ELSE Q.op # "create",
             Continue(r, [Q EXCEPT !.pc = pc]), NoLoss, RowsShip
      PROVE  ObjectInv' /\ NoLoss
    <2>1. PICK g : g = [Q EXCEPT !.pc = pc]
        OBVIOUS
    <2>2. g.pc = pc /\ g.op = Q.op /\ g.art = Q.art
        BY <2>1 DEF Memory
    <2>3. ShipInv(g)'
        BY <1>2, <1>6, <2>2 DEF ShipInv
    <2>4. QED
        BY <1>5, <1>6, <2>1, <2>3
<1>7. ASSUME UploadFailed(r), NoLoss, RowsShip PROVE ObjectInv' /\ NoLoss
    BY <1>1, <1>3, <1>6, <1>7 DEF UploadFailed, CloseFailed, Merging
<1>8. ASSUME AttemptFailed(r), NoLoss, RowsShip,
             Q.pc = "putObject" \/ (Q.pc = "readChunks" /\ Q.op # "post")
      PROVE  ObjectInv' /\ NoLoss
    <2>1. CASE UploadFailed(r)
        BY <1>7, <1>8, <2>1
    <2>2. ASSUME NEW pc, NEW body, NEW tries,
                 pc = IF Q.op # "post" THEN "readChunks" ELSE "putObject",
                 body = IF Q.op # "post" THEN <<>> ELSE Q.body,
                 Continue(r, [Q EXCEPT !.tries = tries, !.pc = pc, !.body = body])
          PROVE  ObjectInv' /\ NoLoss
        <3>1. PICK g : g = [Q EXCEPT !.tries = tries, !.pc = pc, !.body = body]
            OBVIOUS
        <3>2. g.pc = pc /\ g.op = Q.op /\ g.body = body /\ g.art = Q.art
            BY <3>1 DEF Memory
        <3>3. ShipInv(g)'
            BY <1>2, <1>8, <2>2, <3>2 DEF ShipInv
        <3>4. QED
            BY <1>5, <1>8, <2>2, <3>1, <3>3
    <2>3. QED
        BY <1>1, <1>8, <2>1, <2>2 DEF AttemptFailed, Merging
<1>9. UNCHANGED <<artifact, s3>> => NoLoss /\ RowsShip
    BY QuietShips
<1>10. CASE BindCreateBucket(r)
    BY <1>1, <1>3, <1>6, <1>9, <1>10 DEF BindCreateBucket, tables
<1>11. CASE InsertBucket(r)
    BY <1>3, <1>9, <1>11 DEF InsertBucket
<1>12. CASE BindCreate(r)
    <2>1. NoLoss /\ RowsShip
        BY <1>9, <1>12 DEF BindCreate, tables
    <2>2. CASE \E code \in Replies : Respond(r, code)
        BY <1>3, <2>1, <2>2
    <2>3. CASE /\ Continue(r, [Q EXCEPT !.pc = "insertArtifact"])
               /\ Q.art.state = "WAITING_FOR_UPLOAD" => Q.art.size # 0
        <3>1. PICK g : g = [Q EXCEPT !.pc = "insertArtifact"]
            OBVIOUS
        <3>2. g.pc = "insertArtifact" /\ g.op = Q.op /\ g.art = Q.art
            BY <3>1 DEF Memory
        <3>3. Q.op = "create" /\ Q.art \in NewArtifact
            BY <1>1, <1>2, <1>12 DEF ShipInv, BindCreate
        <3>4. ShipInv(g)'
            BY <2>3, <3>2, <3>3 DEF ShipInv
        <3>5. QED
            BY <1>5, <2>1, <2>3, <3>1, <3>4
    <2>4. QED
        BY <1>1, <1>12, <2>2, <2>3 DEF BindCreate, Replies
<1>13. CASE InsertArtifact(r)
    <2>1. Q.op = "create" /\ Q.art \in NewArtifact /\ Q.pc = "insertArtifact"
          /\ (Q.art.state = "WAITING_FOR_UPLOAD" => Q.art.size # 0)
        BY <1>1, <1>2, <1>13 DEF ShipInv, InsertArtifact, At
    <2>2. Q.art.state # "UPLOADED"
        BY <2>1 DEF NewArtifact
    <2>3. NoLoss
        BY <1>13 DEF InsertArtifact, NoLoss
    <2>4. ASSUME NEW n \in Names, artifact'[n] # artifact[n] PROVE artifact'[n] = Q.art
        BY <1>1, <1>13, <2>4 DEF InsertArtifact, TypeOK
    <2>5. RowsShip
        BY <2>1, <2>2, <2>4 DEF RowsShip, RowInv
    <2>6. QED
        BY <1>1, <1>3, <1>6, <1>13, <2>1, <2>3, <2>5 DEF InsertArtifact
<1>14. CASE LookupArtifact(r)
    <2>1. NoLoss /\ RowsShip
        BY <1>9, <1>14 DEF LookupArtifact, tables
    <2>2. ASSUME NEW n, NEW tries,
                 Continue(r, [Q EXCEPT !.pc = "insertArtifact", !.name = n, !.tries = tries])
          PROVE  ObjectInv' /\ NoLoss
        <3>1. PICK g : g = [Q EXCEPT !.pc = "insertArtifact", !.name = n, !.tries = tries]
            OBVIOUS
        <3>2. g.pc = "insertArtifact" /\ g.op = Q.op /\ g.art = Q.art
            BY <3>1 DEF Memory
        <3>3. Q.pc = "lookupArtifact"
            BY <1>1, <1>14 DEF LookupArtifact, At
        <3>4. ShipInv(g)'
            BY <1>2, <3>2, <3>3 DEF ShipInv
        <3>5. QED
            BY <1>5, <2>1, <2>2, <3>1, <3>4
    <2>3. QED
        BY <1>1, <1>3, <1>14, <2>1, <2>2 DEF LookupArtifact
<1>15. CASE BindPost(r)
    <2>1. NoLoss /\ RowsShip
        BY <1>9, <1>15 DEF BindPost, tables
    <2>2. Q.op = "post" /\ Q.name \in Names /\ Q.load.size \in Nat
        BY <1>1, <1>2, <1>15 DEF BindPost, Request, Memory, Chunk
    <2>3. PICK row \in Row : row = artifact[Q.name]
        BY <2>2 DEF TypeOK
    <2>4. row.size \in Int /\ (row.state = "WAITING_FOR_UPLOAD" => row.size # 0)
        BY <2>2, <2>3 DEF Row, ObjectInv, RowInv
    <2>5. ASSUME NEW pc \in {"growArtifact", "lastLogChunk"}, row.state = "APPENDING",
                 Continue(r, [Q EXCEPT !.pc = pc, !.art = row])
          PROVE  ObjectInv' /\ NoLoss
        <3>1. PICK g : g = [Q EXCEPT !.pc = pc, !.art = row]
            OBVIOUS
        <3>2. g.pc = pc /\ g.op = "post" /\ g.art = row
            BY <2>2, <3>1 DEF Memory
        <3>3. ShipInv(g)'
            BY <2>5, <3>2 DEF ShipInv
        <3>4. QED
            BY <1>5, <2>1, <2>5, <3>1, <3>3
    <2>6. ASSUME row.state = "WAITING_FOR_UPLOAD", Q.load.size = row.size,
                 Continue(r, [[Q EXCEPT !.pc = "setUploading", !.art = row]
                                EXCEPT !.load.offset = 0])
          PROVE  ObjectInv' /\ NoLoss
        <3>1. PICK g : g = [[Q EXCEPT !.pc = "setUploading", !.art = row]
                                EXCEPT !.load.offset = 0]
            OBVIOUS
        <3>2. g.pc = "setUploading" /\ g.op = "post" /\ g.art = row
            BY <2>2, <3>1 DEF Memory
        <3>3. row.size > 0
            BY <2>2, <2>4, <2>6
        <3>4. ShipInv(g)'
            BY <3>2, <3>3 DEF ShipInv
        <3>5. QED
            BY <1>5, <2>1, <2>6, <3>1, <3>4
    <2>7. ASSUME NEW code, Respond(r, code) PROVE ObjectInv' /\ NoLoss
        BY <1>3, <2>1, <2>7
    <2>8. CASE row.state = "APPENDING" /\ BindAppend(r)
        BY <1>1, <2>3, <2>5, <2>7, <2>8 DEF BindAppend, Bound
    <2>9. CASE row.state = "WAITING_FOR_UPLOAD" /\ Q.load.size = row.size
                /\ Continue(r, [Bound(r, "setUploading") EXCEPT !.load.offset = 0])
        BY <1>1, <2>3, <2>6, <2>9 DEF Bound
    <2>10. QED
        BY <1>1, <1>15, <2>3, <2>7, <2>8, <2>9 DEF BindPost
<1>16. CASE GrowArtifact(r)
    <2>1. PICK row : row = [Q.art EXCEPT !.size = Q.load.offset + Q.load.size]
        OBVIOUS
    <2>2. Q.pc = "growArtifact" /\ row.state = "APPENDING"
        BY <1>1, <1>2, <1>16, <2>1 DEF GrowArtifact, At, ShipInv, Memory, Row
    <2>3. NoLoss /\ RowsShip
        BY <1>1, <1>16, <2>1, <2>2, UpdateShips DEF GrowArtifact
    <2>4. ASSUME Continue(r, [Q EXCEPT !.pc = "insertLogChunk", !.art = row])
          PROVE  ObjectInv' /\ NoLoss
        <3>1. PICK g : g = [Q EXCEPT !.pc = "insertLogChunk", !.art = row]
            OBVIOUS
        <3>2. g.pc = "insertLogChunk" /\ g.op = Q.op /\ Q.op # "create"
            BY <1>2, <2>2, <3>1 DEF Memory, ShipInv
        <3>3. ShipInv(g)'
            BY <3>2 DEF ShipInv
        <3>4. QED
            BY <1>5, <2>3, <2>4, <3>1, <3>3
    <2>5. QED
        BY <1>1, <1>3, <1>16, <2>1, <2>3, <2>4 DEF GrowArtifact
<1>17. CASE InsertLogChunk(r)
    BY <1>3, <1>4, <1>9, <1>17 DEF InsertLogChunk
<1>18. CASE LastLogChunk(r)
    BY <1>3, <1>4, <1>9, <1>18 DEF LastLogChunk, tables
<1>19. CASE SetUploading(r)
    <2>1. PICK row : row = [Q.art EXCEPT !.state = "UPLOADING"]
        OBVIOUS
    <2>2. row.state = "UPLOADING" /\ row.size = Q.art.size
        BY <2>1 DEF Memory, Row
    <2>3. NoLoss /\ RowsShip
        BY <1>1, <1>19, <2>1, <2>2, UpdateShips DEF SetUploading
    <2>4. ASSUME NEW pc, pc = IF Q.op # "post" THEN "readChunks" ELSE "readBody",
                 Continue(r, [Q EXCEPT !.pc = pc, !.art = row])
          PROVE  ObjectInv' /\ NoLoss
        <3>1. PICK g : g = [Q EXCEPT !.pc = pc, !.art = row]
            OBVIOUS
        <3>2. g.pc = pc /\ g.op = Q.op /\ g.art = row
            BY <3>1 DEF Memory
        <3>3. Q.op # "create" /\ (Q.op = "post" => row.size > 0)
            BY <1>1, <1>2, <1>19, <2>2 DEF SetUploading, At, ShipInv
        <3>4. ShipInv(g)'
            BY <2>4, <3>2, <3>3 DEF ShipInv
        <3>5. QED
            BY <1>5, <2>3, <2>4, <3>1, <3>4
    <2>5. QED
        BY <1>1, <1>3, <1>19, <2>1, <2>3, <2>4 DEF SetUploading, Merging, CloseFailed
<1>20. CASE ReadBody(r)
    <2>1. NoLoss /\ RowsShip
        BY <1>9, <1>20 DEF ReadBody, tables
    <2>2. Q.op = "post" /\ Q.art.size > 0 /\ Q.art.size \in Int
        BY <1>1, <1>2, <1>20 DEF ReadBody, At, ShipInv, Memory, Row
    <2>3. PICK body : body = [i \in 1 .. Q.art.size |-> Q.load.data]
        OBVIOUS
    <2>4. body # <<>>
        <3>1. 1 \in DOMAIN body
            BY <2>2, <2>3
        <3>2. QED
            BY <3>1
    <2>5. ASSUME Continue(r, [Q EXCEPT !.pc = "putObject", !.body = body])
          PROVE  ObjectInv' /\ NoLoss
        <3>1. PICK g : g = [Q EXCEPT !.pc = "putObject", !.body = body]
            OBVIOUS
        <3>2. g.pc = "putObject" /\ g.op = "post" /\ g.body = body
            BY <2>2, <3>1 DEF Memory
        <3>3. ShipInv(g)'
            BY <2>4, <3>2 DEF ShipInv
        <3>4. QED
            BY <1>5, <2>1, <2>5, <3>1, <3>3
    <2>6. QED
        BY <1>1, <1>7, <1>20, <2>1, <2>3, <2>5 DEF ReadBody
<1>21. CASE ReadChunks(r)
    <2>1. NoLoss /\ RowsShip
        BY <1>9, <1>21 DEF ReadChunks, tables
    <2>2. Q.pc = "readChunks" /\ Q.op # "post" /\ Q.op # "create"
        BY <1>1, <1>2, <1>21 DEF ReadChunks, At, ShipInv
    <2>3. ASSUME NEW b \in Byte, NEW pc \in {"putObject", "readChunks"},
                 Continue(r, [Q EXCEPT !.body = Append(@, b), !.pc = pc])
          PROVE  ObjectInv' /\ NoLoss
        <3>1. PICK body : body = Append(Q.body, b)
            OBVIOUS
        <3>2. body # <<>>
            <4>1. Q.body \in Seq(Byte)
                BY DEF Memory
            <4>2. QED
                BY <3>1, <4>1
        <3>3. PICK g : g = [Q EXCEPT !.body = body, !.pc = pc]
            OBVIOUS
        <3>4. g.pc = pc /\ g.op = Q.op /\ g.body = body
            BY <3>3 DEF Memory
        <3>5. ShipInv(g)'
            BY <2>2, <2>3, <3>2, <3>4 DEF ShipInv
        <3>6. QED
            BY <1>5, <2>1, <2>3, <3>1, <3>3, <3>5
    <2>4. QED
        BY <1>1, <1>8, <1>21, <2>1, <2>2, <2>3 DEF ReadChunks, BytesAt
<1>22. CASE PutObject(r)
    <2>1. Q.pc = "putObject" /\ Q.body # <<>> /\ Q.op # "create"
        BY <1>1, <1>2, <1>22 DEF PutObject, At, ShipInv
    <2>2. UNCHANGED artifact
        BY <1>22 DEF PutObject
    <2>3. UNCHANGED s3 \/ s3' = [s3 EXCEPT ![Q.name] = Q.body]
        BY <1>1, <1>22 DEF PutObject
    <2>4. NoLoss
        BY <2>1, <2>3 DEF NoLoss, TypeOK
    <2>5. RowsShip
        BY <2>2 DEF RowsShip
    <2>6. ASSUME Continue(r, [Q EXCEPT !.pc = "setUploaded"]),
                 s3' = [s3 EXCEPT ![Q.name] = Q.body]
          PROVE  ObjectInv' /\ NoLoss
        <3>1. PICK g : g = [Q EXCEPT !.pc = "setUploaded"]
            OBVIOUS
        <3>2. g.pc = "setUploaded" /\ g.op = Q.op /\ g.name = Q.name
            BY <3>1 DEF Memory
        <3>3. Q.name \in Names => s3'[Q.name] # <<>>
            BY <2>1, <2>6 DEF TypeOK
        <3>4. ShipInv(g)'
            BY <2>1, <3>2, <3>3 DEF ShipInv
        <3>5. QED
            BY <1>5, <2>4, <2>5, <2>6, <3>1, <3>4
    <2>7. CASE AttemptFailed(r)
        BY <1>8, <2>1, <2>4, <2>5, <2>7
    <2>8. \/ AttemptFailed(r)
          \/ /\ Continue(r, [Q EXCEPT !.pc = "setUploaded"])
             /\ s3' = [s3 EXCEPT ![Q.name] = Q.body]
        BY <1>1, <1>22 DEF PutObject, Applied
    <2>9. QED
        BY <2>6, <2>7, <2>8
<1>23. CASE SetUploaded(r)
    <2>1. PICK row : row = [Q.art EXCEPT !.state = "UPLOADED"]
        OBVIOUS
    <2>2. row.state = "UPLOADED"
        BY <2>1 DEF Memory, Row
    <2>3. (Q.name \in Names => s3[Q.name] # <<>>) /\ Q.op # "create"
        BY <1>1, <1>2, <1>23 DEF SetUploaded, At, ShipInv
    <2>4. NoLoss /\ RowsShip
        BY <1>1, <1>23, <2>1, <2>2, <2>3, UpdateShips DEF SetUploaded
    <2>5. ASSUME Continue(r, [Q EXCEPT !.pc = "deleteLogChunks", !.art = row])
          PROVE  ObjectInv' /\ NoLoss
        <3>1. PICK g : g = [Q EXCEPT !.pc = "deleteLogChunks", !.art = row]
            OBVIOUS
        <3>2. g.pc = "deleteLogChunks" /\ g.op = Q.op /\ g.name = Q.name
            BY <3>1 DEF Memory
        <3>3. UNCHANGED s3
            BY <1>23 DEF SetUploaded
        <3>4. ShipInv(g)'
            BY <2>3, <3>2, <3>3 DEF ShipInv
        <3>5. QED
            BY <1>5, <2>4, <2>5, <3>1, <3>4
    <2>6. QED
        BY <1>1, <1>3, <1>4, <1>23, <2>1, <2>4, <2>5 DEF SetUploaded, CloseFailed
<1>24. CASE SetError(r)
    <2>1. PICK row : row = [Q.art EXCEPT !.state = "ERROR"]
        OBVIOUS
    <2>2. row.state = "ERROR"
        BY <2>1 DEF Memory, Row
    <2>3. NoLoss /\ RowsShip
        BY <1>1, <1>24, <2>1, <2>2, UpdateShips DEF SetError
    <2>4. QED
        BY <1>3, <1>24, <2>3 DEF SetError
<1>25. CASE DeleteLogChunks(r)
    <2>1. NoLoss /\ RowsShip
        BY <1>9, <1>25 DEF DeleteLogChunks
    <2>2. Closed(r, Q) => ObjectInv'
        BY <2>1, ClosedShips
    <2>3. QED
        BY <1>1, <1>3, <1>25, <2>1, <2>2 DEF DeleteLogChunks
<1>26. CASE BindClose(r)
    <2>1. UNCHANGED <<artifact, s3>> /\ Q.op = "close" /\ Q.name \in Names
        BY <1>1, <1>2, <1>26 DEF BindClose, tables, Request
    <2>2. NoLoss /\ RowsShip
        BY <1>9, <2>1
    <2>3. PICK g : g = [Q EXCEPT !.pc = "bind", !.art = artifact[Q.name]]
        OBVIOUS
    <2>4. artifact[Q.name] \in Row
        BY <2>1 DEF TypeOK
    <2>5. g \in Memory /\ g.op = "close"
        BY <2>1, <2>3, <2>4 DEF Memory, ProgramPoints
    <2>6. CloseArtifact(r, g) => ObjectInv'
        BY <2>1, <2>5, CloseArtifactShips
    <2>7. QED
        BY <1>1, <1>3, <1>26, <2>2, <2>3, <2>6 DEF BindClose, Bound
<1>27. CASE MarkComplete(r)
    <2>1. PICK row : row = [Q.art EXCEPT !.state = "APPEND_COMPLETE"]
        OBVIOUS
    <2>2. row.state = "APPEND_COMPLETE"
        BY <2>1 DEF Memory, Row
    <2>3. NoLoss /\ RowsShip
        BY <1>1, <1>27, <2>1, <2>2, UpdateShips DEF MarkComplete
    <2>4. Q.op # "post" /\ Q.op # "create"
        BY <1>1, <1>2, <1>27 DEF MarkComplete, At, ShipInv
    <2>5. ASSUME NEW pc \in {"setClosedWithoutData", "setUploading"},
                 Continue(r, [Q EXCEPT !.pc = pc, !.art = row])
          PROVE  ObjectInv' /\ NoLoss
        <3>1. PICK g : g = [Q EXCEPT !.pc = pc, !.art = row]
            OBVIOUS
        <3>2. g.pc = pc /\ g.op = Q.op
            BY <3>1 DEF Memory
        <3>3. ShipInv(g)'
            BY <2>4, <2>5, <3>2 DEF ShipInv
        <3>4. QED
            BY <1>5, <2>3, <2>5, <3>1, <3>3
    <2>6. QED
        BY <1>1, <1>3, <1>27, <2>1, <2>3, <2>5 DEF MarkComplete, CloseFailed
<1>28. CASE SetClosedWithoutData(r)
    <2>1. PICK row : row = [Q.art EXCEPT !.state = "CLOSED_WITHOUT_DATA"]
        OBVIOUS
    <2>2. row.state = "CLOSED_WITHOUT_DATA"
        BY <2>1 DEF Memory, Row
    <2>3. NoLoss /\ RowsShip
        BY <1>1, <1>28, <2>1, <2>2, UpdateShips DEF SetClosedWithoutData
    <2>4. Closed(r, Q) => ObjectInv'
        BY <2>3, ClosedShips
    <2>5. QED
        BY <1>1, <1>3, <1>28, <2>3, <2>4 DEF SetClosedWithoutData, CloseFailed
<1>29. CASE BindCloseBucket(r)
    <2>1. NoLoss /\ RowsShip
        BY <1>9, <1>29 DEF BindCloseBucket, tables
    <2>2. ASSUME Continue(r, [Q EXCEPT !.pc = "updateBucket"])
          PROVE  ObjectInv' /\ NoLoss
        <3>1. PICK g : g = [Q EXCEPT !.pc = "updateBucket"]
            OBVIOUS
        <3>2. g.pc = "updateBucket" /\ g.op = "closeBucket"
            BY <1>1, <1>29, <3>1 DEF BindCloseBucket, Memory
        <3>3. ShipInv(g)'
            BY <3>2 DEF ShipInv
        <3>4. QED
            BY <1>5, <2>1, <2>2, <3>1, <3>3
    <2>3. QED
        BY <1>1, <1>3, <1>29, <2>1, <2>2 DEF BindCloseBucket
<1>30. CASE UpdateBucket(r)
    <2>1. NoLoss /\ RowsShip
        BY <1>9, <1>30 DEF UpdateBucket
    <2>2. ASSUME Continue(r, [Q EXCEPT !.pc = "listArtifacts"])
          PROVE  ObjectInv' /\ NoLoss
        <3>1. PICK g : g = [Q EXCEPT !.pc = "listArtifacts"]
            OBVIOUS
        <3>2. g.pc = "listArtifacts" /\ g.op = "closeBucket"
            BY <1>1, <1>2, <1>30, <3>1 DEF UpdateBucket, At, ShipInv, Memory
        <3>3. ShipInv(g)'
            BY <3>2 DEF ShipInv
        <3>4. QED
            BY <1>5, <2>1, <2>2, <3>1, <3>3
    <2>3. QED
        BY <1>1, <1>3, <1>30, <2>1, <2>2 DEF UpdateBucket, CloseFailed
<1>31. CASE ListArtifacts(r)
    <2>1. NoLoss /\ RowsShip
        BY <1>9, <1>31 DEF ListArtifacts, tables
    <2>2. ASSUME Continue(r, [Q EXCEPT !.pc = "nextArtifact", !.listing = artifact])
          PROVE  ObjectInv' /\ NoLoss
        <3>1. PICK g : g = [Q EXCEPT !.pc = "nextArtifact", !.listing = artifact]
            OBVIOUS
        <3>2. g.pc = "nextArtifact" /\ g.op = "closeBucket"
            BY <1>1, <1>2, <1>31, <3>1 DEF ListArtifacts, At, ShipInv, Memory
        <3>3. ShipInv(g)'
            BY <3>2 DEF ShipInv
        <3>4. QED
            BY <1>5, <2>1, <2>2, <3>1, <3>3
    <2>3. QED
        BY <1>1, <1>3, <1>31, <2>1, <2>2 DEF ListArtifacts, CloseFailed
<1>32. CASE NextArtifact(r)
    <2>1. UNCHANGED <<artifact, s3>> /\ Q.op = "closeBucket"
        BY <1>1, <1>2, <1>32 DEF NextArtifact, tables, At, ShipInv
    <2>2. NoLoss /\ RowsShip
        BY <1>9, <2>1
    <2>3. ASSUME NEW n \in Names,
                 CloseArtifact(r, [Q EXCEPT !.name = n, !.art = Q.listing[n],
                                    !.listing = [@ EXCEPT ![n] = NoRow]])
          PROVE  ObjectInv'
        <3>1. Q.listing \in [Names -> Row] /\ NoRow \in Row
            BY DEF Memory, NoRow, Row
        <3>2. PICK row \in Row : row = Q.listing[n]
            BY <3>1
        <3>3. PICK listing \in [Names -> Row] : listing = [Q.listing EXCEPT ![n] = NoRow]
            BY <3>1
        <3>4. PICK g : g = [Q EXCEPT !.name = n, !.art = row, !.listing = listing]
            OBVIOUS
        <3>5. g \in Memory /\ g.op = "closeBucket"
            BY <2>1, <3>4 DEF Memory
        <3>6. CloseArtifact(r, g)
            BY <2>3, <3>2, <3>3, <3>4
        <3>7. QED
            BY <2>1, <3>5, <3>6, CloseArtifactShips
    <2>4. QED
        BY <1>1, <1>32, <2>2, <2>3, AnswerShips DEF NextArtifact
<1>33. CASE ReaderPanics(r)
    BY <1>33, StopShips DEF ReaderPanics
<1>40. QED
    BY <1>10, <1>11, <1>12, <1>13, <1>14, <1>15, <1>16, <1>17, <1>18, <1>19, <1>20,
       <1>21, <1>22, <1>23, <1>24, <1>25, <1>26, <1>27, <1>28, <1>29, <1>30, <1>31,
       <1>32, <1>33 DEF Step

LEMMA ArrivalShips ==
    ASSUME NEW q \in Arrivals
    PROVE  ShipInv(q) /\ q.pc = "bind"
<1>1. ASSUME NEW op \in {"createBucket", "closeBucket"}, q = BucketRequest(op)
      PROVE  ShipInv(q) /\ q.pc = "bind"
    BY <1>1 DEF BucketRequest, Idle, ShipInv
<1>2. ASSUME NEW n \in Names, q \in ArrivalsFor(n)
      PROVE  ShipInv(q) /\ q.pc = "bind"
    <2>1. CASE \E row \in NewArtifact : q = CreateRequest(n, row)
        BY <2>1 DEF CreateRequest, Idle, ShipInv
    <2>2. CASE \E load \in Loads : q = PostRequest(n, load)
        BY <2>2 DEF PostRequest, Idle, ShipInv
    <2>3. CASE q = CloseRequest(n)
        BY <2>3 DEF CloseRequest, Idle, ShipInv
    <2>4. QED
        BY <1>2, <2>1, <2>2, <2>3 DEF ArrivalsFor
<1>3. QED
    BY <1>1, <1>2 DEF Arrivals

LEMMA NextShips ==
    ASSUME TypeOK, ObjectInv, [Next]_vars
    PROVE  ObjectInv' /\ NoLoss
<1>1. ASSUME NEW r \in Requests, NEW q \in Arrivals, Receive(r, q)
      PROVE  ObjectInv' /\ NoLoss
    <2>1. ShipInv(q) /\ UNCHANGED <<artifact, s3>> /\ req' = [req EXCEPT ![r] = q]
        BY <1>1, ArrivalShips DEF Receive, tables
    <2>2. ShipInv(q)' /\ NoLoss /\ RowsShip
        BY <2>1, QuietShips DEF ShipInv
    <2>3. QED
        BY <2>1, <2>2, OneShips
<1>2. ASSUME NEW r \in Requests, Step(r)
      PROVE  ObjectInv' /\ NoLoss
    BY <1>2, StepShips
<1>3. CASE Crash
    BY <1>3, StopShips DEF Crash
<1>4. CASE UNCHANGED vars
    BY <1>4 DEF vars, ObjectInv, RowInv, ShipInv, NoLoss
<1>5. QED
    BY <1>1, <1>2, <1>3, <1>4 DEF Next

\* Rows disappear in one place only, and behind an object.
LEMMA NextDeletes ==
    ASSUME TypeOK, ObjectInv, [Next]_vars,
           NEW n \in Names, logchunk'[n] # logchunk[n], logchunk'[n] = <<>>
    PROVE  s3[n] # <<>>
<1>1. ~ UNCHANGED logchunk
    OBVIOUS
<1>2. PICK r \in Requests : InsertLogChunk(r) \/ DeleteLogChunks(r)
    <2>1. PICK r \in Requests : Step(r)
        BY <1>1 DEF Next, vars, Receive, tables, Crash, Stop
    <2>2. /\ ~ BindCreateBucket(r) /\ ~ InsertBucket(r) /\ ~ BindCreate(r)
          /\ ~ InsertArtifact(r) /\ ~ LookupArtifact(r) /\ ~ BindPost(r)
          /\ ~ GrowArtifact(r) /\ ~ LastLogChunk(r) /\ ~ SetUploading(r)
        BY <1>1, Zenon
        DEF tables, BindCreateBucket, InsertBucket, BindCreate, InsertArtifact,
            LookupArtifact, BindPost, GrowArtifact, LastLogChunk, SetUploading
    <2>3. /\ ~ ReadBody(r) /\ ~ ReadChunks(r) /\ ~ PutObject(r) /\ ~ SetUploaded(r)
          /\ ~ SetError(r) /\ ~ BindClose(r) /\ ~ MarkComplete(r)
          /\ ~ SetClosedWithoutData(r)
        BY <1>1, Zenon
        DEF tables, ReadBody, ReadChunks, PutObject, SetUploaded, SetError, BindClose,
            MarkComplete, SetClosedWithoutData
    <2>4. /\ ~ BindCloseBucket(r) /\ ~ UpdateBucket(r) /\ ~ ListArtifacts(r)
          /\ ~ NextArtifact(r) /\ ~ ReaderPanics(r)
        BY <1>1, Zenon
        DEF tables, BindCloseBucket, UpdateBucket, ListArtifacts, NextArtifact,
            ReaderPanics, Stop
    <2>5. QED
        BY <2>1, <2>2, <2>3, <2>4, Zenon DEF Step
<1>3. PICK Q : Q = req[r]
    OBVIOUS
<1>4. CASE InsertLogChunk(r)
    <2>1. logchunk[n] \in Seq(Chunk) /\ logchunk'[n] = Append(logchunk[n], Q.load)
        BY <1>3, <1>4 DEF InsertLogChunk, TypeOK
    <2>2. QED
        BY <2>1
<1>5. CASE DeleteLogChunks(r)
    <2>1. Q.name = n /\ Q.pc = "deleteLogChunks"
        BY <1>3, <1>5 DEF DeleteLogChunks, At, TypeOK
    <2>2. ShipInv(Q)
        BY <1>3 DEF ObjectInv
    <2>3. QED
        BY <2>1, <2>2 DEF ShipInv
<1>6. QED
    BY <1>2, <1>4, <1>5

LEMMA InitShips == Init => ObjectInv
BY IdleShips DEF Init, ObjectInv, RowInv, NoRow

LEMMA ObjectsStay == Spec => []ObjectInv
<1>1. TypeOK /\ ObjectInv /\ [Next]_vars => ObjectInv'
    BY NextShips
<1>2. QED
    BY <1>1, InitShips, TypeCorrect, PTL DEF Spec

\* However requests interleave, an artifact that is UPLOADED has an object for
\* its readers: no stale write of a row can claim one that was never put.
THEOREM ReadersFindObject == Spec => []UploadedHasObject
<1>1. ObjectInv => UploadedHasObject
    BY DEF ObjectInv, RowInv, UploadedHasObject
<1>2. QED
    BY <1>1, ObjectsStay, PTL

\* However many requests merge an artifact at the same time, its rows are not
\* deleted before it has an object.
THEOREM RowsGoLast == Spec => RowsOutliveMerge
<1>1. TypeOK /\ ObjectInv /\ [Next]_vars =>
        [\A n \in Names : logchunk'[n] # logchunk[n] /\ logchunk'[n] = <<>> =>
            s3[n] # <<>>]_vars
    BY NextDeletes
<1>2. QED
    BY <1>1, ObjectsStay, TypeCorrect, PTL DEF Spec, RowsOutliveMerge

=============================================================================
