----------------------------- MODULE UploadProofs -----------------------------
(***************************************************************************)
(* The client library beside the artifact server (Upload).  A step of the  *)
(* system is a step of ChunkedArtifact or leaves it alone, so what         *)
(* ChunkedArtifactProofs shows for any server holds beside this one,       *)
(* whatever the server answers and the network loses.  In the other        *)
(* direction the client uses the server orderly (UInv) unless a request    *)
(* outlives its client's wait, so what ArtifactDurability and              *)
(* ArtifactLasting show of OrderlySpec holds of the server behind it.      *)
(***************************************************************************)
EXTENDS Upload, ArtifactLasting

LogProofs == INSTANCE ChunkedArtifactProofs

-----------------------------------------------------------------------------
(* The log.                                                                *)

LEMMA ChunksSized == LogProofs!Sized
BY DEF LogProofs!Sized, Chunks

\* What moves the goroutines of ChunkedArtifact is one of its actions.
LEMMA LogStep ==
    ASSUME UploadNext
    PROVE  Log!Next \/ UNCHANGED <<log, cancelled>>
<1>1. CASE CallAppendLog
    BY <1>1 DEF CallAppendLog, Log!Next, Log!Program
<1>2. CASE CallFlush \/ CallClose
    BY <1>2 DEF CallFlush, CallClose, Log!Next, Log!Program
<1>3. CASE LogCallerStep
    BY <1>3 DEF LogCallerStep, Log!Next
<1>4. CASE LogPusherStep
    BY <1>4 DEF LogPusherStep, Log!Next
<1>5. CASE PostChunkReturns
    BY <1>5 DEF PostChunkReturns, Log!Next
<1>6. CASE PostCloseReturns
    BY <1>6 DEF PostCloseReturns, Log!Next
<1>7. CASE Cancel
    BY <1>7 DEF Cancel, Log!Next, Log!Cancel, log
<1>8. CASE NewBucket \/ NewBucketReturns \/ GetBucket \/ NewArtifactReturns \/ CloseBucket
    BY <1>8 DEF NewBucket, NewBucketReturns, GetBucket, NewArtifactReturns, CloseBucket
<1>9. CASE \E size \in Sizes \cap 0 .. MaxSize : NewArtifactRequested(size)
    BY <1>9 DEF NewArtifactRequested
<1>10. CASE CallUploadArtifact \/ FileStep \/ PostStreamReturns
    <2>1. UNCHANGED log
        BY <1>10 DEF CallUploadArtifact, FileStep, PostStreamReturns
    <2>2. UNCHANGED cancelled
        BY <1>10 DEF CallUploadArtifact, FileStep, PostStreamReturns, File!UploadArtifact,
            File!Tick, File!Bail, File!PostAnswered
    <2>3. QED
        BY <2>1, <2>2
<1>11. CASE PostChunk \/ PostClose \/ PostStream
    BY <1>11 DEF PostChunk, PostClose, PostStream
<1>12. CASE ServerStep
    BY <1>12 DEF ServerStep, Serve, client
<1>13. QED
    BY <1>1, <1>2, <1>3, <1>4, <1>5, <1>6, <1>7, <1>8, <1>9, <1>10, <1>11, <1>12
    DEF UploadNext, Requesting

\* The actions are those of ChunkedArtifact, under either name.
LEMMA SameNext ==
    ASSUME Log!Next
    PROVE  LogProofs!Next
<1>1. Log!Program => LogProofs!Program
    BY DEF Log!Program, LogProofs!Program, Log!AppendLog, LogProofs!AppendLog, Log!Flush,
        LogProofs!Flush, Log!Idle, LogProofs!Idle, Log!Panic, LogProofs!Panic
<1>2. Log!Cancel => LogProofs!Cancel
    BY DEF Log!Cancel, LogProofs!Cancel
<1>3. Log!CallerStep => LogProofs!CallerStep
    BY DEF Log!CallerStep, LogProofs!CallerStep, Log!Enqueue, LogProofs!Enqueue,
        Log!FlushCancelled, LogProofs!FlushCancelled, Log!FlushFails, LogProofs!FlushFails,
        Log!FlushCompletes, LogProofs!FlushCompletes, Log!Panic, LogProofs!Panic,
        Log!CallerReturns, LogProofs!CallerReturns, Log!NewStream, LogProofs!NewStream,
        Log!NewPusher, LogProofs!NewPusher
<1>4. Log!PusherStep => LogProofs!PusherStep
    BY DEF Log!PusherStep, LogProofs!PusherStep, Log!Range, LogProofs!Range, Log!Tick,
        LogProofs!Tick, Log!Bail, LogProofs!Bail
<1>5. \A e \in Log!Errors :
        /\ Log!PostAnswered(e) => LogProofs!PostAnswered(e)
        /\ Log!CloseAnswered(e) => LogProofs!CloseAnswered(e)
    BY DEF Log!PostAnswered, LogProofs!PostAnswered, Log!CloseAnswered,
        LogProofs!CloseAnswered, Log!CallerReturns, LogProofs!CallerReturns
<1>6. Log!Errors = LogProofs!Errors
    BY DEF Log!Errors, LogProofs!Errors
<1>7. QED
    BY <1>1, <1>2, <1>3, <1>4, <1>5, <1>6 DEF Log!Next, LogProofs!Next

LEMMA LogNext ==
    ASSUME [UploadNext]_system
    PROVE  [LogProofs!Next]_(LogProofs!vars)
<1>1. Log!Next => LogProofs!Next
    BY SameNext
<1>2. UNCHANGED <<log, cancelled>> => UNCHANGED LogProofs!vars
    BY DEF log, LogProofs!vars
<1>3. UNCHANGED system => UNCHANGED <<log, cancelled>>
    BY DEF system, client
<1>4. QED
    BY <1>1, <1>2, <1>3, LogStep

LEMMA LogInit == UploadInit => LogProofs!Init
BY DEF UploadInit, Log!Init, LogProofs!Init, Log!NewStream, LogProofs!NewStream,
    Log!NewPusher, LogProofs!NewPusher

LEMMA LogInvariant == UploadSpec => []LogProofs!IInv
<1>1. UploadSpec => LogProofs!Spec
    BY LogInit, LogNext, PTL DEF UploadSpec, LogProofs!Spec
<1>2. LogProofs!Spec => []LogProofs!IInv
    BY ChunksSized, LogProofs!Inductive
<1>3. QED
    BY <1>1, <1>2, PTL

-----------------------------------------------------------------------------
(* The file, and the theorems.                                             *)

LEMMA FileTypeKept ==
    ASSUME File!TypeOK, UploadNext
    PROVE  File!TypeOK'
<1> USE DEF File!TypeOK
<1>1. cancelled' \in BOOLEAN
    <2>1. Log!Next => cancelled' \in BOOLEAN
        BY DEF Log!Next, Log!Program, Log!AppendLog, Log!Flush, Log!Cancel, Log!CallerStep,
            Log!Enqueue, Log!FlushCancelled, Log!FlushFails, Log!FlushCompletes,
            Log!PusherStep, Log!Range, Log!Tick, Log!Bail, Log!PostAnswered, Log!CloseAnswered
    <2>2. QED
        BY <2>1, LogStep
<1>2. CASE UNCHANGED file
    BY <1>1, <1>2 DEF file
<1>3. CASE \E size \in Sizes \cap 0 .. MaxSize : NewArtifactRequested(size)
    BY <1>1, <1>3, SizesAssumption DEF NewArtifactRequested
<1>4. CASE CallUploadArtifact \/ FileStep
    BY <1>1, <1>4 DEF CallUploadArtifact, FileStep, File!UploadArtifact, File!Tick, File!Bail,
        File!Errors
<1>5. CASE PostStreamReturns
    BY <1>1, <1>5 DEF PostStreamReturns, File!PostAnswered, File!Errors
<1>6. QED
    BY <1>2, <1>3, <1>4, <1>5
    DEF UploadNext, NewBucket, NewBucketReturns, GetBucket, NewArtifactReturns, CloseBucket,
        Cancel, CallAppendLog, CallFlush, CallClose, LogCallerStep, LogPusherStep, Requesting,
        PostChunk, PostChunkReturns, PostClose, PostCloseReturns, PostStream, ServerStep, Serve, client

LEMMA FileType == UploadSpec => []File!TypeOK
<1>1. UploadInit => File!TypeOK
    <2>1. UploadInit => File!Init
        BY DEF UploadInit
    <2>2. 0 \in Nat
        OBVIOUS
    <2>3. File!Init => File!TypeOK
        BY <2>2, Zenon DEF File!Init, File!TypeOK, File!Errors
    <2>4. QED
        BY <2>1, <2>3
<1>2. File!TypeOK /\ [UploadNext]_system => File!TypeOK'
    <2>1. UNCHANGED system /\ File!TypeOK => File!TypeOK'
        BY DEF system, client, file, File!TypeOK
    <2>2. QED
        BY <2>1, FileTypeKept
<1>3. QED
    BY <1>1, <1>2, PTL DEF UploadSpec

\* The memory of the client library holds what its Go types allow.
THEOREM ClientTypeCorrect == UploadSpec => []ClientTypeOK
<1>1. LogProofs!IInv => Log!TypeOK
    BY DEF LogProofs!IInv, LogProofs!TypeOK, Log!TypeOK, LogProofs!Pusher, Log!Pusher,
        LogProofs!Caller, Log!Caller, LogProofs!Errors, Log!Errors
<1>2. QED
    BY <1>1, LogInvariant, FileType, PTL DEF ClientTypeOK

\* The server gets the chunks of a log in the order of AppendLog, none twice and
\* none left out, and has answered for all of them when Flush or Close succeeds:
\* no answer of this server and nothing the network loses changes that.
THEOREM FlushVouches == UploadSpec => []FlushMeansSent
<1>1. LogProofs!IInv => FlushMeansSent
    BY LogProofs!PrefixSent DEF LogProofs!FlushMeansSent, FlushMeansSent, Log!FlushMeansSent
<1>2. QED
    BY <1>1, LogInvariant, PTL

\* Only a program that goes on after Flush or Close has failed makes the client
\* send on a closed channel.
THEOREM OnlyErrorsPanic == UploadSpec => []PanicsOnlyAfterError
<1>1. LogProofs!IInv => PanicsOnlyAfterError
    BY DEF LogProofs!IInv, LogProofs!CallerInv, PanicsOnlyAfterError, Log!PanicsOnlyAfterError
<1>2. QED
    BY <1>1, LogInvariant, PTL

-----------------------------------------------------------------------------
(***************************************************************************)
(* The client uses the server orderly as long as it never gives up on a    *)
(* request and goes on: it has one request in flight, and posts a chunk    *)
(* only when it has been told that the server has all before it.           *)
(***************************************************************************)

\* Nothing is in flight but what the client waits for, until it is cancelled.
Alone ==
    /\ conn \in Requests \cup {NoRequest}
    /\ \A r \in Requests : At(r, "idle") => req[r] = Idle
    /\ conn # NoRequest \/ ~cancelled =>
        \A r \in Requests : r # conn => req[r] = Idle

\* The answers that are no error for the client.
Success == {"200", "200 empty"}

Posting == Logging /\ pusher.pc = "post"

\* A log takes chunks until the last one is sent; Close comes after that.
Open == program = "log" \/ (program = "done" /\ (pusher.chunk # <<>> \/ bytestream.queue # <<>>))

Load == [offset |-> offset, size |-> pusher.chunk[1].size, data |-> pusher.chunk[1].data]

\* The request the client waits for while it creates the artifact, or posts a chunk.
Creates(q) ==
    /\ q.op = "create" /\ q.name \in Names /\ q.art = NewArtifactRow(rest)
    /\ q.pc \in {"bind", "insertArtifact", "lookupArtifact"}

Posts(q) == q.op = "post" /\ q.name = name /\ q.load = Load

\* What has come, or will come, of the request the client waits for.
WaitInv ==
    conn # NoRequest =>
        /\ req[conn].op = "create" => program = "bucket"
        /\ Logging => Posting \/ caller.in = "Close"
        /\ program = "bucket" =>
            IF At(conn, "idle")
            THEN reply[conn] \in Success => artifact[name] = NewArtifactRow(rest)
            ELSE Creates(req[conn])
        /\ Posting =>
            IF At(conn, "idle")
            THEN reply[conn] \in Success => Load \in acked[name]
            ELSE Posts(req[conn])

\* The log on the server while the client fills it.
OpenInv ==
    /\ Open => artifact[name].state = "APPENDING" /\ \A r \in Requests : ~Closes(req[r])
    /\ Acknowledged(name, offset)

\* The order of the program's calls.
CallInv ==
    /\ caller.in = "Close" =>
        program = "done" /\ pusher = Log!NewPusher /\ bytestream = Log!NewStream
    /\ caller.in = "Flush" /\ caller.closing => program = "done"
    /\ program = "done" => caller.in # "AppendLog"
    /\ program \in {"new", "bucket"} => ~cancelled /\ offset = 0 /\ sent = <<>>

\* What the client sends fits, and is about an artifact of the bucket.
RoomInv ==
    /\ name \in Names
    /\ rest \in Sizes \cap 0 .. MaxSize
    /\ offset * MaxAppends <= Len(sent) * MaxSize
    /\ Len(appended) <= MaxAppends
    /\ caller.in = "AppendLog" => Len(appended) < MaxAppends /\ Len(caller.chunk) = 1

UInv == Alone /\ WaitInv /\ OpenInv /\ CallInv /\ RoomInv

-----------------------------------------------------------------------------
(* What a step of the server does to the requests and to an open log.      *)

\* A slot without a request takes no step.
LEMMA StepIsBusy ==
    ASSUME NEW r \in Requests, Step(r)
    PROVE  ~At(r, "idle")
<1>1. CASE BindCreateBucket(r) \/ InsertBucket(r) \/ BindCreate(r) \/ InsertArtifact(r)
           \/ LookupArtifact(r)
    BY <1>1 DEF At, BindCreateBucket, InsertBucket, BindCreate, InsertArtifact, LookupArtifact
<1>2. CASE BindPost(r) \/ GrowArtifact(r) \/ InsertLogChunk(r) \/ LastLogChunk(r)
    BY <1>2 DEF At, BindPost, GrowArtifact, InsertLogChunk, LastLogChunk
<1>3. CASE SetUploading(r) \/ ReadBody(r) \/ ReadChunks(r) \/ PutObject(r)
    BY <1>3 DEF At, SetUploading, ReadBody, ReadChunks, PutObject
<1>4. CASE SetUploaded(r) \/ SetError(r) \/ DeleteLogChunks(r)
    BY <1>4 DEF At, SetUploaded, SetError, DeleteLogChunks
<1>5. CASE BindClose(r) \/ MarkComplete(r) \/ SetClosedWithoutData(r)
    BY <1>5 DEF At, BindClose, MarkComplete, SetClosedWithoutData
<1>6. CASE BindCloseBucket(r) \/ UpdateBucket(r) \/ ListArtifacts(r) \/ NextArtifact(r)
    BY <1>6 DEF At, BindCloseBucket, UpdateBucket, ListArtifacts, NextArtifact
<1>7. CASE ReaderPanics(r)
    BY <1>7 DEF At, ReaderPanics
<1>8. QED
    BY <1>1, <1>2, <1>3, <1>4, <1>5, <1>6, <1>7 DEF Step

\* A request stays as it is, ends, or goes on with its payload.
LEMMA ServerMoves ==
    ASSUME TypeOK, ServerStep, NEW r \in Requests
    PROVE  req'[r] \in {req[r], Idle} \/ (~At(r, "idle") /\ Carries(req[r], req'[r]))
<1>1. ASSUME NEW dying, Stop(dying) PROVE req'[r] \in {req[r], Idle}
    BY <1>1 DEF Stop
<1>2. ASSUME NEW q \in Requests, Step(q), Moves(q)
      PROVE  req'[r] \in {req[r], Idle} \/ (~At(r, "idle") /\ Carries(req[r], req'[r]))
    BY <1>2, StepIsBusy DEF Moves, TypeOK
<1>3. QED
    BY <1>1, <1>2, OneMoves DEF ServerStep, Serve, Crash

\* What has been acknowledged stays acknowledged.
LEMMA AckedGrows ==
    ASSUME TypeOK, ServerStep, NEW n \in Names
    PROVE  acked[n] \subseteq acked'[n]
<1>1. ASSUME NEW r \in Requests, Acknowledge(r) PROVE acked[n] \subseteq acked'[n]
    BY <1>1 DEF Acknowledge, TypeOK
<1>2. ASSUME NEW r, NEW code, Respond(r, code) PROVE acked' = acked
    BY <1>2 DEF Respond, history
<1>3. ASSUME NEW r, NEW q, Continue(r, q) PROVE acked' = acked
    BY <1>3 DEF Continue, history
<1>4. ASSUME NEW dying, Stop(dying) PROVE acked' = acked
    BY <1>4 DEF Stop, history
<1>5. ASSUME NEW r, NEW q, Closed(r, q) \/ CloseArtifact(r, q) PROVE acked' = acked
    BY <1>2, <1>3, <1>5, Zenon DEF Closed, CloseArtifact, CloseFailed
<1>6. ASSUME NEW r, UploadFailed(r) \/ AttemptFailed(r) PROVE acked' = acked
    BY <1>2, <1>3, <1>6 DEF UploadFailed, AttemptFailed, CloseFailed
<1>7. ASSUME NEW r \in Requests, Step(r) PROVE acked[n] \subseteq acked'[n]
    <2>1. CASE BindCreateBucket(r) \/ InsertBucket(r) \/ BindCreate(r) \/ InsertArtifact(r)
               \/ LookupArtifact(r)
        BY <1>2, <1>3, <2>1
        DEF BindCreateBucket, InsertBucket, BindCreate, InsertArtifact, LookupArtifact
    <2>2. CASE BindPost(r) \/ GrowArtifact(r)
        <3>1. BindAppend(r) => acked' = acked
            BY <1>2, <1>3 DEF BindAppend
        <3>2. QED
            BY <1>2, <1>3, <2>2, <3>1 DEF BindPost, GrowArtifact
    <2>3. CASE SetUploading(r) \/ ReadBody(r) \/ ReadChunks(r) \/ PutObject(r)
        BY <1>2, <1>3, <1>6, <2>3 DEF SetUploading, ReadBody, ReadChunks, PutObject, CloseFailed
    <2>4. CASE SetUploaded(r) \/ SetError(r) \/ DeleteLogChunks(r)
        BY <1>1, <1>2, <1>3, <1>5, <2>4 DEF SetUploaded, SetError, DeleteLogChunks, CloseFailed
    <2>5. CASE BindClose(r) \/ MarkComplete(r) \/ SetClosedWithoutData(r)
        BY <1>2, <1>3, <1>5, <2>5 DEF BindClose, MarkComplete, SetClosedWithoutData, CloseFailed
    <2>6. CASE BindCloseBucket(r) \/ UpdateBucket(r) \/ ListArtifacts(r) \/ NextArtifact(r)
        BY <1>2, <1>3, <1>5, <2>6
        DEF BindCloseBucket, UpdateBucket, ListArtifacts, NextArtifact, CloseFailed
    <2>7. CASE ReaderPanics(r)
        BY <1>4, <2>7 DEF ReaderPanics
    <2>8. CASE InsertLogChunk(r) \/ LastLogChunk(r)
        <3>1. CASE Acknowledge(r)
            BY <1>1, <3>1
        <3>2. CASE \E code : Respond(r, code)
            BY <1>2, <3>2
        <3>3. QED
            BY <2>8, <3>1, <3>2, Zenon DEF InsertLogChunk, LastLogChunk
    <2>9. QED
        BY <1>7, <2>1, <2>2, <2>3, <2>4, <2>5, <2>6, <2>7, <2>8 DEF Step
<1>8. QED
    BY <1>4, <1>7 DEF ServerStep, Serve, Crash

\* The post of a chunk is at one of four points while the log is open.
LEMMA AppendingPoint ==
    ASSUME IInv, NEW r \in Requests, req[r].op = "post", req[r].name = name,
           artifact[name].state = "APPENDING"
    PROVE  req[r].pc \in {"idle", "bind", "growArtifact", "insertLogChunk", "lastLogChunk"}
<1>1. RequestInv(req[r]) /\ req[r] \in Memory
    BY DEF IInv, TypeOK, Request
<1>2. req[r].pc \in Holding => req[r].art.state = "APPENDING"
    BY <1>1 DEF RequestInv, CopyInv
<1>3. QED
    BY <1>1, <1>2 DEF RequestInv, PointInv, Holding, Memory, ProgramPoints

\* A log that is open stays open until it is closed.
LEMMA StaysOpen ==
    ASSUME IInv, name \in Names, NEW r \in Requests, Step(r), ~Closes(req[r]),
           artifact[name].state = "APPENDING"
    PROVE  artifact'[name].state = "APPENDING"
<1>1. RequestInv(req[r]) /\ name \in Names /\ artifact \in [Names -> Row]
    BY DEF IInv, TypeOK
<1>2. UNCHANGED artifact => artifact'[name].state = "APPENDING"
    OBVIOUS
<1>3. ASSUME NEW row, NEW outcome, UpdateArtifact(req[r].name, row, outcome),
             req[r].name = name => row.state = "APPENDING"
      PROVE  artifact'[name].state = "APPENDING"
    BY <1>1, <1>3 DEF UpdateArtifact
<1>4. req[r].pc \in Holding /\ req[r].name = name => req[r].art.state = "APPENDING"
    BY <1>1 DEF RequestInv, CopyInv
<1>5. CASE GrowArtifact(r)
    <2>1. req[r].art \in Row
        BY DEF IInv, TypeOK, Request, Memory
    <2>2. \A size : [req[r].art EXCEPT !.size = size].state = req[r].art.state
        BY <2>1 DEF Row
    <2>3. req[r].pc \in Holding
        BY <1>5 DEF GrowArtifact, At, Holding
    <2>4. QED
        BY <1>3, <1>4, <1>5, <2>2, <2>3 DEF GrowArtifact
<1>6. CASE SetUploading(r) \/ SetUploaded(r) \/ SetError(r)
    <2>1. req[r].pc \in Holding /\ req[r].art.state # "APPENDING"
        BY <1>1, <1>6 DEF SetUploading, SetUploaded, SetError, At, Holding, RequestInv, PointInv
    <2>2. QED
        BY <1>3, <1>4, <1>6, <2>1 DEF SetUploading, SetUploaded, SetError
<1>7. CASE InsertArtifact(r)
    <2>1. artifact[name] # NoRow
        BY DEF NoRow
    <2>2. QED
        BY <1>1, <1>7, <2>1 DEF InsertArtifact
<1>8. CASE MarkComplete(r) \/ SetClosedWithoutData(r)
    BY <1>1, <1>8 DEF MarkComplete, SetClosedWithoutData, At, RequestInv, PointInv, Closes
<1>9. CASE BindCreateBucket(r) \/ InsertBucket(r) \/ BindCreate(r) \/ LookupArtifact(r)
           \/ BindCloseBucket(r) \/ UpdateBucket(r) \/ ListArtifacts(r) \/ NextArtifact(r)
    BY <1>2, <1>9 DEF BindCreateBucket, InsertBucket, BindCreate, LookupArtifact,
        BindCloseBucket, UpdateBucket, ListArtifacts, NextArtifact, tables
<1>10. CASE BindPost(r) \/ InsertLogChunk(r) \/ LastLogChunk(r) \/ ReadBody(r) \/ ReadChunks(r)
            \/ PutObject(r) \/ DeleteLogChunks(r) \/ BindClose(r)
    BY <1>2, <1>10 DEF BindPost, InsertLogChunk, LastLogChunk, ReadBody, ReadChunks,
        PutObject, DeleteLogChunks, BindClose, tables
<1>11. CASE ReaderPanics(r)
    BY <1>2, <1>11 DEF ReaderPanics, Stop, tables
<1>12. QED
    BY <1>5, <1>6, <1>7, <1>8, <1>9, <1>10, <1>11 DEF Step

\* What the post of a chunk to an open log comes to: the chunk is in the log when
\* the answer is 200.
LEMMA PostStep ==
    ASSUME IInv, name \in Names, NEW r \in Requests, Step(r), req[r].op = "post",
           req[r].name = name, artifact[name].state = "APPENDING"
    PROVE  \/ /\ req'[r] = Idle
              /\ reply'[r] \in Success => req[r].load \in acked'[name]
           \/ /\ req'[r].op = "post" /\ req'[r].name = name /\ req'[r].load = req[r].load
              /\ ~At(r, "idle")'
<1> DEFINE Q == req[r]
           Answered == /\ req'[r] = Idle
                       /\ reply'[r] \in Success => Q.load \in acked'[name]
           GoesOn == /\ req'[r].op = "post" /\ req'[r].name = name /\ req'[r].load = Q.load
                     /\ ~At(r, "idle")'
<1>1. /\ Q.pc \in {"bind", "growArtifact", "insertLogChunk", "lastLogChunk"}
      /\ Q \in Memory /\ name \in Names
      /\ req \in [Requests -> Request] /\ reply \in [Requests -> Replies]
      /\ acked \in [Names -> SUBSET Chunk]
    BY AppendingPoint, StepIsBusy DEF IInv, TypeOK, Request, At
<1>2. ASSUME NEW code, Respond(r, code), code \notin Success PROVE Answered
    BY <1>1, <1>2 DEF Respond, Answer
<1>3. ASSUME Acknowledge(r) PROVE Answered
    BY <1>1, <1>3 DEF Acknowledge, Answer
<1>4. ASSUME NEW pc, pc # "idle", NEW row, Continue(r, [Q EXCEPT !.pc = pc, !.art = row])
      PROVE  GoesOn
    BY <1>1, <1>4 DEF Continue, Memory, At
<1>5. CASE Q.pc = "bind"
    <2>1. BindPost(r)
        BY <1>1, <1>5 DEF Step, At, BindCreateBucket, InsertBucket, BindCreate, InsertArtifact,
            LookupArtifact, GrowArtifact, InsertLogChunk, LastLogChunk, SetUploading, ReadBody,
            ReadChunks, PutObject, SetUploaded, SetError, DeleteLogChunks, BindClose,
            MarkComplete, SetClosedWithoutData, BindCloseBucket, UpdateBucket, ListArtifacts,
            NextArtifact, ReaderPanics
    <2>2. (\E code : code \notin Success /\ Respond(r, code)) \/ BindAppend(r)
        BY <2>1 DEF BindPost, Success
    <2>3. ASSUME BindAppend(r)
          PROVE  \/ Respond(r, "400")
                 \/ \E pc : pc # "idle" /\ Continue(r, [Q EXCEPT !.pc = pc, !.art = artifact[name]])
        BY <2>3 DEF BindAppend, Bound
    <2>4. QED
        BY <1>2, <1>4, <2>2, <2>3 DEF Success
<1>6. CASE Q.pc = "growArtifact"
    <2>1. GrowArtifact(r)
        BY <1>1, <1>6 DEF Step, At, BindCreateBucket, InsertBucket, BindCreate, InsertArtifact,
            LookupArtifact, BindPost, InsertLogChunk, LastLogChunk, SetUploading, ReadBody,
            ReadChunks, PutObject, SetUploaded, SetError, DeleteLogChunks, BindClose,
            MarkComplete, SetClosedWithoutData, BindCloseBucket, UpdateBucket, ListArtifacts,
            NextArtifact, ReaderPanics
    <2>2. QED
        BY <1>2, <1>4, <2>1 DEF GrowArtifact, Success
<1>7. CASE Q.pc \in {"insertLogChunk", "lastLogChunk"}
    <2>1. InsertLogChunk(r) \/ LastLogChunk(r)
        BY <1>1, <1>7 DEF Step, At, BindCreateBucket, InsertBucket, BindCreate, InsertArtifact,
            LookupArtifact, BindPost, GrowArtifact, SetUploading, ReadBody,
            ReadChunks, PutObject, SetUploaded, SetError, DeleteLogChunks, BindClose,
            MarkComplete, SetClosedWithoutData, BindCloseBucket, UpdateBucket, ListArtifacts,
            NextArtifact, ReaderPanics
    <2>2. Acknowledge(r) \/ Respond(r, "400")
        BY <2>1, Zenon DEF InsertLogChunk, LastLogChunk
    <2>3. QED
        BY <1>2, <1>3, <2>2 DEF Success
<1>8. QED
    BY <1>1, <1>5, <1>6, <1>7

\* What the creation of the artifact comes to: an answer of 200 means the row that
\* was asked for, under the name the server has given it in the end.
LEMMA CreateStep ==
    ASSUME IInv, NEW r \in Requests, Step(r), Creates(req[r])
    PROVE  \/ /\ req'[r] = Idle
              /\ reply'[r] \in Success => artifact'[req[r].name] = NewArtifactRow(rest)
           \/ Creates(req'[r])
<1>1. /\ req[r] \in Memory /\ req[r].name \in Names /\ artifact \in [Names -> Row]
      /\ req \in [Requests -> Request] /\ reply \in [Requests -> Replies]
    BY DEF IInv, TypeOK, Request, Creates
<1>2. BindCreate(r) \/ InsertArtifact(r) \/ LookupArtifact(r)
    BY <1>1 DEF Creates, Step, At, BindCreateBucket, InsertBucket, BindPost,
        GrowArtifact, InsertLogChunk, LastLogChunk, SetUploading, ReadBody, ReadChunks,
        PutObject, SetUploaded, SetError, DeleteLogChunks, BindClose, MarkComplete,
        SetClosedWithoutData, BindCloseBucket, UpdateBucket, ListArtifacts, NextArtifact,
        ReaderPanics
<1>3. ASSUME NEW code, Respond(r, code), code \notin Success
      PROVE  req'[r] = Idle /\ reply'[r] \notin Success
    BY <1>1, <1>3 DEF Respond, Answer
<1>4. ASSUME NEW pc \in {"insertArtifact", "lookupArtifact"},
             \/ Continue(r, [req[r] EXCEPT !.pc = pc])
             \/ \E n \in Names : \E tries :
                    Continue(r, [req[r] EXCEPT !.pc = pc, !.name = n, !.tries = tries])
      PROVE  Creates(req'[r])
    BY <1>1, <1>4 DEF Continue, Creates, Memory
<1>5. CASE BindCreate(r)
    BY <1>3, <1>4, <1>5 DEF BindCreate, Success
<1>6. CASE InsertArtifact(r)
    <2>1. CASE /\ artifact' = [artifact EXCEPT ![req[r].name] = req[r].art]
               /\ Respond(r, "200")
        BY <1>1, <2>1 DEF Respond, Answer, Creates
    <2>2. CASE Respond(r, "500") \/ Continue(r, [req[r] EXCEPT !.pc = "lookupArtifact"])
        BY <1>3, <1>4, <2>2 DEF Success
    <2>3. QED
        BY <1>6, <2>1, <2>2 DEF InsertArtifact, WriteOutcome, Applied
<1>7. CASE LookupArtifact(r)
    BY <1>3, <1>4, <1>7 DEF LookupArtifact, Success
<1>8. QED
    BY <1>2, <1>5, <1>6, <1>7

-----------------------------------------------------------------------------
(* What a step of the client does to the server.                           *)

LEMMA Fits ==
    ASSUME NEW o \in Nat, NEW s \in Nat, NEW l \in Nat, NEW a \in Nat, NEW m \in Nat,
           o * a <= l * m, s * a <= m, l + 1 <= a
    PROVE  o + s <= m
<1> SUFFICES ASSUME m + 1 <= o + s PROVE FALSE
    OBVIOUS
<1>1. (o + s) * a = o * a + s * a /\ (l + 1) * m = l * m + m /\ (m + 1) * a = m * a + a
    OBVIOUS
<1>2. (m + 1) * a <= (o + s) * a
    <2>1. PICK d \in Nat : o + s = (m + 1) + d
        <3>1. (o + s) - (m + 1) \in Nat
            OBVIOUS
        <3>2. QED
            BY <3>1
    <2>2. ((m + 1) + d) * a = (m + 1) * a + d * a /\ d * a \in Nat
        OBVIOUS
    <2>3. (m + 1) * a \in Nat
        OBVIOUS
    <2>4. QED
        BY <2>1, <2>2, <2>3
<1>3. (l + 1) * m <= a * m
    <2>1. PICK d \in Nat : a = (l + 1) + d
        <3>1. a - (l + 1) \in Nat
            OBVIOUS
        <3>2. QED
            BY <3>1
    <2>2. ((l + 1) + d) * m = (l + 1) * m + d * m /\ d * m \in Nat
        OBVIOUS
    <2>3. (l + 1) * m \in Nat
        OBVIOUS
    <2>4. QED
        BY <2>1, <2>2, <2>3
<1>4. a * m = m * a /\ a * m \in Nat /\ o * a \in Nat /\ s * a \in Nat /\ l * m \in Nat
    OBVIOUS
<1>5. QED
    BY <1>1, <1>2, <1>3, <1>4

LEMMA LengthIsNat ==
    ASSUME NEW S, NEW a \in Seq(S)
    PROVE  Len(a) \in Nat
OBVIOUS

LEMMA Lengths ==
    ASSUME NEW S, NEW a \in Seq(S), NEW b \in Seq(S), NEW c \in Seq(S)
    PROVE  Len(a \o b \o c) = Len(a) + Len(b) + Len(c)
<1>1. a \o b \in Seq(S) /\ Len(a \o b) = Len(a) + Len(b)
    OBVIOUS
<1>2. QED
    BY <1>1

LEMMA RoomLeft ==
    ASSUME NEW S, NEW a \in Seq(S), NEW b \in Seq(S), NEW c \in Seq(S), NEW m \in Nat
    PROVE  Len(b) = 1 /\ Len(a \o b \o c) <= m => Len(a) + 1 <= m
<1>1. Len(a \o b \o c) = Len(a) + Len(b) + Len(c)
    BY Lengths
<1>2. Len(a) \in Nat /\ Len(c) \in Nat
    BY LengthIsNat
<1>3. QED
    BY <1>1, <1>2

\* A chunk that is posted is one the server could be sent.
LEMMA PostFits ==
    ASSUME RoomInv, LogProofs!IInv, pusher.pc = "post"
    PROVE  Load \in Loads
<1>1. /\ pusher.chunk \in Seq(Chunks) /\ Len(pusher.chunk) = 1
      /\ sent \in Seq(Chunks) /\ appended \in Seq(Chunks) /\ bytestream.queue \in Seq(Chunks)
      /\ offset \in Nat
    BY DEF LogProofs!IInv, LogProofs!TypeOK, LogProofs!PusherInv, LogProofs!Pusher
<1>2. pusher.chunk[1] \in Chunks
    BY <1>1
<1>3. PICK c \in Chunks : c = pusher.chunk[1]
    BY <1>2
<1>4. c.size \in Nat /\ c.size \in Sizes /\ c.size <= MaxSize /\ c.data \in Data
    BY SizesAssumption DEF Chunks
<1>5. Len(sent) + 1 <= MaxAppends
    <2>1. appended = sent \o pusher.chunk \o bytestream.queue
        BY DEF LogProofs!IInv, LogProofs!NothingDropped
    <2>2. Len(appended) <= MaxAppends
        BY DEF RoomInv
    <2>3. QED
        BY <1>1, <2>1, <2>2, BoundsAssumption, RoomLeft
<1>6. c.size * MaxAppends <= MaxSize
    BY <1>4, RoomAssumption
<1>7. offset + c.size <= MaxSize
    <2>1. Len(sent) \in Nat /\ MaxAppends \in Nat /\ MaxSize \in Nat
        BY <1>1, BoundsAssumption, SizesAssumption
    <2>2. offset * MaxAppends <= Len(sent) * MaxSize
        BY DEF RoomInv
    <2>3. QED
        BY <1>1, <1>4, <1>5, <1>6, <2>1, <2>2, Fits
<1>8. offset \in 0 .. MaxSize
    BY <1>1, <1>4, <1>7, SizesAssumption
<1>9. QED
    BY <1>3, <1>4, <1>7, <1>8 DEF Load, Loads

\* So is a stream.
LEMMA StreamFits ==
    ASSUME RoomInv
    PROVE  [offset |-> 0, size |-> rest, data |-> Content] \in Loads
<1>1. Content \in Data
    BY StreamAssumption DEF Content
<1>2. rest \in Sizes /\ rest \in 0 .. MaxSize
    BY DEF RoomInv
<1>3. QED
    BY <1>1, <1>2, SizesAssumption DEF Loads

\* Each step of the system is one of the server, a request on its way, the end of
\* one for the client, or nothing the server takes part in.
LEMMA Kinds ==
    ASSUME RoomInv, LogProofs!IInv, UploadNext
    PROVE  \/ ServerStep
           \/ /\ \E q \in Arrivals :
                    /\ Send(q)
                    /\ q.op = "post" => q.name = name /\ q.load.offset \in {0, offset}
              /\ UNCHANGED cancelled
           \/ (\E e : Ended(e)) /\ UNCHANGED cancelled
           \/ UNCHANGED <<store, conn>> /\ (cancelled => cancelled')
<1>1. Idle \in Memory /\ name \in Names /\ Name \in Names
    BY IdleType, NameAssumption DEF Request, RoomInv
<1>2. \A op \in {"createBucket", "closeBucket"} :
        BucketRequest(op) \in Arrivals /\ BucketRequest(op).op # "post"
    BY <1>1 DEF Arrivals, BucketRequest, Memory
<1>3. ArrivalsFor(name) \subseteq Arrivals /\ ArrivalsFor(Name) \subseteq Arrivals
    BY <1>1 DEF Arrivals
<1>4. /\ \A row \in NewArtifact : CreateRequest(Name, row) \in ArrivalsFor(Name)
      /\ \A load \in Loads : PostRequest(name, load) \in ArrivalsFor(name)
      /\ CloseRequest(name) \in ArrivalsFor(name)
    BY DEF ArrivalsFor
<1>5. /\ \A row : CreateRequest(Name, row).op # "post"
      /\ \A load : PostRequest(name, load).name = name /\ PostRequest(name, load).load = load
      /\ CloseRequest(name).op # "post"
    BY <1>1 DEF CreateRequest, PostRequest, CloseRequest, Memory
<1>6. CASE NewBucket \/ CloseBucket
    BY <1>2, <1>6 DEF NewBucket, CloseBucket
<1>7. CASE \E size \in Sizes \cap 0 .. MaxSize : NewArtifactRequested(size)
    <2>1. PICK size \in Sizes : NewArtifactRequested(size)
        BY <1>7
    <2>2. NewArtifactRow(size) \in NewArtifact
        BY DEF NewArtifactRow, NewArtifact
    <2>3. QED
        BY <1>3, <1>4, <1>5, <2>1, <2>2 DEF NewArtifactRequested
<1>8. CASE PostChunk
    <2>1. Load \in Loads
        BY <1>8, PostFits DEF PostChunk
    <2>2. Send(PostRequest(name, Load))
        BY <1>8 DEF PostChunk, Load
    <2>3. Load.offset = offset
        BY DEF Load
    <2>4. UNCHANGED cancelled
        BY <1>8 DEF PostChunk
    <2>5. QED
        BY <1>3, <1>4, <1>5, <2>1, <2>2, <2>3, <2>4
<1>9. CASE PostStream
    <2>1. PICK load \in Loads : load = [offset |-> 0, size |-> rest, data |-> Content]
        BY StreamFits
    <2>2. Send(PostRequest(name, load)) /\ UNCHANGED cancelled /\ load.offset = 0
        BY <1>9, <2>1 DEF PostStream
    <2>3. QED
        BY <1>3, <1>4, <1>5, <2>2
<1>10. CASE PostClose
    BY <1>3, <1>4, <1>5, <1>10 DEF PostClose
<1>11. CASE NewBucketReturns \/ NewArtifactReturns
    BY <1>11 DEF NewBucketReturns, NewArtifactReturns
<1>12. CASE PostChunkReturns \/ PostCloseReturns \/ PostStreamReturns
    BY <1>12 DEF PostChunkReturns, PostCloseReturns, PostStreamReturns, Log!PostAnswered,
        Log!CloseAnswered, File!PostAnswered
<1>13. CASE GetBucket \/ Cancel \/ CallAppendLog \/ CallFlush \/ CallClose
    BY <1>13 DEF GetBucket, Cancel, CallAppendLog, CallFlush, CallClose, Log!AppendLog, Log!Flush
<1>14. CASE CallUploadArtifact \/ FileStep
    BY <1>14 DEF CallUploadArtifact, FileStep, File!UploadArtifact, File!Tick, File!Bail
<1>15. CASE LogCallerStep \/ LogPusherStep
    BY <1>15 DEF LogCallerStep, LogPusherStep, Log!CallerStep, Log!PusherStep, Log!Enqueue,
        Log!FlushCancelled, Log!FlushFails, Log!FlushCompletes, Log!Range, Log!Tick, Log!Bail
<1>16. QED
    BY <1>6, <1>7, <1>8, <1>9, <1>10, <1>11, <1>12, <1>13, <1>14, <1>15
    DEF UploadNext, Requesting

\* The client does not talk to the server while it is waiting, and what it posts
\* follows what has been acknowledged.
LEMMA UsesOrderly ==
    ASSUME Alone, OpenInv, RoomInv, LogProofs!IInv, [UploadNext]_system
    PROVE  [OrderlyNext]_vars
<1>1. CASE UNCHANGED store
    BY <1>1 DEF store
<1>2. CASE ServerStep
    BY <1>2 DEF ServerStep, Serve, OrderlyNext
<1>3. ASSUME NEW q \in Arrivals, Send(q),
             q.op = "post" => q.name = name /\ q.load.offset \in {0, offset}
      PROVE  OrderlyNext
    <2>1. PICK r \in Requests : Receive(r, q)
        BY <1>3 DEF Send
    <2>2. ASSUME NEW other \in Requests PROVE ~Conflict(q, req[other])
        <3>1. req[other] = Idle
            BY <1>3, NoRequestAssumption DEF Send, Alone
        <3>2. QED
            BY <3>1 DEF Conflict, Idle
    <2>3. Acknowledged(name, 0) /\ Acknowledged(name, offset)
        BY DEF OpenInv, Acknowledged
    <2>4. q.op = "post" => Acknowledged(q.name, q.load.offset)
        BY <1>3, <2>3
    <2>5. QED
        BY <2>1, <2>2, <2>4 DEF OrderlyReceive, OrderlyNext
<1>4. (\E e : Ended(e)) => UNCHANGED store
    BY DEF Ended
<1>5. UNCHANGED system => UNCHANGED store
    BY DEF system
<1>6. QED
    BY <1>1, <1>2, <1>3, <1>4, <1>5, Kinds

-----------------------------------------------------------------------------
(* Each part of the invariant is kept.                                     *)

LEMMA AloneKept ==
    ASSUME TypeOK, "outlive" \notin Network, Alone, RoomInv, LogProofs!IInv, UploadNext
    PROVE  Alone'
<1>1. cancelled \in BOOLEAN
    BY DEF LogProofs!IInv, LogProofs!TypeOK
<1>2. CASE ServerStep
    <2>1. UNCHANGED <<conn, cancelled>>
        BY <1>2 DEF ServerStep, Serve, client
    <2>2. \A r \in Requests : req[r] = Idle => req'[r] = Idle
        BY <1>2, ServerMoves DEF At, Idle
    <2>3. \A r \in Requests : At(r, "idle")' => req'[r] = Idle
        BY <1>2, ServerMoves DEF At, Alone, Carries
    <2>4. QED
        BY <2>1, <2>2, <2>3 DEF Alone
<1>3. ASSUME NEW q \in Arrivals, Send(q), UNCHANGED cancelled PROVE Alone'
    <2>1. q.pc = "bind"
        BY ArrivalPoint
    <2>2. PICK r \in Requests : req' = [req EXCEPT ![r] = q] /\ conn' = r
        BY <1>3 DEF Send, Receive
    <2>3. \A p \in Requests : req[p] = Idle
        BY <1>3, NoRequestAssumption DEF Send, Alone
    <2>4. QED
        BY <2>1, <2>2, <2>3 DEF Alone, At, TypeOK
<1>4. ASSUME NEW e, Ended(e), UNCHANGED cancelled PROVE Alone'
    <2>1. conn' = NoRequest /\ req' = req
        BY <1>4 DEF Ended, store, vars
    <2>2. ~cancelled => conn = NoRequest \/ At(conn, "idle")
        BY <1>4 DEF Ended
    <2>3. QED
        BY <1>4, <2>1, <2>2 DEF Alone, At
<1>5. CASE UNCHANGED <<store, conn>> /\ (cancelled => cancelled')
    BY <1>1, <1>5 DEF Alone, At, store, vars
<1>6. QED
    BY <1>2, <1>3, <1>4, <1>5, Kinds

LEMMA CallKept ==
    ASSUME CallInv, LogProofs!IInv, UploadNext
    PROVE  CallInv'
<1>1. CASE UNCHANGED <<log, program, cancelled>>
    BY <1>1 DEF CallInv, log
<1>2. CASE NewBucketReturns \/ GetBucket \/ NewArtifactReturns
    BY <1>2 DEF CallInv, log, NewBucketReturns, GetBucket, NewArtifactReturns
<1>3. CASE CloseBucket
    BY <1>3 DEF CallInv, log, CloseBucket, Quiet, Logging, Log!Idle
<1>4. CASE CallAppendLog
    BY <1>4 DEF CallInv, CallAppendLog, Log!AppendLog, LogProofs!IInv, LogProofs!TypeOK,
        LogProofs!Caller
<1>5. CASE CallFlush \/ CallClose
    BY <1>5 DEF CallInv, CallFlush, CallClose, Logging, Log!Flush, Log!Idle, Log!Panic,
        LogProofs!IInv, LogProofs!TypeOK, LogProofs!Caller
<1>6. CASE LogCallerStep
    <2>1. UNCHANGED <<program, cancelled>> /\ program \in {"log", "done"}
        BY <1>6 DEF LogCallerStep, Logging, Log!CallerStep, Log!Enqueue, Log!FlushCancelled,
            Log!FlushFails, Log!FlushCompletes
    <2>2. \/ caller'.in \in {"program", "panic"}
          \/ /\ caller'.in = "Close" /\ caller.in = "Flush" /\ caller.closing
             /\ bytestream' = Log!NewStream /\ pusher' = Log!NewPusher
        BY <1>6 DEF LogCallerStep, Log!CallerStep, Log!Enqueue, Log!FlushCancelled,
            Log!FlushFails, Log!FlushCompletes, Log!Panic, Log!CallerReturns, LogProofs!IInv,
            LogProofs!TypeOK, LogProofs!Caller
    <2>3. QED
        BY <2>1, <2>2 DEF CallInv
<1>7. CASE LogPusherStep
    BY <1>7 DEF CallInv, LogPusherStep, Logging, Log!PusherStep, Log!Range, Log!Tick, Log!Bail,
        Log!NewStream, Log!NewPusher
<1>8. CASE PostChunkReturns
    BY <1>8 DEF CallInv, PostChunkReturns, Logging, Log!PostAnswered, Log!NewPusher
<1>9. CASE PostCloseReturns
    BY <1>9 DEF CallInv, PostCloseReturns, Log!CloseAnswered, Log!CallerReturns, LogProofs!IInv,
        LogProofs!TypeOK, LogProofs!Caller
<1>10. CASE Cancel
    BY <1>10 DEF CallInv, Cancel, Logging, log
<1>11. CASE CallUploadArtifact \/ FileStep \/ PostStreamReturns
    BY <1>1, <1>11 DEF CallUploadArtifact, FileStep, PostStreamReturns, File!UploadArtifact,
        File!Tick, File!Bail, File!PostAnswered
<1>12. CASE NewBucket \/ PostChunk \/ PostClose \/ PostStream \/ ServerStep
    BY <1>1, <1>12 DEF NewBucket, PostChunk, PostClose, PostStream, ServerStep, Serve, client
<1>13. CASE \E size \in Sizes \cap 0 .. MaxSize : NewArtifactRequested(size)
    BY <1>1, <1>13 DEF NewArtifactRequested
<1>14. QED
    BY <1>2, <1>3, <1>4, <1>5, <1>6, <1>7, <1>8, <1>9, <1>10, <1>11, <1>12, <1>13
    DEF UploadNext, Requesting

\* One more chunk of the log is sent.
LEMMA SentFits ==
    ASSUME NEW o \in Nat, NEW s \in Nat, NEW l \in Nat, NEW a \in Nat, NEW m \in Nat,
           o * a <= l * m, s * a <= m
    PROVE  (o + s) * a <= (l + 1) * m
<1>1. (o + s) * a = o * a + s * a /\ (l + 1) * m = l * m + m
    OBVIOUS
<1>2. o * a \in Nat /\ s * a \in Nat /\ l * m \in Nat
    OBVIOUS
<1>3. QED
    BY <1>1, <1>2

LEMMA OneMore ==
    ASSUME NEW S, NEW a \in Seq(S), NEW b \in Seq(S)
    PROVE  Len(b) = 1 => Len(a \o b) = Len(a) + 1
<1>1. Len(a \o b) = Len(a) + Len(b)
    OBVIOUS
<1>2. QED
    BY <1>1

\* The artifact's name is settled when its creation ends.
LEMMA NameKept ==
    ASSUME Alone, WaitInv, UploadNext
    PROVE  \/ name' = name
           \/ /\ ServerStep /\ program = "bucket" /\ conn # NoRequest
              /\ Creates(req[conn]) /\ name' = req[conn].name
<1>1. CASE ServerStep
    <2>1. CASE conn # NoRequest /\ req[conn].op = "create"
        <3>1. conn \in Requests /\ program = "bucket"
            BY <2>1 DEF Alone, WaitInv
        <3>2. ~At(conn, "idle")
            BY <2>1, <3>1 DEF Alone, Idle
        <3>3. Creates(req[conn])
            BY <2>1, <3>1, <3>2 DEF WaitInv
        <3>4. QED
            BY <1>1, <2>1, <3>1, <3>3 DEF ServerStep, Serve, Named
    <2>2. QED
        BY <1>1, <2>1 DEF ServerStep, Serve, Named
<1>2. (\E e : Ended(e)) \/ (\E q : Send(q)) \/ UNCHANGED store => name' = name
    BY DEF Ended, Send, store
<1>3. QED
    BY <1>1, <1>2 DEF UploadNext, Requesting, NewBucket, NewBucketReturns, GetBucket,
        NewArtifactRequested, NewArtifactReturns, CloseBucket, Cancel, CallAppendLog, CallFlush,
        CallClose, CallUploadArtifact, LogCallerStep, LogPusherStep, FileStep, PostChunk,
        PostChunkReturns, PostClose, PostCloseReturns, PostStream, PostStreamReturns

LEMMA RoomKept ==
    ASSUME Alone, WaitInv, RoomInv, LogProofs!IInv, UploadNext
    PROVE  RoomInv'
<1> name' \in Names
    BY NameKept DEF RoomInv, Creates
<1>1. /\ caller \in Log!Caller /\ caller.chunk \in Seq(Chunks)
      /\ sent \in Seq(Chunks) /\ appended \in Seq(Chunks)
      /\ Len(sent) \in Nat /\ Len(appended) \in Nat /\ offset \in Nat
    BY DEF LogProofs!IInv, LogProofs!TypeOK, LogProofs!Caller, Log!Caller, LogProofs!Errors,
        Log!Errors
<1>2. rest' \in Sizes \cap 0 .. MaxSize
    <2>1. CASE \E size \in Sizes \cap 0 .. MaxSize : NewArtifactRequested(size)
        BY <2>1 DEF NewArtifactRequested
    <2>2. CASE PostStreamReturns
        <3>1. PICK left \in 0 .. rest : rest' = left
            BY <2>2 DEF PostStreamReturns, File!PostAnswered
        <3>2. rest \in Sizes /\ rest \in 0 .. MaxSize
            BY DEF RoomInv
        <3>3. 0 .. rest \subseteq Sizes
            BY <3>2, StreamAssumption
        <3>4. QED
            BY <3>1, <3>2, <3>3, SizesAssumption
    <2>3. CASE UNCHANGED rest
        BY <2>3 DEF RoomInv
    <2>4. QED
        BY <2>1, <2>2, <2>3
        DEF UploadNext, Requesting, NewBucket, NewBucketReturns, GetBucket, NewArtifactReturns,
            CloseBucket, Cancel, CallAppendLog, CallFlush, CallClose, CallUploadArtifact,
            File!UploadArtifact, LogCallerStep, LogPusherStep, FileStep, File!Tick, File!Bail,
            PostChunk, PostChunkReturns, PostClose, PostCloseReturns, PostStream, ServerStep, Serve,
            client, file
<1>3. CASE UNCHANGED log
    BY <1>2, <1>3 DEF RoomInv, log
<1>4. CASE \E chunk \in Chunks : Log!AppendLog(chunk)
    <2>1. PICK chunk \in Chunks : Log!AppendLog(chunk)
        BY <1>4
    <2>2. caller'.in = "AppendLog" /\ caller'.chunk = <<chunk>> /\ Len(appended) < MaxAppends
        BY <1>1, <2>1 DEF Log!AppendLog, Log!Caller
    <2>3. Len(caller'.chunk) = 1 /\ UNCHANGED <<offset, sent, appended>>
        BY <2>1, <2>2 DEF Log!AppendLog
    <2>4. QED
        BY <1>2, <2>2, <2>3 DEF RoomInv
<1>5. CASE Log!Enqueue
    <2>1. CASE Log!Panic /\ UNCHANGED <<offset, sent, appended>>
        BY <1>1, <1>2, <2>1 DEF RoomInv, Log!Panic, Log!Caller
    <2>2. CASE /\ appended' = appended \o caller.chunk /\ caller.in = "AppendLog"
               /\ Log!CallerReturns("nil") /\ UNCHANGED <<offset, sent>>
        <3>1. Len(appended) < MaxAppends /\ Len(caller.chunk) = 1
            BY <2>2 DEF RoomInv
        <3>2. Len(appended') = Len(appended) + 1
            BY <1>1, <2>2, <3>1, OneMore
        <3>3. Len(appended') <= MaxAppends
            BY <1>1, <3>1, <3>2, BoundsAssumption
        <3>4. caller'.in = "program"
            BY <1>1, <2>2 DEF Log!CallerReturns, Log!Caller
        <3>5. QED
            BY <1>2, <2>2, <3>3, <3>4 DEF RoomInv
    <2>3. QED
        BY <1>5, <2>1, <2>2 DEF Log!Enqueue
<1>6. ASSUME UNCHANGED <<offset, sent, appended>>,
             caller' = caller \/ caller'.in \in {"program", "panic", "Flush", "Close"}
      PROVE  RoomInv'
    BY <1>2, <1>6 DEF RoomInv
<1>7. CASE Log!FlushCancelled \/ Log!FlushFails \/ Log!FlushCompletes
           \/ \E e \in Log!Errors : Log!CloseAnswered(e)
    BY <1>1, <1>6, <1>7 DEF Log!FlushCancelled, Log!FlushFails, Log!FlushCompletes,
        Log!CloseAnswered, Log!CallerReturns, Log!Caller
<1>8. CASE \E closing \in BOOLEAN : Log!Flush(closing)
    BY <1>1, <1>6, <1>8 DEF Log!Flush, Log!Panic, Log!Caller
<1>9. CASE Log!PusherStep \/ Log!Cancel
    BY <1>6, <1>9 DEF Log!PusherStep, Log!Range, Log!Tick, Log!Bail, Log!Cancel
<1>10. ASSUME NEW e \in Log!Errors, Log!PostAnswered(e) PROVE RoomInv'
    <2>1. CASE UNCHANGED <<offset, sent>>
        BY <1>6, <1>10, <2>1 DEF Log!PostAnswered
    <2>2. CASE offset' = offset + pusher.chunk[1].size /\ sent' = sent \o pusher.chunk
        <3>1. pusher.chunk \in Seq(Chunks) /\ Len(pusher.chunk) = 1
            BY <1>10 DEF Log!PostAnswered, LogProofs!IInv, LogProofs!TypeOK, LogProofs!PusherInv,
                LogProofs!Pusher
        <3>2. PICK c \in Chunks : c = pusher.chunk[1]
            BY <3>1
        <3>3. c.size \in Nat /\ c.size \in Sizes
            BY SizesAssumption DEF Chunks
        <3>4. Len(sent') = Len(sent) + 1
            BY <1>1, <2>2, <3>1, OneMore
        <3>5. c.size * MaxAppends <= MaxSize /\ offset * MaxAppends <= Len(sent) * MaxSize
            BY <3>3, RoomAssumption DEF RoomInv
        <3>6. (offset + c.size) * MaxAppends <= (Len(sent) + 1) * MaxSize
            BY <1>1, <3>3, <3>5, SentFits, BoundsAssumption, SizesAssumption
        <3>7. UNCHANGED <<appended, caller>>
            BY <1>10 DEF Log!PostAnswered
        <3>8. offset' = offset + c.size
            BY <2>2, <3>2
        <3>9. offset' * MaxAppends <= Len(sent') * MaxSize
            BY <3>4, <3>6, <3>8
        <3>10. QED
            BY <1>2, <3>7, <3>9 DEF RoomInv
    <2>3. QED
        BY <1>10, <2>1, <2>2 DEF Log!PostAnswered
<1>11. QED
    BY <1>3, <1>4, <1>5, <1>7, <1>8, <1>9, <1>10, LogStep
    DEF Log!Next, Log!Program, Log!CallerStep

\* An answer that is no error ends the wait of the client.
LEMMA EndedWell ==
    ASSUME Ended("nil")
    PROVE  conn # NoRequest /\ At(conn, "idle") /\ reply[conn] \in Success
BY DEF Ended, ErrorOf, Success

\* A log that is open has been open, or has just been created.
LEMMA OpenBefore ==
    ASSUME CallInv, LogProofs!IInv, UploadNext, Open'
    PROVE  Open \/ (NewArtifactReturns /\ program' = "log")
<1>1. CASE UNCHANGED <<log, program>>
    BY <1>1 DEF Open, log
<1>2. CASE NewBucketReturns \/ GetBucket \/ NewArtifactReturns \/ CloseBucket \/ Cancel
    <2>1. NewArtifactReturns => program' # "done"
        BY DEF NewArtifactReturns
    <2>2. CASE NewArtifactReturns
        BY <2>1, <2>2 DEF Open
    <2>3. QED
        BY <1>1, <1>2, <2>2 DEF Open, NewBucketReturns, GetBucket, CloseBucket, Cancel
<1>3. CASE CallAppendLog \/ CallFlush \/ CallClose
    <2>1. Log!Flush(TRUE) \/ Log!Flush(FALSE) =>
            bytestream'.queue = bytestream.queue /\ pusher' = pusher
        BY DEF Log!Flush, LogProofs!IInv, LogProofs!TypeOK
    <2>2. QED
        BY <1>3, <2>1 DEF Open, CallAppendLog, CallFlush, CallClose, Logging
<1>4. CASE LogCallerStep
    <2>1. CASE Log!Enqueue
        BY <1>4, <2>1 DEF Open, LogCallerStep, Log!Enqueue, Logging, CallInv
    <2>2. CASE Log!FlushCancelled \/ Log!FlushFails
        BY <1>4, <2>2 DEF Open, LogCallerStep, Log!FlushCancelled, Log!FlushFails, LogProofs!IInv,
            LogProofs!TypeOK, LogProofs!Pusher
    <2>3. CASE Log!FlushCompletes
        BY <1>4, <2>3 DEF Open, LogCallerStep, Log!FlushCompletes, Log!NewStream, Log!NewPusher
    <2>4. QED
        BY <1>4, <2>1, <2>2, <2>3 DEF LogCallerStep, Log!CallerStep
<1>5. CASE LogPusherStep
    BY <1>5 DEF Open, LogPusherStep, Logging, Log!PusherStep, Log!Range, Log!Tick, Log!Bail,
        LogProofs!IInv, LogProofs!TypeOK, LogProofs!Pusher
<1>6. CASE PostChunkReturns
    BY <1>6 DEF Open, PostChunkReturns, Logging, Log!PostAnswered, LogProofs!IInv, LogProofs!TypeOK,
        LogProofs!Pusher, LogProofs!PusherInv
<1>7. CASE PostCloseReturns
    BY <1>7 DEF Open, PostCloseReturns, Logging, Log!CloseAnswered
<1>8. CASE CallUploadArtifact \/ FileStep \/ PostStreamReturns
    BY <1>1, <1>8 DEF CallUploadArtifact, FileStep, PostStreamReturns
<1>9. CASE NewBucket \/ PostChunk \/ PostClose \/ PostStream \/ ServerStep
    BY <1>1, <1>9 DEF NewBucket, PostChunk, PostClose, PostStream, ServerStep, Serve, client
<1>10. CASE \E size \in Sizes \cap 0 .. MaxSize : NewArtifactRequested(size)
    BY <1>1, <1>10 DEF NewArtifactRequested
<1>11. QED
    BY <1>2, <1>3, <1>4, <1>5, <1>6, <1>7, <1>8, <1>9, <1>10 DEF UploadNext, Requesting

LEMMA AckedFurther ==
    ASSUME NEW load, load.offset \in Nat, load.size \in Nat, load \in acked[name],
           Acknowledged(name, load.offset)
    PROVE  Acknowledged(name, load.offset + load.size)
<1> SUFFICES ASSUME NEW p \in 1 .. load.offset + load.size
             PROVE  \E c \in acked[name] : Covers(c, p)
    BY DEF Acknowledged
<1>1. CASE p <= load.offset
    BY <1>1 DEF Acknowledged
<1>2. CASE load.offset < p
    BY <1>2 DEF Covers
<1>3. QED
    BY <1>1, <1>2

LEMMA OpenKept ==
    ASSUME IInv, UInv, LogProofs!IInv, UploadNext
    PROVE  OpenInv'
<1>1. /\ artifact \in [Names -> Row] /\ acked \in [Names -> SUBSET Chunk] /\ name \in Names
      /\ req \in [Requests -> Request] /\ offset \in Nat
    BY DEF IInv, TypeOK, LogProofs!IInv, LogProofs!TypeOK, UInv, RoomInv
<1>2. ASSUME ~Closes(Idle), Open' => Open, UNCHANGED <<tables, acked, offset, name>>,
             Open => \A r \in Requests : ~Closes(req'[r])
      PROVE  OpenInv'
    BY <1>2 DEF UInv, OpenInv, Acknowledged, tables
<1>3. ~Closes(Idle)
    BY DEF Closes, Idle
<1>4. CASE ServerStep
    <2>1. UNCHANGED client
        BY <1>4 DEF ServerStep, Serve
    <2>2. Open' = Open /\ offset' = offset
        BY <2>1 DEF client, log, Open
    <2>3. Open => \A r \in Requests : ~Closes(req'[r])
        BY <1>1, <1>3, <1>4, ServerMoves DEF UInv, OpenInv, Closes, Carries, IInv
    <2>4. Open => artifact'[name].state = "APPENDING"
        <3>1. ASSUME NEW dying, Stop(dying) PROVE artifact' = artifact
            BY <3>1 DEF Stop, tables
        <3>2. QED
            BY <1>1, <1>4, <3>1, StaysOpen DEF ServerStep, Serve, Crash, UInv, OpenInv
    <2>5. name' = name \/ (program = "bucket" /\ offset = 0)
        BY NameKept DEF UInv, CallInv
    <2>6. Open => name' = name
        BY <2>5 DEF Open
    <2>7. Acknowledged(name, offset)'
        <3>1. CASE offset = 0
            BY <2>2, <3>1 DEF Acknowledged
        <3>2. CASE name' = name
            BY <1>1, <1>4, <2>2, <3>2, AckedGrows DEF IInv, UInv, OpenInv, Acknowledged
        <3>3. QED
            BY <2>5, <3>1, <3>2
    <2>8. QED
        BY <2>2, <2>3, <2>4, <2>6, <2>7 DEF OpenInv
<1>5. ASSUME NEW q, Send(q), ~Closes(q), Open' => Open, offset' = offset PROVE OpenInv'
    <2>1. UNCHANGED <<tables, acked, name>>
        BY <1>5 DEF Send, Receive, history
    <2>2. PICK r \in Requests : req' = [req EXCEPT ![r] = q]
        BY <1>5 DEF Send, Receive
    <2>3. Open => \A p \in Requests : ~Closes(req'[p])
        BY <1>1, <1>5, <2>2 DEF UInv, OpenInv
    <2>4. QED
        BY <1>2, <1>3, <1>5, <2>1, <2>3
<1>6. ASSUME NEW q, Send(q), ~Open', offset' = offset PROVE OpenInv'
    BY <1>6 DEF UInv, OpenInv, Acknowledged, Send, Receive, history
<1>7. ASSUME UNCHANGED store, Open' => Open, offset' = offset PROVE OpenInv'
    BY <1>2, <1>3, <1>7 DEF store, vars, tables, UInv, OpenInv
<1>8. ~NewArtifactReturns => (Open' => Open)
    BY OpenBefore DEF UInv
<1>9. CASE NewBucket \/ PostChunk \/ PostStream
           \/ \E size \in Sizes \cap 0 .. MaxSize : NewArtifactRequested(size)
    <2>1. UNCHANGED <<program, log>>
        BY <1>9 DEF NewBucket, PostChunk, PostStream, NewArtifactRequested
    <2>2. Open' = Open /\ offset' = offset
        BY <2>1 DEF Open, log
    <2>3. /\ ~Closes(BucketRequest("createBucket"))
          /\ \A row : ~Closes(CreateRequest(Name, row))
          /\ \A load : ~Closes(PostRequest(name, load))
        BY IdleType DEF Closes, BucketRequest, CreateRequest, PostRequest, Request, Memory
    <2>4. \E q : Send(q) /\ ~Closes(q)
        BY <1>9, <2>3 DEF NewBucket, PostChunk, PostStream, NewArtifactRequested
    <2>5. PICK q : Send(q) /\ ~Closes(q)
        BY <2>4
    <2>6. QED
        BY <1>5, <2>2, <2>5
<1>10. CASE PostClose \/ CloseBucket
    <2>1. ~Open' /\ offset' = offset
        <3>1. UNCHANGED log
            BY <1>10 DEF PostClose, CloseBucket
        <3>2. CASE CloseBucket
            BY <3>1, <3>2 DEF CloseBucket, Open, log
        <3>3. CASE PostClose
            <4>1. program' = program /\ caller.in = "Close"
                BY <3>3 DEF PostClose
            <4>2. program = "done" /\ pusher.chunk = <<>> /\ bytestream.queue = <<>>
                BY <4>1 DEF UInv, CallInv, Log!NewPusher, Log!NewStream
            <4>3. QED
                BY <3>1, <4>1, <4>2 DEF Open, log
        <3>4. QED
            BY <1>10, <3>2, <3>3
    <2>2. \E q : Send(q)
        BY <1>10 DEF PostClose, CloseBucket
    <2>3. QED
        BY <1>6, <2>1, <2>2
<1>11. CASE NewArtifactReturns
    <2>1. PICK e : /\ Ended(e) /\ program = "bucket" /\ UNCHANGED log
                   /\ program' = IF e # "nil" THEN program ELSE IF rest = 0 THEN "log" ELSE "file"
        BY <1>11 DEF NewArtifactReturns
    <2>2. UNCHANGED <<store, log>> /\ offset' = offset
        BY <2>1 DEF Ended, log
    <2>3. CASE program' # "log"
        BY <1>7, <2>1, <2>2, <2>3 DEF Open
    <2>4. CASE e = "nil" /\ rest = 0
        <3>1. conn # NoRequest /\ At(conn, "idle") /\ reply[conn] \in Success
            BY <2>1, <2>4, EndedWell
        <3>2. artifact[name].state = "APPENDING"
            BY <2>1, <2>4, <3>1 DEF UInv, WaitInv, NewArtifactRow
        <3>3. \A r \in Requests : req[r] = Idle
            BY <3>1 DEF UInv, Alone
        <3>4. QED
            BY <1>3, <2>2, <3>2, <3>3 DEF OpenInv, UInv, Acknowledged, store, vars
    <2>5. QED
        BY <2>1, <2>3, <2>4
<1>12. CASE PostChunkReturns
    <2>1. PICK e : Ended(e) /\ Log!PostAnswered(e) /\ Posting
        BY <1>12 DEF PostChunkReturns, Log!PostAnswered, Posting
    <2>2. UNCHANGED store /\ program = program'
        BY <1>12, <2>1 DEF Ended, PostChunkReturns
    <2>3. Open' => Open
        BY <1>8, <1>12, <2>1, <2>2 DEF NewArtifactReturns, Posting, Logging
    <2>4. CASE e # "nil"
        BY <1>7, <2>1, <2>2, <2>3, <2>4 DEF Log!PostAnswered
    <2>5. CASE e = "nil"
        <3>1. Load \in acked[name]
            BY <2>1, <2>5, EndedWell DEF UInv, WaitInv
        <3>2. PICK load \in Chunk : load = Load /\ load \in acked[name]
            BY <1>1, <3>1
        <3>3. load.offset = offset /\ load.size = pusher.chunk[1].size
            BY <3>2 DEF Load
        <3>4. Acknowledged(name, load.offset + load.size)
            BY <3>2, <3>3, AckedFurther DEF UInv, OpenInv, Chunk
        <3>5. offset' = load.offset + load.size
            BY <2>1, <2>5, <3>3 DEF Log!PostAnswered
        <3>6. Acknowledged(name, offset)'
            BY <2>2, <3>4, <3>5 DEF Acknowledged, store, vars
        <3>7. QED
            BY <2>2, <2>3, <3>6 DEF UInv, OpenInv, store, vars
    <2>6. QED
        BY <2>4, <2>5
<1>13. CASE NewBucketReturns \/ GetBucket \/ Cancel \/ CallUploadArtifact \/ FileStep
            \/ PostStreamReturns
    <2>1. UNCHANGED <<store, log>>
        BY <1>13 DEF NewBucketReturns, GetBucket, Cancel, CallUploadArtifact, FileStep,
            PostStreamReturns, Ended
    <2>2. QED
        BY <1>7, <1>8, <1>11, <2>1 DEF log
<1>14. CASE CallAppendLog \/ CallFlush \/ CallClose \/ LogCallerStep \/ LogPusherStep
            \/ PostCloseReturns
    <2>1. UNCHANGED store
        BY <1>14 DEF CallAppendLog, CallFlush, CallClose, LogCallerStep, LogPusherStep,
            PostCloseReturns, Ended
    <2>2. offset' = offset
        BY <1>14 DEF CallAppendLog, CallFlush, CallClose, LogCallerStep, LogPusherStep,
            PostCloseReturns, Log!AppendLog, Log!Flush, Log!CallerStep, Log!PusherStep,
            Log!CloseAnswered, Log!Enqueue, Log!FlushCancelled, Log!FlushFails,
            Log!FlushCompletes, Log!Range, Log!Tick, Log!Bail
    <2>3. QED
        BY <1>7, <1>8, <1>11, <2>1, <2>2
<1>15. QED
    BY <1>4, <1>9, <1>10, <1>11, <1>12, <1>13, <1>14 DEF UploadNext, Requesting

\* What the server does to the request the client waits for.
LEMMA ServerAnswers ==
    ASSUME IInv, UInv, LogProofs!IInv, ServerStep
    PROVE  WaitInv'
<1> SUFFICES ASSUME conn' # NoRequest
             PROVE  /\ req'[conn'].op = "create" => program' = "bucket"
                    /\ Logging' => Posting' \/ caller'.in = "Close"
                    /\ program' = "bucket" =>
                        IF At(conn, "idle")'
                        THEN reply'[conn'] \in Success => artifact'[name'] = NewArtifactRow(rest)'
                        ELSE Creates(req[conn])'
                    /\ Posting' =>
                        IF At(conn, "idle")'
                        THEN reply'[conn'] \in Success => Load' \in acked'[name']
                        ELSE Posts(req[conn])'
    BY DEF WaitInv
<1>1. UNCHANGED <<program, conn, pusher, caller, offset, rest>>
    BY DEF ServerStep, Serve, client, log, file
<1>2. /\ Posting' = Posting /\ Logging' = Logging /\ Load' = Load
      /\ NewArtifactRow(rest)' = NewArtifactRow(rest)
    BY <1>1 DEF Posting, Logging, Load, NewArtifactRow
<1>3. conn \in Requests /\ (At(conn, "idle") => req[conn] = Idle)
    BY <1>1 DEF UInv, Alone
<1>4. /\ req \in [Requests -> Request] /\ reply \in [Requests -> Replies]
      /\ Idle.pc = "idle"
    BY DEF IInv, TypeOK, Idle
<1>5. Logging => Posting \/ caller.in = "Close"
    BY <1>1 DEF UInv, WaitInv
<1>6. ASSUME NEW dying, Stop(dying)
      PROVE  /\ UNCHANGED <<artifact, acked>>
             /\ \/ req'[conn] = Idle /\ reply'[conn] \notin Success
                \/ req'[conn] = req[conn] /\ reply'[conn] = reply[conn]
    BY <1>3, <1>6 DEF Stop, Success, tables, history
<1>7. Step(conn) \/ \E dying : Stop(dying)
    <2>1. ASSUME NEW r \in Requests, Step(r) PROVE r = conn
        BY <1>1, <1>4, <2>1, StepIsBusy DEF UInv, Alone, At
    <2>2. QED
        BY <2>1 DEF ServerStep, Serve, Crash
<1>8. Named
    BY DEF ServerStep, Serve
<1>9. program # "bucket" => name' = name
    BY NameKept DEF UInv, UploadNext
<1>10. req'[conn].op = "create" => program = "bucket"
    <2>1. req'[conn] \in {req[conn], Idle} \/ Carries(req[conn], req'[conn])
        BY <1>3, ServerMoves DEF IInv
    <2>2. req[conn].op = "create" => program = "bucket"
        BY <1>1 DEF UInv, WaitInv
    <2>3. QED
        BY <2>1, <2>2 DEF Carries, Idle
<1>11. ASSUME program = "bucket"
      PROVE  IF At(conn, "idle")'
             THEN reply'[conn] \in Success => artifact'[name'] = NewArtifactRow(rest)
             ELSE Creates(req'[conn])
    <2>1. IF At(conn, "idle")
          THEN reply[conn] \in Success => artifact[name] = NewArtifactRow(rest)
          ELSE Creates(req[conn])
        BY <1>1, <1>11 DEF UInv, WaitInv
    <2>2. CASE Step(conn)
        <3>1. Creates(req[conn])
            BY <1>3, <2>1, <2>2, StepIsBusy
        <3>2. \/ /\ req'[conn] = Idle
                 /\ reply'[conn] \in Success => artifact'[req[conn].name] = NewArtifactRow(rest)
              \/ Creates(req'[conn])
            BY <1>3, <2>2, <3>1, CreateStep
        <3>3. Creates(req'[conn]) => req'[conn].pc # "idle"
            BY DEF Creates
        <3>4. req'[conn] = Idle => name' = req[conn].name
            BY <1>1, <1>4, <1>8, <3>1 DEF Named, Creates
        <3>5. QED
            BY <1>1, <1>4, <3>2, <3>3, <3>4 DEF At
    <2>3. CASE \E dying : Stop(dying)
        <3>1. At(conn, "idle") => name' = name
            BY <1>3, <1>8 DEF Named, Idle
        <3>2. QED
            BY <1>1, <1>3, <1>4, <1>6, <2>1, <2>3, <3>1 DEF At
    <2>4. QED
        BY <1>7, <2>2, <2>3
<1>12. ASSUME Posting
      PROVE  IF At(conn, "idle")'
             THEN reply'[conn] \in Success => Load \in acked'[name]
             ELSE Posts(req'[conn])
    <2>1. IF At(conn, "idle")
          THEN reply[conn] \in Success => Load \in acked[name]
          ELSE Posts(req[conn])
        BY <1>1, <1>12 DEF UInv, WaitInv
    <2>2. CASE Step(conn)
        <3>1. Posts(req[conn])
            BY <1>3, <2>1, <2>2, StepIsBusy
        <3>2. artifact[name].state = "APPENDING"
            <4>1. Len(pusher.chunk) = 1
                BY <1>12 DEF Posting, LogProofs!IInv, LogProofs!PusherInv
            <4>2. pusher.chunk # <<>>
                BY <4>1
            <4>3. Open
                BY <1>12, <4>2, Zenon DEF Open, Posting, Logging
            <4>4. QED
                BY <4>3 DEF UInv, OpenInv
        <3>3. \/ /\ req'[conn] = Idle
                 /\ reply'[conn] \in Success => req[conn].load \in acked'[name]
              \/ /\ req'[conn].op = "post" /\ req'[conn].name = name
                 /\ req'[conn].load = req[conn].load
                 /\ req'[conn].pc # "idle"
            BY <1>1, <1>3, <2>2, <3>1, <3>2, PostStep DEF Posts, At, UInv, RoomInv
        <3>4. QED
            BY <1>1, <1>4, <3>1, <3>3 DEF At, Posts
    <2>3. CASE \E dying : Stop(dying)
        BY <1>1, <1>4, <1>6, <2>1, <2>3 DEF At
    <2>4. QED
        BY <1>7, <2>2, <2>3
<1>13. Creates(req[conn])' <=> Creates(req'[conn])
    BY <1>1, <1>2 DEF Creates
<1>14. Posting => name' = name /\ (Posts(req[conn])' <=> Posts(req'[conn]))
    BY <1>1, <1>2, <1>9 DEF Posts, Posting, Logging
<1>15. QED
    BY <1>1, <1>2, <1>5, <1>11, <1>12, <1>13, <1>14, <1>10

\* A request has just left the client.
LEMMA SendWaits ==
    ASSUME TypeOK, UInv,
           \/ NewBucket \/ PostChunk \/ PostClose \/ PostStream \/ CloseBucket
           \/ \E size \in Sizes \cap 0 .. MaxSize : NewArtifactRequested(size)
    PROVE  WaitInv'
<1>1. Idle \in Memory /\ req \in [Requests -> Request]
    BY IdleType DEF Request, TypeOK
<1>2. ASSUME NEW q, Send(q), q.pc # "idle"
      PROVE  conn' \in Requests /\ req'[conn'] = q /\ ~At(conn, "idle")'
    BY <1>1, <1>2 DEF Send, Receive, At
<1>3. CASE NewBucket \/ CloseBucket \/ PostStream
    <2>1. program' \in {"new", "bucket closed", "file"}
        BY <1>3 DEF NewBucket, CloseBucket, PostStream
    <2>2. PICK q \in {BucketRequest("createBucket"), BucketRequest("closeBucket"),
                      PostRequest(name, [offset |-> 0, size |-> rest, data |-> Content])} :
            Send(q)
        BY <1>3 DEF NewBucket, CloseBucket, PostStream
    <2>3. q.pc = "bind" /\ q.op # "create"
        BY <1>1 DEF BucketRequest, PostRequest, Memory
    <2>4. req'[conn'].op # "create"
        BY <1>2, <2>2, <2>3
    <2>5. QED
        BY <2>1, <2>4 DEF WaitInv, Posting, Logging
<1>4. CASE PostClose
    <2>1. UNCHANGED <<program, caller, pusher>> /\ caller.in = "Close"
        BY <1>4 DEF PostClose, log
    <2>2. program = "done" /\ pusher.pc = "range"
        BY <2>1 DEF UInv, CallInv, Log!NewPusher
    <2>3. CloseRequest(name).pc = "bind" /\ CloseRequest(name).op = "close"
        BY <1>1 DEF CloseRequest, Memory
    <2>4. req'[conn'].op = "close"
        BY <1>2, <1>4, <2>3 DEF PostClose
    <2>5. QED
        BY <2>1, <2>2, <2>4 DEF WaitInv, Posting, Logging
<1>5. CASE PostChunk
    <2>1. PICK q : q = PostRequest(name, Load)
        OBVIOUS
    <2>2. q.pc = "bind" /\ q.op = "post" /\ q.name = name /\ q.load = Load
        BY <1>1, <2>1 DEF PostRequest, Memory
    <2>3. Send(q) /\ UNCHANGED <<program, pusher, offset>> /\ Posting
        BY <1>5, <2>1 DEF PostChunk, Load, Posting, log
    <2>4. Posting' /\ Load' = Load
        BY <2>3 DEF Posting, Logging, Load
    <2>5. Posts(req[conn])'
        BY <1>2, <2>2, <2>3, <2>4 DEF Posts, Send
    <2>6. program' # "bucket"
        BY <2>3 DEF Posting, Logging
    <2>7. QED
        BY <1>2, <2>2, <2>3, <2>4, <2>5, <2>6 DEF WaitInv, Posts
<1>6. CASE \E size \in Sizes \cap 0 .. MaxSize : NewArtifactRequested(size)
    <2>1. PICK size : NewArtifactRequested(size)
        BY <1>6
    <2>2. PICK q : q = CreateRequest(Name, NewArtifactRow(size))
        OBVIOUS
    <2>3. /\ q.pc = "bind" /\ q.op = "create" /\ q.name = Name
          /\ q.art = NewArtifactRow(size)
        BY <1>1, <2>2 DEF CreateRequest, Memory, Idle
    <2>4. Send(q) /\ program' = "bucket" /\ rest' = size
        BY <2>1, <2>2 DEF NewArtifactRequested
    <2>5. NewArtifactRow(rest)' = NewArtifactRow(size)
        BY <2>4 DEF NewArtifactRow
    <2>6. Creates(req[conn])'
        BY <1>2, <2>3, <2>4, <2>5, NameAssumption DEF Creates
    <2>7. QED
        BY <1>2, <2>3, <2>4, <2>6 DEF WaitInv, Posting, Logging
<1>7. QED
    BY <1>3, <1>4, <1>5, <1>6

LEMMA WaitKept ==
    ASSUME IInv, UInv, LogProofs!IInv, UploadNext
    PROVE  WaitInv'
<1>1. ASSUME NEW e, Ended(e) PROVE WaitInv'
    BY <1>1 DEF Ended, WaitInv
<1>2. CASE conn' = NoRequest
    BY <1>2 DEF WaitInv
<1>3. conn # NoRequest /\ Logging /\ caller.in # "Close" => Posting
    BY DEF UInv, WaitInv
<1>4. ASSUME UNCHANGED <<store, conn, pusher, offset>>, Logging, Logging',
             Posting \/ caller'.in = "Close"
      PROVE  WaitInv'
    BY <1>4 DEF UInv, WaitInv, Posting, Logging, Load, Posts, At, store, vars
<1>5. CASE CallAppendLog \/ CallFlush \/ CallClose
    <2>1. UNCHANGED <<store, conn, pusher, offset>> /\ Logging /\ Logging' /\ caller.in = "program"
        BY <1>5 DEF CallAppendLog, CallFlush, CallClose, Log!AppendLog, Log!Flush, Log!Idle, Logging
    <2>2. QED
        BY <1>2, <1>3, <1>4, <2>1
<1>6. CASE LogCallerStep
    <2>1. Logging /\ Logging' /\ UNCHANGED <<store, conn>> /\ caller.in \in {"AppendLog", "Flush"}
        BY <1>6 DEF LogCallerStep, Logging, Log!CallerStep, Log!Enqueue, Log!FlushCancelled,
            Log!FlushFails, Log!FlushCompletes
    <2>2. conn # NoRequest => pusher.pc = "post"
        BY <1>3, <2>1 DEF Posting
    <2>3. conn # NoRequest => UNCHANGED <<pusher, offset>>
        BY <1>6, <2>2 DEF LogCallerStep, Log!CallerStep, Log!Enqueue, Log!FlushCancelled,
            Log!FlushFails, Log!FlushCompletes
    <2>4. QED
        BY <1>2, <1>3, <1>4, <2>1, <2>3
<1>7. CASE LogPusherStep
    <2>1. UNCHANGED <<store, conn>> /\ Logging
        BY <1>7 DEF LogPusherStep
    <2>2. ~Posting
        BY <1>7 DEF LogPusherStep, Log!PusherStep, Log!Range, Log!Tick, Log!Bail, Posting
    <2>3. caller.in # "Close"
        BY <1>7 DEF LogPusherStep, Log!PusherStep, Log!Range, Log!Tick, Log!Bail, UInv, CallInv,
            Log!NewPusher, Log!NewStream
    <2>4. QED
        BY <1>2, <1>3, <2>1, <2>2, <2>3
<1>8. CASE Cancel
    BY <1>8 DEF Cancel, log, file, UInv, WaitInv, Posting, Logging, Load, Posts, Creates, At, store,
        vars, NewArtifactRow
<1>9. CASE GetBucket
    BY <1>2, <1>9 DEF GetBucket
<1>10. CASE CallUploadArtifact \/ FileStep
    BY <1>10 DEF CallUploadArtifact, FileStep, UInv, WaitInv, Posting, Logging, store, vars
<1>11. CASE NewBucketReturns \/ NewArtifactReturns \/ PostChunkReturns \/ PostCloseReturns
            \/ PostStreamReturns
    BY <1>1, <1>11 DEF NewBucketReturns, NewArtifactReturns, PostChunkReturns, PostCloseReturns,
        PostStreamReturns
<1>12. QED
    BY <1>5, <1>6, <1>7, <1>8, <1>9, <1>10, <1>11, SendWaits, ServerAnswers
    DEF UploadNext, Requesting, IInv

-----------------------------------------------------------------------------
(* The theorems about client and server together.                          *)

JInv == IInv /\ LogProofs!IInv /\ UInv

LEMMA UploadInitInv == UploadInit => JInv
<1> SUFFICES ASSUME UploadInit PROVE JInv
    OBVIOUS
<1>1. IInv /\ LogProofs!IInv
    BY InitInv, LogInit, LogProofs!InitInv DEF UploadInit
<1>2. /\ conn = NoRequest /\ program = "new" /\ name \in Names /\ offset = 0 /\ sent = <<>> /\ appended = <<>>
      /\ caller.in = "program" /\ rest = 0 /\ cancelled = FALSE
    BY NameAssumption DEF UploadInit, Log!Init, File!Init
<1>3. \A r \in Requests : req[r] = Idle
    BY DEF UploadInit, Init
<1>4. Alone /\ WaitInv /\ CallInv
    BY <1>2, <1>3 DEF Alone, WaitInv, CallInv
<1>5. OpenInv
    BY <1>2 DEF OpenInv, Open, Acknowledged
<1>6. RoomInv
    <2>1. 0 \in Sizes \cap 0 .. MaxSize /\ Len(<<>>) = 0 /\ 0 <= MaxAppends
        BY StreamAssumption, SizesAssumption, BoundsAssumption
    <2>2. 0 * MaxAppends <= 0 * MaxSize
        BY SizesAssumption, BoundsAssumption
    <2>3. QED
        BY <1>2, <2>1, <2>2 DEF RoomInv
<1>7. QED
    BY <1>1, <1>4, <1>5, <1>6 DEF JInv, UInv

LEMMA UploadNextInv ==
    ASSUME "outlive" \notin Network, JInv, [UploadNext]_system
    PROVE  JInv' /\ [OrderlyNext]_vars
<1>1. [OrderlyNext]_vars
    BY UsesOrderly DEF JInv, UInv
<1>2. IInv'
    BY <1>1, NextInv, OrderlyIsNext, NextType DEF JInv, IInv
<1>3. LogProofs!IInv'
    BY ChunksSized, LogNext, LogProofs!NextInv, LogProofs!StutterInv DEF JInv
<1>4. CASE UploadNext
    <2>1. IInv /\ TypeOK /\ LogProofs!IInv /\ UInv /\ Alone /\ WaitInv /\ CallInv /\ RoomInv
        BY DEF JInv, IInv, UInv
    <2>2. Alone' /\ WaitInv' /\ OpenInv' /\ CallInv' /\ RoomInv'
        BY <1>4, <2>1, AloneKept, WaitKept, OpenKept, CallKept, RoomKept
    <2>3. QED
        BY <1>1, <1>2, <1>3, <2>2 DEF JInv, UInv
<1>5. CASE UNCHANGED system
    <2>1. UNCHANGED <<store, client>>
        BY <1>5 DEF system
    <2>2. UNCHANGED <<artifact, req, reply, acked, name, program, conn, bytestream, offset, pusher,
                      caller, appended, sent, rest, cancelled>>
        BY <2>1 DEF store, vars, client, log, file
    <2>3. Alone' /\ CallInv' /\ RoomInv'
        BY <2>2 DEF JInv, UInv, Alone, At, CallInv, RoomInv
    <2>4. OpenInv'
        BY <2>2 DEF JInv, UInv, OpenInv, Open, Acknowledged
    <2>5. WaitInv'
        BY <2>2 DEF JInv, UInv, WaitInv, Posting, Logging, Load, Posts, Creates, At, NewArtifactRow
    <2>6. QED
        BY <1>1, <1>2, <1>3, <2>3, <2>4, <2>5 DEF JInv, UInv
<1>6. QED
    BY <1>4, <1>5

LEMMA JoinedInvariant == "outlive" \notin Network => (UploadSpec => []JInv)
<1> SUFFICES ASSUME "outlive" \notin Network PROVE UploadSpec => []JInv
    OBVIOUS
<1>1. JInv /\ [UploadNext]_system => JInv'
    BY UploadNextInv
<1>2. QED
    BY <1>1, UploadInitInv, PTL DEF UploadSpec

\* Unless a request times out that the server still serves, the client library
\* uses the server orderly: one request at a time, and a chunk only once the
\* server has acknowledged all before it.  Whatever holds of OrderlySpec holds.
THEOREM ClientIsOrderly == "outlive" \notin Network => (UploadSpec => UsesServerOrderly)
<1> SUFFICES ASSUME "outlive" \notin Network PROVE UploadSpec => UsesServerOrderly
    OBVIOUS
<1>1. JInv /\ [UploadNext]_system => [OrderlyNext]_vars
    BY UploadNextInv
<1>2. UploadInit => Init
    BY DEF UploadInit
<1>3. UploadSpec => []JInv
    BY JoinedInvariant
<1>4. QED
    BY <1>1, <1>2, <1>3, PTL DEF UploadSpec, UsesServerOrderly, OrderlySpec

\* Nothing the server has acknowledged to the client library is lost.
THEOREM ClientLosesNothing == "outlive" \notin Network => (UploadSpec => []AckedDurable)
<1> SUFFICES ASSUME "outlive" \notin Network PROVE UploadSpec => []AckedDurable
    OBVIOUS
<1>1. UploadSpec => OrderlySpec
    BY ClientIsOrderly DEF UsesServerOrderly
<1>2. QED
    BY <1>1, AcknowledgedIsDurable, PTL

-----------------------------------------------------------------------------
(***************************************************************************)
(* StreamedArtifact: an upload that has succeeded is over on the server.   *)
(***************************************************************************)

Uploads == {"WAITING_FOR_UPLOAD", "UPLOADING", "UPLOADED", "ERROR"}

Over == artifact[name].state \in {"UPLOADED", "ERROR"}

\* The artifact of a file, what the client waits for while it uploads the file,
\* and how it is left.
FileInv ==
    /\ program \notin {"file", "bucket closed"} => upload = "none"
    /\ program = "file" =>
        /\ artifact[name].state \in Uploads
        /\ \A r \in Requests : ~Closes(req[r])
        /\ conn # NoRequest =>
            /\ upload = "post"
            /\ IF At(conn, "idle") THEN reply[conn] \in Success => Over
               ELSE req[conn].op = "post" /\ req[conn].name = name
        /\ upload = "returned" /\ err = "nil" => Over /\ \A r \in Requests : req[r] = Idle

\* An artifact that is uploaded is not turned into anything else.
LEMMA StaysUpload ==
    ASSUME IInv, name \in Names, NEW r \in Requests, Step(r), ~Closes(req[r]),
           artifact[name].state \in Uploads
    PROVE  artifact'[name].state \in Uploads
<1>1. RequestInv(req[r]) /\ name \in Names /\ artifact \in [Names -> Row] /\ req[r].art \in Row
    BY DEF IInv, TypeOK, Request, Memory
<1>2. UNCHANGED artifact => artifact'[name].state \in Uploads
    OBVIOUS
<1>3. ASSUME NEW row, NEW outcome, UpdateArtifact(req[r].name, row, outcome),
             req[r].name = name => row.state \in Uploads
      PROVE  artifact'[name].state \in Uploads
    BY <1>1, <1>3 DEF UpdateArtifact
<1>4. CASE GrowArtifact(r)
    <2>1. req[r].name # name
        BY <1>1, <1>4 DEF GrowArtifact, At, Holding, RequestInv, PointInv, CopyInv, Uploads
    <2>2. QED
        BY <1>3, <1>4, <2>1 DEF GrowArtifact
<1>5. CASE SetUploading(r) \/ SetUploaded(r) \/ SetError(r)
    <2>1. \A state \in Uploads : [req[r].art EXCEPT !.state = state].state \in Uploads
        BY <1>1 DEF Row
    <2>2. {"UPLOADING", "UPLOADED", "ERROR"} \subseteq Uploads
        BY DEF Uploads
    <2>3. QED
        BY <1>3, <1>5, <2>1, <2>2 DEF SetUploading, SetUploaded, SetError
<1>6. CASE InsertArtifact(r)
    <2>1. artifact[name] # NoRow
        BY DEF NoRow, Uploads
    <2>2. QED
        BY <1>1, <1>6, <2>1 DEF InsertArtifact
<1>7. CASE MarkComplete(r) \/ SetClosedWithoutData(r)
    BY <1>1, <1>7 DEF MarkComplete, SetClosedWithoutData, At, RequestInv, PointInv, Closes
<1>8. CASE BindCreateBucket(r) \/ InsertBucket(r) \/ BindCreate(r) \/ LookupArtifact(r)
           \/ BindCloseBucket(r) \/ UpdateBucket(r) \/ ListArtifacts(r) \/ NextArtifact(r)
    BY <1>2, <1>8 DEF BindCreateBucket, InsertBucket, BindCreate, LookupArtifact,
        BindCloseBucket, UpdateBucket, ListArtifacts, NextArtifact, tables
<1>9. CASE BindPost(r) \/ InsertLogChunk(r) \/ LastLogChunk(r) \/ ReadBody(r) \/ ReadChunks(r)
            \/ PutObject(r) \/ DeleteLogChunks(r) \/ BindClose(r)
    BY <1>2, <1>9 DEF BindPost, InsertLogChunk, LastLogChunk, ReadBody, ReadChunks,
        PutObject, DeleteLogChunks, BindClose, tables
<1>10. CASE ReaderPanics(r)
    BY <1>2, <1>10 DEF ReaderPanics, Stop, tables
<1>11. QED
    BY <1>4, <1>5, <1>6, <1>7, <1>8, <1>9, <1>10 DEF Step

\* What the post of a stream comes to: where the answer is no error, the artifact
\* is uploaded or has been left in ERROR.
LEMMA StreamStep ==
    ASSUME IInv, name \in Names, name' = name, NEW r \in Requests, Step(r),
           req[r].op = "post", req[r].name = name, artifact[name].state \in Uploads
    PROVE  \/ req'[r] = Idle /\ (reply'[r] \in Success => Over')
           \/ req'[r].op = "post" /\ req'[r].name = name /\ ~At(r, "idle")'
<1> DEFINE Q == req[r]
           Answered == req'[r] = Idle /\ (reply'[r] \in Success => Over')
           GoesOn == req'[r].op = "post" /\ req'[r].name = name /\ ~At(r, "idle")'
<1>1. /\ Q \in Memory /\ name \in Names /\ RequestInv(Q)
      /\ req \in [Requests -> Request] /\ reply \in [Requests -> Replies]
      /\ artifact \in [Names -> Row] /\ Q.art \in Row
    BY DEF IInv, TypeOK, Request, Memory
<1>2. ASSUME NEW code, Respond(r, code), code \notin Success PROVE Answered
    BY <1>1, <1>2 DEF Respond, Answer
<1>3. ASSUME NEW code, Answer(r, code), Over' PROVE Answered
    BY <1>1, <1>3 DEF Answer
<1>4. ASSUME NEW q, Continue(r, q), q.op = "post", q.name = name, q.pc # "idle" PROVE GoesOn
    BY <1>1, <1>4 DEF Continue, At
<1>5. ASSUME NEW pc, pc # "idle",
             \/ Continue(r, [Q EXCEPT !.pc = pc])
             \/ \E art : Continue(r, [Q EXCEPT !.pc = pc, !.art = art])
             \/ \E body : Continue(r, [Q EXCEPT !.pc = pc, !.body = body])
             \/ \E tries, body : Continue(r, [Q EXCEPT !.tries = tries, !.pc = pc, !.body = body])
             \/ \E art, load : Continue(r, [[Q EXCEPT !.pc = pc, !.art = art] EXCEPT !.load.offset = load])
      PROVE  GoesOn
    BY <1>1, <1>4, <1>5 DEF Memory
<1>6. "400" \notin Success /\ "500" \notin Success /\ ~Merging(r)
    BY DEF Success, Merging
<1>7. AttemptFailed(r) \/ UploadFailed(r) => GoesOn
    BY <1>5, <1>6 DEF AttemptFailed, UploadFailed
<1>8. CASE BindPost(r)
    <2>1. artifact[name].state # "APPENDING" /\ artifact[name].state # "CLOSED_WITHOUT_DATA"
        BY DEF Uploads
    <2>2. CASE Respond(r, "200 empty") /\ artifact[name].state = "ERROR"
        <3>1. Over'
            BY <1>8, <2>2 DEF Over, BindPost, tables
        <3>2. QED
            BY <1>3, <2>2, <3>1 DEF Respond
    <2>3. CASE Respond(r, "400") \/ Respond(r, "500")
        BY <1>2, <1>6, <2>3
    <2>4. CASE Continue(r, [Bound(r, "setUploading") EXCEPT !.load.offset = 0])
        BY <1>5, <2>4 DEF Bound
    <2>5. QED
        BY <1>8, <2>1, <2>2, <2>3, <2>4 DEF BindPost
<1>9. CASE GrowArtifact(r) \/ InsertLogChunk(r) \/ LastLogChunk(r)
    BY <1>1, <1>9 DEF GrowArtifact, InsertLogChunk, LastLogChunk, At, Holding, RequestInv,
        PointInv, CopyInv, Uploads
<1>10. CASE SetUploading(r)
    BY <1>2, <1>5, <1>6, <1>10 DEF SetUploading
<1>11. CASE ReadBody(r)
    BY <1>5, <1>7, <1>11 DEF ReadBody
<1>12. CASE PutObject(r)
    BY <1>5, <1>7, <1>12 DEF PutObject
<1>13. CASE SetUploaded(r)
    <2>1. PICK outcome \in WriteOutcome :
            /\ UpdateArtifact(name, [Q.art EXCEPT !.state = "UPLOADED"], outcome)
            /\ IF outcome = "ok" THEN Acknowledge(r) ELSE Respond(r, "500")
        BY <1>6, <1>13 DEF SetUploaded
    <2>2. CASE outcome = "ok"
        <3>1. Over'
            BY <1>1, <2>1, <2>2 DEF UpdateArtifact, Applied, Over, Row
        <3>2. QED
            BY <1>3, <2>1, <2>2, <3>1 DEF Acknowledge
    <2>3. QED
        BY <1>2, <1>6, <2>1, <2>2
<1>14. CASE SetError(r)
    BY <1>2, <1>6, <1>14 DEF SetError
<1>15. CASE ReadChunks(r) \/ ReaderPanics(r) \/ DeleteLogChunks(r) \/ MarkComplete(r)
            \/ SetClosedWithoutData(r)
    BY <1>1, <1>15 DEF ReadChunks, ReaderPanics, DeleteLogChunks, MarkComplete,
        SetClosedWithoutData, At, RequestInv, PointInv
<1>16. CASE BindCreateBucket(r) \/ InsertBucket(r) \/ BindCreate(r) \/ InsertArtifact(r)
            \/ LookupArtifact(r) \/ BindClose(r) \/ BindCloseBucket(r) \/ UpdateBucket(r)
            \/ ListArtifacts(r) \/ NextArtifact(r)
    BY <1>1, <1>16 DEF BindCreateBucket, InsertBucket, BindCreate, InsertArtifact,
        LookupArtifact, BindClose, BindCloseBucket, UpdateBucket, ListArtifacts, NextArtifact,
        At, RequestInv, PointInv
<1>17. QED
    BY <1>8, <1>9, <1>10, <1>11, <1>12, <1>13, <1>14, <1>15, <1>16 DEF Step

\* What the server does while the program uploads a file.
LEMMA FileServed ==
    ASSUME IInv, UInv, FileInv, ServerStep
    PROVE  FileInv'
<1>1. UNCHANGED <<program, conn, upload, err>>
    BY DEF ServerStep, Serve, client, file
<1>2. /\ req \in [Requests -> Request] /\ reply \in [Requests -> Replies]
      /\ Idle.pc = "idle" /\ ~Closes(Idle) /\ name \in Names
    BY DEF IInv, TypeOK, Idle, Closes, UInv, RoomInv
<1>3. CASE program # "file"
    BY <1>1, <1>3 DEF FileInv
<1>4. CASE program = "file"
    <2>1. /\ artifact[name].state \in Uploads
          /\ \A r \in Requests : ~Closes(req[r])
          /\ conn # NoRequest =>
                /\ upload = "post"
                /\ IF At(conn, "idle") THEN reply[conn] \in Success => Over
                   ELSE req[conn].op = "post" /\ req[conn].name = name
          /\ upload = "returned" /\ err = "nil" => Over /\ \A r \in Requests : req[r] = Idle
        BY <1>4 DEF FileInv
    <2> name' = name
        BY <1>4, NameKept DEF UInv, UploadNext
    <2>2. \A r \in Requests : ~Closes(req'[r])
        BY <1>2, <2>1, ServerMoves DEF Closes, Carries, IInv
    <2>3. CASE \E dying : Stop(dying)
        <3>1. PICK dying : Stop(dying)
            BY <2>3
        <3>2. artifact' = artifact /\ Over' = Over
            BY <3>1 DEF Stop, tables, Over
        <3>3. \A r \in Requests :
                \/ req'[r] = Idle /\ reply'[r] \notin Success
                \/ req'[r] = req[r] /\ reply'[r] = reply[r]
            BY <1>2, <3>1 DEF Stop, Success
        <3>4. conn # NoRequest => conn \in Requests
            BY DEF UInv, Alone
        <3>5. QED
            BY <1>1, <1>2, <1>4, <2>1, <2>2, <3>2, <3>3, <3>4 DEF FileInv, At
    <2>4. ASSUME NEW r \in Requests, Step(r) PROVE FileInv'
        <3>1. ~At(r, "idle") /\ req[r] # Idle
            BY <1>2, <2>4, StepIsBusy DEF At
        <3>2. artifact'[name].state \in Uploads
            BY <1>2, <2>1, <2>4, StaysUpload
        <3>3. ~(upload = "returned" /\ err = "nil")
            BY <2>1, <3>1
        <3>4. CASE conn = NoRequest
            BY <1>1, <1>4, <2>2, <3>2, <3>3, <3>4 DEF FileInv
        <3>5. CASE conn # NoRequest
            <4>1. r = conn
                BY <3>1, <3>5 DEF UInv, Alone
            <4>2. req[r].op = "post" /\ req[r].name = name /\ upload = "post"
                BY <2>1, <3>1, <3>5, <4>1
            <4>3. \/ req'[r] = Idle /\ (reply'[r] \in Success => Over')
                  \/ req'[r].op = "post" /\ req'[r].name = name /\ ~At(r, "idle")'
                BY <1>2, <2>1, <2>4, <4>2, StreamStep
            <4>4. IF At(conn, "idle")' THEN reply'[conn] \in Success => Over'
                  ELSE req'[conn].op = "post" /\ req'[conn].name = name
                BY <1>1, <1>2, <4>1, <4>3 DEF At
            <4>5. QED
                BY <1>1, <1>4, <2>2, <3>2, <3>3, <4>2, <4>4 DEF FileInv
        <3>6. QED
            BY <3>4, <3>5
    <2>5. QED
        BY <2>3, <2>4 DEF ServerStep, Serve, Crash
<1>5. QED
    BY <1>3, <1>4

LEMMA FileKept ==
    ASSUME IInv, UInv, FileInv, UploadNext
    PROVE  FileInv'
<1>1. req \in [Requests -> Request] /\ Idle \in Memory
    BY IdleType DEF IInv, TypeOK, Request
<1>2. ASSUME program' \notin {"file", "bucket closed"}, upload' = "none" PROVE FileInv'
    BY <1>2 DEF FileInv
<1>3. CASE /\ program \notin {"file", "bucket closed"} /\ program' \notin {"file", "bucket closed"}
           /\ UNCHANGED upload
    BY <1>2, <1>3 DEF FileInv
<1>4. CASE NewBucket \/ NewBucketReturns \/ GetBucket
           \/ \E size \in Sizes \cap 0 .. MaxSize : NewArtifactRequested(size)
    BY <1>3, <1>4 DEF NewBucket, NewBucketReturns, GetBucket, NewArtifactRequested, file
<1>5. CASE CallAppendLog \/ CallFlush \/ CallClose \/ LogCallerStep \/ LogPusherStep
           \/ PostChunk \/ PostChunkReturns \/ PostClose \/ PostCloseReturns
    BY <1>3, <1>5 DEF CallAppendLog, CallFlush, CallClose, LogCallerStep, LogPusherStep,
        PostChunk, PostChunkReturns, PostClose, PostCloseReturns, Logging, file
<1>6. CASE CloseBucket
    BY <1>6 DEF CloseBucket, FileInv
<1>7. CASE NewArtifactReturns
    <2>1. PICK e : /\ Ended(e) /\ program = "bucket" /\ UNCHANGED file
                   /\ program' = IF e # "nil" THEN program ELSE IF rest = 0 THEN "log" ELSE "file"
        BY <1>7 DEF NewArtifactReturns
    <2>2. upload = "none" /\ upload' = "none"
        BY <2>1 DEF FileInv, file
    <2>3. CASE e = "nil" /\ rest # 0
        <3>1. conn # NoRequest /\ At(conn, "idle") /\ reply[conn] \in Success
            BY <2>1, <2>3, EndedWell
        <3>2. artifact[name] = NewArtifactRow(rest)
            BY <2>1, <3>1 DEF UInv, WaitInv
        <3>3. artifact[name].state \in Uploads
            BY <2>3, <3>2 DEF NewArtifactRow, Uploads
        <3>4. \A r \in Requests : req[r] = Idle
            BY <3>1 DEF UInv, Alone
        <3>5. UNCHANGED <<artifact, req, name>> /\ conn' = NoRequest
            BY <2>1 DEF Ended, store, vars, tables
        <3>6. ~Closes(Idle)
            BY DEF Closes, Idle
        <3>7. program' = "file"
            BY <2>1, <2>3
        <3>8. QED
            BY <2>2, <3>3, <3>4, <3>5, <3>6, <3>7 DEF FileInv
    <2>4. QED
        BY <1>2, <2>1, <2>2, <2>3
<1>8. CASE PostStream
    <2>1. PICK q : q = PostRequest(name, [offset |-> 0, size |-> rest, data |-> Content])
        OBVIOUS
    <2>2. q.pc = "bind" /\ q.op = "post" /\ q.name = name
        BY <1>1, <2>1 DEF PostRequest, Memory
    <2>3. /\ Send(q) /\ UNCHANGED <<program, upload, err>> /\ program = "file" /\ upload = "post"
        BY <1>8, <2>1 DEF PostStream, file
    <2>4. PICK r \in Requests : req' = [req EXCEPT ![r] = q] /\ conn' = r
        BY <2>3 DEF Send, Receive
    <2>5. req'[conn'] = q /\ ~At(conn, "idle")'
        BY <1>1, <2>2, <2>4 DEF At
    <2>6. \A p \in Requests : ~Closes(req'[p])
        BY <1>1, <2>2, <2>3, <2>4 DEF FileInv, Closes
    <2>7. UNCHANGED <<artifact, name>>
        BY <2>3 DEF Send, Receive, tables
    <2>8. QED
        BY <2>2, <2>3, <2>5, <2>6, <2>7 DEF FileInv
<1>9. CASE PostStreamReturns
    <2>1. PICK e : /\ Ended(e) /\ program = "file" /\ UNCHANGED program
                   /\ err' = e /\ upload' = IF e = "retriable" THEN "tick" ELSE "returned"
        BY <1>9 DEF PostStreamReturns, File!PostAnswered
    <2>2. UNCHANGED <<artifact, req, name>> /\ conn' = NoRequest /\ Over' = Over
        BY <2>1 DEF Ended, store, vars, tables, Over
    <2>3. CASE e = "nil"
        <3>1. conn # NoRequest /\ At(conn, "idle") /\ reply[conn] \in Success
            BY <2>1, <2>3, EndedWell
        <3>2. \A r \in Requests : req[r] = Idle
            BY <3>1 DEF UInv, Alone
        <3>3. Over
            BY <2>1, <3>1 DEF FileInv
        <3>4. QED
            BY <2>1, <2>2, <3>2, <3>3 DEF FileInv
    <2>4. CASE e # "nil"
        BY <2>1, <2>2, <2>4 DEF FileInv
    <2>5. QED
        BY <2>3, <2>4
<1>10. CASE Cancel
    BY <1>10 DEF Cancel, FileInv, file, store, vars, tables, Over, At
<1>11. CASE CallUploadArtifact \/ FileStep
    <2>1. /\ UNCHANGED <<artifact, req, name, program, conn>> /\ program = "file" /\ upload # "post"
          /\ upload' \in {"tick", "post"} \/ err' = "terminal"
        BY <1>11 DEF CallUploadArtifact, FileStep, File!UploadArtifact, File!Tick, File!Bail,
            store, vars, tables
    <2>2. conn = NoRequest
        BY <2>1 DEF FileInv
    <2>3. QED
        BY <2>1, <2>2 DEF FileInv
<1>12. CASE ServerStep
    BY <1>12, FileServed
<1>13. QED
    BY <1>4, <1>5, <1>6, <1>7, <1>8, <1>9, <1>10, <1>11, <1>12 DEF UploadNext, Requesting

\* Unless a request times out that the server still serves, the stream of an upload
\* that has succeeded is in S3, or the artifact has been left in ERROR.
THEOREM UploadIsStored == "outlive" \notin Network => (UploadSpec => []UploadStoredUnlessError)
<1> SUFFICES ASSUME "outlive" \notin Network PROVE UploadSpec => []UploadStoredUnlessError
    OBVIOUS
<1>1. UploadInit => FileInv
    BY DEF UploadInit, File!Init, FileInv
<1>2. JInv /\ FileInv /\ [UploadNext]_system => FileInv'
    <2>1. UNCHANGED system => (FileInv' <=> FileInv)
        BY DEF system, store, vars, tables, client, file, FileInv, At, Over
    <2>2. QED
        BY <2>1, FileKept DEF JInv
<1>3. UploadSpec => []FileInv
    BY <1>1, <1>2, JoinedInvariant, PTL DEF UploadSpec
<1>4. UploadSpec => []UploadedHasObject
    <2>1. UploadSpec => OrderlySpec
        BY ClientIsOrderly DEF UsesServerOrderly
    <2>2. [OrderlyNext]_vars => [Next]_vars
        BY OrderlyIsNext
    <2>3. OrderlySpec => Spec
        BY <2>2, PTL DEF OrderlySpec, Spec
    <2>4. QED
        BY <2>1, <2>3, ReadersFindObject, PTL
<1>5. JInv /\ FileInv /\ UploadedHasObject => UploadStoredUnlessError
    BY DEF JInv, UInv, RoomInv, FileInv, Over, UploadedHasObject, UploadStoredUnlessError, UploadSucceeded
<1>6. QED
    BY <1>3, <1>4, <1>5, JoinedInvariant, PTL

-----------------------------------------------------------------------------
(***************************************************************************)
(* What Flush has vouched for can be read.                                 *)
(***************************************************************************)

\* The chunks that have been sent follow each other on the server too, which has
\* acknowledged each where it begins.
Placed(at) ==
    /\ at \in [1 .. Len(sent) -> 0 .. offset]
    /\ \A i \in 1 .. Len(sent) : at[i] = IF i = 1 THEN 0 ELSE at[i - 1] + sent[i - 1].size
    /\ offset = IF Len(sent) = 0 THEN 0 ELSE at[Len(sent)] + sent[Len(sent)].size
    /\ \A i \in 1 .. Len(sent) :
        [offset |-> at[i], size |-> sent[i].size, data |-> sent[i].data] \in acked[name]

PlacedInv == \E at : Placed(at)

LEMMA PrefixElements ==
    ASSUME NEW S, NEW a \in Seq(S), NEW b \in Seq(S), Len(b) <= Len(a), b = SubSeq(a, 1, Len(b)),
           NEW i \in 1 .. Len(b)
    PROVE  a[i] = b[i]
OBVIOUS

LEMMA Extended ==
    ASSUME NEW S, NEW a \in Seq(S), NEW b \in Seq(S)
    PROVE  Len(b) = 1 =>
            /\ Len(a \o b) = Len(a) + 1
            /\ \A i \in 1 .. Len(a) : (a \o b)[i] = a[i]
            /\ (a \o b)[Len(a) + 1] = b[1]
<1>1. Len(b) = 1 => Len(a \o b) = Len(a) + 1
    BY OneMore
<1>2. ASSUME NEW i \in 1 .. Len(a) PROVE (a \o b)[i] = a[i]
    OBVIOUS
<1>3. Len(b) = 1 => (a \o b)[Len(a) + 1] = b[1]
    <2>1. Len(b) = 1 => 1 \in 1 .. Len(b)
        OBVIOUS
    <2>2. \A i \in 1 .. Len(b) : (a \o b)[Len(a) + i] = b[i]
        OBVIOUS
    <2>3. QED
        BY <2>1, <2>2, Zenon
<1>4. QED
    BY <1>1, <1>2, <1>3

\* One more chunk has been acknowledged where the text ended.
LEMMA PlacedFurther ==
    ASSUME LogProofs!IInv, PlacedInv, Len(pusher.chunk) = 1, Load \in acked[name],
           sent' = sent \o pusher.chunk, offset' = offset + pusher.chunk[1].size,
           acked' = acked, name' = name
    PROVE  PlacedInv'
<1>1. PICK at : Placed(at)
    BY DEF PlacedInv
<1>2. /\ sent \in Seq(Chunks) /\ pusher.chunk \in Seq(Chunks) /\ offset \in Nat
      /\ pusher.chunk[1] \in Chunks
    BY DEF LogProofs!IInv, LogProofs!TypeOK, LogProofs!Pusher
<1>3. PICK n \in Nat : n = Len(sent)
    BY <1>2, LengthIsNat
<1>4. PICK c : c = pusher.chunk[1] /\ c.size \in Nat
    BY <1>2, SizesAssumption DEF Chunks
<1>5. /\ Len(sent') = n + 1
      /\ \A i \in 1 .. n : sent'[i] = sent[i]
      /\ sent'[n + 1] = c
    BY <1>2, <1>3, <1>4, Extended
<1>6. PICK S : S = sent
    OBVIOUS
<1>7. PICK T : T = sent'
    OBVIOUS
<1>8. /\ at \in [1 .. n -> 0 .. offset]
      /\ \A i \in 1 .. n : at[i] = IF i = 1 THEN 0 ELSE at[i - 1] + S[i - 1].size
      /\ offset = IF n = 0 THEN 0 ELSE at[n] + S[n].size
      /\ \A i \in 1 .. n :
            [offset |-> at[i], size |-> S[i].size, data |-> S[i].data] \in acked[name]
    BY <1>1, <1>3, <1>6 DEF Placed
<1>9. (\A i \in 1 .. n : T[i] = S[i]) /\ T[n + 1] = c
    BY <1>5, <1>6, <1>7
<1> PICK next : next = [i \in 1 .. n + 1 |-> IF i = n + 1 THEN offset ELSE at[i]]
    OBVIOUS
<1>10. next \in [1 .. n + 1 -> 0 .. offset + c.size]
    <2>1. ASSUME NEW i \in 1 .. n + 1
          PROVE  (IF i = n + 1 THEN offset ELSE at[i]) \in 0 .. offset + c.size
        <3>1. offset \in 0 .. offset + c.size /\ 0 .. offset \subseteq 0 .. offset + c.size
            BY <1>2, <1>4
        <3>2. i # n + 1 => at[i] \in 0 .. offset
            BY <1>8
        <3>3. QED
            BY <3>1, <3>2
    <2>2. QED
        BY <2>1
<1>11. ASSUME NEW i \in 1 .. n + 1
       PROVE  next[i] = IF i = 1 THEN 0 ELSE next[i - 1] + T[i - 1].size
    <2>1. CASE i = n + 1
        <3>1. n # 0 => n \in 1 .. n /\ next[n] = at[n] /\ T[n] = S[n]
            BY <1>9
        <3>2. next[i] = offset
            BY <2>1
        <3>3. QED
            BY <1>8, <2>1, <3>1, <3>2
    <2>2. CASE i # n + 1
        <3>1. i \in 1 .. n /\ next[i] = at[i]
            BY <2>2
        <3>2. i # 1 => i - 1 \in 1 .. n /\ next[i - 1] = at[i - 1] /\ T[i - 1] = S[i - 1]
            BY <1>9, <3>1
        <3>3. QED
            BY <1>8, <3>1, <3>2
    <2>3. QED
        BY <2>1, <2>2
<1>12. offset + c.size = next[n + 1] + T[n + 1].size
    BY <1>9
<1>13. ASSUME NEW i \in 1 .. n + 1
       PROVE  [offset |-> next[i], size |-> T[i].size, data |-> T[i].data] \in acked[name]
    <2>1. CASE i = n + 1
        <3>1. next[i] = offset /\ T[i] = c
            BY <1>9, <2>1
        <3>2. QED
            BY <1>4, <3>1 DEF Load
    <2>2. CASE i # n + 1
        <3>1. i \in 1 .. n /\ next[i] = at[i] /\ T[i] = S[i]
            BY <1>9, <2>2
        <3>2. QED
            BY <1>8, <3>1
    <2>3. QED
        BY <2>1, <2>2
<1>14. offset' = offset + c.size /\ acked'[name] = acked[name]
    BY <1>4
<1>15. Placed(next)'
    <2>1. n + 1 # 0 /\ Len(sent') = n + 1 /\ sent' = T
        BY <1>5, <1>7
    <2>2. /\ next \in [1 .. Len(sent') -> 0 .. offset']
          /\ \A i \in 1 .. Len(sent') :
                next[i] = IF i = 1 THEN 0 ELSE next[i - 1] + sent'[i - 1].size
        BY <1>10, <1>11, <1>14, <2>1
    <2>3. offset' = IF Len(sent') = 0 THEN 0
                    ELSE next[Len(sent')] + sent'[Len(sent')].size
        BY <1>12, <1>14, <2>1
    <2>4. \A i \in 1 .. Len(sent') :
            [offset |-> next[i], size |-> sent'[i].size, data |-> sent'[i].data] \in acked'[name]
        BY <1>13, <1>14, <2>1
    <2>5. QED
        BY <2>2, <2>3, <2>4, Zenon DEF Placed
<1>16. QED
    BY <1>15 DEF PlacedInv

LEMMA PlacedKept ==
    ASSUME IInv, UInv, LogProofs!IInv, PlacedInv, UploadNext
    PROVE  PlacedInv'
<1>1. name' = name \/ (sent = <<>> /\ offset = 0 /\ ServerStep)
    BY NameKept DEF UInv, CallInv
<1>2. acked[name] \subseteq acked'[name]
    <2>1. (\E q \in Arrivals : Send(q)) => acked' = acked
        BY DEF Send, Receive, history
    <2>2. (\E e : Ended(e)) => acked' = acked
        BY DEF Ended, store, vars, history
    <2>3. UNCHANGED store => acked' = acked
        BY DEF store, vars, history
    <2>4. ServerStep => acked[name] \subseteq acked'[name]
        BY AckedGrows DEF IInv, UInv, RoomInv
    <2>5. QED
        BY <2>1, <2>2, <2>3, <2>4, Kinds DEF UInv
<1>3. CASE UNCHANGED <<sent, offset>>
    <2>1. CASE name' = name
        BY <1>2, <1>3, <2>1 DEF PlacedInv, Placed
    <2>2. CASE sent = <<>> /\ offset = 0
        <3>1. Placed([i \in 1 .. 0 |-> 0])'
            BY <1>3, <2>2 DEF Placed
        <3>2. QED
            BY <3>1 DEF PlacedInv
    <2>3. QED
        BY <1>1, <2>1, <2>2
<1>4. CASE PostChunkReturns
    <2>1. PICK e : Ended(e) /\ Log!PostAnswered(e) /\ Logging
        BY <1>4 DEF PostChunkReturns
    <2>2. CASE e = "nil"
        <3>1. Posting
            BY <2>1 DEF Log!PostAnswered, Posting
        <3>2. Load \in acked[name]
            BY <2>1, <2>2, <3>1, EndedWell DEF UInv, WaitInv
        <3>3. Len(pusher.chunk) = 1
            BY <3>1 DEF Posting, LogProofs!IInv, LogProofs!PusherInv
        <3>4. acked' = acked /\ name' = name
            BY <2>1 DEF Ended, store, vars, history
        <3>5. QED
            BY <2>1, <2>2, <3>2, <3>3, <3>4, PlacedFurther DEF Log!PostAnswered
    <2>3. QED
        BY <1>3, <2>1, <2>2 DEF Log!PostAnswered
<1>5. CASE ServerStep
    BY <1>3, <1>5 DEF ServerStep, Serve, client, log
<1>6. CASE NewBucket \/ NewBucketReturns \/ GetBucket \/ NewArtifactReturns \/ CloseBucket \/ Cancel
           \/ CallUploadArtifact \/ FileStep \/ PostChunk \/ PostClose \/ PostStream
           \/ PostStreamReturns \/ \E size \in Sizes \cap 0 .. MaxSize : NewArtifactRequested(size)
    BY <1>3, <1>6 DEF NewBucket, NewBucketReturns, GetBucket, NewArtifactReturns, CloseBucket,
        Cancel, CallUploadArtifact, FileStep, PostChunk, PostClose, PostStream,
        PostStreamReturns, NewArtifactRequested, log
<1>7. CASE CallAppendLog \/ CallFlush \/ CallClose \/ LogCallerStep \/ LogPusherStep
           \/ PostCloseReturns
    BY <1>3, <1>7 DEF CallAppendLog, CallFlush, CallClose, LogCallerStep, LogPusherStep,
        PostCloseReturns, Log!AppendLog, Log!Flush, Log!CallerStep, Log!PusherStep,
        Log!CloseAnswered, Log!Enqueue, Log!FlushCancelled, Log!FlushFails,
        Log!FlushCompletes, Log!Range, Log!Tick, Log!Bail
<1>8. QED
    BY <1>4, <1>5, <1>6, <1>7 DEF UploadNext, Requesting

\* A byte that has been acknowledged can be read.
LEMMA AckedReadable ==
    ASSUME IInv, name \in Names, NEW c \in acked[name], NEW p \in Nat \ {0}, Covers(c, p)
    PROVE  ReadsAs(p, c.data)
<1>1. /\ TableInv(name) /\ Stored(name, c) /\ c.offset \in Nat /\ c.size \in Nat
      /\ logchunk[name] \in Seq(Chunk) /\ artifact[name].size \in Int
    <2>1. TypeOK /\ TableInv(name) /\ name \in Names
        BY DEF IInv
    <2>2. logchunk[name] \in Seq(Chunk) /\ artifact[name] \in Row /\ acked[name] \subseteq Chunk
        BY <2>1 DEF TypeOK
    <2>3. Stored(name, c)
        BY <2>1 DEF TableInv
    <2>4. QED
        BY <2>1, <2>2, <2>3 DEF Chunk, Row
<1>2. CASE artifact[name].state = "UPLOADED"
    <2>1. p \in c.offset + 1 .. c.offset + c.size
        BY <1>1 DEF Covers
    <2>2. QED
        BY <1>1, <1>2, <2>1 DEF Stored, Holds, ReadsAs
<1>3. CASE artifact[name].state # "UPLOADED"
    <2>1. PICK i \in DOMAIN logchunk[name] : logchunk[name][i] = c
        BY <1>1, <1>3 DEF Stored
    <2>2. Exact(logchunk[name], p)
        BY <1>1, <2>1, TiledExact DEF TableInv
    <2>3. QED
        BY <1>3, <2>1, <2>2 DEF ReadsAs
<1>4. QED
    BY <1>2, <1>3

\* Where the chunks were acknowledged is where their text begins.
LEMMA PlacedStored ==
    ASSUME IInv, name \in Names, LogProofs!IInv, PlacedInv
    PROVE  FlushedStored
<1>1. PICK at : Placed(at)
    BY DEF PlacedInv
<1>2. /\ sent \in Seq(Chunks) /\ appended \in Seq(Chunks) /\ offset \in Nat
      /\ flushed \in Nat /\ flushed <= Len(sent) /\ Len(sent) \in Nat
    BY LengthIsNat DEF LogProofs!IInv, LogProofs!TypeOK
<1>3. \A i \in 1 .. Len(sent) : appended[i] = sent[i]
    <2>1. Len(sent) <= Len(appended) /\ sent = SubSeq(appended, 1, Len(sent))
        BY LogProofs!PrefixSent DEF LogProofs!FlushMeansSent
    <2>2. QED
        BY <1>2, <2>1, PrefixElements
<1>4. PICK n \in Nat, m \in Nat : n = flushed /\ m = Len(sent) /\ n <= m
    BY <1>2
<1>5. PICK A, S : A = appended /\ S = sent
    OBVIOUS
<1>6. \A i \in 1 .. m : A[i] = S[i] /\ S[i].size \in Nat
    <2>1. \A i \in 1 .. m : S[i] \in Chunks
        BY <1>2, <1>4, <1>5
    <2>2. \A c \in Chunks : c.size \in Nat
        BY SizesAssumption DEF Chunks
    <2>3. QED
        BY <1>3, <1>4, <1>5, <2>1, <2>2
<1>7. /\ at \in [1 .. m -> 0 .. offset]
      /\ \A i \in 1 .. m : at[i] = IF i = 1 THEN 0 ELSE at[i - 1] + S[i - 1].size
      /\ \A i \in 1 .. m :
            [offset |-> at[i], size |-> S[i].size, data |-> S[i].data] \in acked[name]
    BY <1>1, <1>4, <1>5 DEF Placed
<1> DEFINE starts == [i \in 1 .. n |-> at[i]]
<1>8. starts \in Starts(n)
    <2>1. starts \in [1 .. n -> 0 .. offset]
        BY <1>4, <1>7
    <2>2. ASSUME NEW i \in 1 .. n
          PROVE  starts[i] = IF i = 1 THEN 0 ELSE starts[i - 1] + A[i - 1].size
        BY <1>4, <1>6, <1>7
    <2>3. QED
        BY <1>5, <2>1, <2>2 DEF Starts
<1>9. ASSUME NEW i \in 1 .. n, NEW p \in starts[i] + 1 .. starts[i] + A[i].size
      PROVE  ReadsAs(p, A[i].data)
    <2>1. i \in 1 .. m /\ starts[i] = at[i] /\ at[i] \in 0 .. offset /\ A[i] = S[i]
        BY <1>4, <1>6, <1>7
    <2>2. PICK c \in acked[name] : c = [offset |-> at[i], size |-> S[i].size, data |-> S[i].data]
        BY <1>7, <2>1
    <2>3. p \in Nat \ {0} /\ Covers(c, p)
        BY <1>2, <1>6, <2>1, <2>2 DEF Covers
    <2>4. QED
        BY <2>1, <2>2, <2>3, AckedReadable
<1>10. QED
    BY <1>4, <1>5, <1>8, <1>9 DEF FlushedStored

\* Unless a request times out that the server still serves, every byte that Flush
\* or Close has vouched for can be read: in order, from one row each or from S3.
THEOREM FlushedIsStored == "outlive" \notin Network => (UploadSpec => []FlushedStored)
<1> SUFFICES ASSUME "outlive" \notin Network PROVE UploadSpec => []FlushedStored
    OBVIOUS
<1>1. UploadInit => PlacedInv
    <2> SUFFICES ASSUME UploadInit PROVE PlacedInv
        OBVIOUS
    <2>1. sent = <<>> /\ offset = 0
        BY DEF UploadInit, Log!Init
    <2>2. Placed([i \in 1 .. 0 |-> 0])
        BY <2>1 DEF Placed
    <2>3. QED
        BY <2>2 DEF PlacedInv
<1>2. JInv /\ PlacedInv /\ [UploadNext]_system => PlacedInv'
    <2>1. UNCHANGED system => (PlacedInv' <=> PlacedInv)
        BY DEF system, store, vars, history, client, log, PlacedInv, Placed
    <2>2. QED
        BY <2>1, PlacedKept DEF JInv
<1>3. JInv /\ PlacedInv => FlushedStored
    BY PlacedStored DEF JInv, UInv, RoomInv
<1>4. QED
    BY <1>1, <1>2, <1>3, JoinedInvariant, PTL DEF UploadSpec

=============================================================================
