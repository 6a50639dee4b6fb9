-------------------------------- MODULE Upload --------------------------------
(***************************************************************************)
(* One program that fills one artifact through the client library: the     *)
(* goroutines of ChunkedArtifact or the loop of StreamedArtifact           *)
(* (client/client.go), posting to ArtifactStore.  A request of the client  *)
(* occupies a slot of the server; the client waits for the slot's answer,  *)
(* which the network may lose, and may stop waiting before it comes.       *)
(***************************************************************************)
EXTENDS ArtifactStore

CONSTANTS
    Name,                   \* the name the program asks for
    NoRequest,              \* the client waits for no answer
    MAX_PENDING_REPORTS,
    MaxAppends,             \* bound on the chunks appended
    Network                 \* {"lose", "outlive"}: what the network may do

ASSUME NameAssumption == Name \in Names
ASSUME NoRequestAssumption == NoRequest \notin Requests
ASSUME BoundsAssumption == MAX_PENDING_REPORTS \in Nat \ {0} /\ MaxAppends \in Nat
ASSUME NetworkAssumption == Network \subseteq {"lose", "outlive"}
\* What is left of a stream can be announced as well as all of it, and the bound on
\* payloads leaves room for every chunk of a log.
ASSUME StreamAssumption == Data # {} /\ 0 \in Sizes /\ \A size \in Sizes : 0 .. size \subseteq Sizes
ASSUME RoomAssumption == \A size \in Sizes : size * MaxAppends <= MaxSize

VARIABLES
    program,    \* "new", "bucket" (it has one), "log" (it fills a log), "done"
                \* (it has called Close), "file" or "bucket closed"
    conn,       \* the slot the client waits for, or NoRequest
    name,       \* the name in the last answer to a creation the client waited for
    bytestream, offset, pusher, caller, appended, sent, flushed,
    rest, upload, err,
    cancelled

\* The stream of a file: every byte of it is the same.
Content == CHOOSE d \in Data : TRUE

\* The empty chunk is one too; the server refuses it.
Chunks == {chunk \in [size : Sizes \cap 0 .. MaxSize, data : Data] :
                chunk.size = 0 => chunk.data = Content}

Log == INSTANCE ChunkedArtifact
File == INSTANCE StreamedArtifact WITH StreamSizes <- Sizes \cap 1 .. MaxSize

store == <<vars, name>>
log == <<bytestream, offset, pusher, caller, appended, sent, flushed>>
file == <<rest, upload, err>>
client == <<program, conn, log, file, cancelled>>
system == <<store, client>>

-----------------------------------------------------------------------------
(***************************************************************************)
(* getAPI and postAPI.                                                     *)
(***************************************************************************)

\* determineResponseError; a connection that breaks can be retried.
ErrorOf(code) ==
    CASE code \in {"200", "200 empty"} -> "nil"
      [] code \in {"500", "lost"} -> "retriable"
      [] OTHER -> "terminal"

Send(request) ==
    /\ conn = NoRequest /\ ~cancelled
    /\ \E r \in Requests : Receive(r, request) /\ conn' = r
    /\ UNCHANGED name

\* The request has ended for the client with e, and the server does not notice:
\* it was answered; it was lost on its way or its answer was, which the client
\* learns from a broken connection or from its timeout; its context is done;
\* or the timeout struck while the server was still at work on it ("outlive").
Ended(e) ==
    /\ conn' = NoRequest /\ UNCHANGED store
    /\ \/ conn = NoRequest /\ (cancelled \/ "lose" \in Network) /\ e = "retriable"
       \/ /\ conn # NoRequest
          /\ \/ At(conn, "idle") /\ e = ErrorOf(reply[conn])
             \/ At(conn, "idle") /\ "lose" \in Network /\ e = "retriable"
             \/ (cancelled \/ "outlive" \in Network) /\ e = "retriable"

-----------------------------------------------------------------------------
(***************************************************************************)
(* The program.                                                            *)
(***************************************************************************)

\* NewBucket, NewChunkedArtifact and NewStreamedArtifact: the program repeats
\* what has failed, or asks for the bucket that exists.
NewBucket ==
    /\ program = "new" /\ Send(BucketRequest("createBucket"))
    /\ UNCHANGED <<program, log, file, cancelled>>

NewBucketReturns ==
    /\ program = "new"
    /\ \E e \in Log!Errors :
        Ended(e) /\ program' = IF e = "nil" THEN "bucket" ELSE "new"
    /\ UNCHANGED <<log, file, cancelled>>

\* GetBucket, whose answer is one read of the server.
GetBucket ==
    /\ program = "new" /\ conn = NoRequest /\ ~cancelled
    /\ bucket # "NONE"
    /\ program' = "bucket"
    /\ UNCHANGED <<store, conn, log, file, cancelled>>

NewArtifactRow(size) ==
    IF size = 0 THEN [state |-> "APPENDING", size |-> 0]
    ELSE [state |-> "WAITING_FOR_UPLOAD", size |-> size]

\* rest holds the length of the stream that will be uploaded, 0 for a log.  The
\* program repeats a creation that has failed, and the server may have stored the
\* first one: then it gives the repetition another name.
NewArtifactRequested(size) ==
    /\ program = "bucket" /\ Send(CreateRequest(Name, NewArtifactRow(size)))
    /\ rest' = size
    /\ UNCHANGED <<program, log, upload, err, cancelled>>

NewArtifactReturns ==
    /\ program = "bucket"
    /\ \E e \in Log!Errors :
        /\ Ended(e)
        /\ program' = IF e # "nil" THEN program ELSE IF rest = 0 THEN "log" ELSE "file"
    /\ UNCHANGED <<log, file, cancelled>>

Logging == program \in {"log", "done"}

\* Nothing the program has started is still going on.
Quiet ==
    /\ conn = NoRequest
    /\ \/ Logging /\ Log!Idle /\ pusher.pc = "range" /\ bytestream = Log!NewStream
       \/ program = "file" /\ upload = "returned"

\* Bucket.Close.
CloseBucket ==
    /\ Quiet /\ program' = "bucket closed"
    /\ Send(BucketRequest("closeBucket"))
    /\ UNCHANGED <<log, file, cancelled>>

Cancel ==
    /\ (Logging \/ program = "file") /\ ~cancelled
    /\ cancelled' = TRUE
    /\ UNCHANGED <<store, program, conn, log, file>>

-----------------------------------------------------------------------------
(***************************************************************************)
(* ChunkedArtifact and StreamedArtifact talking to the server.             *)
(***************************************************************************)

\* The program calls Close when the log is complete: it appends nothing after.
CallAppendLog ==
    /\ program = "log" /\ \E chunk \in Chunks : Log!AppendLog(chunk)
    /\ UNCHANGED <<store, program, conn, file>>

CallFlush ==
    /\ Logging /\ Log!Flush(FALSE)
    /\ UNCHANGED <<store, program, conn, file>>

CallClose ==
    /\ Logging /\ Log!Flush(TRUE) /\ program' = "done"
    /\ UNCHANGED <<store, conn, file>>

CallUploadArtifact ==
    /\ program = "file" /\ File!UploadArtifact(rest)
    /\ UNCHANGED <<store, program, conn, log>>

\* What the goroutines do between two requests.

LogCallerStep ==
    /\ Logging /\ Log!CallerStep
    /\ UNCHANGED <<store, program, conn, file>>

LogPusherStep ==
    /\ Logging /\ Log!PusherStep
    /\ UNCHANGED <<store, program, conn, file>>

PostChunk ==
    LET chunk == pusher.chunk[1]
    IN  /\ Logging /\ pusher.pc = "post"
        /\ Send(PostRequest(name, [offset |-> offset, size |-> chunk.size, data |-> chunk.data]))
        /\ UNCHANGED <<program, log, file, cancelled>>

PostChunkReturns ==
    /\ Logging
    /\ \E e \in Log!Errors : Ended(e) /\ Log!PostAnswered(e)
    /\ UNCHANGED <<program, file>>

PostClose ==
    /\ Logging /\ caller.in = "Close"
    /\ Send(CloseRequest(name))
    /\ UNCHANGED <<program, log, file, cancelled>>

PostCloseReturns ==
    /\ Logging
    /\ \E e \in Log!Errors : Ended(e) /\ Log!CloseAnswered(e)
    /\ UNCHANGED <<program, file>>

FileStep ==
    /\ program = "file" /\ (File!Tick \/ File!Bail)
    /\ UNCHANGED <<store, program, conn, log>>

PostStream ==
    /\ program = "file" /\ upload = "post"
    /\ Send(PostRequest(name, [offset |-> 0, size |-> rest, data |-> Content]))
    /\ UNCHANGED <<program, log, file, cancelled>>

\* How much of the stream an attempt has read is left open.
PostStreamReturns ==
    /\ program = "file"
    /\ \E e \in File!Errors, left \in 0 .. rest : Ended(e) /\ File!PostAnswered(e, left)
    /\ UNCHANGED <<program, log>>

-----------------------------------------------------------------------------
UploadInit ==
    /\ Init /\ Log!Init /\ File!Init
    /\ program = "new" /\ conn = NoRequest /\ name = Name

Requesting ==
    \/ PostChunk \/ PostChunkReturns \/ PostClose \/ PostCloseReturns
    \/ PostStream \/ PostStreamReturns

\* The answer to a creation carries the artifact with the name it got, and that
\* is the one the client uses from then on.
Named ==
    name' = IF conn # NoRequest /\ req[conn].op = "create" /\ req'[conn].pc = "idle"
            THEN req[conn].name ELSE name

Serve(r) == Step(r) /\ Named /\ UNCHANGED client

ServerStep == (\E r \in Requests : Serve(r)) \/ (Crash /\ Named /\ UNCHANGED client)

UploadNext ==
    \/ NewBucket \/ NewBucketReturns \/ GetBucket
    \/ (\E size \in Sizes \cap 0 .. MaxSize : NewArtifactRequested(size)) \/ NewArtifactReturns
    \/ CloseBucket \/ Cancel
    \/ CallAppendLog \/ CallFlush \/ CallClose \/ CallUploadArtifact
    \/ LogCallerStep \/ LogPusherStep
    \/ FileStep \/ Requesting
    \/ ServerStep

UploadSpec == UploadInit /\ [][UploadNext]_system

\* The goroutines of client and server run, the database and S3 answer, and a
\* request of the client ends.  Of two cases of a select that are ready the
\* runtime picks one at random, so one that is ready again and again is taken.
\* Nothing makes the program call a method, and
\* nothing makes an attempt succeed.
ClientFairness ==
    /\ WF_system(LogCallerStep) /\ WF_system(LogPusherStep) /\ WF_system(FileStep)
    /\ WF_system(Requesting)
    /\ SF_system(LogPusherStep /\ Log!Bail) /\ SF_system(FileStep /\ File!Bail)

FairUploadSpec ==
    UploadSpec /\ ClientFairness /\ \A r \in Requests : WF_system(Serve(r))

-----------------------------------------------------------------------------
(***************************************************************************)
(* Properties.                                                             *)
(***************************************************************************)

\* The variables of the client hold what their Go types allow.
ClientTypeOK == Log!TypeOK /\ File!TypeOK

\* The client uses the server in the way OrderlySpec allows, and with it every
\* theorem about OrderlySpec applies.
UsesServerOrderly == OrderlySpec

\* Where the first n chunks of the log begin in its text: one after the other.
Starts(n) ==
    {at \in [1 .. n -> 0 .. offset] :
        \A i \in 1 .. n : at[i] = IF i = 1 THEN 0 ELSE at[i - 1] + appended[i - 1].size}

\* "Terminal state: the artifact is in S3 in its entirety" (model/artifact.go):
\* the object of an UPLOADED log reaches as far as Flush or Close has vouched for.
UploadedInEntirety ==
    artifact[name].state = "UPLOADED" =>
        \E at \in Starts(flushed) : \A i \in 1 .. flushed :
            at[i] + appended[i].size <= Len(s3[name])

\* A reader finds d at position p: in S3 once the log is UPLOADED, and in exactly
\* one row before.
ReadsAs(p, d) ==
    IF artifact[name].state = "UPLOADED"
    THEN p <= Len(s3[name]) /\ s3[name][p] = d
    ELSE /\ Exact(logchunk[name], p)
         /\ \E i \in DOMAIN logchunk[name] :
                Covers(logchunk[name][i], p) /\ logchunk[name][i].data = d

\* Each byte of the chunks that Flush or Close has vouched for can be read from the
\* server, in order and from the start.
FlushedStored ==
    \E at \in Starts(flushed) : \A i \in 1 .. flushed :
        \A p \in at[i] + 1 .. at[i] + appended[i].size : ReadsAs(p, appended[i].data)

\* FlushMeansSent and PanicsOnlyAfterError of the client, whatever this server answers.
FlushMeansSent == Log!FlushMeansSent
PanicsOnlyAfterError == Log!PanicsOnlyAfterError

UploadSucceeded == program = "file" /\ upload = "returned" /\ err = "nil"

\* An upload that has succeeded has its stream in S3, except where the server
\* answers 200 for an artifact that an earlier attempt has left in ERROR.
UploadStoredUnlessError ==
    UploadSucceeded =>
        \/ artifact[name].state = "ERROR"
        \/ artifact[name].state = "UPLOADED" /\ s3[name] # <<>>

\* An upload that has succeeded has its stream in S3.
UploadStored == UploadSucceeded => artifact[name].state = "UPLOADED"

\* Retries end once failures that can be retried have ended.
FlushReturns == Log!FlushReturns
AppendReturns == Log!AppendReturns
UploadReturns == <>[](err # "retriable") => []<>(upload \notin {"tick", "post"})

\* A done context ends the retries, whatever the server answers.
CancelEndsRetries ==
    /\ Log!CancelEndsRetries
    /\ []<>(cancelled => upload \notin {"tick", "post"})

=============================================================================
