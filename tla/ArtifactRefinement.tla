-------------------------- MODULE ArtifactRefinement --------------------------
(***************************************************************************)
(* ArtifactStore under orderly use implements ArtifactContract.            *)
(***************************************************************************)
EXTENDS ArtifactLasting

PhaseOf(state) ==
    CASE state = "NO_ROW" -> "absent"
      [] state \in {"APPENDING", "WAITING_FOR_UPLOAD"} -> "open"
      [] state \in {"APPEND_COMPLETE", "UPLOADING"} -> "sealed"
      [] state = "UPLOADED" -> "stored"
      [] state \in {"ERROR", "CLOSED_WITHOUT_DATA"} -> "void"

Phases == [n \in Names |-> PhaseOf(artifact[n].state)]

\* What is kept is read off the tables: the acknowledged payloads that are in a
\* logchunk row or in the S3 object, whichever the artifact is served from.
Kept == [n \in Names |-> {c \in acked[n] : Stored(n, c)}]

Contract == INSTANCE ArtifactContract WITH
    Payloads <- Loads, phase <- Phases, promised <- acked, kept <- Kept

\* The server keeps its contract: each step of a request is one step of the
\* artifact's life or none, and takes nothing back.
KeepsContract == Contract!Spec

-----------------------------------------------------------------------------
(***************************************************************************)
(* The proof.  IInv says that what was acknowledged is kept, ClosingInv    *)
(* that the bucket is OPEN where a request relies on it; each action of a  *)
(* request is then an action of the contract, or changes none of its       *)
(* variables.                                                              *)
(***************************************************************************)

\* A post carries what a client may post.
PayloadInv == \A r \in Requests : req[r].op = "post" => req[r].load \in Loads

LEMMA ArrivalPayload ==
    ASSUME NEW q \in Arrivals, q.op = "post"
    PROVE  q.load \in Loads
<1>1. Idle \in Memory /\ Idle.op = "none"
    BY IdleType DEF Request, Idle
<1>2. \A op : BucketRequest(op).op = op
    BY <1>1 DEF BucketRequest, Memory
<1>3. \A n, row : CreateRequest(n, row).op = "create"
    BY <1>1 DEF CreateRequest, Memory
<1>4. \A n, load : PostRequest(n, load).load = load
    BY <1>1 DEF PostRequest, Memory
<1>5. \A n : CloseRequest(n).op = "close"
    BY <1>1 DEF CloseRequest, Memory
<1>6. QED
    BY <1>2, <1>3, <1>4, <1>5 DEF Arrivals, ArrivalsFor

\* An upload loses its offset, which makes it no larger.
LEMMA AtTheStart ==
    ASSUME NEW load \in Loads
    PROVE  [load EXCEPT !.offset = 0] \in Loads
<1>1. PICK zero : zero = [load EXCEPT !.offset = 0]
    OBVIOUS
<1>2. /\ load \in [offset : 0 .. MaxSize, size : Sizes, data : Data]
      /\ load.size >= 0 /\ load.offset + load.size <= MaxSize
    BY DEF Loads
<1>3. zero \in [offset : 0 .. MaxSize, size : Sizes, data : Data]
    BY <1>1, <1>2, SizesAssumption
<1>4. zero.size = load.size /\ zero.offset = 0
    BY <1>1, <1>2
<1>5. load.size \in Int /\ load.offset \in 0 .. MaxSize
    BY <1>2, SizesAssumption
<1>6. zero.size >= 0 /\ zero.offset + zero.size <= MaxSize
    BY <1>2, <1>4, <1>5, SizesAssumption
<1>7. zero \in Loads
    BY <1>3, <1>6 DEF Loads
<1>8. QED
    BY <1>1, <1>7

LEMMA NextPayload ==
    ASSUME TypeOK, PayloadInv, [OrderlyNext]_vars
    PROVE  PayloadInv'
<1>1. ASSUME NEW dying, Stop(dying) PROVE PayloadInv'
    BY <1>1 DEF PayloadInv, Stop, Idle
<1>2. ASSUME NEW r \in Requests, NEW q, req' = [req EXCEPT ![r] = q],
             q.op = "post" => q.load \in Loads
      PROVE  PayloadInv'
    BY <1>2 DEF PayloadInv, TypeOK
<1>3. ASSUME NEW r \in Requests, Moves(r) PROVE PayloadInv'
    BY <1>2, <1>3, AtTheStart DEF Moves, Carries, PayloadInv, Idle
<1>4. ASSUME NEW r \in Requests, NEW q \in Arrivals, OrderlyReceive(r, q)
      PROVE  PayloadInv'
    BY <1>2, <1>4, ArrivalPayload DEF OrderlyReceive, Receive
<1>5. CASE UNCHANGED vars
    BY <1>5 DEF PayloadInv, vars
<1>6. QED
    BY <1>1, <1>3, <1>4, <1>5, OneMoves DEF OrderlyNext, Crash

LEMMA Payloads == OrderlySpec => []PayloadInv
<1>1. Init => PayloadInv
    BY DEF Init, PayloadInv, Idle
<1>2. TypeOK /\ PayloadInv /\ [OrderlyNext]_vars => PayloadInv'
    BY NextPayload
<1>3. QED
    BY <1>1, <1>2, OrderlyType, PTL DEF OrderlySpec

-----------------------------------------------------------------------------
(* The mapping.                                                            *)

\* The contract's two histories agree where the invariant holds.
LEMMA AllKept == (IInv => Kept = acked) /\ (IInv' => Kept' = acked')
<1>1. IInv => Kept = acked
    <2> SUFFICES ASSUME IInv PROVE Kept = acked
        OBVIOUS
    <2>1. \A n \in Names : {c \in acked[n] : Stored(n, c)} = acked[n]
        BY DEF IInv, TableInv
    <2>2. acked = [n \in Names |-> acked[n]]
        BY DEF IInv, TypeOK
    <2>3. QED
        BY <2>1, <2>2 DEF Kept
<1>2. IInv' => (Kept = acked)'
    BY <1>1, PTL
<1>3. QED
    BY <1>1, <1>2

\* A step of the contract as the server's variables show it.
ContractStep == [Contract!Next]_(Contract!vars)

LEMMA NothingMoves ==
    ASSUME IInv, IInv', UNCHANGED <<bucket, acked>>, Phases' = Phases
    PROVE  ContractStep
BY AllKept DEF ContractStep, Contract!vars

\* Only the phase of one artifact changes.
LEMMA PhaseMoves ==
    ASSUME IInv, IInv', UNCHANGED <<bucket, acked>>, NEW n \in Names, NEW to,
           Phases' = [Phases EXCEPT ![n] = to],
           \/ Phases[n] = "absent" /\ to = "open" /\ bucket = "OPEN"
           \/ Phases[n] = "open" /\ to = "sealed"
           \/ Phases[n] = "sealed" /\ to = "stored"
           \/ Phases[n] \in {"open", "sealed"} /\ to = "void" /\ acked[n] = {}
    PROVE  ContractStep
<1>1. Kept' = Kept
    BY AllKept
<1>2. Contract!Create(n) \/ Contract!Seal(n) \/ Contract!Ship(n) \/ Contract!Discard(n)
    BY <1>1 DEF Contract!Create, Contract!Seal, Contract!Ship, Contract!Discard, Contract!Move
<1>3. QED
    BY <1>2 DEF ContractStep, Contract!Next

\* A payload is acknowledged, and the artifact may be stored by it.
LEMMA PayloadKept ==
    ASSUME IInv, IInv', bucket' = bucket, NEW n \in Names, NEW load \in Loads,
           acked' = [acked EXCEPT ![n] = @ \cup {load}],
           \/ Phases[n] = "open" /\ Phases' = Phases
           \/ /\ Phases[n] = "sealed" /\ acked[n] = {}
              /\ Phases' = [Phases EXCEPT ![n] = "stored"]
    PROVE  ContractStep
<1>1. Kept' = acked' /\ Kept = acked
    BY AllKept
<1>2. Contract!Append(n, load) \/ Contract!Deliver(n, load)
    BY <1>1 DEF Contract!Append, Contract!Deliver, Contract!Move, Contract!Keep
<1>3. QED
    BY <1>2 DEF ContractStep, Contract!Next

\* A request writes the row it holds.
LEMMA RowMoves ==
    ASSUME IInv, NEW r \in Requests, req[r].pc \in Holding, NEW row, NEW outcome,
           UpdateArtifact(req[r].name, row, outcome)
    PROVE  /\ req[r].name \in Names /\ Phases[req[r].name] = PhaseOf(req[r].art.state)
           /\ Phases' = IF Applied(outcome)
                        THEN [Phases EXCEPT ![req[r].name] = PhaseOf(row.state)] ELSE Phases
<1>1. PICK n \in Names : n = req[r].name /\ artifact[n] = req[r].art
    BY AtHolding
<1>2. artifact \in [Names -> Row]
    BY DEF IInv, TypeOK
<1>3. \A m \in Names : artifact'[m] = IF Applied(outcome) /\ m = n THEN row ELSE artifact[m]
    BY <1>1, <1>2 DEF UpdateArtifact
<1>4. QED
    BY <1>1, <1>3 DEF Phases

-----------------------------------------------------------------------------
(* The steps.                                                              *)

\* The bucket's own life.
LEMMA BucketSimulated ==
    ASSUME IInv, IInv', ClosingInv, NEW r \in Requests, InsertBucket(r) \/ UpdateBucket(r)
    PROVE  ContractStep
<1>1. UNCHANGED <<artifact, acked>>
    BY DEF InsertBucket, UpdateBucket, CloseFailed, Respond, Continue, history
<1>2. Phases' = Phases /\ Kept' = Kept
    BY <1>1, AllKept DEF Phases
<1>3. CASE bucket' = bucket
    BY <1>1, <1>2, <1>3, NothingMoves
<1>4. CASE InsertBucket(r) /\ bucket' # bucket
    <2>1. Contract!CreateBucket
        BY <1>1, <1>2, <1>4 DEF InsertBucket, Contract!CreateBucket
    <2>2. QED
        BY <2>1 DEF ContractStep, Contract!Next
<1>5. CASE UpdateBucket(r) /\ bucket' # bucket
    <2>1. bucket = "OPEN"
        BY <1>5 DEF UpdateBucket, At, ClosingInv, BucketInv
    <2>2. Contract!CloseBucket
        BY <1>1, <1>2, <1>5, <2>1 DEF UpdateBucket, Contract!CloseBucket
    <2>3. QED
        BY <2>2 DEF ContractStep, Contract!Next
<1>6. QED
    BY <1>3, <1>4, <1>5

\* CreateArtifact finds the bucket OPEN and the name free.
LEMMA CreateSimulated ==
    ASSUME IInv, IInv', ClosingInv, NEW r \in Requests, InsertArtifact(r)
    PROVE  ContractStep
<1>1. PICK Q : Q = req[r]
    OBVIOUS
<1>2. Q.pc = "insertArtifact" /\ bucket = "OPEN" /\ Q.art \in NewArtifact
    BY <1>1 DEF InsertArtifact, At, IInv, ClosingInv, BucketInv, RequestInv, PointInv, CreateInv
<1>3. UNCHANGED <<bucket, acked>> /\ artifact \in [Names -> Row]
    BY DEF InsertArtifact, Respond, Continue, history, IInv, TypeOK
<1>4. CASE artifact' = artifact
    BY <1>3, <1>4, NothingMoves DEF Phases
<1>5. CASE Q.name \in Names /\ artifact[Q.name] = NoRow
            /\ artifact' = [artifact EXCEPT ![Q.name] = Q.art]
    <2>1. PhaseOf(Q.art.state) = "open" /\ PhaseOf(NoRow.state) = "absent"
        BY <1>2 DEF NewArtifact, PhaseOf, NoRow
    <2>2. \A m \in Names : artifact'[m] = IF m = Q.name THEN Q.art ELSE artifact[m]
        BY <1>3, <1>5
    <2>3. Phases[Q.name] = "absent" /\ Phases' = [Phases EXCEPT ![Q.name] = "open"]
        BY <1>5, <2>1, <2>2 DEF Phases
    <2>4. QED
        BY <1>2, <1>3, <1>5, <2>3, PhaseMoves
<1>6. QED
    BY <1>1, <1>3, <1>4, <1>5 DEF InsertArtifact

\* A chunk is stored before it is acknowledged.
LEMMA AppendSimulated ==
    ASSUME IInv, IInv', PayloadInv, NEW r \in Requests,
           GrowArtifact(r) \/ InsertLogChunk(r) \/ LastLogChunk(r)
    PROVE  ContractStep
<1>1. PICK Q : Q = req[r]
    OBVIOUS
<1>2. Q.pc \in {"growArtifact", "insertLogChunk", "lastLogChunk"} /\ Q.pc \in Holding
    BY <1>1 DEF GrowArtifact, InsertLogChunk, LastLogChunk, At, Holding
<1>3. Q \in Memory /\ RequestInv(Q) /\ Q.name \in Names /\ artifact[Q.name] = Q.art
    BY <1>1, <1>2, AtHolding
<1>4. Q.op = "post" /\ Q.art.state = "APPENDING"
    BY <1>2, <1>3 DEF RequestInv, PointInv
<1>5. Phases[Q.name] = "open" /\ Q.load \in Loads /\ bucket' = bucket
    BY <1>1, <1>3, <1>4 DEF Phases, PhaseOf, PayloadInv, GrowArtifact, InsertLogChunk,
        LastLogChunk, tables
<1>6. Phases' = Phases
    <2>1. CASE GrowArtifact(r)
        <3>1. PICK row, outcome : UpdateArtifact(Q.name, row, outcome) /\ row.state = Q.art.state
            <4>1. \A size : [Q.art EXCEPT !.size = size].state = Q.art.state
                BY <1>3 DEF Memory, Row
            <4>2. QED
                BY <1>1, <2>1, <4>1 DEF GrowArtifact
        <3>2. Phases' = IF Applied(outcome)
                        THEN [Phases EXCEPT ![Q.name] = Phases[Q.name]] ELSE Phases
            BY <1>1, <1>2, <3>1, RowMoves
        <3>3. QED
            BY <3>2 DEF Phases
    <2>2. CASE InsertLogChunk(r) \/ LastLogChunk(r)
        BY <2>2 DEF InsertLogChunk, LastLogChunk, Phases, tables
    <2>3. QED
        BY <2>1, <2>2
<1>7. CASE acked' = acked
    BY <1>5, <1>6, <1>7, NothingMoves
<1>8. CASE Acknowledge(r)
    BY <1>1, <1>3, <1>5, <1>6, <1>8, PayloadKept DEF Acknowledge
<1>9. QED
    BY <1>7, <1>8 DEF GrowArtifact, InsertLogChunk, LastLogChunk, Respond, Continue, history

\* The end of a log, an upload that begins, and an object that is stored.
LEMMA UploadSimulated ==
    ASSUME IInv, IInv', PayloadInv, NEW r \in Requests,
           SetUploading(r) \/ SetUploaded(r) \/ MarkComplete(r)
    PROVE  ContractStep
<1>1. PICK Q : Q = req[r]
    OBVIOUS
<1>2. Q.pc \in {"setUploading", "setUploaded", "markComplete"} /\ Q.pc \in Holding
    BY <1>1 DEF SetUploading, SetUploaded, MarkComplete, At, Holding
<1>3. Q \in Memory /\ RequestInv(Q) /\ Q.name \in Names /\ artifact[Q.name] = Q.art
    BY <1>1, <1>2, AtHolding
<1>4. PICK state, outcome :
            /\ UpdateArtifact(Q.name, [Q.art EXCEPT !.state = state], outcome)
            /\ state = IF Q.pc = "setUploading" THEN "UPLOADING"
                       ELSE IF Q.pc = "setUploaded" THEN "UPLOADED" ELSE "APPEND_COMPLETE"
            /\ outcome \in WriteOutcome
            /\ acked' = acked \/ (Q.pc = "setUploaded" /\ outcome = "ok" /\ ~Merging(r))
    BY <1>1 DEF SetUploading, SetUploaded, MarkComplete, At, Continue, Respond, CloseFailed, history
<1>5. bucket' = bucket
    BY DEF SetUploading, SetUploaded, MarkComplete
<1>6. [Q.art EXCEPT !.state = state].state = state
    BY <1>3 DEF Memory, Row
<1>7. /\ Phases[Q.name] = PhaseOf(Q.art.state)
      /\ Phases' = IF Applied(outcome) THEN [Phases EXCEPT ![Q.name] = PhaseOf(state)] ELSE Phases
    <2>1. PICK row : row = [Q.art EXCEPT !.state = state]
        OBVIOUS
    <2>2. UpdateArtifact(Q.name, row, outcome) /\ row.state = state
        BY <1>4, <1>6, <2>1
    <2>3. QED
        BY <1>1, <1>2, <2>2, RowMoves
<1>8. \/ Phases[Q.name] = "open" /\ PhaseOf(state) = "sealed"
      \/ Phases[Q.name] = "sealed" /\ PhaseOf(state) = "sealed"
      \/ Phases[Q.name] = "sealed" /\ PhaseOf(state) = "stored"
    BY <1>2, <1>3, <1>4, <1>7 DEF RequestInv, PointInv, PhaseOf
<1>9. CASE acked' = acked
    <2>1. CASE Phases' = Phases
        BY <1>5, <1>9, <2>1, NothingMoves
    <2>2. CASE Phases[Q.name] # PhaseOf(state) /\ Phases' = [Phases EXCEPT ![Q.name] = PhaseOf(state)]
        BY <1>3, <1>5, <1>8, <1>9, <2>2, PhaseMoves
    <2>3. QED
        BY <1>3, <1>7, <2>1, <2>2 DEF Phases
<1>10. CASE acked' # acked
    <2>1. SetUploaded(r) /\ Q.pc = "setUploaded" /\ Q.op = "post" /\ Applied(outcome)
        BY <1>1, <1>2, <1>3, <1>4, <1>10 DEF SetUploading, SetUploaded, MarkComplete, At,
            Merging, Applied
    <2>2. acked' = [acked EXCEPT ![Q.name] = @ \cup {Q.load}]
        BY <1>1, <1>10, <2>1 DEF SetUploaded, Acknowledge, Continue, Respond, CloseFailed, history
    <2>3. acked[Q.name] = {} /\ Q.art.state = "UPLOADING" /\ Q.load \in Loads
        BY <1>1, <1>3, <2>1 DEF RequestInv, UploadInv, PointInv, PayloadInv
    <2>4. Phases[Q.name] = "sealed" /\ Phases' = [Phases EXCEPT ![Q.name] = "stored"]
        BY <1>4, <1>7, <2>1, <2>3 DEF PhaseOf
    <2>5. QED
        BY <1>3, <1>5, <2>2, <2>3, <2>4, PayloadKept
<1>11. QED
    BY <1>9, <1>10

\* Nothing was acknowledged of an artifact that is given up.
LEMMA DiscardSimulated ==
    ASSUME IInv, IInv', NEW r \in Requests, SetError(r) \/ SetClosedWithoutData(r)
    PROVE  ContractStep
<1>1. PICK Q : Q = req[r]
    OBVIOUS
<1>2. Q.pc \in {"setError", "setClosedWithoutData"} /\ Q.pc \in Holding
    BY <1>1 DEF SetError, SetClosedWithoutData, At, Holding
<1>3. /\ Q \in Memory /\ RequestInv(Q) /\ Q.name \in Names /\ artifact[Q.name] = Q.art
      /\ TableInv(Q.name)
    BY <1>1, <1>2, AtHolding
<1>4. UNCHANGED <<bucket, acked>>
    BY DEF SetError, SetClosedWithoutData, Closed, CloseFailed, Continue, Respond, history
<1>5. PICK state, outcome :
            /\ state \in {"ERROR", "CLOSED_WITHOUT_DATA"}
            /\ UpdateArtifact(Q.name, [Q.art EXCEPT !.state = state], outcome)
    BY <1>1 DEF SetError, SetClosedWithoutData
<1>6. [Q.art EXCEPT !.state = state].state = state
    BY <1>3 DEF Memory, Row
<1>7. /\ Phases[Q.name] = PhaseOf(Q.art.state) /\ PhaseOf(state) = "void"
      /\ Phases' = IF Applied(outcome) THEN [Phases EXCEPT ![Q.name] = PhaseOf(state)] ELSE Phases
    <2>1. PICK row : row = [Q.art EXCEPT !.state = state]
        OBVIOUS
    <2>2. UpdateArtifact(Q.name, row, outcome) /\ row.state = state
        BY <1>5, <1>6, <2>1
    <2>3. PhaseOf(state) = "void"
        BY <1>5 DEF PhaseOf
    <2>4. QED
        BY <1>1, <1>2, <2>2, <2>3, RowMoves
<1>8. Phases[Q.name] \in {"open", "sealed"}
    BY <1>2, <1>3, <1>7 DEF RequestInv, PointInv, PhaseOf
<1>9. acked[Q.name] = {}
    <2>1. CASE Q.pc = "setError"
        BY <1>3, <2>1 DEF RequestInv, PointInv, UploadInv
    <2>2. CASE Q.art.state = "WAITING_FOR_UPLOAD"
        BY <1>3, <2>2, NothingAcked
    <2>3. CASE Q.art.state = "APPEND_COMPLETE" /\ Q.art.size = 0
        <3>1. logchunk[Q.name] \in Seq(Chunk)
            BY <1>3 DEF IInv, TypeOK
        <3>2. DOMAIN logchunk[Q.name] = {}
            BY <1>3, <2>3, <3>1, NoRoom DEF TableInv
        <3>3. QED
            BY <1>3, <2>3, <3>2 DEF TableInv, Stored
    <2>4. QED
        BY <1>2, <1>3, <2>1, <2>2, <2>3 DEF RequestInv, PointInv
<1>10. QED
    BY <1>3, <1>4, <1>7, <1>8, <1>9, PhaseMoves, NothingMoves

\* The other steps touch nothing the contract speaks of.
LEMMA StepSimulated ==
    ASSUME IInv, IInv', ClosingInv, PayloadInv, NEW r \in Requests, Step(r)
    PROVE  ContractStep
<1>1. CASE \/ BindCreateBucket(r) \/ BindCreate(r) \/ LookupArtifact(r) \/ BindPost(r)
           \/ ReadBody(r) \/ ReadChunks(r) \/ PutObject(r) \/ DeleteLogChunks(r) \/ BindClose(r)
           \/ BindCloseBucket(r) \/ ListArtifacts(r) \/ NextArtifact(r) \/ ReaderPanics(r)
    <2>1. UNCHANGED <<bucket, artifact>>
        BY <1>1 DEF BindCreateBucket, BindCreate, LookupArtifact, BindPost, ReadBody, ReadChunks,
            PutObject, DeleteLogChunks, BindClose, BindCloseBucket, ListArtifacts, NextArtifact,
            ReaderPanics, Stop, tables
    <2>2. ASSUME NEW q, Closed(r, q) \/ CloseArtifact(r, q) PROVE UNCHANGED acked
        BY <2>2 DEF Closed, CloseArtifact, CloseFailed, Continue, Respond, history
    <2>3. ASSUME UploadFailed(r) \/ AttemptFailed(r) PROVE UNCHANGED acked
        BY <2>3 DEF UploadFailed, AttemptFailed, CloseFailed, Continue, Respond, history
    <2>4. UNCHANGED acked
        BY <1>1, <2>2, <2>3 DEF BindCreateBucket, BindCreate, LookupArtifact, BindPost, BindAppend,
            ReadBody, ReadChunks, PutObject, DeleteLogChunks, BindClose, BindCloseBucket,
            ListArtifacts, NextArtifact, ReaderPanics, Stop, Continue, Respond, CloseFailed, history
    <2>5. QED
        BY <2>1, <2>4, NothingMoves DEF Phases
<1>2. QED
    BY <1>1, BucketSimulated, CreateSimulated, AppendSimulated, UploadSimulated, DiscardSimulated
    DEF Step

LEMMA NextSimulated ==
    ASSUME IInv, IInv', ClosingInv, PayloadInv, [OrderlyNext]_vars
    PROVE  ContractStep
<1>1. CASE UNCHANGED <<bucket, artifact, acked>>
    BY <1>1, NothingMoves DEF Phases
<1>2. ASSUME NEW r \in Requests, Step(r) PROVE ContractStep
    BY <1>2, StepSimulated
<1>3. QED
    BY <1>1, <1>2 DEF OrderlyNext, Crash, Stop, OrderlyReceive, Receive, vars, tables, history

\* The server, used alone by a client that waits for its answers, implements
\* the life of an artifact that model/artifact.go describes: what PostArtifact
\* acknowledges stays readable through every later state, whatever fails.
THEOREM ImplementsContract == OrderlySpec => KeepsContract
<1>1. Init => Contract!Init
    <2> SUFFICES ASSUME Init PROVE Contract!Init
        OBVIOUS
    <2>1. \A n \in Names : PhaseOf(artifact[n].state) = "absent"
        BY DEF Init, NoRow, PhaseOf
    <2>2. \A n \in Names : {c \in acked[n] : Stored(n, c)} = {}
        BY DEF Init
    <2>3. QED
        BY <2>1, <2>2 DEF Init, Contract!Init, Phases, Kept
<1>2. /\ IInv /\ IInv' /\ ClosingInv /\ PayloadInv /\ [OrderlyNext]_vars
      => [Contract!Next]_(Contract!vars)
    BY NextSimulated DEF ContractStep
<1>3. QED
    BY <1>1, <1>2, Inductive, Closing, Payloads, PTL DEF OrderlySpec, KeepsContract, Contract!Spec

=============================================================================
