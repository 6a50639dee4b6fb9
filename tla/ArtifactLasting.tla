--------------------------- MODULE ArtifactLasting ---------------------------
(***************************************************************************)
(* What lasts in an orderly history.  No step shrinks an artifact, and     *)
(* once it is UPLOADED row and object are left alone: both follow from     *)
(* IInv, since a request about to write a row holds the row's current      *)
(* value, and its program point says that it is not UPLOADED.  And a       *)
(* bucket whose close has been answered 200 stays settled, which needs an  *)
(* invariant of its own.                                                   *)
(***************************************************************************)
EXTENDS ArtifactDurability

-----------------------------------------------------------------------------
(* UPLOADED is final, and nothing shrinks.                                 *)

\* What both properties ask of one artifact in one step.
Lasts(n) ==
    /\ artifact[n] # NoRow => artifact'[n].size >= artifact[n].size
    /\ artifact[n].state = "UPLOADED" => artifact'[n] = artifact[n] /\ s3'[n] = s3[n]

LEMMA UnchangedLasts ==
    ASSUME IInv, UNCHANGED <<artifact, s3>>
    PROVE  \A n \in Names : Lasts(n)
<1> SUFFICES ASSUME NEW n \in Names PROVE Lasts(n)
    OBVIOUS
<1>1. artifact[n].size \in Int
    BY DEF IInv, TypeOK, Row
<1>2. QED
    BY <1>1 DEF Lasts

\* A request writes a row it holds, which is not UPLOADED and does not get
\* smaller.
LEMMA WriteLasts ==
    ASSUME IInv, NEW r \in Requests, req[r].pc \in Holding,
           NEW row, NEW outcome, UpdateArtifact(req[r].name, row, outcome),
           row.size \in Int, row.size >= req[r].art.size,
           req[r].art.state # "UPLOADED", UNCHANGED s3
    PROVE  \A n \in Names : Lasts(n)
<1> SUFFICES ASSUME NEW n \in Names PROVE Lasts(n)
    OBVIOUS
<1>1. req[r].name \in Names /\ artifact[req[r].name] = req[r].art
    BY AtHolding
<1>2. artifact \in [Names -> Row] /\ artifact[n].size \in Int
    BY DEF IInv, TypeOK, Row
<1>3. artifact'[n] = artifact[n] \/ (n = req[r].name /\ artifact'[n] = row)
    BY <1>1, <1>2 DEF UpdateArtifact
<1>4. QED
    BY <1>1, <1>2, <1>3 DEF Lasts

\* An upload to S3 goes to an artifact that is not UPLOADED.
LEMMA PutLasts ==
    ASSUME IInv, NEW r \in Requests, PutObject(r)
    PROVE  \A n \in Names : Lasts(n)
<1> SUFFICES ASSUME NEW n \in Names PROVE Lasts(n)
    OBVIOUS
<1>1. req[r].pc = "putObject" /\ req[r].pc \in Holding
    BY DEF PutObject, At, Holding
<1>2. PICK Q : Q = req[r]
    OBVIOUS
<1>3. artifact[Q.name] = Q.art /\ RequestInv(Q)
    BY <1>1, <1>2, AtHolding
<1>4. Q.art.state = "UPLOADING"
    BY <1>1, <1>2, <1>3 DEF RequestInv, PointInv
<1>5. artifact' = artifact /\ (s3' = s3 \/ s3' = [s3 EXCEPT ![Q.name] = Q.body])
    BY <1>2 DEF PutObject
<1>6. artifact[n].size \in Int
    BY DEF IInv, TypeOK, Row
<1>7. n # Q.name => s3'[n] = s3[n]
    BY <1>5 DEF IInv, TypeOK
<1>8. QED
    BY <1>3, <1>4, <1>5, <1>6, <1>7 DEF Lasts

\* A new row takes a name that has none.
LEMMA InsertLasts ==
    ASSUME IInv, NEW r \in Requests, InsertArtifact(r)
    PROVE  \A n \in Names : Lasts(n)
<1> SUFFICES ASSUME NEW n \in Names PROVE Lasts(n)
    OBVIOUS
<1>1. artifact[n].size \in Int /\ artifact \in [Names -> Row]
    BY DEF IInv, TypeOK, Row
<1>2. s3' = s3 /\ (artifact[n] # NoRow => artifact'[n] = artifact[n])
    BY <1>1 DEF InsertArtifact
<1>3. artifact[n] = NoRow => artifact[n].state # "UPLOADED"
    BY DEF NoRow
<1>4. QED
    BY <1>1, <1>2, <1>3 DEF Lasts

LEMMA StepLasts ==
    ASSUME IInv, NEW r \in Requests, Step(r)
    PROVE  \A n \in Names : Lasts(n)
<1>1. PICK Q : Q = req[r]
    OBVIOUS
<1>2. RequestInv(Q) /\ Q \in Memory
    BY <1>1 DEF IInv, TypeOK, Request
<1>3. Q.art \in Row /\ Q.load \in Chunk
    BY <1>2 DEF Memory
<1>4. Q.art.size \in Int /\ Q.load.size \in Nat /\ Q.load.offset \in Nat
    BY <1>3 DEF Row, Chunk
<1>5. \A s : [Q.art EXCEPT !.state = s].size = Q.art.size
    BY <1>3 DEF Row
<1>6. CASE GrowArtifact(r)
    <2>1. PICK row : row = [Q.art EXCEPT !.size = Q.load.offset + Q.load.size]
        OBVIOUS
    <2>2. Q.pc = "growArtifact" /\ Q.pc \in Holding
        BY <1>1, <1>6 DEF GrowArtifact, At, Holding
    <2>3. Q.art.state = "APPENDING" /\ Q.load.offset = Q.art.size
        BY <1>2, <2>2 DEF RequestInv, PointInv, AppendInv
    <2>4. row.size = Q.load.offset + Q.load.size
        BY <1>3, <2>1 DEF Row
    <2>5. row.size \in Int /\ row.size >= Q.art.size
        BY <1>4, <2>3, <2>4
    <2>6. PICK outcome : UpdateArtifact(Q.name, row, outcome)
        BY <1>1, <1>6, <2>1 DEF GrowArtifact
    <2>7. UNCHANGED s3
        BY <1>6 DEF GrowArtifact
    <2>8. QED
        BY <1>1, <2>2, <2>3, <2>5, <2>6, <2>7, WriteLasts
<1>7. CASE SetUploading(r) \/ SetUploaded(r) \/ SetError(r) \/ MarkComplete(r)
            \/ SetClosedWithoutData(r)
    <2>1. Q.pc \in {"setUploading", "setUploaded", "setError", "markComplete",
                    "setClosedWithoutData"}
        BY <1>1, <1>7 DEF SetUploading, SetUploaded, SetError, MarkComplete,
            SetClosedWithoutData, At
    <2>2. Q.pc \in Holding /\ Q.art.state # "UPLOADED"
        BY <1>2, <2>1 DEF Holding, RequestInv, PointInv
    <2>3. PICK s, outcome : UpdateArtifact(Q.name, [Q.art EXCEPT !.state = s], outcome)
        BY <1>1, <1>7 DEF SetUploading, SetUploaded, SetError, MarkComplete,
            SetClosedWithoutData
    <2>4. UNCHANGED s3
        BY <1>7 DEF SetUploading, SetUploaded, SetError, MarkComplete,
            SetClosedWithoutData
    <2>5. PICK row : row = [Q.art EXCEPT !.state = s]
        OBVIOUS
    <2>6. row.size = Q.art.size /\ UpdateArtifact(Q.name, row, outcome)
        BY <1>5, <2>3, <2>5
    <2>7. row.size \in Int /\ row.size >= Q.art.size
        BY <1>4, <2>6
    <2>8. QED
        BY <1>1, <2>2, <2>4, <2>6, <2>7, WriteLasts
<1>8. CASE InsertArtifact(r) \/ PutObject(r)
    BY <1>8, InsertLasts, PutLasts
<1>9. CASE \/ BindCreateBucket(r) \/ InsertBucket(r) \/ BindCreate(r)
           \/ LookupArtifact(r) \/ BindPost(r) \/ InsertLogChunk(r) \/ LastLogChunk(r)
           \/ ReadBody(r) \/ ReadChunks(r) \/ DeleteLogChunks(r) \/ BindClose(r)
           \/ BindCloseBucket(r) \/ UpdateBucket(r) \/ ListArtifacts(r)
           \/ NextArtifact(r) \/ ReaderPanics(r)
    <2>1. UNCHANGED <<artifact, s3>>
        BY <1>9 DEF BindCreateBucket, InsertBucket, BindCreate, LookupArtifact, BindPost,
            InsertLogChunk, LastLogChunk, ReadBody, ReadChunks, DeleteLogChunks,
            BindClose, BindCloseBucket, UpdateBucket, ListArtifacts, NextArtifact,
            ReaderPanics, Stop, tables
    <2>2. QED
        BY <2>1, UnchangedLasts
<1>10. QED
    BY <1>6, <1>7, <1>8, <1>9 DEF Step

LEMMA NextLasts ==
    ASSUME IInv, [OrderlyNext]_vars
    PROVE  \A n \in Names : Lasts(n)
<1>1. CASE UNCHANGED vars
    BY <1>1, UnchangedLasts DEF vars, tables
<1>2. CASE Crash
    BY <1>2, UnchangedLasts DEF Crash, Stop, tables
<1>3. ASSUME NEW r \in Requests, NEW q \in Arrivals, OrderlyReceive(r, q)
      PROVE  \A n \in Names : Lasts(n)
    BY <1>3, UnchangedLasts DEF OrderlyReceive, Receive, tables
<1>4. ASSUME NEW r \in Requests, Step(r) PROVE \A n \in Names : Lasts(n)
    BY <1>4, StepLasts
<1>5. QED
    BY <1>1, <1>2, <1>3, <1>4 DEF OrderlyNext

\* UPLOADED is final under orderly use: no failure, retry or crash makes a
\* handler write the row or the object again (UpdateArtifact, PutReader).
THEOREM TerminalState == OrderlySpec => UploadedIsTerminal
<1>1. IInv /\ [OrderlyNext]_vars => [\A n \in Names : artifact[n].state = "UPLOADED" =>
            artifact'[n] = artifact[n] /\ s3'[n] = s3[n]]_vars
    BY NextLasts DEF Lasts
<1>2. QED
    BY <1>1, Inductive, PTL DEF OrderlySpec, UploadedIsTerminal

\* No artifact loses length under orderly use, so a reader that follows a log
\* never finds its end before a position it has reached (AppendLogChunk).
THEOREM Grows == OrderlySpec => NeverShrinks
<1>1. IInv /\ [OrderlyNext]_vars =>
        [\A n \in Names : artifact[n] # NoRow => artifact'[n].size >= artifact[n].size]_vars
    BY NextLasts DEF Lasts
<1>2. QED
    BY <1>1, Inductive, PTL DEF OrderlySpec, NeverShrinks

-----------------------------------------------------------------------------
(***************************************************************************)
(* The end of a bucket.                                                    *)
(***************************************************************************)

\* An artifact that takes data, or that is being uploaded.
Unsettled(n) == artifact[n].state \in {"APPENDING", "WAITING_FOR_UPLOAD", "UPLOADING"}

\* What a request knows of the bucket, and CloseBucket of the artifacts that it
\* has still to close: none has got away.
BucketInv(q) ==
    /\ q.pc \in {"insertArtifact", "lookupArtifact", "updateBucket"} => bucket = "OPEN"
    /\ q.op = "closeBucket" /\ q.pc \notin {"bind", "updateBucket"} => bucket = "CLOSED"
    /\ q.op = "closeBucket" /\ q.pc \in Holding \cup {"nextArtifact"} =>
        \A n \in Names : Unsettled(n) =>
            q.listing[n] # NoRow \/ (q.pc \in Holding /\ n = q.name)
    /\ settled => q.pc \notin Holding \cup {"updateBucket", "listArtifacts", "nextArtifact"}

ClosingInv ==
    /\ settled => bucket = "CLOSED" /\ \A n \in Names : ~Unsettled(n)
    /\ \A r \in Requests : BucketInv(req[r])

\* Requests other than the one that moves.
LEMMA OthersBucket ==
    ASSUME IInv, ClosingInv, NEW r \in Requests, NEW p \in Requests, p # r, req'[p] = req[p],
           bucket' = bucket \/ bucket = "NONE" \/ req[r].op = "closeBucket",
           settled' = settled \/ req[r].op = "closeBucket",
           \A n \in Names : artifact'[n] = artifact[n] \/ Busy(req[r]) \/ req[r].op = "create"
    PROVE  BucketInv(req[p])'
<1>1. PICK P : P = req[p]
    OBVIOUS
<1>2. RequestInv(P) /\ BucketInv(P) /\ ~Conflict(req[r], P)
    BY <1>1 DEF IInv, Exclusive, ClosingInv
<1>3. /\ P.pc \in {"insertArtifact", "lookupArtifact"} => P.op = "create"
      /\ P.pc \in {"updateBucket", "listArtifacts", "nextArtifact"} => P.op = "closeBucket"
      /\ P.pc \in Holding => Busy(P)
    BY <1>2, HoldingIsBusy DEF RequestInv, PointInv
<1>4. req[r].op = "closeBucket" => ~Busy(P) /\ P.op # "create"
    BY <1>2 DEF Conflict, Busy
<1>5. P.op = "closeBucket" => \A n \in Names : artifact'[n] = artifact[n]
    BY <1>2 DEF Conflict, Busy
<1>6. P.op = "closeBucket" => Busy(P)
    BY DEF Busy
<1>7. BucketInv(P)'
    BY <1>2, <1>3, <1>4, <1>5, <1>6 DEF BucketInv, Unsettled
<1>8. QED
    BY <1>1, <1>7 DEF BucketInv

\* A step of one request that does not end a CloseBucket with 200.
LEMMA KeptClosing ==
    ASSUME IInv, ClosingInv, NEW r \in Requests, NEW q, req' = [req EXCEPT ![r] = q],
           UNCHANGED settled,
           \/ bucket' = bucket
           \/ bucket = "NONE"
           \/ req[r].op = "closeBucket" /\ bucket' = "CLOSED",
           \A n \in Names : \/ artifact'[n] = artifact[n]
                            \/ req[r].pc \in Holding \cup {"insertArtifact"},
           q = Idle \/ BucketInv(q)'
    PROVE  ClosingInv'
<1>1. req'[r] = q /\ \A p \in Requests \ {r} : req'[p] = req[p]
    BY DEF IInv, TypeOK
<1>2. RequestInv(req[r]) /\ BucketInv(req[r])
    BY DEF IInv, ClosingInv
<1>3. \A n \in Names : artifact'[n] = artifact[n] \/ Busy(req[r]) \/ req[r].op = "create"
    BY <1>2, HoldingIsBusy DEF RequestInv, PointInv
<1>4. BucketInv(req[r])'
    <2>1. BucketInv(Idle)'
        BY DEF BucketInv, Idle, Holding
    <2>2. BucketInv(q)'
        BY <2>1
    <2>3. QED
        BY <1>1, <2>2 DEF BucketInv
<1>5. ASSUME NEW p \in Requests PROVE BucketInv(req[p])'
    <2>1. CASE p = r
        BY <1>4, <2>1
    <2>2. CASE p # r
        BY <1>1, <1>3, <2>2, OthersBucket
    <2>3. QED
        BY <2>1, <2>2
<1>6. settled' => bucket' = "CLOSED" /\ \A n \in Names : ~Unsettled(n)'
    BY <1>2 DEF ClosingInv, BucketInv, Unsettled
<1>7. QED
    BY <1>5, <1>6 DEF ClosingInv

LEMMA RespondClosing ==
    ASSUME IInv, ClosingInv, NEW r \in Requests, NEW code, Respond(r, code),
           UNCHANGED <<bucket, artifact>>
    PROVE  ClosingInv'
BY KeptClosing DEF Respond, Answer, history

\* A request that works with a row goes on with it.
LEMMA HoldingGoesOn ==
    ASSUME IInv, ClosingInv, NEW r \in Requests, req[r].pc \in Holding,
           NEW q, req' = [req EXCEPT ![r] = q],
           \/ q = Idle
           \/ /\ q.pc \in Holding /\ q.op = req[r].op /\ q.name = req[r].name
              /\ q.listing = req[r].listing,
           UNCHANGED <<bucket, settled>>,
           \A n \in Names : artifact'[n] = artifact[n] \/ n = req[r].name
    PROVE  ClosingInv'
<1>1. BucketInv(req[r])
    BY DEF ClosingInv
<1>2. q # Idle => BucketInv(q)'
    BY <1>1 DEF BucketInv, Unsettled, Holding
<1>3. QED
    BY <1>2, KeptClosing

\* PostArtifact, MergeLogChunks and uploadArtifactToS3 leave the bucket alone
\* and write no row but their own.
LEMMA UploadClosing ==
    ASSUME IInv, ClosingInv, NEW r \in Requests,
           \/ GrowArtifact(r) \/ InsertLogChunk(r) \/ LastLogChunk(r) \/ SetUploading(r)
           \/ ReadBody(r) \/ ReadChunks(r) \/ PutObject(r) \/ SetUploaded(r) \/ SetError(r)
           \/ MarkComplete(r)
    PROVE  ClosingInv'
<1>1. PICK Q : Q = req[r]
    OBVIOUS
<1>2. Q.pc \in Holding \ {"setClosedWithoutData", "deleteLogChunks"}
    BY <1>1 DEF GrowArtifact, InsertLogChunk, LastLogChunk, SetUploading, ReadBody, ReadChunks,
        PutObject, SetUploaded, SetError, MarkComplete, At, Holding
<1>3. Q \in Memory /\ artifact \in [Names -> Row]
    BY <1>1, <1>2, AtHolding DEF IInv, TypeOK
<1>4. UNCHANGED <<bucket, settled>>
    BY DEF GrowArtifact, InsertLogChunk, LastLogChunk, SetUploading, ReadBody, ReadChunks,
        PutObject, SetUploaded, SetError, MarkComplete, AttemptFailed, UploadFailed,
        CloseFailed, Acknowledge, Continue, Respond, history, tables
<1>5. \A n \in Names : artifact'[n] = artifact[n] \/ n = Q.name
    BY <1>1, <1>3 DEF GrowArtifact, InsertLogChunk, LastLogChunk, SetUploading, ReadBody,
        ReadChunks, PutObject, SetUploaded, SetError, MarkComplete, UpdateArtifact, tables
<1>6. CASE req' = [req EXCEPT ![r] = Idle]
    BY <1>1, <1>2, <1>4, <1>5, <1>6, HoldingGoesOn
<1>7. ASSUME NEW q, q.pc \in Holding, q.op = Q.op, q.name = Q.name, q.listing = Q.listing,
             req' = [req EXCEPT ![r] = q]
      PROVE  ClosingInv'
    BY <1>1, <1>2, <1>4, <1>5, <1>7, HoldingGoesOn
<1>8. ASSUME NEW pc \in Holding, req' = [req EXCEPT ![r] = [Q EXCEPT !.pc = pc]]
      PROVE  ClosingInv'
    BY <1>3, <1>7, <1>8 DEF Memory
<1>9. ASSUME NEW pc \in Holding, NEW row,
             req' = [req EXCEPT ![r] = [Q EXCEPT !.pc = pc, !.art = row]]
      PROVE  ClosingInv'
    BY <1>3, <1>7, <1>9 DEF Memory
<1>10. CASE AttemptFailed(r)
    <2>1. CASE UploadFailed(r)
        <3>1. \/ req' = [req EXCEPT ![r] = Idle]
              \/ req' = [req EXCEPT ![r] = [Q EXCEPT !.pc = "setError"]]
            BY <1>1, <2>1 DEF UploadFailed, CloseFailed, Continue, Respond, Answer
        <3>2. "setError" \in Holding
            BY DEF Holding
        <3>3. QED
            BY <1>6, <1>8, <3>1, <3>2
    <2>2. ASSUME NEW pc \in Holding, NEW body, NEW t,
                 req' = [req EXCEPT ![r] = [Q EXCEPT !.tries = t, !.pc = pc, !.body = body]]
          PROVE  ClosingInv'
        BY <1>3, <1>7, <2>2 DEF Memory
    <2>3. "readChunks" \in Holding /\ "putObject" \in Holding
        BY DEF Holding
    <2>4. CASE ~UploadFailed(r)
        <3>1. PICK pc : pc = IF Merging(r) THEN "readChunks" ELSE "putObject"
            OBVIOUS
        <3>2. PICK body : body = IF Merging(r) THEN <<>> ELSE Q.body
            OBVIOUS
        <3>3. req' = [req EXCEPT ![r] = [Q EXCEPT !.tries = @ + 1, !.pc = pc, !.body = body]]
            BY <1>1, <1>10, <2>4, <3>1, <3>2 DEF AttemptFailed, Continue
        <3>4. QED
            BY <2>2, <2>3, <3>1, <3>3
    <2>5. QED
        BY <2>1, <2>4
<1>11. CASE GrowArtifact(r) \/ SetUploading(r) \/ MarkComplete(r) \/ SetUploaded(r)
    BY <1>1, <1>6, <1>9, <1>11 DEF GrowArtifact, SetUploading, MarkComplete, SetUploaded,
        Acknowledge, CloseFailed, Continue, Respond, Answer, Holding
<1>12. CASE InsertLogChunk(r) \/ LastLogChunk(r) \/ SetError(r)
    BY <1>6, <1>12 DEF InsertLogChunk, LastLogChunk, SetError, Acknowledge, Respond, Answer
<1>13. CASE ReadBody(r)
    <2>1. ASSUME NEW body, req' = [req EXCEPT ![r] = [Q EXCEPT !.pc = "putObject", !.body = body]]
          PROVE  ClosingInv'
        <3>1. "putObject" \in Holding
            BY DEF Holding
        <3>2. QED
            BY <1>3, <1>7, <2>1, <3>1 DEF Memory
    <2>2. QED
        BY <1>1, <1>6, <1>8, <1>13, <2>1 DEF ReadBody, UploadFailed, CloseFailed, Continue,
            Respond, Answer, Holding
<1>14. CASE ReadChunks(r)
    <2>1. ASSUME NEW body, NEW pc \in Holding,
                 req' = [req EXCEPT ![r] = [Q EXCEPT !.body = body, !.pc = pc]]
          PROVE  ClosingInv'
        BY <1>3, <1>7, <2>1 DEF Memory
    <2>2. QED
        BY <1>1, <1>10, <1>14, <2>1 DEF ReadChunks, Continue, Holding
<1>15. CASE PutObject(r)
    BY <1>1, <1>8, <1>10, <1>15 DEF PutObject, Continue, Holding
<1>16. QED
    BY <1>11, <1>12, <1>13, <1>14, <1>15

\* CloseArtifact has nothing left to do for the artifact it was given.
LEMMA ClosedClosing ==
    ASSUME IInv, ClosingInv, NEW r \in Requests, NEW q \in Memory, q.op = req[r].op, Closed(r, q),
           UNCHANGED bucket, bucket = "CLOSED" \/ q.op # "closeBucket",
           \A n \in Names : artifact'[n] = artifact[n] \/ req[r].pc \in Holding,
           q.op = "closeBucket" => ~settled,
           q.op = "closeBucket" => \A n \in Names : Unsettled(n)' => q.listing[n] # NoRow
    PROVE  ClosingInv'
<1>1. CASE Respond(r, "200")
    BY <1>1, KeptClosing DEF Respond, Answer, history
<1>2. CASE q.op = "closeBucket" /\ ~Respond(r, "200")
    <2>1. PICK g : g = [q EXCEPT !.pc = "nextArtifact", !.name = NoName, !.art = NoRow,
                            !.body = <<>>, !.tries = 0]
        OBVIOUS
    <2>2. g.pc = "nextArtifact" /\ g.op = "closeBucket" /\ g.listing = q.listing
        BY <1>2, <2>1 DEF Memory
    <2>3. req' = [req EXCEPT ![r] = g] /\ UNCHANGED settled
        BY <1>2, <2>1 DEF Closed, Continue, history
    <2>4. BucketInv(g)'
        BY <1>2, <2>2, <2>3 DEF BucketInv
    <2>5. QED
        BY <2>3, <2>4, KeptClosing
<1>3. QED
    BY <1>1, <1>2 DEF Closed

LEMMA CloseArtifactClosing ==
    ASSUME IInv, ClosingInv, NEW r \in Requests, NEW q \in Memory, CloseArtifact(r, q),
           UNCHANGED <<bucket, artifact>>, q.op = req[r].op, Closes(q),
           q.name \in Names, artifact[q.name] = q.art,
           q.op = "closeBucket" =>
                /\ ~settled /\ bucket = "CLOSED"
                /\ \A n \in Names : Unsettled(n) => q.listing[n] # NoRow \/ n = q.name
    PROVE  ClosingInv'
<1>1. CASE CloseFailed(r)
    BY <1>1, RespondClosing DEF CloseFailed
<1>2. CASE q.art.state \in {"UPLOADED", "APPEND_COMPLETE"} /\ Closed(r, q)
    <2>1. ~Unsettled(q.name)
        BY <1>2 DEF Unsettled
    <2>2. \A n \in Names : Unsettled(n)' <=> Unsettled(n)
        BY DEF Unsettled
    <2>3. QED
        BY <1>2, <2>1, <2>2, ClosedClosing DEF Closes
<1>3. ASSUME NEW pc, pc \in {"markComplete", "setClosedWithoutData"}, Continue(r, [q EXCEPT !.pc = pc]),
             q.art.state \in {"APPENDING", "WAITING_FOR_UPLOAD"}
      PROVE  ClosingInv'
    <2>1. PICK g : g = [q EXCEPT !.pc = pc]
        OBVIOUS
    <2>2. g.pc = pc /\ pc \in Holding /\ g.op = q.op /\ g.name = q.name /\ g.listing = q.listing
        BY <1>3, <2>1 DEF Memory, Holding
    <2>3. req' = [req EXCEPT ![r] = g] /\ UNCHANGED settled
        BY <1>3, <2>1 DEF Continue, history
    <2>4. Unsettled(q.name) /\ ~settled
        BY <1>3 DEF Unsettled, ClosingInv
    <2>5. BucketInv(g)'
        BY <1>3, <2>2, <2>3, <2>4 DEF BucketInv, Unsettled
    <2>6. QED
        BY <2>3, <2>5, KeptClosing
<1>4. QED
    BY <1>1, <1>2, <1>3 DEF CloseArtifact

LEMMA CloseClosing ==
    ASSUME IInv, ClosingInv, NEW r \in Requests,
           BindClose(r) \/ SetClosedWithoutData(r) \/ DeleteLogChunks(r)
    PROVE  ClosingInv'
<1>1. PICK Q : Q = req[r]
    OBVIOUS
<1>2. Q \in Request /\ Q \in Memory /\ RequestInv(Q) /\ BucketInv(Q)
    BY <1>1 DEF IInv, TypeOK, Request, ClosingInv
<1>3. CASE BindClose(r)
    <2>1. PICK q : q = Bound(r, "bind")
        OBVIOUS
    <2>2. Q.op = "close" /\ Q.name \in Names /\ artifact[Q.name] \in Row
        BY <1>1, <1>2, <1>3 DEF BindClose, Request, IInv, TypeOK
    <2>3. q \in Memory
        BY <1>1, <1>2, <2>1, <2>2 DEF Bound, Memory, ProgramPoints
    <2>4. q.op = "close" /\ q.name = Q.name /\ q.art = artifact[Q.name]
        BY <1>1, <1>2, <2>1, <2>2 DEF Bound, Memory
    <2>5. UNCHANGED <<bucket, artifact>>
        BY <1>3 DEF BindClose, tables
    <2>6. CASE CloseArtifact(r, q)
        BY <1>1, <2>2, <2>3, <2>4, <2>5, <2>6, CloseArtifactClosing DEF Closes
    <2>7. ASSUME NEW code, Respond(r, code) PROVE ClosingInv'
        BY <2>5, <2>7, RespondClosing
    <2>8. QED
        BY <1>3, <2>1, <2>6, <2>7 DEF BindClose
<1>4. CASE SetClosedWithoutData(r) \/ DeleteLogChunks(r)
    <2>1. Q.pc \in {"setClosedWithoutData", "deleteLogChunks"} /\ Q.pc \in Holding
        BY <1>1, <1>4 DEF SetClosedWithoutData, DeleteLogChunks, At, Holding
    <2>2. /\ Closes(Q) /\ Q.name \in Names /\ artifact[Q.name] = Q.art
          /\ Q.pc = "deleteLogChunks" => Q.art.state = "UPLOADED"
        BY <1>1, <1>2, <2>1, AtHolding DEF RequestInv, PointInv, Closes
    <2>3. ~settled
        BY <1>2, <2>1 DEF BucketInv
    <2>4. UNCHANGED bucket /\ artifact \in [Names -> Row]
        BY <1>4 DEF SetClosedWithoutData, DeleteLogChunks, IInv, TypeOK
    <2>5. \A n \in Names : artifact'[n] = artifact[n] \/ n = Q.name
        BY <1>1, <1>4, <2>4 DEF SetClosedWithoutData, DeleteLogChunks, UpdateArtifact
    <2>6. CASE \E code : Respond(r, code)
        BY <1>1, <2>1, <2>4, <2>5, <2>6, HoldingGoesOn DEF Respond, Answer, history
    <2>7. CASE Closed(r, Q) /\ ~Unsettled(Q.name)'
        <3>1. Q.op = "closeBucket" => bucket = "CLOSED"
            BY <1>2, <2>1 DEF BucketInv
        <3>2. Q.op = "closeBucket" => \A n \in Names : Unsettled(n)' => Q.listing[n] # NoRow
            BY <1>2, <2>1, <2>5, <2>7 DEF BucketInv, Unsettled
        <3>3. QED
            BY <1>1, <1>2, <2>1, <2>3, <2>4, <2>7, <3>1, <3>2, ClosedClosing
    <2>8. CASE SetClosedWithoutData(r)
        <3>1. PICK row : row = [Q.art EXCEPT !.state = "CLOSED_WITHOUT_DATA"]
            OBVIOUS
        <3>2. row.state = "CLOSED_WITHOUT_DATA"
            BY <1>2, <3>1 DEF Memory, Row
        <3>3. \/ CloseFailed(r)
              \/ Closed(r, Q) /\ artifact' = [artifact EXCEPT ![Q.name] = row]
            BY <1>1, <2>8, <3>1 DEF SetClosedWithoutData, UpdateArtifact, Applied
        <3>4. artifact' = [artifact EXCEPT ![Q.name] = row] => ~Unsettled(Q.name)'
            BY <2>2, <2>4, <3>2 DEF Unsettled
        <3>5. QED
            BY <2>6, <2>7, <3>3, <3>4 DEF CloseFailed
    <2>9. CASE DeleteLogChunks(r)
        <3>1. UNCHANGED artifact /\ Q.pc = "deleteLogChunks"
            BY <1>1, <2>9 DEF DeleteLogChunks, At
        <3>2. ~Unsettled(Q.name)'
            BY <2>2, <3>1 DEF Unsettled
        <3>3. QED
            BY <1>1, <2>6, <2>7, <2>9, <3>2 DEF DeleteLogChunks
    <2>10. QED
        BY <1>4, <2>8, <2>9
<1>5. QED
    BY <1>3, <1>4

\* Requests for the bucket, and the creation of an artifact.
LEMMA CreateClosing ==
    ASSUME IInv, ClosingInv, NEW r \in Requests,
           \/ BindCreateBucket(r) \/ InsertBucket(r) \/ BindCreate(r) \/ InsertArtifact(r)
           \/ LookupArtifact(r) \/ BindCloseBucket(r) \/ UpdateBucket(r)
    PROVE  ClosingInv'
<1>1. PICK Q \in Memory : Q = req[r]
    BY DEF IInv, TypeOK, Request
<1>2. BucketInv(Q) /\ PointInv(Q) /\ artifact \in [Names -> Row]
    BY <1>1 DEF IInv, TypeOK, ClosingInv, RequestInv
<1>3. settled => bucket = "CLOSED"
    BY DEF ClosingInv
<1>4. \A n \in Names : artifact'[n] = artifact[n] \/ Q.pc = "insertArtifact"
    BY <1>1 DEF BindCreateBucket, InsertBucket, BindCreate, InsertArtifact, LookupArtifact,
        BindCloseBucket, UpdateBucket, At, tables
<1>5. UNCHANGED settled
    BY DEF BindCreateBucket, InsertBucket, BindCreate, InsertArtifact, LookupArtifact,
        BindCloseBucket, UpdateBucket, CloseFailed, Respond, Continue, history
<1>6. \/ bucket' = bucket
      \/ bucket = "NONE"
      \/ Q.op = "closeBucket" /\ bucket' = "CLOSED" /\ Q.pc = "updateBucket"
    BY <1>1, <1>2 DEF BindCreateBucket, InsertBucket, BindCreate, InsertArtifact,
        LookupArtifact, BindCloseBucket, UpdateBucket, At, PointInv, tables
<1>7. CASE req' = [req EXCEPT ![r] = Idle]
    BY <1>1, <1>4, <1>5, <1>6, <1>7, KeptClosing
<1>8. ASSUME NEW q, req' = [req EXCEPT ![r] = q], q.op # "closeBucket",
             q.pc \in {"insertBucket", "insertArtifact", "lookupArtifact"},
             q.pc # "insertBucket" => bucket' = "OPEN"
      PROVE  ClosingInv'
    <2>1. BucketInv(q)'
        BY <1>8 DEF BucketInv, Holding
    <2>2. QED
        BY <1>1, <1>4, <1>5, <1>6, <1>8, <2>1, KeptClosing
<1>9. ASSUME NEW q, req' = [req EXCEPT ![r] = q], q.op = "closeBucket", ~settled,
             \/ q.pc = "updateBucket" /\ bucket' = "OPEN"
             \/ q.pc = "listArtifacts" /\ bucket' = "CLOSED"
      PROVE  ClosingInv'
    <2>1. BucketInv(q)'
        BY <1>5, <1>9 DEF BucketInv, Holding
    <2>2. QED
        BY <1>1, <1>4, <1>5, <1>6, <1>9, <2>1, KeptClosing
<1>10. \A pc : LET q == [Q EXCEPT !.pc = pc] IN q.pc = pc /\ q.op = Q.op
    BY DEF Memory
<1>11. CASE InsertBucket(r)
    BY <1>7, <1>11 DEF InsertBucket, Respond, Answer
<1>12. CASE BindCreateBucket(r)
    <2>1. Q.op # "closeBucket"
        BY <1>1, <1>12 DEF BindCreateBucket
    <2>2. CASE req' = [req EXCEPT ![r] = [Q EXCEPT !.pc = "insertBucket"]]
        BY <1>8, <1>10, <2>1, <2>2
    <2>3. QED
        BY <1>1, <1>7, <1>12, <2>2 DEF BindCreateBucket, Respond, Answer, Continue
<1>13. CASE BindCreate(r)
    <2>1. Q.op # "closeBucket" /\ bucket' = bucket
        BY <1>1, <1>13 DEF BindCreate, tables
    <2>2. CASE bucket = "OPEN" /\ req' = [req EXCEPT ![r] = [Q EXCEPT !.pc = "insertArtifact"]]
        BY <1>8, <1>10, <2>1, <2>2
    <2>3. QED
        BY <1>1, <1>7, <1>13, <2>2 DEF BindCreate, Respond, Answer, Continue
<1>14. CASE InsertArtifact(r)
    <2>1. Q.op # "closeBucket" /\ bucket = "OPEN" /\ bucket' = bucket
        BY <1>1, <1>2, <1>14 DEF InsertArtifact, At, PointInv, BucketInv
    <2>2. CASE req' = [req EXCEPT ![r] = [Q EXCEPT !.pc = "lookupArtifact"]]
        BY <1>8, <1>10, <2>1, <2>2
    <2>3. QED
        BY <1>1, <1>7, <1>14, <2>2 DEF InsertArtifact, Respond, Answer, Continue
<1>15. CASE LookupArtifact(r)
    <2>1. Q.op # "closeBucket" /\ bucket = "OPEN" /\ bucket' = bucket
        BY <1>1, <1>2, <1>15 DEF LookupArtifact, At, PointInv, BucketInv, tables
    <2>2. ASSUME NEW n, NEW t,
                 req' = [req EXCEPT ![r] = [Q EXCEPT !.pc = "insertArtifact", !.name = n, !.tries = t]]
          PROVE  ClosingInv'
        <3>1. PICK q : q = [Q EXCEPT !.pc = "insertArtifact", !.name = n, !.tries = t]
            OBVIOUS
        <3>2. q.op = Q.op /\ q.pc = "insertArtifact"
            BY <3>1 DEF Memory
        <3>3. QED
            BY <1>8, <2>1, <2>2, <3>1, <3>2
    <2>3. QED
        BY <1>1, <1>7, <1>15, <2>2 DEF LookupArtifact, Respond, Answer, Continue
<1>16. CASE BindCloseBucket(r)
    <2>1. Q.op = "closeBucket" /\ bucket' = bucket
        BY <1>1, <1>16 DEF BindCloseBucket, tables
    <2>2. CASE bucket = "OPEN" /\ req' = [req EXCEPT ![r] = [Q EXCEPT !.pc = "updateBucket"]]
        BY <1>3, <1>9, <1>10, <2>1, <2>2
    <2>3. QED
        BY <1>1, <1>7, <1>16, <2>2 DEF BindCloseBucket, Respond, Answer, Continue
<1>17. CASE UpdateBucket(r)
    <2>1. Q.op = "closeBucket" /\ bucket = "OPEN"
        BY <1>1, <1>2, <1>17 DEF UpdateBucket, At, PointInv, BucketInv
    <2>2. CASE bucket' = "CLOSED" /\ req' = [req EXCEPT ![r] = [Q EXCEPT !.pc = "listArtifacts"]]
        BY <1>3, <1>9, <1>10, <2>1, <2>2
    <2>3. QED
        BY <1>1, <1>7, <1>17, <2>2 DEF UpdateBucket, CloseFailed, Respond, Answer, Continue, Applied
<1>18. QED
    BY <1>11, <1>12, <1>13, <1>14, <1>15, <1>16, <1>17

\* PostArtifact takes data for an artifact of a bucket that is not settled.
LEMMA BindPostClosing ==
    ASSUME IInv, ClosingInv, NEW r \in Requests, BindPost(r)
    PROVE  ClosingInv'
<1>1. PICK Q \in Request : Q = req[r]
    BY DEF IInv, TypeOK
<1>2. Q \in Memory /\ Q.op = "post" /\ Q.name \in Names /\ UNCHANGED <<bucket, artifact>>
    BY <1>1 DEF BindPost, Request, tables
<1>3. ASSUME NEW code, Respond(r, code) PROVE ClosingInv'
    BY <1>2, <1>3, RespondClosing
<1>4. ASSUME NEW q, Continue(r, q), Unsettled(Q.name), q.op = "post", q.pc \in Holding
      PROVE  ClosingInv'
    <2>1. ~settled /\ UNCHANGED settled /\ req' = [req EXCEPT ![r] = q]
        BY <1>2, <1>4 DEF ClosingInv, Continue, history
    <2>2. q.pc \notin {"insertArtifact", "lookupArtifact", "updateBucket"}
        BY <1>4 DEF Holding
    <2>3. BucketInv(q)'
        BY <1>4, <2>1, <2>2 DEF BucketInv
    <2>4. QED
        BY <1>2, <2>1, <2>3, KeptClosing
<1>5. ASSUME NEW pc \in {"growArtifact", "lastLogChunk", "setUploading"}
      PROVE  Bound(r, pc).pc = pc /\ Bound(r, pc).op = "post" /\ pc \in Holding
    BY <1>1, <1>2 DEF Bound, Memory, Holding
<1>6. CASE artifact[Q.name].state = "WAITING_FOR_UPLOAD"
    <2>1. PICK b : b = Bound(r, "setUploading")
        OBVIOUS
    <2>2. Unsettled(Q.name)
        BY <1>6 DEF Unsettled
    <2>3. CASE Continue(r, [b EXCEPT !.load.offset = 0])
        <3>1. b = [Q EXCEPT !.pc = "setUploading", !.art = artifact[Q.name]]
            BY <1>1, <2>1 DEF Bound
        <3>2. PICK q : q = [b EXCEPT !.load.offset = 0]
            OBVIOUS
        <3>3. q.pc = "setUploading" /\ q.op = "post" /\ q.pc \in Holding
            BY <1>2, <3>1, <3>2 DEF Memory, Holding
        <3>4. QED
            BY <1>4, <2>2, <2>3, <3>2, <3>3
    <2>4. QED
        BY <1>1, <1>3, <1>6, <2>1, <2>3 DEF BindPost
<1>7. CASE artifact[Q.name].state = "APPENDING" /\ BindAppend(r)
    <2>1. Unsettled(Q.name)
        BY <1>7 DEF Unsettled
    <2>2. QED
        BY <1>3, <1>4, <1>5, <1>7, <2>1 DEF BindAppend
<1>8. QED
    BY <1>1, <1>3, <1>6, <1>7 DEF BindPost

\* CloseBucket takes its listing when no artifact can be created any more.
LEMMA ListArtifactsClosing ==
    ASSUME IInv, ClosingInv, NEW r \in Requests, ListArtifacts(r)
    PROVE  ClosingInv'
<1>1. PICK Q \in Memory : Q = req[r]
    BY DEF IInv, TypeOK, Request
<1>2. BucketInv(Q) /\ Q.pc = "listArtifacts" /\ Q.op = "closeBucket"
    BY <1>1 DEF IInv, ClosingInv, RequestInv, PointInv, ListArtifacts, At
<1>3. UNCHANGED <<bucket, artifact>>
    BY DEF ListArtifacts, tables
<1>4. CASE CloseFailed(r)
    BY <1>3, <1>4, RespondClosing DEF CloseFailed
<1>5. CASE Continue(r, [Q EXCEPT !.pc = "nextArtifact", !.listing = artifact])
    <2>1. PICK q : q = [Q EXCEPT !.pc = "nextArtifact", !.listing = artifact]
        OBVIOUS
    <2>2. q.pc = "nextArtifact" /\ q.op = "closeBucket" /\ q.listing = artifact
        BY <1>2, <2>1 DEF Memory
    <2>3. req' = [req EXCEPT ![r] = q] /\ UNCHANGED settled
        BY <1>5, <2>1 DEF Continue, history
    <2>4. ~settled /\ bucket = "CLOSED"
        BY <1>2 DEF BucketInv
    <2>5. \A n \in Names : Unsettled(n)' => artifact[n] # NoRow
        BY <1>3 DEF Unsettled, NoRow
    <2>6. BucketInv(q)'
        BY <1>3, <2>2, <2>3, <2>4, <2>5 DEF BucketInv
    <2>7. QED
        BY <1>3, <2>3, <2>6, KeptClosing
<1>6. QED
    BY <1>1, <1>4, <1>5 DEF ListArtifacts

\* CloseBucket answers 200 when it has closed all that it listed.
LEMMA NextArtifactClosing ==
    ASSUME IInv, ClosingInv, NEW r \in Requests, NextArtifact(r)
    PROVE  ClosingInv'
<1>1. PICK Q \in Memory : Q = req[r]
    BY DEF IInv, TypeOK, Request
<1>2. /\ Q.pc = "nextArtifact" /\ Q.pc \notin Holding
      /\ BucketInv(Q) /\ CopyInv(Q) /\ Q.op = "closeBucket"
    BY <1>1 DEF IInv, ClosingInv, RequestInv, PointInv, NextArtifact, At, Holding
<1>3. /\ ~settled /\ bucket = "CLOSED"
      /\ \A n \in Names : Unsettled(n) => Q.listing[n] # NoRow
    BY <1>2 DEF BucketInv
<1>4. UNCHANGED <<bucket, artifact>>
    BY DEF NextArtifact, tables
<1>5. CASE Q.listing = NoListing /\ Answer(r, "200") /\ settled' = TRUE
    <2>1. \A n \in Names : ~Unsettled(n)
        BY <1>3, <1>5 DEF NoListing
    <2>2. \A n \in Names : ~Unsettled(n)'
        BY <1>4, <2>1 DEF Unsettled
    <2>3. req'[r] = Idle /\ \A p \in Requests \ {r} : req'[p] = req[p]
        BY <1>5 DEF Answer, IInv, TypeOK
    <2>4. BucketInv(req[r])'
        <3>1. BucketInv(Idle)'
            BY DEF BucketInv, Idle, Holding
        <3>2. QED
            BY <2>3, <3>1 DEF BucketInv
    <2>5. ASSUME NEW p \in Requests PROVE BucketInv(req[p])'
        <3>1. CASE p # r
            BY <1>1, <1>2, <1>4, <2>3, <3>1, OthersBucket
        <3>2. QED
            BY <2>4, <3>1
    <2>6. QED
        BY <1>3, <1>4, <2>2, <2>5 DEF ClosingInv
<1>6. ASSUME NEW n \in Names, Q.listing[n] # NoRow,
             CloseArtifact(r, [Q EXCEPT !.name = n, !.art = Q.listing[n],
                                  !.listing = [Q.listing EXCEPT ![n] = NoRow]])
      PROVE  ClosingInv'
    <2>1. PICK q : q = [Q EXCEPT !.name = n, !.art = Q.listing[n],
                           !.listing = [Q.listing EXCEPT ![n] = NoRow]]
        OBVIOUS
    <2>2. Q.listing \in [Names -> Row] /\ NoRow \in Row
        BY DEF Memory, NoRow, Row
    <2>3. q \in Memory
        BY <2>1, <2>2 DEF Memory
    <2>4. /\ q.op = "closeBucket" /\ q.name = n /\ q.art = Q.listing[n]
          /\ q.listing = [Q.listing EXCEPT ![n] = NoRow]
        BY <1>2, <2>1 DEF Memory
    <2>5. artifact[q.name] = q.art
        BY <1>2, <1>6, <2>4 DEF CopyInv
    <2>6. \A m \in Names : Unsettled(m) => q.listing[m] # NoRow \/ m = q.name
        BY <1>3, <2>2, <2>4
    <2>7. CloseArtifact(r, q)
        BY <1>6, <2>1
    <2>8. QED
        BY <1>1, <1>2, <1>3, <1>4, <2>3, <2>4, <2>5, <2>6, <2>7, CloseArtifactClosing DEF Closes
<1>7. QED
    BY <1>1, <1>5, <1>6 DEF NextArtifact

\* A process that ends takes what its requests knew with it.
LEMMA StopClosing ==
    ASSUME IInv, ClosingInv, NEW dying, Stop(dying)
    PROVE  ClosingInv'
<1>1. UNCHANGED <<bucket, artifact, settled>>
    BY DEF Stop, tables, history
<1>2. ASSUME NEW p \in Requests PROVE BucketInv(req[p])'
    <2>1. PICK q : q = req'[p] /\ (q = Idle \/ q = req[p])
        BY DEF Stop
    <2>2. BucketInv(q)
        BY <2>1 DEF ClosingInv, BucketInv, Idle, Holding
    <2>3. BucketInv(q)'
        BY <1>1, <2>2 DEF BucketInv, Unsettled
    <2>4. QED
        BY <2>1, <2>3 DEF BucketInv
<1>3. QED
    BY <1>1, <1>2 DEF ClosingInv, Unsettled

\* A request arrives where its handler begins.
LEMMA ArrivalPoint ==
    ASSUME NEW q \in Arrivals
    PROVE  q.pc = "bind"
<1>1. Idle \in Memory
    BY IdleType DEF Request
<1>2. ASSUME NEW n \in Names, q \in ArrivalsFor(n) PROVE q.pc = "bind"
    BY <1>1, <1>2 DEF ArrivalsFor, CreateRequest, PostRequest, CloseRequest, Memory
<1>3. QED
    BY <1>1, <1>2 DEF Arrivals, BucketRequest, Memory

LEMMA StepClosing ==
    ASSUME IInv, ClosingInv, NEW r \in Requests, Step(r)
    PROVE  ClosingInv'
<1>1. CASE ReaderPanics(r)
    BY <1>1, StopClosing DEF ReaderPanics
<1>2. QED
    BY <1>1, UploadClosing, CloseClosing, CreateClosing, BindPostClosing,
       ListArtifactsClosing, NextArtifactClosing
    DEF Step

LEMMA NextClosing ==
    ASSUME IInv, ClosingInv, [OrderlyNext]_vars
    PROVE  ClosingInv'
<1>1. CASE UNCHANGED vars
    BY <1>1 DEF vars, ClosingInv, BucketInv, Unsettled
<1>2. CASE Crash
    BY <1>2, StopClosing DEF Crash
<1>3. ASSUME NEW r \in Requests, NEW q \in Arrivals, OrderlyReceive(r, q)
      PROVE  ClosingInv'
    <2>1. q.pc = "bind"
        BY ArrivalPoint
    <2>2. BucketInv(q)'
        BY <2>1 DEF BucketInv, Holding
    <2>3. QED
        BY <1>3, <2>2, KeptClosing DEF OrderlyReceive, Receive, tables, history
<1>4. ASSUME NEW r \in Requests, Step(r) PROVE ClosingInv'
    BY <1>4, StepClosing
<1>5. QED
    BY <1>1, <1>2, <1>3, <1>4 DEF OrderlyNext

-----------------------------------------------------------------------------
(* The theorems.                                                           *)

\* Under orderly use CloseBucket misses no artifact: none is created behind its
\* listing, and it lets none go that still takes data (HandleCloseBucket).
THEOREM Closing == OrderlySpec => []ClosingInv
<1>1. Init => ClosingInv
    BY DEF Init, ClosingInv, BucketInv, Idle, Holding
<1>2. IInv /\ ClosingInv /\ [OrderlyNext]_vars => ClosingInv'
    BY NextClosing
<1>3. QED
    BY <1>1, <1>2, Inductive, PTL DEF OrderlySpec

\* A bucket whose close was answered 200 takes no more data and uploads nothing
\* (CloseBucket).
THEOREM Settled == OrderlySpec => []SettledAfterClose
<1>1. ClosingInv => SettledAfterClose
    BY DEF ClosingInv, SettledAfterClose, Unsettled
<1>2. QED
    BY <1>1, Closing, PTL

\* One step moves one request, or ends a process.  A request keeps its payload
\* until it ends, but for the offset of an upload.
Carries(q1, q2) ==
    q2.op = q1.op /\ q2.pc # "idle" /\ (q2.load = q1.load \/ q2.load = [q1.load EXCEPT !.offset = 0])

Moves(r) == \E q : req' = [req EXCEPT ![r] = q] /\ (q = Idle \/ Carries(req[r], q))

LEMMA CloseMoves ==
    ASSUME NEW r \in Requests, NEW q \in Memory, q.op = req[r].op, q.load = req[r].load,
           Closed(r, q) \/ CloseArtifact(r, q)
    PROVE  Moves(r)
<1>1. ASSUME NEW code, Respond(r, code) PROVE Moves(r)
    BY <1>1 DEF Respond, Answer, Moves
<1>2. ASSUME NEW pc, pc # "idle", Continue(r, [q EXCEPT !.pc = pc]) PROVE Moves(r)
    <2>1. Carries(req[r], [q EXCEPT !.pc = pc])
        BY <1>2 DEF Carries, Memory
    <2>2. QED
        BY <1>2, <2>1 DEF Continue, Moves
<1>3. CASE Continue(r, [q EXCEPT !.pc = "nextArtifact", !.name = NoName,
                            !.art = NoRow, !.body = <<>>, !.tries = 0])
    <2>1. PICK g : g = [q EXCEPT !.pc = "nextArtifact", !.name = NoName,
                            !.art = NoRow, !.body = <<>>, !.tries = 0]
        OBVIOUS
    <2>2. g.op = q.op /\ g.load = q.load /\ g.pc # "idle"
        BY <2>1 DEF Memory
    <2>3. QED
        BY <1>3, <2>1, <2>2 DEF Carries, Continue, Moves
<1>4. QED
    BY <1>1, <1>2, <1>3 DEF Closed, CloseArtifact, CloseFailed

LEMMA OneMoves ==
    ASSUME TypeOK, NEW r \in Requests, Step(r)
    PROVE  Moves(r) \/ \E dying : Stop(dying)
<1>1. PICK Q \in Memory : Q = req[r]
    BY DEF TypeOK, Request
<1>2. ASSUME NEW code, Respond(r, code) \/ Answer(r, code) PROVE Moves(r)
    BY <1>2 DEF Respond, Answer, Moves
<1>3. ASSUME NEW q, Continue(r, q), Carries(Q, q) PROVE Moves(r)
    BY <1>1, <1>3 DEF Continue, Moves
<1>4. ASSUME NEW pc, pc # "idle", Continue(r, [Q EXCEPT !.pc = pc]) PROVE Moves(r)
    <2>1. Carries(Q, [Q EXCEPT !.pc = pc])
        BY <1>4 DEF Carries, Memory
    <2>2. QED
        BY <1>3, <1>4, <2>1
<1>5. ASSUME NEW pc, pc # "idle", NEW row, Continue(r, [Q EXCEPT !.pc = pc, !.art = row]) PROVE Moves(r)
    <2>1. Carries(Q, [Q EXCEPT !.pc = pc, !.art = row])
        BY <1>5 DEF Carries, Memory
    <2>2. QED
        BY <1>3, <1>5, <2>1
<1>6. ASSUME NEW pc, pc # "idle", NEW body,
             \/ Continue(r, [Q EXCEPT !.pc = pc, !.body = body])
             \/ Continue(r, [Q EXCEPT !.body = body, !.pc = pc])
      PROVE  Moves(r)
    <2>1. /\ Carries(Q, [Q EXCEPT !.pc = pc, !.body = body])
          /\ Carries(Q, [Q EXCEPT !.body = body, !.pc = pc])
        BY <1>6 DEF Carries, Memory
    <2>2. QED
        BY <1>3, <1>6, <2>1
<1>7. ASSUME UploadFailed(r) \/ AttemptFailed(r) \/ Acknowledge(r) PROVE Moves(r)
    <2>1. ASSUME NEW pc, pc # "idle", NEW body, NEW t,
                 Continue(r, [Q EXCEPT !.tries = t, !.pc = pc, !.body = body])
          PROVE  Moves(r)
        <3>1. Carries(Q, [Q EXCEPT !.tries = t, !.pc = pc, !.body = body])
            BY <2>1 DEF Carries, Memory
        <3>2. QED
            BY <1>3, <2>1, <3>1
    <2>2. QED
        BY <1>1, <1>2, <1>4, <1>7, <2>1 DEF UploadFailed, AttemptFailed, CloseFailed, Acknowledge
<1>8. CASE BindCreateBucket(r) \/ InsertBucket(r) \/ BindCreate(r) \/ InsertArtifact(r)
    BY <1>1, <1>2, <1>4, <1>8 DEF BindCreateBucket, InsertBucket, BindCreate, InsertArtifact
<1>9. CASE BindCloseBucket(r) \/ UpdateBucket(r)
    BY <1>1, <1>2, <1>4, <1>9 DEF BindCloseBucket, UpdateBucket, CloseFailed
<1>10. CASE LookupArtifact(r)
    <2>1. \A n, t : Carries(Q, [Q EXCEPT !.pc = "insertArtifact", !.name = n, !.tries = t])
        BY DEF Carries, Memory
    <2>2. QED
        BY <1>1, <1>2, <1>3, <1>10, <2>1 DEF LookupArtifact
<1>11. CASE ListArtifacts(r)
    <2>1. Carries(Q, [Q EXCEPT !.pc = "nextArtifact", !.listing = artifact])
        BY DEF Carries, Memory
    <2>2. QED
        BY <1>1, <1>2, <1>3, <1>11, <2>1 DEF ListArtifacts, CloseFailed
<1>12. CASE NextArtifact(r)
    <2>1. ASSUME NEW n \in Names,
                 CloseArtifact(r, [Q EXCEPT !.name = n, !.art = Q.listing[n],
                                      !.listing = [Q.listing EXCEPT ![n] = NoRow]])
          PROVE  Moves(r)
        <3>1. PICK q : q = [Q EXCEPT !.name = n, !.art = Q.listing[n],
                                !.listing = [Q.listing EXCEPT ![n] = NoRow]]
            OBVIOUS
        <3>2. Q.listing \in [Names -> Row] /\ NoRow \in Row
            BY DEF Memory, NoRow, Row
        <3>3. q \in Memory /\ q.op = Q.op /\ q.load = Q.load
            BY <3>1, <3>2 DEF Memory
        <3>4. QED
            BY <1>1, <2>1, <3>1, <3>3, CloseMoves
    <2>2. QED
        BY <1>1, <1>2, <1>12, <2>1 DEF NextArtifact
<1>13. CASE BindClose(r)
    <2>1. CASE CloseArtifact(r, Bound(r, "bind"))
        <3>1. PICK q : q = Bound(r, "bind")
            OBVIOUS
        <3>2. artifact[Q.name] \in Row
            BY <1>1, <1>13 DEF BindClose, TypeOK, Request
        <3>3. q \in Memory /\ q.op = Q.op /\ q.load = Q.load
            BY <1>1, <3>1, <3>2 DEF Bound, Memory, ProgramPoints
        <3>4. QED
            BY <1>1, <2>1, <3>1, <3>3, CloseMoves
    <2>2. QED
        BY <1>2, <1>13, <2>1 DEF BindClose
<1>14. CASE BindPost(r)
    <2>1. \A pc : Bound(r, pc) = [Q EXCEPT !.pc = pc, !.art = artifact[Q.name]]
        BY <1>1 DEF Bound
    <2>2. ASSUME NEW pc, pc # "idle", Continue(r, Bound(r, pc)) PROVE Moves(r)
        <3>1. Bound(r, pc) = [Q EXCEPT !.pc = pc, !.art = artifact[Q.name]]
            BY <1>1 DEF Bound
        <3>2. Continue(r, [Q EXCEPT !.pc = pc, !.art = artifact[Q.name]])
            BY <2>2, <3>1
        <3>3. QED
            BY <1>5, <2>2, <3>2
    <2>3. CASE Continue(r, [Bound(r, "setUploading") EXCEPT !.load.offset = 0])
        <3>1. PICK b : b = [Q EXCEPT !.pc = "setUploading", !.art = artifact[Q.name]]
            OBVIOUS
        <3>2. b.op = Q.op /\ b.load = Q.load /\ b.pc # "idle"
            BY <3>1 DEF Memory
        <3>3. PICK q : q = [b EXCEPT !.load.offset = 0]
            OBVIOUS
        <3>4. q.op = b.op /\ q.load = [b.load EXCEPT !.offset = 0] /\ q.pc # "idle"
            BY <3>1, <3>3 DEF Memory
        <3>5. QED
            BY <1>3, <2>1, <2>3, <3>1, <3>2, <3>3, <3>4 DEF Carries
    <2>4. QED
        BY <1>2, <1>14, <2>2, <2>3 DEF BindPost, BindAppend
<1>15. CASE GrowArtifact(r) \/ InsertLogChunk(r) \/ LastLogChunk(r) \/ SetUploading(r)
    BY <1>1, <1>2, <1>5, <1>7, <1>15 DEF GrowArtifact, InsertLogChunk, LastLogChunk,
        SetUploading, CloseFailed
<1>16. CASE ReadBody(r) \/ ReadChunks(r) \/ PutObject(r)
    BY <1>1, <1>4, <1>6, <1>7, <1>16 DEF ReadBody, ReadChunks, PutObject
<1>17. CASE SetUploaded(r) \/ SetError(r) \/ MarkComplete(r)
    BY <1>1, <1>2, <1>5, <1>7, <1>17 DEF SetUploaded, SetError, MarkComplete, CloseFailed
<1>18. CASE SetClosedWithoutData(r) \/ DeleteLogChunks(r)
    BY <1>1, <1>2, <1>18, CloseMoves DEF SetClosedWithoutData, DeleteLogChunks, CloseFailed
<1>19. CASE ReaderPanics(r)
    BY <1>19 DEF ReaderPanics
<1>20. QED
    BY <1>8, <1>9, <1>10, <1>11, <1>12, <1>13, <1>14, <1>15, <1>16, <1>17, <1>18, <1>19 DEF Step

\* Only a request that works with a row, inserts one or has bound an OPEN bucket
\* writes to a table, and in a settled bucket there is none.
LEMMA StepSettled ==
    ASSUME IInv, ClosingInv, settled, NEW r \in Requests, Step(r)
    PROVE  UNCHANGED tables
<1>1. PICK Q : Q = req[r]
    OBVIOUS
<1>2. BucketInv(Q) /\ bucket = "CLOSED"
    BY <1>1 DEF ClosingInv
<1>3. Q.pc \notin Holding \cup {"insertArtifact", "updateBucket"}
    BY <1>2 DEF BucketInv
<1>4. CASE InsertBucket(r)
    BY <1>2, <1>4 DEF InsertBucket, tables
<1>5. CASE \/ InsertArtifact(r) \/ UpdateBucket(r) \/ GrowArtifact(r) \/ InsertLogChunk(r)
           \/ SetUploading(r) \/ PutObject(r) \/ SetUploaded(r) \/ SetError(r)
           \/ DeleteLogChunks(r) \/ MarkComplete(r) \/ SetClosedWithoutData(r)
    BY <1>1, <1>3, <1>5 DEF InsertArtifact, UpdateBucket, GrowArtifact, InsertLogChunk,
        SetUploading, PutObject, SetUploaded, SetError, DeleteLogChunks, MarkComplete,
        SetClosedWithoutData, At, Holding
<1>6. CASE \/ BindCreateBucket(r) \/ BindCreate(r) \/ LookupArtifact(r) \/ BindPost(r)
           \/ LastLogChunk(r) \/ ReadBody(r) \/ ReadChunks(r) \/ BindClose(r)
           \/ BindCloseBucket(r) \/ ListArtifacts(r) \/ NextArtifact(r) \/ ReaderPanics(r)
    BY <1>6 DEF BindCreateBucket, BindCreate, LookupArtifact, BindPost, LastLogChunk,
        ReadBody, ReadChunks, BindClose, BindCloseBucket, ListArtifacts, NextArtifact,
        ReaderPanics, Stop
<1>7. QED
    BY <1>4, <1>5, <1>6 DEF Step

\* A bucket whose close was answered 200 stays as it is, row by row and byte by
\* byte, whatever is asked of it later: CloseBucket has left nothing that a POST
\* or another close would still change (CloseBucket, PostArtifact, CloseArtifact).
THEOREM ClosedStaysClosed == OrderlySpec => ClosedForGood
<1>1. ASSUME IInv, ClosingInv, [OrderlyNext]_vars
      PROVE  [settled => UNCHANGED tables]_vars
    <2>1. CASE UNCHANGED tables
        BY <2>1
    <2>2. ASSUME NEW r \in Requests, Step(r) PROVE settled => UNCHANGED tables
        BY <1>1, <2>2, StepSettled
    <2>3. QED
        BY <1>1, <2>1, <2>2 DEF OrderlyNext, Crash, Stop, OrderlyReceive, Receive
<1>2. QED
    BY <1>1, Inductive, Closing, PTL DEF OrderlySpec, ClosedForGood

=============================================================================
