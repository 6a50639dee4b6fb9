# A verification project for changes-artifacts

changes-artifacts is an artifact store for continuous integration: builds write
logs and files into *buckets* through a Go HTTP server; the server keeps log
chunks in a SQL database and finished objects in S3. This directory holds TLA+
modules that model the server, its client library and the readers of its content,
configurations that check them with TLC, and
proofs that TLAPS checks. Paths below are relative to the repository.

## 1. Inventory

| Component | Code | State | Operations |
|---|---|---|---|
| Artifact handlers | `api/artifacthandler.go` | none of their own; each request keeps a copy of a row | `CreateArtifact`, `PostArtifact` (`AppendLogChunk`, `PutArtifact`), `CloseArtifact` (`MergeLogChunks`, `uploadArtifactToS3`), content requests |
| Bucket handlers | `api/buckethandler.go` | likewise | `CreateBucket`, `CloseBucket`, queries |
| Database layer | `database/gorp_database.go`, `migrations/` | tables `bucket`, `artifact`, `logchunk` | one statement per method, no transaction anywhere |
| `logChunkReader` | `api/logchunkreader.go` | offset, read-ahead buffer | `Read`, `Seek`, `runeLimitedRead` |
| Routing and process | `server.go` | none | binds bucket and artifact before a handler runs, recovers panics of handlers, graceful shutdown after 15 s |
| Client, chunked | `client/client.go` `ChunkedArtifact` | offset, channel of chunks, pusher goroutine | `AppendLog`, `Flush`, `Close` |
| Client, streamed | `client/client.go` `StreamedArtifact` | the caller's stream | `UploadArtifact` with retries |
| S3 | external | objects | put, get |
| The rest | `common/`, `client/testserver`, mocks, generated code | counters, clocks | no influence on tables or answers |

How they interact: every HTTP request runs in a goroutine of its own. The
middleware reads the bucket and the artifact row (`bindBucket`, `bindArtifact`)
and hands the handler a pointer to its *copy*. The handler changes the copy and
writes **all** its columns back (`UpdateArtifact`), possibly several times and
with minutes of S3 traffic between. There is no lock, no transaction and no
`WHERE state = ...`. The only mutual exclusion is what the database enforces:
bucket ids, and artifact names within a bucket, are unique. Two servers may run
during a restart: the old one stops listening and finishes its requests.

What is hard here: two requests for the same artifact; a request that fails
after the first of its writes; an answer or a write whose outcome is lost; a
client that times out and retries while its first request is still running; a
process that ends between the S3 put, the `UPLOADED` row and the `DELETE` of the
chunks; `CloseBucket`, which works from a listing and stops at the first error.
The full list, with the line where each one bites and the properties that would
notice, is `hazards` in `PROJECT.json`.

What makes each component correct:

* Artifact handlers: an acknowledged byte is never lost; the chunks of a log
  neither overlap nor leave a hole; an `UPLOADED` artifact is in S3, whole, and
  stays so; an artifact never shrinks; a complete artifact is shipped; every
  request is answered.
* Bucket handlers: once a close of the bucket has succeeded its artifacts are
  settled, and nothing in it changes any more.
* `logChunkReader`: reads deliver exactly the stored bytes from the offset on,
  for every buffer size, seek and error.
* Content requests: what a reader gets is the log, at its place; a follower goes on
  where its text ends, and learns that the log has ended.
* Chunked client: chunks arrive in order, each once; `AppendLog`, `Flush` and
  `Close` return; a failure is reported.
* Streamed client: success is reported only for an object that was stored.

## 2. Modules and plan

| Module | Content | State |
|---|---|---|
| `ArtifactStore` | all requests that change state, for one bucket | done |
| `ArtifactContract`, `ArtifactRefinement` | what the server promises about each artifact, implemented by `ArtifactStore` under orderly use | checked and proved |
| `ArtifactStoreProofs` | what holds for requests in any order: types, and an object behind every `UPLOADED` row | proved |
| `ArtifactDurability`, `ArtifactLasting` | durability, finality and the closing of buckets under orderly use | proved |
| `LogChunkReader`, `ByteReader`, `LogChunkReaderProofs` | the buffering reader, which implements a plain reader of bytes | checked and proved |
| `ContentRequests`, `ContentProofs` | extends `ArtifactStore` by the requests that read: a follower and a browser | safety proved |
| `ChunkedArtifact`, `StreamedArtifact`, `ChunkedArtifactProofs` | the two halves of the client library, against an arbitrary server | safety proved |
| `Upload`, `UploadProofs` | composes `ChunkedArtifact`, `StreamedArtifact` and `ArtifactStore` over a network | safety proved |
| `MC...` | model values, symmetry and sets for TLC | |

Every safety property that a passing run checks is also a theorem. Liveness is
left to TLC (section 8).

## 3. `ArtifactStore`

### State

| Variable | Code |
|---|---|
| `bucket` | state of the bucket's row; `"NONE"` when there is none |
| `artifact[n]` | state and size of the row with that name, or `NoRow` |
| `logchunk[n]` | its `logchunk` rows in order of id: offset, size, content |
| `s3[n]` | the stored object, byte by byte; `<<>>` when there is none |
| `req[r]` | what the goroutine in slot `r` holds: operation, program point, its copy of the row, payload, what it has read for S3, attempts, the listing of `CloseBucket` |
| `reply[r]` | the last answer |
| `acked[n]`, `settled` | history: payloads answered 200 with the artifact; a `CloseBucket` answered 200 |

One bucket is enough: no statement touches the rows of two. A chunk is an
offset, a size and one content value standing for `size` equal bytes; different
chunks may have different contents, which is what durability has to tell apart.
`Junk` is a byte nobody sent: `logChunkReader.Read` returns whatever its buffer
held where no row covers a position.

### Actions

One action is one call on the database, S3 or the request body together with the
code up to the next one. `Receive` starts a goroutine; then, by handler:

| Handler | Actions |
|---|---|
| `CreateBucket` | `BindCreateBucket`, `InsertBucket` |
| `CreateArtifact` | `BindCreate`, `InsertArtifact`, `LookupArtifact` (rename and try again) |
| `PostArtifact`, append | `BindPost` (`BindAppend`), `GrowArtifact`, `InsertLogChunk`; or `LastLogChunk` for a repetition |
| `PostArtifact`, upload | `BindPost`, `SetUploading`, `ReadBody`, `PutObject`, `SetUploaded`; `SetError` |
| `CloseArtifact` | `BindClose`, `MarkComplete`, `SetUploading`, `ReadChunks`..., `PutObject`, `SetUploaded`, `DeleteLogChunks`; or `SetClosedWithoutData` |
| `CloseBucket` | `BindCloseBucket`, `UpdateBucket`, `ListArtifacts`, then `NextArtifact` and the actions of `CloseArtifact` per row |
| process | `Crash` (any set of requests in flight dies), `ReaderPanics` (a hole makes the reader slice at a negative index in a goroutine of the HTTP transport, which nothing recovers) |

`Faults` says which parts of the environment may fail. A failing write is either
refused or applied and reported as failed; a failing put likewise; a failing
`DELETE` also panics, as `DeleteLogChunksForArtifact` uses the nil result.

### Two specifications

`Spec` lets any request start at any time. `OrderlySpec` is what a client sees
to when it has the bucket for itself and waits for each answer: no request
starts while another in flight could write the same rows, and a chunk is posted
only where everything before it has been acknowledged (`pushLogChunks` moves its
offset on success only). It restricts *when requests start* and nothing else:
failures, lost answers, retries and crashes stay. It excludes a client that has
timed out and retries while its first request still runs; the run
RetriedLogLost shows what happens then, and `Concurrent` what is left. That
the client library keeps to orderly use, as long as no request outlives its client's
wait, is not assumed but checked and proved: `UsesServerOrderly` in section 6.

### Contract

`ArtifactContract` is the life of an artifact as `model/artifact.go` describes it:
absent, open, sealed, stored or void, with what was promised to the client and
what is kept of it, one step per event, without requests, tables or failures.
`ArtifactRefinement` reads its state off the tables: `phase` is the artifact's
state, `promised` is `acked`, and `kept` is the part of `acked` that a reader can
be given. Under `OrderlySpec`, whatever fails, every step of a request is one
event of the contract or none (`KeepsContract`): promise and storage happen in the
same step, nothing is taken back, and only an artifact without data is given up.
Several failures leave an artifact where it is for ever; the contract has no
fairness, because the code promises none.

### Properties

Checked to hold:

| Property | Meaning | Run |
|---|---|---|
| `AckedDurable` | a payload answered 200 is in a row, or at its place in the S3 object | Orderly |
| `ChunksTile` | rows never overlap, leave a hole or exceed the size | Orderly |
| `UploadedWhole` | the object of an `UPLOADED` artifact has the size of its row | Orderly |
| `UploadedIsTerminal`, `NeverShrinks` | action properties on the row and the object | Orderly |
| `KeepsContract` | the refinement above | Orderly |
| `IInv` | the inductive invariant of the proofs | Orderly |
| `ClosingInv` | the inductive invariant of the proofs about closing | TwoArtifacts |
| `SettledAfterClose` | after a 200 to `CloseBucket` nothing is open or uploading | TwoArtifacts |
| `ClosedForGood` | after a 200 to `CloseBucket` no row, chunk or object of the bucket changes, whatever is asked of it | TwoArtifacts |
| `TypeOK`, `UploadedHasObject`, `RowsOutliveMerge` | what remains true when clients race | Concurrent |
| `RequestsTerminate` | every request is answered | Progress |
| `MergeShipsOrReports` | a close that begins to merge ships the log or reports an error | Progress |

Checked to be violated, each against a sentence of the code's own comments
(quoted in `findings`):

| Run | What the code does |
|---|---|
| NeverShipped | one refused write after `APPEND_COMPLETE` and nobody merges the artifact any more |
| CreateSlipsIn | a creation that has bound the bucket while it was `OPEN` inserts its artifact after the close was answered 200: `ClosedForGood` is violated under `Spec` |

`ClosedForGood` is the comment on `CLOSED` in `model/bucket.go`: no new artifacts, no
appends. Under `OrderlySpec` it says that a close which succeeds has left nothing
behind that a later POST, close or creation would still change, so it depends on every
row the listing went through. CreateSlipsIn shows the other half: requests that were
under way when the bucket was closed are stopped by nothing, because each checks the
copy of the bucket or artifact it has bound (`buckethandler.go:121`,
`artifacthandler.go:79`).

Met while modelling, and a step of the model that no property is about: a failed
`DELETE` of the merged rows dereferences a nil result (`gorp_database.go:158`), and the
client of a close that has shipped the log is answered 500. Orderly has the step, and
nothing acknowledged is lost by it.

### Bounds

* Two slots for requests: every race above is between two requests; the orderly
  runs need the second one for requests on different artifacts and for creation.
* One artifact name where the property is about one artifact (rows of different
  artifacts only meet in `CloseBucket`), two where `CloseBucket` or a rename
  matters.
* `MaxSize = 2`: two chunks of one byte, or one of two: enough for a first and a
  next chunk, an overlap, a hole and a chunk that does not fit. Orderly uses the
  announced sizes -1, 0, 1 and 2 against `MaxArtifactSize = 1`.
* Two contents in Orderly, so that a wrong byte can be told.
* `MaxUploadAttempts = 2` (3 in the code): one retry. `MaxNameAttempts` 0 or 1
  (5 in the code): no rename, or one.
* Concurrent keeps one size and no S3 failures, or it would have millions more
  states; S3 failures with racing requests are in Progress, whose chunks have one
  byte and fill the artifact (`MaxSize = 1`): how much is merged does not matter to
  whether the merge ends.

Symmetry over slots, names and contents is used for safety runs only.
Deadlock is checked in the runs of this section: a server that has nothing to do
can always receive a request.

### Fairness

`Fairness` is weak fairness of `Step(r)` for each slot: the Go scheduler runs
every goroutine, and a call on the database or S3 returns, with a result or an
error. Nothing is assumed about clients (no fairness of `Receive`) and nothing
about failures: S3 may fail every time, which is why the attempts must be
counted. `CompleteIsShipped` would need that nothing fails, as NeverShipped
shows; `MergeShipsOrReports` says what the code sees to when something does.

## 4. `LogChunkReader`

`Read` is the part up to the query (what the buffer holds, and the early returns),
`Query`, one `NextRow` per row of the loop, and `Finish`; `Seek` is `setOffset`, with
targets on both sides of the range. `offset`, `unread` and `readAhead` are the
fields of the struct, `call` holds the locals of a `Read` in progress. The byte at
position p is written p, so that a byte out of place is seen. Rows tile (section 8
proves it of the table) and may be added while the reader, which has copied the
size, is in use; a query never asks beyond that size, and a row that reaches across its
limit comes whole.

`IsByteReader` says that with its buffer hidden the reader is `ByteReader`: each
`Read` delivers the next bytes, fills the slice or stops at the end, reports `EOF`
exactly there, and a failing one has moved by what it delivered. While a `Read`
is in progress the abstract position is where it began (`offset - Len(call.buf)`).
`BufferInStep` is the invariant behind it: the buffer starts at the offset. The
run Reader has every tiling of up to four bytes, slices of up to three, and no,
a short and a full read-ahead: a slice ends inside, at and behind a row, and a
seek lands inside and outside the buffer.

## 5. `ContentRequests`

A follower, as the Changes UI is one, polls `GetArtifactContentChunks` from its
last `nextOffset` until it is told `eof`; a browser fetches `GetArtifactContent` and
keeps what came with an `ETag`. Both are clients and only do what those handlers
support; requests with a `Range` header are left out. A request copies the row (`Poll`,
`Fetch`) and later reads the rows or S3, as the copy's state says (`Source`):
`ChunksFromRows`, `ChunksFromS3`, and for the browser `ContentFromRows` and
`ContentFromS3`, one step per byte with errors between them, while `OrderlyNext` writes
and merges the artifact. Text has bytes of its own and runes of two bytes (`Lead`,
`Tail2`) for `runeLimitedRead`. `LogChunkReader` is not used here: what it delivers from
rows that tile is one expression (`RowBytes`). Where no row covers the reader's position
its `Read` fills the slice without moving: `runeLimitedRead` has a fresh slice, so the
follower gets zeros (`Junk`); `http.ServeContent` has used its buffer before, so the
browser gets zeros or earlier bytes (`Leftovers`), and the rest of its answer is
displaced.

A byte is *withheld* from a reader when that happens at its place: between the two
writes of `AppendLogChunk` (`GrowArtifact`, `InsertLogChunk`), or when the rows of a log
are read after the `DELETE` of its merge. The follower's text shows where; for the
browser `sound` counts the bytes before the first one that was withheld.

| Property | Meaning |
|---|---|
| `FollowerIsInStep` | the next offset is always the length of the text delivered: the follower asks for no byte twice and leaves none out, runes held back and the change to S3 included. Where the announced size of an upload is negative, so is the offset, and the next request takes it for 0 |
| `EofIsTheEnd` | a follower told of the end has all of a finished artifact |
| `ReadersSeeTheLog` | a byte that is acknowledged, before it was read or later, is in the follower's text as it was sent or is a zero, and is in the browser's answer as it was sent as far as `sound` reaches; S3's answer counts in full |
| `WithheldOnlyByMerge` | a step that withholds a byte which has been acknowledged is one of a request that bound the row before the merge and reads the rows after their `DELETE` |
| `FollowerFinishes` | once requests stop failing, the follower of an `UPLOADED` artifact is told |
| `FollowerCatchesUp` | it reaches the end of a log that nobody writes to, if its limit has room for a rune and the rows are complete text |

So a reader can be given something else than a byte that is ever acknowledged in two
windows, both with status 200; the two properties say that there are no others, and what
is delivered then.
CachedContent shows what the first window costs: the browser caches a zero under the
`ETag` of the finished chunk, which is the size alone, and `CacheIsCurrent` is violated.

Not covered: `FollowerCatchesUp` leaves out the limit 1, with which a follower never gets
past a rune of two bytes. And `Read` never reports EOF where the rows end before the size
(`logchunkreader.go:99`): the model's readers and its merge stop at the artifact's size,
as `http.ServeContent` and a put with a length do, and what the HTTP transport does with
the rest of an endless body is outside of `src/`.

Bounds: announced sizes of 1 and -1; two bytes of text, three kinds of byte, limits 1 and
2 (`Limits = {0, 1}`, where 0 stands for `MaxChunkedRequestBytes = 2`; 1,000,000 in the
code, although the comment on the handler says 100KB): a rune that does not fit, fits
exactly, or is split. The writer's environment does not fail here, which Orderly covers;
the reader's does (`ReadFaults`).

Fairness: the writer's requests, the reads of both readers, and strong fairness of
polls that do not fail. Follower and browser share one variable, so a poll is not
enabled all the time; and polls that keep failing are excluded in the properties
(`<>[]~refused`), not assumed away.

## 6. The client: `ChunkedArtifact`, `StreamedArtifact`, `Upload`

`ChunkedArtifact` has the two goroutines: the caller's (`caller`: in `AppendLog`, in
the select of `Flush`, or in the POST of `Close`) and `pushLogChunks` (`pusher`: at
`range`, at the select with the ticker, in its POST, or sending on `fatalErr` or
`complete`). Sends and receives on unbuffered channels are one joint step
(`FlushFails`, `FlushCompletes`), the select of `Flush` chooses among the cases that
are ready, and sending on or closing a closed channel is `panic`. Answers are
arbitrary. `StreamedArtifact` is the loop of `UploadArtifact`; `rest` is what is left
of the stream, which the HTTP client announces as the length of a retry.

`Upload` instantiates both and puts `ArtifactStore` behind them: a POST takes a slot
of the server, and the client waits for the slot's answer. `Network` says what may
happen to a request: with `"lose"` it or its answer is lost, and the client learns so from
a broken connection or from its timeout, after the server is done; with `"outlive"` the
timeout strikes while the server is still at work, and the request goes on beside the
retry. `ErrorOf` is `determineResponseError`. A program creates a bucket and an artifact,
appends or uploads, calls `Flush` and `Close` in any order a client may, and may
cancel its context at any time. A creation that failed is repeated, and when the server
has stored the first one it gives the second another name (`InsertArtifact`,
`LookupArtifact`): the client goes on with the name in the answer (`Named`), and the
properties below are about that artifact.

| Property | Meaning |
|---|---|
| `UsesServerOrderly` | without `"outlive"` the client keeps to `OrderlySpec`, so everything in sections 3 and 8 about orderly use applies to it, retries after lost answers and renames included |
| `FlushMeansSent` | the chunks answered with success are a prefix of those appended, and a `Flush` that returned nil covers all appended before it |
| `FlushedStored` | those chunks are, byte for byte and in order, in one row each or in S3 |
| `PanicsOnlyAfterError` | the library panics only when it is used after an error |
| `UploadStoredUnlessError` | a successful upload is stored, or the artifact is in `ERROR` |
| `FlushReturns`, `AppendReturns`, `UploadReturns` | calls return once failures that are retried have ended; `AppendLog` excepted when the pusher has given up |
| `CancelEndsRetries` | a done context ends both retry loops, whatever the server answers |

| Run | What the code does |
|---|---|
| RetriedLogLost | with `"outlive"`: a POST times out and is retried with success, a further chunk is acknowledged, then the first POST writes its old row back; the merge ships one byte too few and deletes the rows |
| UploadLost | S3 fails, the artifact is in `ERROR`, the retry is answered 200 with an empty body, and `UploadArtifact` returns nil |

Two more things met while modelling. A program that appends after `Close` of an
empty log gets nil from `Flush` although the server, in `CLOSED_WITHOUT_DATA`,
stores nothing (the same fall-through as UploadLost; the model's program does not
append after `Close`). And each `Flush` starts another pusher, so one is left
waiting after `Close`.

Bounds: three appends with a channel of capacity one (100 in the
code): one chunk in the pusher's hands, one queued, one blocked. Chunks of one
byte with two contents, and empty ones, which the server refuses;
`MaxArtifactSize = 2`, so that the third chunk is refused. Two names and one rename
(5 attempts in the code). One slot suffices: without `"outlive"` the client never has two
requests in flight, except behind a done context, after which it sends nothing;
RetriedLogLost has two.
`MaxUploadAttempts = 1`: the server's own retries are in Orderly. Deadlock is not
checked, since a program that has panicked or lost its pusher does stop; that
calls return is what the liveness properties say.

Fairness: weak fairness of the server's steps, of the two goroutines and of the end
of a request, strong fairness of the `ctx.Done()` case of a select (with several
cases ready Go picks at random). Nothing makes the program call anything or an
attempt succeed: the properties name the failures that must end. `AppendReturns` leaves
out a pusher that has given up and a done context, with which `AppendLog` really may
block for ever on a full channel.

## 7. Which code is modelled where

`map` in `PROJECT.json` names, for every definition, the lines it stands for. Each
module puts the mutants next to the definition they change; they are used only
to see that every property notices some bug of this code.

## 8. Proofs

Each theorem holds for any number of names, slots, contents and attempts, any set
of faults and any other constants that satisfy the named assumptions of its module.
A proof module says what its invariants and main lemmas are for; this section says
which argument each proof turns on.

### Requests in any order: `ArtifactStoreProofs`

| Theorem | States |
|---|---|
| `TypeCorrect` | `Spec => []TypeOK` |
| `ReadersFindObject` | `Spec => []UploadedHasObject` |
| `RowsGoLast` | `Spec => RowsOutliveMerge` |

Here a request may hold a copy of a row that is long out of date, and write it. What
saves the readers is that no object ever goes away (`NoLoss`): a request that is about
to write `UPLOADED`, or to delete rows, has put an object with at least a byte into S3
(`ShipInv`), and it is still there however old the request's copy of the row is.
`ObjectInv` is that for all requests and rows; the size of the object is another
matter, which is why `UploadedWhole` needs orderly use.

### Orderly use: `ArtifactDurability`

| Theorem | States |
|---|---|
| `Inductive` | `OrderlySpec => []IInv` |
| `AcknowledgedIsDurable` | `OrderlySpec => []AckedDurable` |
| `RowsTile` | `OrderlySpec => []ChunksTile` |
| `UploadIsWhole` | `OrderlySpec => []UploadedWhole` |

None of the last three is inductive: each depends on what requests in flight hold in
memory. `IInv` adds

* `Exclusive`: no two requests in flight conflict, which is what orderly
  arrivals establish and every step keeps;
* `CopyInv`: a request that works with a row holds its *current* value, and what
  is left of a listing is up to date (false under `Spec`: this is the stale copy
  behind RetriedLogLost);
* `AppendInv`: everything before the chunk about to be inserted has been
  acknowledged, and the rows end where it starts, even when an earlier attempt
  has grown the artifact and failed;
* `UploadInv`: the bytes a merge has read so far are those that were
  acknowledged, an upload starts with nothing acknowledged, and what
  `SetUploaded` announces is what S3 holds;
* `PointInv`, `CreateInv`: what each program point implies about the request.

The proof has one lemma per action. `StepKept` and `OthersKept` do the framing
once: a step of one request leaves the artifacts of all others alone, so only
the moving request and its artifact need an argument (`WriteKept`, `RespondKept`,
`ContinueKept` specialise it). The arguments about data are `AppendTiles` (a chunk
at the end keeps the rows tiling), `NoRoom` (an empty artifact has no rows),
`TiledExact` and `ReadExact` (a reader of rows that tile returns the byte of the one
row that covers a position) and the case of `SetUploaded`, where what was read
becomes the only copy.

### Finality and buckets: `ArtifactLasting`

| Theorem | States |
|---|---|
| `TerminalState` | `OrderlySpec => UploadedIsTerminal` |
| `Grows` | `OrderlySpec => NeverShrinks` |
| `Closing` | `OrderlySpec => []ClosingInv` |
| `Settled` | `OrderlySpec => []SettledAfterClose` |
| `ClosedStaysClosed` | `OrderlySpec => ClosedForGood` |

A request about to write a row holds its current value (`CopyInv`), its program
point says that the row is not `UPLOADED` (`PointInv`), and what it writes is at
least as long (`AppendInv`). `Lasts` states both for one artifact and one step.

For buckets `ClosingInv` follows `CloseBucket` through its listing: an artifact that
is not settled is still listed, or is the one being closed; and a request that is
about to create an artifact has an open bucket. A close that stops at an error
never answers 200, so the listing is empty when one does. From then on every artifact is
settled and a request that is under way has nothing left to write: one that holds a row
holds a settled one, and no handler has a write for it (`ClosedStaysClosed` goes through
the steps one by one).

### The contract: `ArtifactRefinement`

`ImplementsContract`: `OrderlySpec => KeepsContract`. Initial states map to initial
states, and each action maps to one event of `ArtifactContract` or to a stutter, one
lemma per kind of step. `IInv` gives that what was promised is kept before and after,
so that the one thing left to show is which event it is; `ClosingInv` gives that a
new artifact appears in an open bucket.

### The reader: `LogChunkReaderProofs`

| Theorem | States |
|---|---|
| `TypeCorrect` | `Spec => []TypeOK` |
| `BufferFollows` | `Spec => []BufferInStep` |
| `ReadsTheLog` | `Spec => IsByteReader` |

The invariant says where the reader is within the loop over the rows (`LoopInv`): the
rows before the slice are skipped, those of the slice are copied without a hole, and
the buffer takes what follows. In the refinement the step in which `Read` returns, be
it early, after the loop (`Finish`) or with the error of a query, is the one step of
`ByteReader`, and every other round of the query and of the loop is a stutter.

### Readers of content: `ContentProofs`

| Theorem | States |
|---|---|
| `InStep` | `FollowSpec => []FollowerIsInStep` |
| `EndIsTrue` | `FollowSpec => []EofIsTheEnd` |
| `ReadsAreRight` | `FollowSpec => []ReadersSeeTheLog` |
| `OnlyTheMergeWithholds` | `FollowSpec => WithheldOnlyByMerge` |

The writing handlers do not notice the readers, so `IInv` holds beside them
(`Beside`). `FollowInv` adds what a reader relies on: its copy of the row never claims
more than the artifact has, because no artifact shrinks, and a copy that says
`UPLOADED` is current, because that state is final. Both come from `Lasts`. That
`runeLimitedRead` returns a prefix needs a greatest well-formed prefix (`Greatest`),
which is drawn from the well-foundedness of strict inclusion among finite sets, as no
induction rule can be instantiated.

`ReadersSeeTheLog` compares bytes with chunks that are acknowledged *after* they were
read, so it is not inductive: `LogInv` adds that, before the merge, every byte that was
read and not withheld is that of a row (`Right`, `InRows`) and every acknowledged chunk
is a row (`AckedInRows`). Rows are only added to until then, and they tile, so a chunk
that becomes acknowledged is a row the reader has seen or one behind all it has read. The
merge acknowledges nothing, and the object it leaves is final. An artifact that is
uploaded in one piece has no rows (`NoRowsYet`).

### The client: `ChunkedArtifactProofs`, `UploadProofs`

| Theorem | States |
|---|---|
| `InOrder`, `PanicNeedsError` | of `ChunkedArtifact`, against a server that answers anything: `FlushMeansSent`, `PanicsOnlyAfterError` |
| `ClientTypeCorrect`, `FlushVouches`, `OnlyErrorsPanic` | the same, and the types, beside the real server: `UploadSpec => []...`, whatever the network does |
| `ClientIsOrderly` | without `"outlive"`, `UploadSpec => UsesServerOrderly` |
| `ClientLosesNothing` | without `"outlive"`, `UploadSpec => []AckedDurable` |
| `UploadIsStored` | without `"outlive"`, `UploadSpec => []UploadStoredUnlessError` |
| `FlushedIsStored` | without `"outlive"`, `UploadSpec => []FlushedStored` |

`ChunkedArtifact` alone: what was appended is what was sent, what the pusher holds and
what is in the channel, in that order (`NothingDropped`), and what Flush vouches for
has been sent. A step of `Upload` is a step of it or leaves it alone, so the theorems
carry over.

The last four assume that no request outlives its client's wait (`"outlive" \notin
Network`); lost requests and answers, renames, refused and half-applied writes, crashes
and a cancelled context remain. Nothing in the code sees to that: a POST may take longer
than the client's timeout (`client.go:107`). The hypothesis is there because the theorems
are false without it, which is what RetriedLogLost shows. They hold for any number of
name attempts. They rest on `UInv`:

* `Alone`: nothing is in flight but what the client waits for, until its context is
  done, after which it sends nothing;
* `WaitInv`: what the answer to the request it waits for will mean: a 200 to a POST of
  a chunk means that chunk is acknowledged, a 200 to a creation means the row asked
  for, under the name in the answer, with nothing in it yet;
* `OpenInv`: while the program may still append, the log is `APPENDING`, nobody closes
  it, and everything before `offset` has been acknowledged;
* `CallInv`, `RoomInv`: the order of the calls, and that what is sent fits.

`OpenInv` and `Alone` make every request of the client an orderly one (`UsesOrderly`),
and orderly use is what the invariants of the server need in return, so `JInv`, which
joins the three, is proved by one induction. With `ClientIsOrderly` the theorems about
`OrderlySpec` apply to a server behind one client of this kind; `ClientLosesNothing` is
one instance.

`FileInv` follows an upload in the same way: where the answer to the POST of a stream
is no error, the artifact is `UPLOADED` or in `ERROR` (`StreamStep`), and nobody
touches it afterwards. `PlacedInv` says that the chunks of a log were acknowledged one
behind the other (`Placed`), and rows that tile give each byte back (`AckedReadable`).

Two assumptions serve the bounds of the model only: `RoomAssumption` (the bound on
payloads leaves room for `MaxAppends` chunks) and `StreamAssumption` (what is left of a
stream is a size that may be announced). TLC evaluates both in every run of `Upload`.

### Only model-checked

Liveness (`RequestsTerminate`, `MergeShipsOrReports`, and those of sections 5 and 6) is
out of the prover's reach. So is what a recursive definition computes for every input;
the text of a log is therefore described by where each chunk begins (`Starts`), not by
concatenation. The properties of the violation runs are shown to fail, which a proof
could not add to.

## 9. Not modelled

`Range` headers of content requests, dates, owners, deadlines (nothing enforces them: `TIMEDOUT` and
`DEADLINE_EXCEEDED` are never set), relative paths, S3 URLs (a function of bucket
and name), malformed requests that are refused before any call, the queries that
return rows as JSON (`ListBuckets`, `GetArtifact`, `ListArtifacts`: one read, and
nothing follows from it), logging and statistics (written, never read),
configuration, generated code, mocks and the test server. Database reads are
atomic and see every committed write; S3 returns what was put last. The stream of
an upload is a `bytes.Reader`: a file is sent without a length, which the server
refuses. JSON replaces half a rune at the end of an S3 chunk; the model stops at
the bytes. The 15 seconds of the backoff ticker have no clock here: a tick may
come at any time, which includes the spinning after they are over.
