---------------------------- MODULE ChunkedArtifact ----------------------------
(***************************************************************************)
(* ChunkedArtifact (client/client.go): a caller appends chunks of a log to *)
(* a buffered channel, a goroutine posts them to the server one by one,    *)
(* and Flush closes the channel and waits for the goroutine to end.        *)
(*                                                                         *)
(* The server and the network are left open: an answer is "nil",           *)
(* "retriable" or "terminal".  Upload puts ArtifactStore in their place.   *)
(***************************************************************************)
EXTENDS Integers, Sequences, FiniteSets

CONSTANTS
    Chunks,                 \* what a caller may append: [size, data], size in Nat
    MAX_PENDING_REPORTS,    \* capacity of the channel, not 0
    MaxAppends              \* bound on the calls of AppendLog

VARIABLES
    bytestream,     \* the channel: what is queued, and whether it is closed
    offset,
    pusher,         \* the goroutine running pushLogChunks
    caller,         \* the method the caller is in, and how the last one ended
    cancelled,      \* the client's context is done
    appended,       \* history: chunks AppendLog has taken
    sent,           \* history: chunks whose POST was answered with success
    flushed         \* history: how many chunks had been appended at the last
                    \* Flush that returned nil

vars == <<bytestream, offset, pusher, caller, cancelled, appended, sent, flushed>>

-----------------------------------------------------------------------------
Errors == {"nil", "retriable", "terminal"}

NewStream == [queue |-> <<>>, closed |-> FALSE]
NewPusher == [pc |-> "range", chunk |-> <<>>, err |-> "nil"]

\* pc of the pusher: "range" (over the channel), "tick" (the select), "post",
\* "fatalErr" and "complete" (sending on these channels), "returned".
Pusher == [pc : {"range", "tick", "post", "fatalErr", "complete", "returned"},
    chunk : Seq(Chunks), err : Errors]

Caller == [in : {"program", "AppendLog", "Flush", "Close", "panic"},
    closing : BOOLEAN, chunk : Seq(Chunks), err : Errors]

\* NewChunkedArtifact, once the server has created the artifact.
Init ==
    /\ bytestream = NewStream /\ offset = 0 /\ pusher = NewPusher
    /\ caller = [in |-> "program", closing |-> FALSE, chunk |-> <<>>, err |-> "nil"]
    /\ cancelled = FALSE
    /\ appended = <<>> /\ sent = <<>> /\ flushed = 0

-----------------------------------------------------------------------------
(***************************************************************************)
(* The caller.                                                             *)
(***************************************************************************)

Idle == caller.in = "program"

\* Sending on a closed channel and closing one again end the program.
Panic == caller' = [caller EXCEPT !.in = "panic"]

CallerReturns(err) ==
    caller' = [caller EXCEPT !.in = "program", !.closing = FALSE, !.chunk = <<>>, !.err = err]

AppendLog(chunk) ==
    /\ Idle /\ Len(appended) < MaxAppends
    /\ caller' = [caller EXCEPT !.in = "AppendLog", !.chunk = <<chunk>>]
    /\ UNCHANGED <<bytestream, offset, pusher, cancelled, appended, sent, flushed>>

\* The send blocks while the channel is full.
Enqueue ==
    /\ caller.in = "AppendLog"
    /\ \/ bytestream.closed /\ Panic /\ UNCHANGED <<bytestream, appended>>
       \/ /\ ~bytestream.closed
          /\ Len(bytestream.queue) < MAX_PENDING_REPORTS
          /\ bytestream' = [bytestream EXCEPT !.queue = @ \o caller.chunk]
          /\ appended' = appended \o caller.chunk
          /\ CallerReturns("nil")
    /\ UNCHANGED <<offset, pusher, cancelled, sent, flushed>>

\* Flush up to its select, on its own or as the first part of Close.
Flush(closing) ==
    /\ Idle
    /\ \/ bytestream.closed /\ Panic /\ UNCHANGED bytestream
       \/ /\ ~bytestream.closed
          /\ bytestream' = [bytestream EXCEPT !.closed = TRUE]
          /\ caller' = [caller EXCEPT !.in = "Flush", !.closing = closing]
    /\ UNCHANGED <<offset, pusher, cancelled, appended, sent, flushed>>

FlushCancelled ==
    /\ caller.in = "Flush" /\ cancelled
    /\ CallerReturns("terminal")
    /\ UNCHANGED <<bytestream, offset, pusher, cancelled, appended, sent, flushed>>

FlushFails ==
    /\ caller.in = "Flush" /\ pusher.pc = "fatalErr"
    /\ pusher' = [pusher EXCEPT !.pc = "returned"]
    /\ CallerReturns(pusher.err)
    /\ UNCHANGED <<bytestream, offset, cancelled, appended, sent, flushed>>

\* Mutant: the stream is not recreated.
FlushCompletesForGood ==
    /\ caller.in = "Flush" /\ pusher.pc = "complete"
    /\ pusher' = [pusher EXCEPT !.pc = "returned"]
    /\ flushed' = Len(appended)
    /\ IF caller.closing THEN caller' = [caller EXCEPT !.in = "Close"] ELSE CallerReturns("nil")
    /\ UNCHANGED <<bytestream, offset, cancelled, appended, sent>>

\* Mutant: nobody reads the new stream.
FlushCompletesWithoutPusher ==
    /\ caller.in = "Flush" /\ pusher.pc = "complete"
    /\ bytestream' = NewStream /\ pusher' = [pusher EXCEPT !.pc = "returned"]
    /\ flushed' = Len(appended)
    /\ IF caller.closing THEN caller' = [caller EXCEPT !.in = "Close"] ELSE CallerReturns("nil")
    /\ UNCHANGED <<offset, cancelled, appended, sent>>

\* The stream is recreated and a new goroutine pushes; Close goes on to its POST.
FlushCompletes ==
    /\ caller.in = "Flush" /\ pusher.pc = "complete"
    /\ bytestream' = NewStream /\ pusher' = NewPusher
    /\ flushed' = Len(appended)
    /\ IF caller.closing THEN caller' = [caller EXCEPT !.in = "Close"] ELSE CallerReturns("nil")
    /\ UNCHANGED <<offset, cancelled, appended, sent>>

CloseAnswered(err) ==
    /\ caller.in = "Close"
    /\ CallerReturns(err)
    /\ UNCHANGED <<bytestream, offset, pusher, cancelled, appended, sent, flushed>>

Cancel ==
    /\ ~cancelled /\ cancelled' = TRUE
    /\ UNCHANGED <<bytestream, offset, pusher, caller, appended, sent, flushed>>

-----------------------------------------------------------------------------
(***************************************************************************)
(* pushLogChunks.                                                          *)
(***************************************************************************)

\* The next chunk, or the end of a channel that is closed and empty.
Range ==
    /\ pusher.pc = "range"
    /\ \/ /\ bytestream.queue # <<>>
          /\ pusher' = [pusher EXCEPT !.pc = "tick", !.chunk = <<Head(bytestream.queue)>>]
          /\ bytestream' = [bytestream EXCEPT !.queue = Tail(@)]
       \/ /\ bytestream.queue = <<>> /\ bytestream.closed
          /\ pusher' = [pusher EXCEPT
                !.pc = IF pusher.err = "nil" THEN "complete" ELSE "fatalErr"]
          /\ UNCHANGED bytestream
    /\ UNCHANGED <<offset, caller, cancelled, appended, sent, flushed>>

\* The ticker ticks, and for ever at once when its 15 seconds are over.
Tick ==
    /\ pusher.pc = "tick"
    /\ pusher' = [pusher EXCEPT !.pc = "post"]
    /\ UNCHANGED <<bytestream, offset, caller, cancelled, appended, sent, flushed>>

\* Mutant: the context is not consulted between the attempts.
BailBeforeFirst ==
    /\ pusher.pc = "tick" /\ cancelled /\ pusher.err = "nil"
    /\ pusher' = [pusher EXCEPT !.pc = "returned"]
    /\ UNCHANGED <<bytestream, offset, caller, cancelled, appended, sent, flushed>>

\* The other case of the select; with both ready either may be taken.
Bail ==
    /\ pusher.pc = "tick" /\ cancelled
    /\ pusher' = [pusher EXCEPT !.pc = "returned"]
    /\ UNCHANGED <<bytestream, offset, caller, cancelled, appended, sent, flushed>>

\* Mutant: a chunk that has failed is given up and the next one follows it.
PostAnsweredSkipping(err) ==
    /\ pusher.pc = "post"
    /\ pusher' = [pusher EXCEPT !.err = IF err = "terminal" THEN err ELSE "nil",
                     !.pc = IF err = "terminal" THEN "fatalErr" ELSE "range",
                     !.chunk = IF err = "terminal" THEN @ ELSE <<>>]
    /\ sent' = IF err = "nil" THEN sent \o pusher.chunk ELSE sent
    /\ offset' = IF err = "nil" THEN offset + pusher.chunk[1].size ELSE offset
    /\ UNCHANGED <<bytestream, caller, cancelled, appended, flushed>>

\* Mutant: the offset moves on before the answer is looked at.
PostAnsweredEarlyOffset(err) ==
    /\ pusher.pc = "post"
    /\ offset' = offset + pusher.chunk[1].size
    /\ \/ /\ err = "nil"
          /\ pusher' = [pusher EXCEPT !.pc = "range", !.chunk = <<>>, !.err = err]
          /\ sent' = sent \o pusher.chunk
       \/ /\ err # "nil"
          /\ pusher' = [pusher EXCEPT !.err = err,
                            !.pc = IF err = "retriable" THEN "tick" ELSE "fatalErr"]
          /\ UNCHANGED sent
    /\ UNCHANGED <<bytestream, caller, cancelled, appended, flushed>>

\* Mutant: the pusher returns without sending its error.
PostAnsweredSilently(err) ==
    /\ pusher.pc = "post"
    /\ \/ /\ err = "nil"
          /\ pusher' = [pusher EXCEPT !.pc = "range", !.chunk = <<>>, !.err = err]
          /\ offset' = offset + pusher.chunk[1].size
          /\ sent' = sent \o pusher.chunk
       \/ /\ err # "nil"
          /\ pusher' = [pusher EXCEPT !.err = err,
                            !.pc = IF err = "retriable" THEN "tick" ELSE "returned"]
          /\ UNCHANGED <<offset, sent>>
    /\ UNCHANGED <<bytestream, caller, cancelled, appended, flushed>>

\* Mutant: an attempt that has failed takes the offset back.
PostAnsweredTakingBack(err) ==
    /\ pusher.pc = "post"
    /\ \/ /\ err = "nil"
          /\ pusher' = [pusher EXCEPT !.pc = "range", !.chunk = <<>>, !.err = err]
          /\ offset' = offset + pusher.chunk[1].size
          /\ sent' = sent \o pusher.chunk
       \/ /\ err # "nil"
          /\ pusher' = [pusher EXCEPT !.err = err,
                            !.pc = IF err = "retriable" THEN "tick" ELSE "fatalErr"]
          /\ offset' = offset - pusher.chunk[1].size
          /\ UNCHANGED sent
    /\ UNCHANGED <<bytestream, caller, cancelled, appended, flushed>>

PostAnswered(err) ==
    /\ pusher.pc = "post"
    /\ \/ /\ err = "nil"
          /\ pusher' = [pusher EXCEPT !.pc = "range", !.chunk = <<>>, !.err = err]
          /\ offset' = offset + pusher.chunk[1].size
          /\ sent' = sent \o pusher.chunk
       \/ /\ err # "nil"
          /\ pusher' = [pusher EXCEPT !.err = err,
                            !.pc = IF err = "retriable" THEN "tick" ELSE "fatalErr"]
          /\ UNCHANGED <<offset, sent>>
    /\ UNCHANGED <<bytestream, caller, cancelled, appended, flushed>>

-----------------------------------------------------------------------------
(***************************************************************************)
(* What moves without the server: the calls of the program, and what the   *)
(* two goroutines do on their own.                                         *)
(***************************************************************************)

Program == (\E chunk \in Chunks : AppendLog(chunk)) \/ (\E closing \in BOOLEAN : Flush(closing))
CallerStep == Enqueue \/ FlushCancelled \/ FlushFails \/ FlushCompletes
PusherStep == Range \/ Tick \/ Bail

Next ==
    \/ Program \/ Cancel \/ CallerStep \/ PusherStep
    \/ \E err \in Errors : PostAnswered(err) \/ CloseAnswered(err)

Spec == Init /\ [][Next]_vars

-----------------------------------------------------------------------------
(***************************************************************************)
(* Properties.                                                             *)
(***************************************************************************)

TypeOK ==
    /\ bytestream \in [queue : Seq(Chunks), closed : BOOLEAN]
    /\ offset \in Nat /\ pusher \in Pusher /\ caller \in Caller
    /\ cancelled \in BOOLEAN
    /\ appended \in Seq(Chunks) /\ sent \in Seq(Chunks) /\ flushed \in Nat

\* Every chunk the server has taken was appended, none is taken twice or out of
\* turn, and what Flush has vouched for is among them.
FlushMeansSent ==
    /\ Len(sent) <= Len(appended) /\ sent = SubSeq(appended, 1, Len(sent))
    /\ flushed <= Len(sent)

\* Only a program that goes on after Flush or Close has failed can panic.
\* (caller.err is what the method before the one that panics returned.)
PanicsOnlyAfterError == caller.in = "panic" => caller.err # "nil"

\* Flush and Close return once the server stops failing with errors that are
\* retried for ever.
FlushReturns ==
    <>[](pusher.err # "retriable") => []<>(caller.in # "Flush")

\* AppendLog returns once the server stops failing so, unless the pusher has
\* given up or the context is done: then nobody makes room in a full channel.
AppendReturns ==
    <>[](pusher.err # "retriable") =>
        []<>(caller.in = "AppendLog" => pusher.pc = "fatalErr" \/ cancelled)

\* A done context ends the retries of a chunk, whatever the server answers.
CancelEndsRetries == []<>(cancelled => pusher.pc \notin {"tick", "post"})

=============================================================================
