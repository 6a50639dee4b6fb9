------------------------- MODULE ChunkedArtifactProofs -------------------------
(***************************************************************************)
(* ChunkedArtifact against any server: no answer, loss or repetition makes *)
(* the client reorder or drop a chunk that Flush vouches for, and only a   *)
(* program that goes on after an error can panic.                          *)
(***************************************************************************)
EXTENDS ChunkedArtifact, TLAPS

\* No chunk gets lost between the caller and the server: what has been appended
\* and not sent is in the hands of the pusher or queued behind it.
NothingDropped == appended = sent \o pusher.chunk \o bytestream.queue

\* Where the pusher is tells what it holds, and how its last attempt ended.
PusherInv ==
    /\ pusher.pc \in {"range", "complete"} => pusher.chunk = <<>> /\ pusher.err = "nil"
    /\ pusher.pc \in {"tick", "post"} => Len(pusher.chunk) = 1
    /\ pusher.pc = "complete" => bytestream.closed /\ bytestream.queue = <<>>
    /\ pusher.pc = "fatalErr" => pusher.err # "nil"

\* The stream is closed while Flush waits, and for good once Flush has failed.
CallerInv ==
    /\ caller.in \in {"Flush", "panic"} => bytestream.closed
    /\ caller.in = "Close" => ~bytestream.closed
    /\ bytestream.closed /\ caller.in # "Flush" => caller.err # "nil"

IInv ==
    /\ TypeOK
    /\ NothingDropped
    /\ flushed <= Len(sent)
    /\ PusherInv
    /\ CallerInv

-----------------------------------------------------------------------------
(* Each action keeps the invariant.                                        *)

\* What the client sends has a size.
Sized == \A c \in Chunks : c.size \in Nat

LEMMA Regroup ==
    ASSUME NEW S, NEW a \in Seq(S), NEW b \in Seq(S), NEW c \in Seq(S)
    PROVE  (a \o b) \o c = a \o (b \o c)
OBVIOUS

LEMMA InitInv == Init => IInv
<1> SUFFICES ASSUME Init PROVE IInv
    OBVIOUS
<1>1. <<>> \in Seq(Chunks) /\ Len(<<>>) = 0 /\ <<>> \o <<>> = <<>>
    OBVIOUS
<1>2. TypeOK
    BY <1>1 DEF Init, TypeOK, NewStream, NewPusher, Pusher, Caller, Errors
<1>3. QED
    BY <1>1, <1>2 DEF Init, IInv, NothingDropped, PusherInv, CallerInv, NewStream, NewPusher

-----------------------------------------------------------------------------
(* Types.                                                                  *)

LEMMA CallerType ==
    ASSUME caller \in Caller, caller' = caller \/ Panic \/ \E err \in Errors : CallerReturns(err)
    PROVE  caller' \in Caller
<1>1. <<>> \in Seq(Chunks)
    OBVIOUS
<1>2. CASE Panic
    BY <1>2 DEF Panic, Caller
<1>3. CASE \E err \in Errors : CallerReturns(err)
    BY <1>1, <1>3 DEF CallerReturns, Caller
<1>4. QED
    BY <1>2, <1>3

LEMMA NextType ==
    ASSUME Sized, TypeOK, PusherInv, Next
    PROVE  TypeOK'
<1>1. /\ bytestream \in [queue : Seq(Chunks), closed : BOOLEAN]
      /\ bytestream.queue \in Seq(Chunks)
      /\ caller \in Caller /\ caller.chunk \in Seq(Chunks)
      /\ pusher \in Pusher /\ pusher.chunk \in Seq(Chunks) /\ pusher.err \in Errors
    BY DEF TypeOK, Caller, Pusher
<1>2. "nil" \in Errors /\ "terminal" \in Errors
    BY DEF Errors
<1>3. CASE Cancel
    BY <1>3 DEF Cancel, TypeOK
<1>4. CASE Program
    <2>1. ASSUME NEW chunk \in Chunks, AppendLog(chunk) PROVE TypeOK'
        <3>1. <<chunk>> \in Seq(Chunks)
            OBVIOUS
        <3>2. caller' \in Caller
            BY <1>1, <2>1, <3>1 DEF AppendLog, Caller
        <3>3. QED
            BY <2>1, <3>2 DEF AppendLog, TypeOK
    <2>2. ASSUME NEW closing \in BOOLEAN, Flush(closing) PROVE TypeOK'
        <3>1. caller' \in Caller
            BY <1>1, <2>2, CallerType DEF Flush, Caller
        <3>2. bytestream' \in [queue : Seq(Chunks), closed : BOOLEAN]
            BY <1>1, <2>2 DEF Flush
        <3>3. QED
            BY <2>2, <3>1, <3>2 DEF Flush, TypeOK
    <2>3. QED
        BY <1>4, <2>1, <2>2 DEF Program
<1>5. CASE CallerStep
    <2>1. CASE Enqueue
        <3>1. caller' \in Caller
            BY <1>1, <1>2, <2>1, CallerType DEF Enqueue
        <3>2. /\ bytestream.queue \o caller.chunk \in Seq(Chunks)
              /\ appended \o caller.chunk \in Seq(Chunks)
            BY <1>1 DEF TypeOK
        <3>3. /\ bytestream' \in [queue : Seq(Chunks), closed : BOOLEAN]
              /\ appended' \in Seq(Chunks)
            BY <1>1, <2>1, <3>2 DEF Enqueue, TypeOK
        <3>4. QED
            BY <2>1, <3>1, <3>3 DEF Enqueue, TypeOK
    <2>2. CASE FlushCancelled
        BY <1>1, <1>2, <2>2, CallerType DEF FlushCancelled, TypeOK
    <2>3. CASE FlushFails
        <3>1. caller' \in Caller
            BY <1>1, <2>3, CallerType DEF FlushFails
        <3>2. pusher' \in Pusher
            BY <1>1, <2>3 DEF FlushFails, Pusher
        <3>3. QED
            BY <2>3, <3>1, <3>2 DEF FlushFails, TypeOK
    <2>4. CASE FlushCompletes
        <3>1. caller' \in Caller
            BY <1>1, <1>2, <2>4, CallerType DEF FlushCompletes, Caller
        <3>2. <<>> \in Seq(Chunks) /\ Len(appended) \in Nat
            BY DEF TypeOK
        <3>3. pusher' \in Pusher /\ bytestream' \in [queue : Seq(Chunks), closed : BOOLEAN]
            BY <1>2, <2>4, <3>2 DEF FlushCompletes, NewPusher, NewStream, Pusher
        <3>4. QED
            BY <2>4, <3>1, <3>2, <3>3 DEF FlushCompletes, TypeOK
    <2>5. QED
        BY <1>5, <2>1, <2>2, <2>3, <2>4 DEF CallerStep
<1>6. CASE PusherStep
    <2>1. CASE Range
        <3>1. bytestream.queue # <<>> =>
                <<Head(bytestream.queue)>> \in Seq(Chunks) /\ Tail(bytestream.queue) \in Seq(Chunks)
            BY <1>1
        <3>2. CASE bytestream.queue # <<>>
            <4> DEFINE head == <<Head(bytestream.queue)>>
                       tail == Tail(bytestream.queue)
            <4> HIDE DEF head, tail
            <4>1. head \in Seq(Chunks) /\ tail \in Seq(Chunks)
                BY <3>1, <3>2 DEF head, tail
            <4>2. /\ pusher' = [pusher EXCEPT !.pc = "tick", !.chunk = head]
                  /\ bytestream' = [bytestream EXCEPT !.queue = tail]
                BY <2>1, <3>2 DEF Range, head, tail
            <4>3. pusher' \in Pusher
                BY <1>1, <4>1, <4>2 DEF Pusher
            <4>4. bytestream' \in [queue : Seq(Chunks), closed : BOOLEAN]
                BY <1>1, <4>1, <4>2
            <4>5. QED
                BY <2>1, <4>3, <4>4 DEF Range, TypeOK
        <3>3. CASE bytestream.queue = <<>>
            <4>1. pusher' \in Pusher
                BY <1>1, <2>1, <3>3 DEF Range, Pusher
            <4>2. QED
                BY <2>1, <3>3, <4>1 DEF Range, TypeOK
        <3>4. QED
            BY <3>2, <3>3
    <2>2. CASE Tick \/ Bail
        <3>1. pusher' \in Pusher
            BY <1>1, <2>2 DEF Tick, Bail, Pusher
        <3>2. QED
            BY <2>2, <3>1 DEF Tick, Bail, TypeOK
    <2>3. QED
        BY <1>6, <2>1, <2>2 DEF PusherStep
<1>7. ASSUME NEW err \in Errors, CloseAnswered(err) PROVE TypeOK'
    BY <1>1, <1>7, CallerType DEF CloseAnswered, TypeOK
<1>8. ASSUME NEW err \in Errors, PostAnswered(err) PROVE TypeOK'
    <2>1. <<>> \in Seq(Chunks)
        OBVIOUS
    <2>2. pusher' \in Pusher
        BY <1>1, <1>8, <2>1 DEF PostAnswered, Pusher
    <2>3. sent \o pusher.chunk \in Seq(Chunks) /\ sent \in Seq(Chunks)
        BY <1>1 DEF TypeOK
    <2>4. pusher.chunk[1] \in Chunks
        BY <1>1, <1>8 DEF PostAnswered, PusherInv
    <2>5. offset' \in Nat
        BY <1>8, <2>4 DEF PostAnswered, Sized, TypeOK
    <2>6. QED
        BY <1>1, <1>8, <2>2, <2>3, <2>5 DEF PostAnswered, TypeOK
<1>9. QED
    BY <1>3, <1>4, <1>5, <1>6, <1>7, <1>8 DEF Next

-----------------------------------------------------------------------------
(* The invariant.                                                          *)

\* A chunk that moves from the channel to the pusher stays in its place.
LEMMA RangeKeeps ==
    ASSUME IInv, Range
    PROVE  NothingDropped'
<1> DEFINE queue == bytestream.queue
           head == <<Head(queue)>>
           tail == Tail(queue)
<1>1. /\ bytestream \in [queue : Seq(Chunks), closed : BOOLEAN] /\ queue \in Seq(Chunks)
      /\ pusher \in Pusher /\ sent \in Seq(Chunks)
      /\ pusher.chunk = <<>>
      /\ appended = sent \o pusher.chunk \o queue
    BY DEF IInv, TypeOK, PusherInv, NothingDropped, Range
<1>2. UNCHANGED <<appended, sent>>
    BY DEF Range
<1>3. CASE queue # <<>>
    <2>1. queue = head \o tail /\ head \in Seq(Chunks) /\ tail \in Seq(Chunks)
        BY <1>1, <1>3
    <2>2. bytestream'.queue = tail /\ pusher'.chunk = head
        BY <1>1, <1>3 DEF Range, Pusher
    <2>3. sent \o pusher.chunk = sent
        BY <1>1
    <2>4. sent \o (head \o tail) = (sent \o head) \o tail
        BY <1>1, <2>1, Regroup
    <2>5. appended = (sent \o head) \o tail
        BY <1>1, <2>1, <2>3, <2>4
    <2>6. QED
        BY <1>2, <2>2, <2>5 DEF NothingDropped
<1>4. CASE queue = <<>>
    <2>1. bytestream' = bytestream /\ pusher'.chunk = pusher.chunk
        BY <1>1, <1>4 DEF Range, Pusher
    <2>2. QED
        BY <1>1, <1>2, <2>1 DEF NothingDropped
<1>5. QED
    BY <1>3, <1>4

LEMMA EnqueueKeeps ==
    ASSUME IInv, Enqueue
    PROVE  NothingDropped'
<1>1. /\ bytestream \in [queue : Seq(Chunks), closed : BOOLEAN]
      /\ bytestream.queue \in Seq(Chunks) /\ caller.chunk \in Seq(Chunks)
      /\ sent \o pusher.chunk \in Seq(Chunks)
      /\ appended = (sent \o pusher.chunk) \o bytestream.queue
    BY DEF IInv, TypeOK, Pusher, Caller, NothingDropped
<1>2. UNCHANGED <<pusher, sent>>
    BY DEF Enqueue
<1>3. CASE UNCHANGED <<bytestream, appended>>
    BY <1>1, <1>2, <1>3 DEF NothingDropped
<1>4. CASE /\ bytestream' = [bytestream EXCEPT !.queue = @ \o caller.chunk]
           /\ appended' = appended \o caller.chunk
    <2>1. bytestream'.queue = bytestream.queue \o caller.chunk
        BY <1>1, <1>4
    <2>2. appended' = (sent \o pusher.chunk) \o (bytestream.queue \o caller.chunk)
        <3> DEFINE taken == sent \o pusher.chunk
                   queue == bytestream.queue
                   chunk == caller.chunk
        <3> HIDE DEF taken, queue, chunk
        <3>1. taken \in Seq(Chunks) /\ queue \in Seq(Chunks) /\ chunk \in Seq(Chunks)
            BY <1>1 DEF taken, queue, chunk
        <3>2. (taken \o queue) \o chunk = taken \o (queue \o chunk)
            BY <3>1, Regroup
        <3>3. QED
            BY <1>1, <1>4, <3>2 DEF taken, queue, chunk
    <2>3. QED
        BY <1>2, <2>1, <2>2 DEF NothingDropped
<1>5. QED
    BY <1>3, <1>4 DEF Enqueue

LEMMA NextInv ==
    ASSUME Sized, IInv, Next
    PROVE  IInv'
<1>1. TypeOK'
    BY NextType DEF IInv
<1>2. /\ pusher \in Pusher /\ caller \in Caller
      /\ bytestream \in [queue : Seq(Chunks), closed : BOOLEAN]
      /\ sent \in Seq(Chunks) /\ appended \in Seq(Chunks) /\ flushed \in Nat
    BY DEF IInv, TypeOK
<1> SUFFICES NothingDropped' /\ flushed' <= Len(sent)' /\ PusherInv' /\ CallerInv'
    BY <1>1 DEF IInv
<1> USE DEF IInv
<1>3. CASE Cancel
    BY <1>3 DEF Cancel, NothingDropped, PusherInv, CallerInv
<1>4. CASE Program
    <2>1. UNCHANGED <<pusher, appended, sent, flushed>> /\ bytestream'.queue = bytestream.queue
        BY <1>2, <1>4 DEF Program, AppendLog, Flush
    <2>2. NothingDropped' /\ PusherInv'
        BY <2>1, <1>2, <1>4 DEF NothingDropped, PusherInv, Program, AppendLog, Flush
    <2>3. CallerInv'
        BY <1>2, <1>4 DEF CallerInv, Program, AppendLog, Flush, Idle, Panic, Caller
    <2>4. QED
        BY <2>1, <2>2, <2>3
<1>5. CASE Enqueue
    <2>1. PusherInv' /\ flushed' <= Len(sent)'
        BY <1>2, <1>5 DEF Enqueue, PusherInv
    <2>2. CallerInv'
        BY <1>2, <1>5 DEF Enqueue, CallerInv, CallerReturns, Panic, Caller
    <2>3. QED
        BY <1>5, <2>1, <2>2, EnqueueKeeps
<1>6. CASE FlushCancelled
    BY <1>2, <1>6 DEF FlushCancelled, CallerReturns, NothingDropped, PusherInv, CallerInv, Caller
<1>7. CASE FlushFails
    BY <1>2, <1>7 DEF FlushFails, CallerReturns, NothingDropped, PusherInv, CallerInv, Caller, Pusher
<1>8. CASE FlushCompletes
    <2>1. appended = sent
        <3>1. pusher.chunk = <<>> /\ bytestream.queue = <<>>
            BY <1>8 DEF FlushCompletes, PusherInv
        <3>2. QED
            BY <1>2, <3>1 DEF NothingDropped
    <2>2. NothingDropped'
        BY <1>2, <1>8, <2>1 DEF FlushCompletes, NewStream, NewPusher, NothingDropped
    <2>3. flushed' <= Len(sent)' /\ PusherInv'
        BY <1>2, <1>8, <2>1 DEF FlushCompletes, NewPusher, PusherInv
    <2>4. CallerInv'
        <3>1. bytestream'.closed = FALSE /\ caller'.in \in {"program", "Close"}
            BY <1>2, <1>8 DEF FlushCompletes, NewStream, CallerReturns, Caller
        <3>2. QED
            BY <3>1 DEF CallerInv
    <2>5. QED
        BY <2>2, <2>3, <2>4
<1>9. CASE Range
    <2>1. PusherInv'
        <3>1. CASE bytestream.queue # <<>>
            <4>1. pusher'.pc = "tick" /\ pusher'.chunk = <<Head(bytestream.queue)>>
                BY <1>2, <1>9, <3>1 DEF Range, Pusher
            <4>2. QED
                BY <4>1 DEF PusherInv
        <3>2. CASE bytestream.queue = <<>>
            BY <1>2, <1>9, <3>2 DEF Range, PusherInv, Pusher
        <3>3. QED
            BY <3>1, <3>2
    <2>2. CallerInv' /\ flushed' <= Len(sent)'
        BY <1>2, <1>9 DEF Range, CallerInv
    <2>3. QED
        BY <1>9, <2>1, <2>2, RangeKeeps
<1>10. CASE Tick \/ Bail
    BY <1>2, <1>10 DEF Tick, Bail, NothingDropped, PusherInv, CallerInv, Pusher
<1>11. ASSUME NEW err \in Errors, CloseAnswered(err)
       PROVE  NothingDropped' /\ flushed' <= Len(sent)' /\ PusherInv' /\ CallerInv'
    BY <1>2, <1>11 DEF CloseAnswered, CallerReturns, NothingDropped, PusherInv, CallerInv, Caller
<1>12. ASSUME NEW err \in Errors, PostAnswered(err)
       PROVE  NothingDropped' /\ flushed' <= Len(sent)' /\ PusherInv' /\ CallerInv'
    <2>1. CASE err = "nil"
        <3>1. pusher'.chunk = <<>> /\ pusher'.err = "nil" /\ pusher'.pc = "range"
            BY <1>2, <1>12, <2>1 DEF PostAnswered, Pusher
        <3>2. sent' = sent \o pusher.chunk /\ UNCHANGED <<bytestream, caller, appended, flushed>>
            BY <1>12, <2>1 DEF PostAnswered
        <3>3. sent' \in Seq(Chunks) /\ Len(sent) <= Len(sent') /\ sent' \o <<>> = sent'
            BY <1>2, <3>2 DEF Pusher
        <3>4. NothingDropped'
            BY <3>1, <3>2, <3>3 DEF NothingDropped
        <3>5. PusherInv' /\ CallerInv' /\ flushed' <= Len(sent')
            BY <1>2, <3>1, <3>2, <3>3 DEF PusherInv, CallerInv
        <3>6. QED
            BY <3>4, <3>5
    <2>2. CASE err # "nil"
        BY <1>2, <1>12, <2>2 DEF PostAnswered, NothingDropped, PusherInv, CallerInv, Pusher
    <2>3. QED
        BY <2>1, <2>2
<1>13. QED
    BY <1>3, <1>4, <1>5, <1>6, <1>7, <1>8, <1>9, <1>10, <1>11, <1>12
    DEF Next, CallerStep, PusherStep

LEMMA StutterInv ==
    ASSUME IInv, UNCHANGED vars
    PROVE  IInv'
BY DEF vars, IInv, TypeOK, NothingDropped, PusherInv, CallerInv, Pusher, Caller

-----------------------------------------------------------------------------
(***************************************************************************)
(* Theorems.                                                               *)
(***************************************************************************)

\* The invariant is inductive, whatever the server answers and however the
\* program calls AppendLog, Flush and Close.
THEOREM Inductive == Sized => (Spec => []IInv)
<1> SUFFICES ASSUME Sized PROVE Spec => []IInv
    OBVIOUS
<1>1. Init => IInv
    BY InitInv
<1>2. IInv /\ [Next]_vars => IInv'
    BY NextInv, StutterInv
<1>3. QED
    BY <1>1, <1>2, PTL DEF Spec

\* What Flush vouches for.  Its two parts are those of NothingDropped.
LEMMA PrefixSent ==
    ASSUME IInv
    PROVE  FlushMeansSent
<1> DEFINE rest == pusher.chunk \o bytestream.queue
<1>1. sent \in Seq(Chunks) /\ pusher.chunk \in Seq(Chunks) /\ bytestream.queue \in Seq(Chunks)
    BY DEF IInv, TypeOK, Pusher
<1>2. rest \in Seq(Chunks) /\ appended = sent \o rest
    <2> DEFINE held == pusher.chunk
               queue == bytestream.queue
    <2> HIDE DEF held, queue
    <2>1. held \in Seq(Chunks) /\ queue \in Seq(Chunks)
        BY <1>1 DEF held, queue
    <2>2. sent \in Seq(Chunks)
        BY <1>1
    <2>3. (sent \o held) \o queue = sent \o (held \o queue)
        BY <2>1, <2>2, Regroup
    <2>4. held \o queue \in Seq(Chunks)
        BY <2>1
    <2>5. QED
        BY <2>3, <2>4 DEF IInv, NothingDropped, held, queue
<1> HIDE DEF rest
<1>3. Len(sent) <= Len(appended) /\ sent = SubSeq(appended, 1, Len(sent))
    BY <1>1, <1>2
<1>4. QED
    BY <1>3 DEF FlushMeansSent, IInv

\* Chunks reach the server in the order in which AppendLog took them, none twice
\* and none left out, and a Flush that returns nil has seen all of them through
\* (AppendLog, pushLogChunks and Flush).
THEOREM InOrder == Sized => (Spec => []FlushMeansSent)
<1>1. IInv => FlushMeansSent
    BY PrefixSent
<1>2. QED
    BY <1>1, Inductive, PTL

\* A send on a closed channel, or a second close of one, needs a program that
\* goes on after Flush or Close has returned an error.
THEOREM PanicNeedsError == Sized => (Spec => []PanicsOnlyAfterError)
<1>1. IInv => PanicsOnlyAfterError
    BY DEF IInv, CallerInv, PanicsOnlyAfterError
<1>2. QED
    BY <1>1, Inductive, PTL

=============================================================================
