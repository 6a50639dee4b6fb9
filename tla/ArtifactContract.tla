--------------------------- MODULE ArtifactContract ---------------------------
(***************************************************************************)
(* What the server promises a client that uses it alone and waits for each *)
(* answer: the life of a bucket's artifacts as model/artifact.go describes *)
(* it, without requests, database, S3 or failures.                         *)
(***************************************************************************)
CONSTANTS
    Names,      \* artifacts of the bucket
    Payloads    \* what a client may post

VARIABLES
    bucket,     \* "NONE", "OPEN" or "CLOSED"
    phase,      \* [Names -> Phase]
    promised,   \* [Names -> SUBSET Payloads], what the client was told is stored
    kept        \* [Names -> SUBSET Payloads], what a reader can be given of it

vars == <<bucket, phase, promised, kept>>

\* "open" takes data, "sealed" is on its way to S3, "stored" is there, and
\* "void" has no data and never will.
Phase == {"absent", "open", "sealed", "stored", "void"}

Init ==
    /\ bucket = "NONE"
    /\ phase = [n \in Names |-> "absent"]
    /\ promised = [n \in Names |-> {}]
    /\ kept = [n \in Names |-> {}]

CreateBucket ==
    /\ bucket = "NONE" /\ bucket' = "OPEN"
    /\ UNCHANGED <<phase, promised, kept>>

CloseBucket ==
    /\ bucket = "OPEN" /\ bucket' = "CLOSED"
    /\ UNCHANGED <<phase, promised, kept>>

Move(n, from, to) == phase[n] \in from /\ phase' = [phase EXCEPT ![n] = to]

Create(n) ==
    /\ bucket = "OPEN" /\ Move(n, {"absent"}, "open")
    /\ UNCHANGED <<bucket, promised, kept>>

\* What is promised is kept, from the same moment on and for ever.
Keep(n, payload) ==
    /\ promised' = [promised EXCEPT ![n] = @ \cup {payload}]
    /\ kept' = [kept EXCEPT ![n] = @ \cup {payload}]

Append(n, payload) ==
    /\ phase[n] = "open" /\ Keep(n, payload)
    /\ UNCHANGED <<bucket, phase>>

\* The end of a log, or the beginning of an upload.
Seal(n) ==
    /\ Move(n, {"open"}, "sealed")
    /\ UNCHANGED <<bucket, promised, kept>>

\* A sealed artifact is stored with all that was kept of it.
Ship(n) ==
    /\ Move(n, {"sealed"}, "stored")
    /\ UNCHANGED <<bucket, promised, kept>>

\* An upload is promised when it is stored.
Deliver(n, payload) ==
    /\ promised[n] = {}
    /\ Move(n, {"sealed"}, "stored") /\ Keep(n, payload)
    /\ UNCHANGED bucket

\* Only an artifact without data is given up.
Discard(n) ==
    /\ promised[n] = {} /\ Move(n, {"open", "sealed"}, "void")
    /\ UNCHANGED <<bucket, promised, kept>>

Next ==
    \/ CreateBucket \/ CloseBucket
    \/ \E n \in Names :
        \/ Create(n) \/ Seal(n) \/ Ship(n) \/ Discard(n)
        \/ \E payload \in Payloads : Append(n, payload) \/ Deliver(n, payload)

Spec == Init /\ [][Next]_vars

=============================================================================
