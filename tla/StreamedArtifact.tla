--------------------------- MODULE StreamedArtifact ---------------------------
(***************************************************************************)
(* StreamedArtifact.UploadArtifact (client/client.go): posts a stream of   *)
(* known size and retries with what is left of the same stream, which the  *)
(* attempt before has read from.  The stream is a bytes.Reader: the HTTP   *)
(* client announces what is left of it as Content-Length.                  *)
(***************************************************************************)
EXTENDS Integers

CONSTANT StreamSizes    \* lengths of the streams a program uploads, in Nat

VARIABLES
    rest,       \* bytes of the stream that have not been read
    upload,     \* "none", "tick" (the select), "post" or "returned"
    err,        \* of the last attempt, then of UploadArtifact
    cancelled   \* the client's context is done

vars == <<rest, upload, err, cancelled>>

Errors == {"nil", "retriable", "terminal"}

Init == rest = 0 /\ upload = "none" /\ err = "nil" /\ cancelled = FALSE

UploadArtifact(size) ==
    /\ upload = "none"
    /\ rest' = size /\ upload' = "tick" /\ err' = "nil"
    /\ UNCHANGED cancelled

Tick ==
    /\ upload = "tick" /\ upload' = "post"
    /\ UNCHANGED <<rest, err, cancelled>>

Bail ==
    /\ upload = "tick" /\ cancelled
    /\ upload' = "returned" /\ err' = "terminal"
    /\ UNCHANGED <<rest, cancelled>>

\* Mutant: an answer that can be retried ends the upload without an error.
PostAnsweredGivingUp(e, left) ==
    /\ upload = "post" /\ left <= rest
    /\ rest' = left
    /\ err' = IF e = "retriable" THEN "nil" ELSE e
    /\ upload' = "returned"
    /\ UNCHANGED cancelled

\* Mutant: every failed attempt is repeated.
PostAnsweredRetryingAll(e, left) ==
    /\ upload = "post" /\ left <= rest
    /\ rest' = left /\ err' = e
    /\ upload' = IF e = "nil" THEN "returned" ELSE "tick"
    /\ UNCHANGED cancelled

\* An attempt has ended with part of the stream read.
PostAnswered(e, left) ==
    /\ upload = "post" /\ left <= rest
    /\ rest' = left /\ err' = e
    /\ upload' = IF e = "retriable" THEN "tick" ELSE "returned"
    /\ UNCHANGED cancelled

Cancel ==
    /\ ~cancelled /\ cancelled' = TRUE
    /\ UNCHANGED <<rest, upload, err>>

Next ==
    \/ \E size \in StreamSizes : UploadArtifact(size)
    \/ Tick \/ Bail \/ Cancel
    \/ \E e \in Errors, left \in 0 .. rest : PostAnswered(e, left)

Spec == Init /\ [][Next]_vars

TypeOK ==
    /\ rest \in Nat /\ upload \in {"none", "tick", "post", "returned"}
    /\ err \in Errors /\ cancelled \in BOOLEAN

=============================================================================
