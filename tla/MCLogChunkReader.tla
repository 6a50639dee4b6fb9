--------------------------- MODULE MCLogChunkReader ---------------------------
(* The instance of LogChunkReader in Reader.cfg. *)
EXTENDS LogChunkReader

SomeLens == 0 .. 3
SomeReadAheads == {0, 2, 4}
=============================================================================
