--------------------------- MODULE MCArtifactStore ---------------------------
(* What the instances of ArtifactStore in the .cfg files share. *)
EXTENDS ArtifactStore, TLC

\* Slots of requests, artifact names and contents are each interchangeable.
Symmetry == Permutations(Requests) \cup Permutations(Names) \cup Permutations(Data)
=============================================================================
