------------------------- MODULE MCArtifactDurability -------------------------
(* Instances of ArtifactStore in which the inductive invariant of the proofs   *)
(* is checked beside the properties it implies.                                *)
EXTENDS ArtifactRefinement, MCArtifactStore

\* Announced sizes, with one that makes no sense and that CreateArtifact accepts.
SomeSizes == {-1, 0, 1, 2}
=============================================================================
