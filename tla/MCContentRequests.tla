-------------------------- MODULE MCContentRequests --------------------------
(* An instance of ContentRequests with an announced size that makes no sense: *)
(* CreateArtifact accepts it, and GetArtifactContentChunks reports it.        *)
EXTENDS ContentRequests

SomeSizes == {-1, 1}
=============================================================================
