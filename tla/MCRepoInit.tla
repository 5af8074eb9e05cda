----------------------------- MODULE MCRepoInit -----------------------------
(* Instances of RepoInit for TLC.                                         *)
EXTENDS RepoInit

CONSTANTS n1, n2, i1, i2, i3
=============================================================================
