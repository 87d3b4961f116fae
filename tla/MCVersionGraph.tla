--------------------------- MODULE MCVersionGraph ---------------------------
(* Instances of VersionGraph for TLC.                                       *)
EXTENDS VersionGraph, TLC

CONSTANTS v1, v2, v3, v4, b1, b2

Interchangeable == Permutations(Hash) \cup Permutations(Branch)
=============================================================================
