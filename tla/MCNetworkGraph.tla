--------------------------- MODULE MCNetworkGraph ---------------------------
(***************************************************************************)
(* Small instances of NetworkGraph for TLC.                                *)
(***************************************************************************)
EXTENDS NetworkGraph, TLC

Symmetry == Permutations(Assets) \cup Permutations(Scans)
=============================================================================
