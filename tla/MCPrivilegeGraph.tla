-------------------------- MODULE MCPrivilegeGraph --------------------------
(***************************************************************************)
(* Small instances of PrivilegeGraph for TLC.                              *)
(***************************************************************************)
EXTENDS PrivilegeGraph, TLC

Symmetry ==
  {h @@ c @@ s : h \in Permutations(Hosts), c \in Permutations(Creds), s \in Permutations(Scans)}
=============================================================================
