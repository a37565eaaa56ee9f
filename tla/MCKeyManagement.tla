-------------------------- MODULE MCKeyManagement --------------------------
(***************************************************************************)
(* Two connections, two files, one key of each kind.  Neither connections  *)
(* nor files are told apart by the specification.                          *)
(***************************************************************************)
EXTENDS KeyManagement, TLC

CONSTANTS c1, c2, f1, f2, none

MCConns == {c1, c2}
MCFiles == {f1, f2}

Symmetry == Permutations(MCConns) \cup Permutations(MCFiles)
=============================================================================
