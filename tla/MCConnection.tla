--------------------------- MODULE MCConnection ---------------------------
(***************************************************************************)
(* Two connections, each to a plain or an encrypted database, that share   *)
(* three result objects and two busy handlers, one of them a timeout.      *)
(***************************************************************************)
EXTENDS Connection, TLC

CONSTANTS c1, c2, r1, r2, r3, h1, h2, none

MCConns     == {c1, c2}
MCResults   == {r1, r2, r3}
MCCallbacks == {h1, h2}
MCTimeouts  == {h2}

\* Connections are interchangeable, and so are result objects.
Symmetry == Permutations(MCResults) \cup Permutations(MCConns)
=============================================================================
