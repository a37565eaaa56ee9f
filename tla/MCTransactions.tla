-------------------------- MODULE MCTransactions --------------------------
(***************************************************************************)
(* A table of up to two rows, one savepoint name of the caller.            *)
(***************************************************************************)
EXTENDS TransactionsRefinement

CONSTANTS n1, i1, i2, i3

MCNames == {n1}
MCIds   == {i1, i2, i3}
=============================================================================
