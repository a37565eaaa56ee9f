----------------------- MODULE TransactionsRefinement -----------------------
(***************************************************************************)
(* Transactions implements AtomicTables: until a call returns, the         *)
(* abstract state is the one it was called in.                             *)
(***************************************************************************)
EXTENDS Transactions

Atomic == INSTANCE AtomicTables WITH
    disk  <- IF Running THEN pre.disk ELSE disk,
    db    <- IF Running THEN pre.db ELSE db,
    begun <- IF Running THEN pre.begun ELSE begun,
    sp    <- IF Running THEN pre.sp ELSE sp,
    want  <- IF Running THEN pre.want ELSE Idle

\* Every call of a table function is one step of AtomicTables when it returns:
\* all of its work or none, however its statements fail, its handlers nest and
\* its commits are locked (dbWriteTable, dbAppendTable, dbRollback).
ImplementsAtomicTables == Atomic!Spec
=============================================================================
