------------------------ MODULE ResultSetRefinement ------------------------
(***************************************************************************)
(* SqliteResultImpl implements RowCursor: binding group after group,       *)
(* stepping ahead and filling data frames amounts to reading one sequence  *)
(* from front to back.                                                     *)
(***************************************************************************)
EXTENDS ResultSet, SequencesExt

GroupRows(g) == [k \in 1 .. RowsOf(g) |-> <<g, k>>]

\* The rows of all groups of the current binding, one after the other.
Stream == FlattenSeq([g \in 1 .. Len(params_.groups) |-> GroupRows(g - 1)])

Open == live /\ ready_ /\ clean

\* A row is read when nrows_ counts it: between set_col_values() and nrows_++
\* the step ahead may already have set complete_.
Reading == pc = "advance"

Cursor == INSTANCE RowCursor WITH
    Row    <- Int \X Int,
    rows   <- IF Open THEN Stream ELSE <<>>,
    got    <- IF Open THEN SubSeq(taken, 1, nrows_) ELSE <<>>,
    done   <- IF Open THEN complete_ /\ ~Reading ELSE FALSE,
    broken <- live /\ ~clean

\* Every step of the implementation is a step of RowCursor or leaves it
\* unchanged: binding, look-ahead and fetches of any size, with step errors,
\* failed bindings and interrupts in between (SqliteResultImpl.cpp).
ImplementsRowCursor == Cursor!Spec
=============================================================================
