----------------------------- MODULE RowCursor -----------------------------
(***************************************************************************)
(* What a result set promises its caller: a bound query is a fixed finite  *)
(* sequence of rows, read once from the front to the back, and done when,  *)
(* and only when, the last of them has been read.  A failure breaks the    *)
(* promise until the query is bound again.                                 *)
(***************************************************************************)
EXTENDS Naturals, Sequences

CONSTANT Row

VARIABLES
    rows,    \* the rows of the bound query
    got,     \* those read so far
    done,    \* what dbHasCompleted() says
    broken   \* a failure has happened since the query was bound

vars == <<rows, got, done, broken>>

Closed == rows = <<>> /\ got = <<>> /\ done = FALSE /\ broken = FALSE

Init == Closed

\* A query is bound; a query bound to no parameters at all is done at once.
Open ==
    /\ rows' \in Seq(Row)
    /\ got' = <<>>
    /\ done' \in {FALSE, rows' = <<>>}
    /\ broken' = FALSE

\* The first look at a query without rows finds its end.
FindEnd ==
    /\ ~broken /\ ~done
    /\ rows = <<>>
    /\ done' = TRUE
    /\ UNCHANGED <<rows, got, broken>>

\* One row is read; reading the last one is reaching the end.
Take ==
    /\ ~broken /\ ~done
    /\ Len(got) < Len(rows)
    /\ got' = Append(got, rows[Len(got) + 1])
    /\ done' = (Len(got') = Len(rows))
    /\ UNCHANGED <<rows, broken>>

Break ==
    /\ broken' = TRUE
    /\ rows' = <<>> /\ got' = <<>> /\ done' = FALSE

\* The result set is cleared, or another one is created and not bound yet.
Close == Closed'

Next == Open \/ FindEnd \/ Take \/ Break \/ Close

Spec == Init /\ [][Next]_vars
=============================================================================
