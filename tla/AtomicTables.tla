--------------------------- MODULE AtomicTables ---------------------------
(***************************************************************************)
(* What the table functions promise: each call is one step, which does all *)
(* of its work or none, inside the caller's transaction if there is one    *)
(* and committed if there is none.                                         *)
(*                                                                         *)
(* Two things besides may happen.  SQLite may roll back everything, the    *)
(* caller's transaction included.  And where there was no transaction, one *)
(* may be left open because its commit found the database locked.          *)
(***************************************************************************)
EXTENDS Integers, Sequences

CONSTANTS Names, Ids, Absent, Impossible, Back, Idle

VARIABLES
    disk, db, begun, sp,
    want   \* the table the running call is to leave; Idle: no call

vars == <<disk, db, begun, sp, want>>

InTransaction == begun \/ sp # <<>>

Init == disk \in {Absent, 0} /\ db = disk /\ begun = FALSE /\ sp = <<>> /\ want = Idle

\* The savepoint with name n that a statement of the caller means.
Named(n, j) == sp[j].id = n /\ \A l \in DOMAIN sp : sp[l].id = n => l <= j

Outermost(j) == j = 1 /\ ~begun

Begin    == ~InTransaction /\ begun' = TRUE /\ UNCHANGED <<disk, db, sp>>
Mark(n)  == sp' = Append(sp, [id |-> n, db |-> db]) /\ UNCHANGED <<disk, db, begun>>
Commit   == InTransaction /\ disk' = db /\ begun' = FALSE /\ sp' = <<>> /\ UNCHANGED db
Rollback == InTransaction /\ db' = disk /\ begun' = FALSE /\ sp' = <<>> /\ UNCHANGED disk

CommitTo(n) ==
    \E j \in DOMAIN sp :
        /\ Named(n, j)
        /\ sp' = SubSeq(sp, 1, j - 1)
        /\ disk' = IF Outermost(j) THEN db ELSE disk
        /\ UNCHANGED <<db, begun>>

\* The table is t from now on, for the caller or for everyone.
Becomes(t) ==
    /\ db' = t
    /\ disk' = IF InTransaction THEN disk ELSE t
    /\ UNCHANGED <<begun, sp>>

\* Between calls.
Statement ==
    /\ want = Idle
    /\ \/ Begin \/ Commit \/ Rollback \/ (db # Absent /\ Becomes(Absent))
       \/ \E n \in Names : Mark(n) \/ CommitTo(n)
    /\ UNCHANGED want

\* A call says what it wants.
Request ==
    /\ want = Idle
    /\ want' \in Nat \cup {Impossible, Back}
    /\ UNCHANGED <<disk, db, begun, sp>>

\* Back to the state of a savepoint, which goes too, unless it is the outermost
\* and the database is locked.
RolledBackTo(n) ==
    /\ want = Back
    /\ \E j \in DOMAIN sp :
          /\ Named(n, j)
          /\ db' = sp[j].db
          /\ \/ sp' = SubSeq(sp, 1, j - 1)
             \/ Outermost(j) /\ sp' = SubSeq(sp, 1, j)
    /\ UNCHANGED <<disk, begun>>

Done == want \in Nat /\ Becomes(want)

Undone == UNCHANGED <<disk, db, begun, sp>>

\* SQLite has rolled back everything.
Aborted ==
    /\ want # Back
    /\ db' = disk /\ begun' = FALSE /\ sp' = <<>> /\ UNCHANGED disk

LeftOpen ==
    /\ want \in Nat \cup {Impossible}
    /\ ~InTransaction
    /\ \E id \in Ids : sp' = <<[id |-> id, db |-> db]>>
    /\ db' \in {db, want}
    /\ UNCHANGED <<disk, begun>>

\* A call returns: all of it, none of it, or one of the two exceptions.
Return ==
    /\ want # Idle
    /\ want' = Idle
    /\ \/ Done \/ Undone \/ Aborted \/ LeftOpen
       \/ \E n \in Names : RolledBackTo(n)

Next == Statement \/ Request \/ Return

Spec == Init /\ [][Next]_vars
=============================================================================
