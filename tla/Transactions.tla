--------------------------- MODULE Transactions ---------------------------
(***************************************************************************)
(* Transactions and the functions that write tables: dbBegin, dbCommit,    *)
(* dbRollback, dbAppendTable, dbWriteTable (of a data frame and of a       *)
(* file) and dbRemoveTable (src/R/), on one table and one connection.      *)
(*                                                                         *)
(* The table functions open a savepoint of their own, work in it, and      *)
(* release it; an on.exit handler rolls back to it when they stop.  They   *)
(* run inside whatever transaction the caller has open, dbAppendTable also *)
(* inside dbWriteTable, and each statement may fail on its own, meet the   *)
(* lock of another process, or make SQLite roll everything back.           *)
(*                                                                         *)
(* SQLite's part is modelled by what SAVEPOINT, RELEASE, ROLLBACK TO,      *)
(* BEGIN, COMMIT and ROLLBACK do.  Other processes read, and hold locks,   *)
(* but do not write.                                                       *)
(***************************************************************************)
EXTENDS Integers, Sequences

CONSTANTS
    Names,      \* savepoint names the caller uses
    Ids,        \* results of get_savepoint_id
    MaxRows,    \* bound: rows of the table
    MaxDepth    \* bound: savepoints the caller has open

ASSUME IdsAssumption == Ids \cap Names = {}

ASSUME BoundsAssumption == MaxRows \in Nat /\ MaxDepth \in Nat

Absent == -1
Table  == {Absent} \cup Nat     \* no table, or the number of its rows

\* What a call is to make of the table, if not a table.
Impossible == -2
Back       == -3    \* the state of a savepoint
Idle       == -4    \* no call

VARIABLES
    disk,    \* the table as committed
    db,      \* the table as the connection sees it
    begun,   \* BEGIN, not SAVEPOINT, has started the open transaction
    sp,      \* savepoints, outermost first: [id, db]
    wrote,   \* the open transaction has written, so that committing needs a lock
    frames,  \* running R functions, outermost first
    pre      \* the state in which the outermost of them was called, and want:
             \* the table it is to leave; want is Idle between calls

engine == <<disk, db, begun, sp, wrote>>
vars   == <<engine, frames, pre>>

InTransaction == begun \/ sp # <<>>

(***************************************************************************)
(* SQLite's transaction statements.                                        *)
(***************************************************************************)

IsOpen(id) == \E j \in DOMAIN sp : sp[j].id = id

\* The savepoint that a statement with this name means.
Innermost(id, j) == sp[j].id = id /\ \A l \in DOMAIN sp : sp[l].id = id => l <= j

Savepoint(id) ==
    /\ sp' = Append(sp, [id |-> id, db |-> db])
    /\ UNCHANGED <<disk, db, begun, wrote>>

\* Cancels the savepoints inside, keeps this one.
RollbackTo(id) ==
    \E j \in DOMAIN sp :
        /\ Innermost(id, j)
        /\ db' = sp[j].db
        /\ sp' = SubSeq(sp, 1, j)
        /\ UNCHANGED <<disk, begun, wrote>>

\* The outermost savepoint, if it started the transaction, is a COMMIT.
Commits(j) == ~begun /\ j = 1

Release(id) ==
    \E j \in DOMAIN sp :
        /\ Innermost(id, j)
        /\ sp' = SubSeq(sp, 1, j - 1)
        /\ disk' = IF Commits(j) THEN db ELSE disk
        /\ wrote' = (wrote /\ ~Commits(j))
        /\ UNCHANGED <<db, begun>>

\* Someone reads the database: "database is locked", nothing changes.
ReleaseLocked(id) ==
    /\ wrote
    /\ \E j \in DOMAIN sp : Innermost(id, j) /\ Commits(j)
    /\ UNCHANGED engine

\* Ends the transaction, whoever has opened it.
Abort == db' = disk /\ sp' = <<>> /\ begun' = FALSE /\ wrote' = FALSE /\ UNCHANGED disk

\* A statement that writes; without a transaction it commits.
Write(t) ==
    /\ db' = t
    /\ disk' = IF InTransaction THEN disk ELSE t
    /\ wrote' = InTransaction
    /\ UNCHANGED <<begun, sp>>

(***************************************************************************)
(* The R functions as a stack of frames.                                   *)
(***************************************************************************)

Top     == frames[Len(frames)]
Rest    == SubSeq(frames, 1, Len(frames) - 1)
Running == frames # <<>>

At(fn, pc) == Running /\ Top.fn \in fn /\ Top.pc = pc

Goto(pc) == frames' = [frames EXCEPT ![Len(frames)].pc = pc]

Snapshot(want) == [disk |-> disk, db |-> db, begun |-> begun, sp |-> sp, want |-> want]

NoCall == [disk |-> Absent, db |-> Absent, begun |-> FALSE, sp |-> <<>>, want |-> Idle]

\* The innermost function returns, or stops after its on.exit handler.
Leave(how) ==
    IF Rest = <<>>
    THEN frames' = <<>> /\ pre' = NoCall
    ELSE /\ frames' = [Rest EXCEPT ![Len(Rest)].pc = IF how = "ok" THEN "commit" ELSE "undo"]
         /\ UNCHANGED pre

\* stop(), or an error from a statement.
Stop ==
    IF Top.onexit
    THEN Goto("undo") /\ UNCHANGED pre
    ELSE Leave("error")

\* Calls from the top level.
Call(frame, want) ==
    /\ ~Running
    /\ frames' = <<frame>>
    /\ pre' = Snapshot(want)

Frame(fn, pc, id, args) ==
    [fn |-> fn, pc |-> pc, sid |-> id, onexit |-> fn # "rollback",
     rows |-> args.rows, overwrite |-> args.overwrite, append |-> args.append]

Rows(k) == [rows |-> k, overwrite |-> FALSE, append |-> FALSE]

NewId(id) == id \in Ids /\ ~IsOpen(id)

-----------------------------------------------------------------------------

Init ==
    /\ disk \in {Absent, 0}
    /\ db = disk /\ begun = FALSE /\ sp = <<>> /\ wrote = FALSE
    /\ frames = <<>> /\ pre = NoCall

(***************************************************************************)
(* dbBegin, dbCommit and dbRollback of the caller.                         *)
(***************************************************************************)

\* Without a name: an error if a transaction is open.
Begin ==
    /\ ~Running /\ ~InTransaction
    /\ begun' = TRUE
    /\ UNCHANGED <<disk, db, sp, wrote, frames, pre>>

BeginNamed(n) ==
    /\ ~Running /\ Len(sp) < MaxDepth
    /\ Savepoint(n)
    /\ UNCHANGED <<frames, pre>>

\* COMMIT also ends a transaction that a savepoint has started.
Commit ==
    /\ ~Running /\ InTransaction
    /\ disk' = db /\ begun' = FALSE /\ sp' = <<>> /\ wrote' = FALSE
    /\ UNCHANGED <<db, frames, pre>>

CommitNamed(n) ==
    /\ ~Running
    /\ Release(n)
    /\ UNCHANGED <<frames, pre>>

Rollback ==
    /\ ~Running /\ InTransaction
    /\ Abort
    /\ UNCHANGED <<frames, pre>>

\* Two statements: see Undo and UndoRelease.
RollbackNamed(n) ==
    /\ Call(Frame("rollback", "undo", n, Rows(0)), Back)
    /\ UNCHANGED engine

(***************************************************************************)
(* dbRemoveTable.                                                          *)
(***************************************************************************)

RemoveTable ==
    /\ ~Running /\ db # Absent
    /\ Write(Absent)
    /\ UNCHANGED <<frames, pre>>

(***************************************************************************)
(* dbWriteTable and dbAppendTable.                                         *)
(***************************************************************************)

Args == [rows : 0 .. MaxRows, overwrite : BOOLEAN, append : BOOLEAN]

\* The table as the arguments ask for it.
Wanted(args) ==
    IF db = Absent \/ args.overwrite THEN args.rows
    ELSE IF args.append THEN db + args.rows ELSE Impossible

\* "overwrite and append cannot both be TRUE", and the other checks, come before
\* dbBegin.
CallWrite(fn, args, id) ==
    /\ ~(args.overwrite /\ args.append)
    /\ NewId(id)
    /\ Wanted(args) <= MaxRows
    /\ Call(Frame(fn, "exists", id, args), Wanted(args))
    /\ Savepoint(id)

CallAppend(k, id) ==
    /\ NewId(id)
    /\ db + k <= MaxRows
    /\ Call(Frame("append", "insert", id, Rows(k)),
            IF db = Absent THEN Impossible ELSE db + k)
    /\ Savepoint(id)

Writers == {"write", "import"}

\* found <- dbExistsTable(), and where to go from there.
Exists ==
    /\ At(Writers, "exists")
    /\ db # Absent => (Top.overwrite \/ Top.append)
    /\ Goto(IF db = Absent THEN "create"
            ELSE IF Top.overwrite THEN "remove"
            ELSE IF Top.fn = "write" THEN "match" ELSE "insert")
    /\ UNCHANGED <<engine, pre>>

\* "Table exists in database, and both overwrite and append are FALSE".
ExistsStop ==
    /\ At(Writers, "exists")
    /\ db # Absent /\ ~Top.overwrite /\ ~Top.append
    /\ Stop
    /\ UNCHANGED engine

Remove ==
    /\ At(Writers, "remove")
    /\ Write(Absent)
    /\ Goto("create")
    /\ UNCHANGED pre

\* Then the data frame goes to dbAppendTable, unless it has no rows, and the file
\* to connection_import_file.
Filling == IF Top.fn = "import" THEN "insert"
           ELSE IF Top.rows > 0 THEN "append" ELSE "commit"

Create ==
    /\ At(Writers, "create")
    /\ Write(0)
    /\ Goto(Filling)
    /\ UNCHANGED pre

\* match_col() of the data frame with the columns of the table.
Match ==
    /\ At({"write"}, "match")
    /\ Goto(Filling)
    /\ UNCHANGED <<engine, pre>>

NestedAppend(id) ==
    /\ At({"write"}, "append")
    /\ NewId(id)
    /\ frames' = Append(frames, Frame("append", "insert", id, Rows(Top.rows)))
    /\ Savepoint(id)
    /\ UNCHANGED pre

\* Mutant of Insert: counts two rows for one.
Insert_TwoAtOnce ==
    /\ At({"append", "import"}, "insert")
    /\ Top.rows > 0 /\ db # Absent
    /\ Write(db + 1)
    /\ frames' = [frames EXCEPT ![Len(frames)].rows = @ - 2]
    /\ UNCHANGED pre

\* One row of the data frame or one line of the file.
Insert ==
    /\ At({"append", "import"}, "insert")
    /\ Top.rows > 0 /\ db # Absent
    /\ Write(db + 1)
    /\ frames' = [frames EXCEPT ![Len(frames)].rows = @ - 1]
    /\ UNCHANGED pre

\* dbAppendTable drops its handler before it commits, dbWriteTable afterwards.
Inserted ==
    /\ At({"append", "import"}, "insert")
    /\ Top.rows = 0 /\ db # Absent
    /\ frames' = [frames EXCEPT ![Len(frames)].pc = "commit",
                                ![Len(frames)].onexit = (Top.fn # "append")]
    /\ UNCHANGED <<engine, pre>>

\* Mutant of CommitOwn: the whole transaction is committed, not the savepoint.
CommitOwn_Everything ==
    /\ At({"write", "import", "append"}, "commit")
    /\ disk' = db /\ begun' = FALSE /\ sp' = <<>> /\ wrote' = FALSE /\ UNCHANGED db
    /\ Leave("ok")

\* dbCommit of the function's own savepoint.
CommitOwn ==
    /\ At({"write", "import", "append"}, "commit")
    /\ Release(Top.sid)
    /\ Leave("ok")

CommitOwnLocked ==
    /\ At({"write", "import", "append"}, "commit")
    /\ ReleaseLocked(Top.sid)
    /\ Stop

(***************************************************************************)
(* Failures.                                                               *)
(***************************************************************************)

Statements == {"exists", "remove", "create", "match", "append", "insert"}

\* A statement fails (a constraint, a lock, a missing table), columns do not
\* match, a line has too few fields, the user interrupts: nothing is changed.
StatementFails ==
    /\ Running /\ Top.pc \in Statements
    /\ Stop
    /\ UNCHANGED engine

\* The disk is full or fails: SQLite rolls the transaction back.
StatementAborts ==
    /\ Running /\ Top.pc \in Statements
    /\ Abort
    /\ Stop

NoSuchTable ==
    /\ At({"append"}, "insert") /\ db = Absent
    /\ Stop
    /\ UNCHANGED engine

(***************************************************************************)
(* dbRollback with a name, as the caller or an on.exit handler runs it:    *)
(* ROLLBACK TO, then RELEASE.                                              *)
(***************************************************************************)

\* Mutant of Undo: RELEASE without ROLLBACK TO before it.
Undo_OnlyReleases ==
    /\ Running /\ Top.pc = "undo"
    /\ IsOpen(Top.sid)
    /\ Goto("undone")
    /\ UNCHANGED <<engine, pre>>

Undo ==
    /\ Running /\ Top.pc = "undo"
    /\ RollbackTo(Top.sid)
    /\ Goto("undone")
    /\ UNCHANGED pre

\* "no such savepoint": the transaction is gone.
UndoFails ==
    /\ Running /\ Top.pc = "undo"
    /\ ~IsOpen(Top.sid)
    /\ Leave("error")
    /\ UNCHANGED engine

Outcome == IF Top.fn = "rollback" THEN "ok" ELSE "error"

\* Mutant of UndoRelease: the savepoint is left on the stack.
UndoRelease_Forgotten ==
    /\ Running /\ Top.pc = "undone"
    /\ Leave(Outcome)
    /\ UNCHANGED engine

UndoRelease ==
    /\ Running /\ Top.pc = "undone"
    /\ Release(Top.sid)
    /\ Leave(Outcome)

\* Mutant of UndoReleaseLocked: starts over for as long as the lock is there.
UndoReleaseLocked_Again ==
    /\ Running /\ Top.pc = "undone"
    /\ ReleaseLocked(Top.sid)
    /\ Goto("undo")
    /\ UNCHANGED pre

UndoReleaseLocked ==
    /\ Running /\ Top.pc = "undone"
    /\ ReleaseLocked(Top.sid)
    /\ Leave("error")

-----------------------------------------------------------------------------

Caller ==
    \/ Begin \/ Commit \/ Rollback \/ RemoveTable
    \/ \E n \in Names : BeginNamed(n) \/ CommitNamed(n) \/ RollbackNamed(n)
    \/ \E args \in Args, id \in Ids :
          \E fn \in Writers : CallWrite(fn, args, id)
    \/ \E k \in 0 .. MaxRows, id \in Ids : CallAppend(k, id)

Run ==
    \/ Exists \/ ExistsStop \/ Remove \/ Create \/ Match
    \/ \E id \in Ids : NestedAppend(id)
    \/ Insert \/ Inserted \/ CommitOwn \/ CommitOwnLocked
    \/ StatementFails \/ StatementAborts \/ NoSuchTable
    \/ Undo \/ UndoFails \/ UndoRelease \/ UndoReleaseLocked

Next == Caller \/ Run

Spec == Init /\ [][Next]_vars

\* A function that runs goes on: R evaluates it.
FairSpec == Spec /\ WF_vars(Run)

-----------------------------------------------------------------------------

Saved == Seq([id : Names \cup Ids, db : Table])

\* Every variable has its type, and outside of a transaction the connection sees
\* what is committed.
TypeOK ==
    /\ disk \in Table /\ db \in Table
    /\ begun \in BOOLEAN /\ wrote \in BOOLEAN
    /\ sp \in Saved
    /\ frames \in Seq([fn : {"write", "import", "append", "rollback"},
                       pc : Statements \cup {"commit", "undo", "undone"},
                       sid : Names \cup Ids, onexit : BOOLEAN, rows : Nat,
                       overwrite : BOOLEAN, append : BOOLEAN])
    /\ pre \in [disk : Table, db : Table, begun : BOOLEAN, sp : Saved,
               want : Table \cup {Impossible, Back, Idle}]
    /\ ~InTransaction => (db = disk /\ ~wrote)

\* While the table functions run, the savepoints are the caller's, untouched,
\* and then one per running function, in the order of the calls: each handler
\* finds its own savepoint where it left it, or finds that SQLite has rolled
\* back everything.  Nothing is committed meanwhile.
StackDiscipline ==
    (Running /\ frames[1].fn # "rollback") =>
        /\ disk = pre.disk
        /\ \/ sp = <<>> /\ ~begun
           \/ /\ begun = pre.begun
              /\ Len(sp) = Len(pre.sp) + Len(frames)
              /\ SubSeq(sp, 1, Len(pre.sp)) = pre.sp
              /\ \A j \in DOMAIN frames : sp[Len(pre.sp) + j].id = frames[j].sid
              /\ sp[Len(pre.sp) + 1].db = pre.db

\* A table function called inside a transaction never commits it, whether it
\* ends well or not.
CallersTransaction ==
    [][(Running /\ (pre.begun \/ pre.sp # <<>>) /\ frames[1].fn # "rollback")
          => disk' = disk]_vars

\* Every call returns.
CallsReturn == Running ~> ~Running

\* "By default, SQLite is in auto-commit mode. `dbBegin()` starts a SQLite
\* transaction and turns auto-commit off" (transactions.R:6-7): a transaction
\* that is open when no function runs was started by the caller.
AutoCommitByDefault ==
    (~Running /\ ~begun /\ sp # <<>>) => sp[1].id \in Names
=============================================================================
