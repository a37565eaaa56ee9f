------------------------- MODULE TransactionsProofs -------------------------
(***************************************************************************)
(* Types, the discipline of the savepoints, the caller's transaction and   *)
(* the refinement of AtomicTables, for any names, any number of rows and   *)
(* any number of savepoints of the caller.                                 *)
(***************************************************************************)
EXTENDS TransactionsRefinement, SequenceTheorems, TLAPS

USE IdsAssumption, BoundsAssumption

SavepointSet == [id : Names \cup Ids, db : Table]

PcSet == Statements \cup {"commit", "undo", "undone"}

FrameSet == [fn : {"write", "import", "append", "rollback"}, pc : PcSet,
             sid : Names \cup Ids, onexit : BOOLEAN, rows : Nat,
             overwrite : BOOLEAN, append : BOOLEAN]

PreSet == [disk : Table, db : Table, begun : BOOLEAN, sp : Saved,
           want : Table \cup {Impossible, Back, Idle}]

\* TypeOK in parts: SQLite's side, and the functions'.
EngineOK ==
    /\ disk \in Table /\ db \in Table
    /\ begun \in BOOLEAN /\ wrote \in BOOLEAN
    /\ sp \in Seq(SavepointSet)
    /\ ~InTransaction => (db = disk /\ ~wrote)

\* The savepoint that started a transaction holds what is committed.
Base == (~begun /\ sp # <<>>) => sp[1].db = disk

EngineKeeps == EngineOK' /\ (Base => Base')

CallsOK == frames \in Seq(FrameSet) /\ pre \in PreSet

(***************************************************************************)
(* The inductive invariant.                                                *)
(***************************************************************************)

\* A table function runs, not the rollback of the caller.
Function == Running /\ frames[1].fn # "rollback"

\* The functions that run: one, or dbAppendTable within dbWriteTable.  Only a
\* dbAppendTable that is to commit has no handler.
Shape ==
    /\ Len(frames) <= 2
    /\ Len(frames) = 2 => /\ frames[1].fn = "write" /\ frames[1].pc = "append"
                          /\ frames[2].fn = "append"
    /\ Function => /\ frames[1].sid \in Ids
                   /\ pre.want \in Nat \cup {Impossible}
                   /\ Top.onexit \/ (Top.fn = "append" /\ Top.pc = "commit")
                   /\ frames[1].onexit \/ Len(frames) = 1
    /\ (Running /\ ~Function) => /\ Len(frames) = 1 /\ frames[1].sid \in Names
                                 /\ pre.want = Back

\* SQLite has rolled back everything, and the handler is about to notice.
Lost == sp = <<>> /\ ~begun /\ Top.pc = "undo"

\* The caller's savepoints, and on them those of the functions that run.
Intact ==
    /\ begun = pre.begun
    /\ Len(sp) = Len(pre.sp) + Len(frames)
    /\ \A j \in 1 .. Len(pre.sp) : sp[j] = pre.sp[j]
    /\ \A j \in DOMAIN frames : sp[Len(pre.sp) + j].id = frames[j].sid
    /\ sp[Len(pre.sp) + 1].db = pre.db

\* What the innermost function still has to do to leave the table wanted.
Progress ==
    /\ Top.pc = "exists" => /\ db = pre.db /\ pre.want = Wanted(Top)
                            /\ ~(Top.overwrite /\ Top.append)
    /\ Top.pc \in {"remove", "create"} => pre.want = Top.rows
    /\ Top.pc \in {"match", "append"} => db # Absent
    /\ Top.pc \in {"match", "append", "insert"} => (db # Absent => pre.want = db + Top.rows)
    /\ Top.pc = "commit" => db = pre.want
    /\ (Top.pc = "undone" /\ Len(frames) = 1) => db = pre.db

Working == Function => disk = pre.disk /\ (Lost \/ (Intact /\ Progress))

\* The savepoint that the caller's dbRollback means.
Meant(j) ==
    /\ pre.sp[j].id = frames[1].sid
    /\ \A l \in DOMAIN pre.sp : pre.sp[l].id = frames[1].sid => l <= j

\* dbRollback of the caller, before its two statements and between them.
Rolling ==
    (Running /\ ~Function) =>
        /\ disk = pre.disk /\ begun = pre.begun
        /\ \/ frames[1].pc = "undo" /\ sp = pre.sp /\ db = pre.db
           \/ /\ frames[1].pc = "undone"
              /\ \E j \in DOMAIN pre.sp :
                    Meant(j) /\ sp = SubSeq(pre.sp, 1, j) /\ db = pre.sp[j].db

TInv == TypeOK /\ Base /\ Shape /\ Working /\ Rolling

LEMMA TypeParts ==
    /\ TypeOK <=> EngineOK /\ CallsOK
    /\ TypeOK' <=> EngineOK' /\ CallsOK'
  BY DEF TypeOK, EngineOK, CallsOK, Saved, SavepointSet, FrameSet, PcSet, PreSet

LEMMA Tables == Absent \in Int /\ Table \subseteq Int /\ Absent \in Table /\ Nat \subseteq Table
  BY DEF Absent, Table

-----------------------------------------------------------------------------

\* A prefix of the savepoints.
LEMMA Prefix ==
    ASSUME NEW S, NEW s \in Seq(S), NEW n \in 0 .. Len(s)
    PROVE  /\ SubSeq(s, 1, n) \in Seq(S)
           /\ Len(SubSeq(s, 1, n)) = n
           /\ \A i \in 1 .. n : SubSeq(s, 1, n)[i] = s[i]
           /\ n > 0 => SubSeq(s, 1, n) # <<>>
           /\ n = 0 => SubSeq(s, 1, n) = <<>>
  <1>1. n \in Int /\ \A i \in 1 .. n : s[i] \in S
    OBVIOUS
  <1>2. /\ SubSeq(s, 1, n) \in Seq(S)
        /\ Len(SubSeq(s, 1, n)) = n
        /\ \A i \in 1 .. n : SubSeq(s, 1, n)[i] = s[i]
    BY <1>1, SubSeqProperties
  <1>3. n = 0 => SubSeq(s, 1, n) = <<>>
    BY SubSeqEmpty
  <1> QED
    BY <1>2, <1>3

LEMMA EditLast ==
    ASSUME NEW S, NEW s \in Seq(S), s # <<>>, NEW e \in S
    PROVE  /\ [s EXCEPT ![Len(s)] = e] \in Seq(S)
           /\ Len([s EXCEPT ![Len(s)] = e]) = Len(s)
           /\ \A j \in 1 .. Len(s) :
                 [s EXCEPT ![Len(s)] = e][j] = IF j = Len(s) THEN e ELSE s[j]
  <1>1. Len(s) \in 1 .. Len(s)
    OBVIOUS
  <1> QED
    BY <1>1, ExceptSeq

\* SQLite's statements keep the types.
LEMMA EngineTypes ==
    ASSUME EngineOK, NEW id, NEW t,
           \/ id \in Names \cup Ids /\ Savepoint(id)
           \/ RollbackTo(id) \/ Release(id) \/ ReleaseLocked(id)
           \/ t \in Table /\ Write(t)
           \/ Abort \/ UNCHANGED engine
    PROVE  EngineOK'
  <1> USE DEF EngineOK, InTransaction
  <1>1. CASE id \in Names \cup Ids /\ Savepoint(id)
    <2>1. [id |-> id, db |-> db] \in SavepointSet
      BY <1>1 DEF SavepointSet
    <2>2. sp' \in Seq(SavepointSet) /\ sp' # <<>>
      BY <1>1, <2>1, AppendProperties DEF Savepoint
    <2> QED
      BY <1>1, <2>2 DEF Savepoint
  <1>2. CASE RollbackTo(id)
    <2>1. PICK j \in DOMAIN sp :
              db' = sp[j].db /\ sp' = SubSeq(sp, 1, j) /\ UNCHANGED <<disk, begun, wrote>>
      BY <1>2 DEF RollbackTo
    <2>2. j \in 0 .. Len(sp) /\ j > 0 /\ sp[j] \in SavepointSet
      OBVIOUS
    <2>3. sp' \in Seq(SavepointSet) /\ sp' # <<>>
      BY <2>1, <2>2, Prefix
    <2> QED
      BY <2>1, <2>2, <2>3 DEF SavepointSet
  <1>3. CASE Release(id)
    <2>1. PICK j \in DOMAIN sp :
              /\ sp' = SubSeq(sp, 1, j - 1)
              /\ disk' = IF Commits(j) THEN db ELSE disk
              /\ wrote' = (wrote /\ ~Commits(j))
              /\ UNCHANGED <<db, begun>>
      BY <1>3 DEF Release
    <2>2. j - 1 \in 0 .. Len(sp)
      OBVIOUS
    <2>3. sp' \in Seq(SavepointSet) /\ (sp' = <<>> <=> j = 1)
      BY <2>1, <2>2, Prefix
    <2>4. disk' \in Table
      BY <2>1
    <2>5. wrote' \in BOOLEAN
      BY <2>1 DEF Commits
    <2>6. ASSUME ~begun, sp' = <<>> PROVE db' = disk' /\ ~wrote'
      <3>1. Commits(j)
        BY <2>3, <2>6 DEF Commits
      <3> QED
        BY <2>1, <3>1
    <2>7. db' = db /\ begun' = begun /\ db' \in Table /\ begun' \in BOOLEAN
      BY <2>1
    <2>8. ~(begun' \/ sp' # <<>>) => (db' = disk' /\ ~wrote')
      BY <2>6, <2>7, Zenon
    <2> QED
      BY <2>3, <2>4, <2>5, <2>7, <2>8, Zenon
  <1>4. CASE ReleaseLocked(id) \/ UNCHANGED engine
    BY <1>4 DEF ReleaseLocked, engine
  <1>5. CASE Abort
    BY <1>5, EmptySeq DEF Abort
  <1>6. CASE t \in Table /\ Write(t)
    BY <1>6 DEF Write
  <1> QED
    BY <1>1, <1>2, <1>3, <1>4, <1>5, <1>6

LEMMA EngineKept ==
    ASSUME EngineOK, NEW id, NEW t,
           \/ id \in Names \cup Ids /\ Savepoint(id)
           \/ RollbackTo(id) \/ Release(id) \/ ReleaseLocked(id)
           \/ t \in Table /\ Write(t)
           \/ Abort \/ UNCHANGED engine
    PROVE  EngineKeeps
  <1>1. EngineOK'
    BY EngineTypes
  <1>2. ASSUME Base PROVE Base'
    <2> USE <1>2 DEF EngineOK, InTransaction, Base
    <2>1. CASE id \in Names \cup Ids /\ Savepoint(id)
      <3>1. [id |-> id, db |-> db] \in SavepointSet
        BY <2>1 DEF SavepointSet
      <3>2. sp'[1] = IF sp = <<>> THEN [id |-> id, db |-> db] ELSE sp[1]
        BY <2>1, <3>1, AppendProperties DEF Savepoint
      <3> QED
        BY <2>1, <3>2 DEF Savepoint
    <2>2. CASE RollbackTo(id)
      <3>1. PICK j \in DOMAIN sp : sp' = SubSeq(sp, 1, j) /\ UNCHANGED <<disk, begun>>
        BY <2>2 DEF RollbackTo
      <3>2. sp'[1] = sp[1] /\ sp # <<>>
        BY <3>1, Prefix
      <3> QED
        BY <3>1, <3>2
    <2>3. CASE Release(id)
      <3>1. PICK j \in DOMAIN sp :
                /\ sp' = SubSeq(sp, 1, j - 1)
                /\ disk' = IF Commits(j) THEN db ELSE disk
                /\ begun' = begun
        BY <2>3 DEF Release
      <3>2. j - 1 \in 0 .. Len(sp) /\ sp # <<>>
        OBVIOUS
      <3>3. sp' # <<>> => j # 1 /\ sp'[1] = sp[1]
        BY <3>1, <3>2, Prefix
      <3>4. j # 1 => disk' = disk
        BY <3>1 DEF Commits
      <3> QED
        BY <3>1, <3>2, <3>3, <3>4
    <2>4. CASE ReleaseLocked(id) \/ UNCHANGED engine
      BY <2>4 DEF ReleaseLocked, engine
    <2>5. CASE Abort
      BY <2>5 DEF Abort
    <2>6. CASE t \in Table /\ Write(t)
      BY <2>6 DEF Write
    <2> QED
      BY <2>1, <2>2, <2>3, <2>4, <2>5, <2>6
  <1> QED
    BY <1>1, <1>2 DEF EngineKeeps

-----------------------------------------------------------------------------

LEMMA TopFrame ==
    ASSUME CallsOK, Running
    PROVE  /\ Len(frames) \in Nat \ {0} /\ Len(frames) \in DOMAIN frames
           /\ Top \in FrameSet /\ frames[1] \in FrameSet
  BY DEF CallsOK, Running, Top

\* Frame f is g, at p.
Moved(f, g, p) ==
    /\ f \in FrameSet
    /\ f.pc = p /\ f.fn = g.fn /\ f.sid = g.sid /\ f.onexit = g.onexit
    /\ f.rows = g.rows /\ f.overwrite = g.overwrite /\ f.append = g.append

LEMMA MovedFrame ==
    ASSUME NEW g \in FrameSet, NEW p \in PcSet
    PROVE  Moved([g EXCEPT !.pc = p], g, p)
  BY DEF Moved, FrameSet

LEMMA GotoFrames ==
    ASSUME CallsOK, Running, NEW p \in PcSet, Goto(p)
    PROVE  /\ frames' \in Seq(FrameSet) /\ Len(frames') = Len(frames) /\ Running'
           /\ Moved(Top', Top, p)
           /\ \A i \in 1 .. Len(frames) - 1 : frames'[i] = frames[i]
  <1> DEFINE n == Len(frames)
             f == [frames[n] EXCEPT !.pc = p]
  <1>1. n \in 1 .. Len(frames) /\ f \in FrameSet
    BY TopFrame DEF Top, FrameSet
  <1>2. frames' = [frames EXCEPT ![n] = f]
    BY DEF Goto
  <1>3. /\ frames' \in Seq(FrameSet) /\ Len(frames') = n
        /\ \A j \in 1 .. n : frames'[j] = IF j = n THEN f ELSE frames[j]
    BY <1>1, <1>2, ExceptSeq DEF CallsOK
  <1>4. Moved(f, Top, p)
    BY <1>1, TopFrame, MovedFrame DEF Top
  <1> HIDE DEF f
  <1>5. Top' = f /\ Running'
    BY <1>1, <1>3, TopFrame DEF Top, Running
  <1> QED
    BY <1>3, <1>4, <1>5

LEMMA NoCallOK == <<>> \in Seq(FrameSet) /\ NoCall \in PreSet
  BY EmptySeq, Tables DEF NoCall, PreSet, Saved

\* The state of the function below when the innermost one returns.
After(how) == IF how = "ok" THEN "commit" ELSE "undo"

LEMMA LeaveFrames ==
    ASSUME CallsOK, Running, NEW how, Leave(how)
    PROVE  /\ frames' \in Seq(FrameSet) /\ pre' \in PreSet
           /\ Len(frames) = 1 => frames' = <<>> /\ pre' = NoCall
           /\ Len(frames) > 1 =>
                /\ pre' = pre /\ Len(frames') = Len(frames) - 1
                /\ Moved(frames'[Len(frames) - 1], frames[Len(frames) - 1], After(how))
                /\ \A i \in 1 .. Len(frames) - 2 : frames'[i] = frames[i]
  <1> DEFINE n == Len(frames) - 1
             f == [frames[n] EXCEPT !.pc = After(how)]
  <1>1. n \in 0 .. Len(frames) /\ frames \in Seq(FrameSet) /\ pre \in PreSet
    BY TopFrame DEF CallsOK
  <1>2. Rest = SubSeq(frames, 1, n) /\ Len(frames) = n + 1
    BY <1>1 DEF Rest
  <1> HIDE DEF n
  <1>3. /\ Rest \in Seq(FrameSet) /\ Len(Rest) = n
        /\ \A i \in 1 .. n : Rest[i] = frames[i]
        /\ n > 0 => Rest # <<>>
        /\ n = 0 => Rest = <<>>
    BY <1>1, <1>2, Prefix
  <1>4. CASE n = 0
    <2>1. frames' = <<>> /\ pre' = NoCall
      BY <1>3, <1>4, Zenon DEF Leave
    <2>2. ~(Len(frames) > 1)
      BY <1>2, <1>4
    <2> QED
      BY <2>1, <2>2, NoCallOK
  <1>5. CASE n > 0
    <2>1. frames[n] \in FrameSet /\ n \in 1 .. Len(Rest) /\ Rest[n] = frames[n]
      BY <1>1, <1>3, <1>5
    <2>2. f \in FrameSet
      BY <2>1 DEF FrameSet, PcSet, After
    <2>3. frames' = [Rest EXCEPT ![n] = f] /\ pre' = pre
      BY <1>3, <1>5, <2>1 DEF Leave, After
    <2>4. /\ frames' \in Seq(FrameSet) /\ Len(frames') = n
          /\ \A j \in 1 .. n : frames'[j] = IF j = n THEN f ELSE Rest[j]
      BY <1>3, <2>1, <2>2, <2>3, ExceptSeq
    <2>5. frames'[n] = f /\ \A i \in 1 .. n - 1 : frames'[i] = frames[i]
      BY <1>1, <1>3, <1>5, <2>1, <2>4
    <2>6. Len(frames) - 1 = n /\ Len(frames) - 2 = n - 1 /\ Len(frames) # 1
      BY <1>1, <1>2, <1>5
    <2>7. pre' \in PreSet
      BY <1>1, <2>3
    <2>8. Moved(f, frames[n], After(how))
      BY <2>1, MovedFrame DEF After, PcSet
    <2> HIDE DEF f
    <2> QED
      BY <2>3, <2>4, <2>5, <2>6, <2>7, <2>8
  <1> QED
    BY <1>1, <1>4, <1>5

LEMMA StopFrames ==
    ASSUME CallsOK, Running, Stop
    PROVE  CallsOK'
  <1>1. CASE Top.onexit
    BY <1>1, GotoFrames DEF Stop, CallsOK, PcSet
  <1>2. CASE ~Top.onexit
    BY <1>2, LeaveFrames DEF Stop, CallsOK
  <1> QED
    BY <1>1, <1>2

LEMMA CallFrames ==
    ASSUME TypeOK, NEW f \in FrameSet, NEW w \in Table \cup {Impossible, Back, Idle},
           Call(f, w)
    PROVE  /\ CallsOK' /\ Running'
           /\ frames' = <<f>> /\ Len(frames') = 1 /\ frames'[1] = f
           /\ pre' = Snapshot(w)
  <1>1. frames' = <<f>> /\ pre' = Snapshot(w)
    BY DEF Call
  <1>2. Snapshot(w) \in PreSet
    BY TypeParts DEF EngineOK, Snapshot, PreSet, Saved, SavepointSet
  <1> QED
    BY <1>1, <1>2 DEF CallsOK, Running

LEMMA FrameTypes ==
    ASSUME NEW id \in Names \cup Ids
    PROVE  /\ \A args \in Args, fn \in Writers : Frame(fn, "exists", id, args) \in FrameSet
           /\ \A k \in Nat : /\ Frame("append", "insert", id, Rows(k)) \in FrameSet
                             /\ Frame("rollback", "undo", id, Rows(k)) \in FrameSet
  BY DEF Frame, FrameSet, PcSet, Statements, Writers, Args, Rows

LEMMA EngineSteps ==
    ASSUME TypeOK, Next
    PROVE  EngineKeeps
  <1> USE TypeParts
  <1>1. CASE Begin \/ Commit
    BY <1>1, EmptySeq DEF Begin, Commit, EngineKeeps, EngineOK, Base, InTransaction
  <1>2. CASE Rollback \/ StatementAborts
    BY <1>2, EngineKept DEF Rollback, StatementAborts
  <1>3. CASE RemoveTable \/ Remove
    BY <1>3, EngineKept, Tables DEF RemoveTable, Remove
  <1>4. CASE Create
    BY <1>4, EngineKept, Tables DEF Create
  <1>5. CASE Insert
    <2>1. db + 1 \in Table
      BY <1>5, Tables DEF Insert, EngineOK, Table
    <2> QED
      BY <1>5, <2>1, EngineKept DEF Insert
  <1>6. ASSUME NEW n \in Names, BeginNamed(n) \/ CommitNamed(n) \/ RollbackNamed(n)
        PROVE  EngineKeeps
    BY <1>6, EngineKept DEF BeginNamed, CommitNamed, RollbackNamed
  <1>7. ASSUME NEW args \in Args, NEW id \in Ids, NEW fn \in Writers, CallWrite(fn, args, id)
        PROVE  EngineKeeps
    BY <1>7, EngineKept DEF CallWrite
  <1>8. ASSUME NEW k \in 0 .. MaxRows, NEW id \in Ids, CallAppend(k, id)
        PROVE  EngineKeeps
    BY <1>8, EngineKept DEF CallAppend
  <1>9. ASSUME NEW id \in Ids, NestedAppend(id) PROVE EngineKeeps
    BY <1>9, EngineKept DEF NestedAppend
  <1>10. CASE Exists \/ ExistsStop \/ Match \/ Inserted \/ StatementFails \/ NoSuchTable \/ UndoFails
    BY <1>10, EngineKept DEF Exists, ExistsStop, Match, Inserted, StatementFails,
                             NoSuchTable, UndoFails
  <1>11. CASE CommitOwn \/ UndoRelease
    BY <1>11, EngineKept DEF CommitOwn, UndoRelease
  <1>12. CASE CommitOwnLocked \/ UndoReleaseLocked
    BY <1>12, EngineKept DEF CommitOwnLocked, UndoReleaseLocked
  <1>13. CASE Undo
    BY <1>13, EngineKept DEF Undo
  <1> HIDE TypeParts
  <1> QED
    BY <1>1, <1>2, <1>3, <1>4, <1>5, <1>6, <1>7, <1>8, <1>9, <1>10, <1>11, <1>12, <1>13
       DEF Next, Caller, Run

LEMMA CallSteps ==
    ASSUME TypeOK, Next
    PROVE  CallsOK'
  <1>0. CallsOK /\ EngineOK
    BY TypeParts
  <1>1. ASSUME UNCHANGED <<frames, pre>> PROVE CallsOK'
    BY <1>0, <1>1 DEF CallsOK
  <1>2. ASSUME Running, NEW p \in PcSet, Goto(p), UNCHANGED pre PROVE CallsOK'
    BY <1>0, <1>2, GotoFrames DEF CallsOK
  <1>3. ASSUME Running, NEW how, Leave(how) PROVE CallsOK'
    BY <1>0, <1>3, LeaveFrames DEF CallsOK
  <1>4. ASSUME Running, Stop PROVE CallsOK'
    BY <1>0, <1>4, StopFrames
  <1>5. CASE Begin \/ Commit \/ Rollback \/ RemoveTable
    BY <1>1, <1>5 DEF Begin, Commit, Rollback, RemoveTable
  <1>6. ASSUME NEW n \in Names, BeginNamed(n) \/ CommitNamed(n)
        PROVE  CallsOK'
    BY <1>1, <1>6 DEF BeginNamed, CommitNamed
  <1>7. ASSUME NEW n \in Names, RollbackNamed(n) PROVE CallsOK'
    <2>1. Frame("rollback", "undo", n, Rows(0)) \in FrameSet
      BY FrameTypes
    <2> QED
      BY <1>7, <2>1, CallFrames DEF RollbackNamed
  <1>8. ASSUME NEW args \in Args, NEW id \in Ids, NEW fn \in Writers, CallWrite(fn, args, id)
        PROVE  CallsOK'
    <2>1. Frame(fn, "exists", id, args) \in FrameSet
      BY FrameTypes
    <2>2. Wanted(args) \in Table \cup {Impossible, Back, Idle}
      BY <1>0 DEF Wanted, EngineOK, Table, Absent, Args, Impossible
    <2> QED
      BY <1>8, <2>1, <2>2, CallFrames DEF CallWrite
  <1>9. ASSUME NEW k \in 0 .. MaxRows, NEW id \in Ids, CallAppend(k, id)
        PROVE  CallsOK'
    <2>1. Frame("append", "insert", id, Rows(k)) \in FrameSet
      BY FrameTypes
    <2>2. (IF db = Absent THEN Impossible ELSE db + k) \in Table \cup {Impossible, Back, Idle}
      BY <1>0 DEF EngineOK, Table, Absent, Impossible
    <2> QED
      BY <1>9, <2>1, <2>2, CallFrames DEF CallAppend
  <1>10. CASE Exists \/ Match \/ Remove \/ Create \/ Undo
    <2>1. PICK p \in PcSet : Running /\ Goto(p) /\ UNCHANGED pre
      BY <1>10 DEF Exists, Match, Remove, Create, Undo, Filling, PcSet, Statements, At
    <2> QED
      BY <1>2, <2>1
  <1>11. CASE Insert \/ Inserted
    <2>1. Running /\ UNCHANGED pre
      BY <1>11 DEF Insert, Inserted, At
    <2>2. PICK f \in FrameSet : frames' = [frames EXCEPT ![Len(frames)] = f]
      <3>1. CASE Insert
        <4>1. Top.rows - 1 \in Nat /\ Top \in FrameSet
          BY <1>0, <2>1, <3>1, TopFrame DEF Insert, FrameSet
        <4>3. [Top EXCEPT !.rows = @ - 1] \in FrameSet
          BY <4>1 DEF FrameSet
        <4>2. frames' = [frames EXCEPT ![Len(frames)] = [Top EXCEPT !.rows = @ - 1]]
          BY <3>1 DEF Insert, Top
        <4> QED
          BY <4>2, <4>3
      <3>2. CASE Inserted
        <4> DEFINE f == [Top EXCEPT !.pc = "commit", !.onexit = (Top.fn # "append")]
        <4>1. f \in FrameSet
          BY <1>0, <2>1, TopFrame DEF FrameSet, PcSet
        <4>2. frames' = [frames EXCEPT ![Len(frames)] = f]
          BY <3>2 DEF Inserted, Top
        <4> QED
          BY <4>1, <4>2
      <3> QED
        BY <1>11, <3>1, <3>2
    <2>3. frames' \in Seq(FrameSet)
      BY <1>0, <2>1, <2>2, TopFrame, ExceptSeq DEF CallsOK
    <2> QED
      BY <1>0, <2>1, <2>3 DEF CallsOK
  <1>12. ASSUME NEW id \in Ids, NestedAppend(id) PROVE CallsOK'
    <2>1. Top.rows \in Nat
      BY <1>0, <1>12, TopFrame DEF NestedAppend, At, FrameSet
    <2>2. Frame("append", "insert", id, Rows(Top.rows)) \in FrameSet
      BY <2>1, FrameTypes
    <2> QED
      BY <1>0, <1>12, <2>2, AppendProperties DEF NestedAppend, CallsOK
  <1>13. CASE ExistsStop \/ StatementFails \/ StatementAborts \/ NoSuchTable \/ CommitOwnLocked
    BY <1>4, <1>13 DEF ExistsStop, StatementFails, StatementAborts, NoSuchTable,
                       CommitOwnLocked, At
  <1>14. CASE CommitOwn \/ UndoFails \/ UndoRelease \/ UndoReleaseLocked
    BY <1>3, <1>14 DEF CommitOwn, UndoFails, UndoRelease, UndoReleaseLocked, At
  <1> QED
    BY <1>5, <1>6, <1>7, <1>8, <1>9, <1>10, <1>11, <1>12, <1>13, <1>14
       DEF Next, Caller, Run

LEMMA TypeInit == Init => TypeOK
  <1> SUFFICES ASSUME Init PROVE EngineOK /\ CallsOK
    BY TypeParts
  <1>1. EngineOK
    BY EmptySeq, Tables DEF Init, EngineOK, InTransaction, Table
  <1>2. CallsOK
    BY NoCallOK DEF Init, CallsOK
  <1> QED
    BY <1>1, <1>2

LEMMA TypeStep == TypeOK /\ [Next]_vars => TypeOK'
  <1>1. ASSUME TypeOK, Next PROVE TypeOK'
    BY <1>1, EngineSteps, CallSteps, TypeParts DEF EngineKeeps
  <1>2. ASSUME TypeOK, UNCHANGED vars PROVE TypeOK'
    BY <1>2 DEF vars, engine, TypeOK, InTransaction
  <1> QED
    BY <1>1, <1>2

\* Every variable keeps its type, and outside of a transaction the connection
\* sees what is committed (src/R/transactions.R).
THEOREM TypeCorrect == Spec => []TypeOK
  BY TypeInit, TypeStep, PTL DEF Spec

-----------------------------------------------------------------------------

LEMMA NotEmpty == \A s : Len(s) = 1 => s # <<>>
  OBVIOUS

LEMMA OneOrTwo == \A n \in Nat \ {0} : n <= 2 => n \in {1, 2}
  OBVIOUS

LEMMA OnlyOne == \A n \in Nat : n + 1 = 1 => n = 0
  OBVIOUS

LEMMA FrameCount ==
    ASSUME CallsOK, Running, Shape
    PROVE  Len(frames) \in {1, 2}
  <1>1. Len(frames) <= 2
    BY DEF Shape
  <1>2. Len(frames) \in Nat \ {0}
    BY TopFrame
  <1> QED
    BY <1>1, <1>2, OneOrTwo, Zenon

\* The savepoint of the innermost function is on top.
LEMMA OwnIsLast ==
    ASSUME TypeOK, Running, Intact, NEW j \in DOMAIN sp, Innermost(Top.sid, j)
    PROVE  j = Len(sp)
  <1>1. Len(sp) \in DOMAIN sp /\ sp[Len(sp)].id = Top.sid
    BY TypeParts, TopFrame DEF EngineOK, CallsOK, Intact, Top, PreSet, Saved
  <1> QED
    BY <1>1, TypeParts DEF Innermost, EngineOK

LEMMA OwnIsOpen ==
    ASSUME TypeOK, Running, Intact
    PROVE  /\ IsOpen(Top.sid) /\ InTransaction
           /\ Len(sp) \in DOMAIN sp /\ sp # <<>>
  BY TypeParts, TopFrame DEF EngineOK, CallsOK, Intact, IsOpen, Top, PreSet, Saved, InTransaction

\* Steps inside the functions.
Same == Len(frames') = Len(frames) /\ \A i \in DOMAIN frames :
          frames'[i].sid = frames[i].sid /\ frames'[i].fn = frames[i].fn

LEMMA IntactKept ==
    ASSUME TypeOK, Running, Intact, Same, UNCHANGED <<sp, begun, pre>>, CallsOK'
    PROVE  Intact'
  <1>1. DOMAIN frames' = DOMAIN frames
    BY TypeParts DEF Same, CallsOK
  <1> QED
    BY <1>1 DEF Intact, Same

\* A function that goes on, its frame being f from now on.
LEMMA Goes ==
    ASSUME TypeOK, Shape, Function, NEW f \in FrameSet,
           frames' = [frames EXCEPT ![Len(frames)] = f], UNCHANGED pre,
           f.fn = Top.fn, f.sid = Top.sid,
           f.onexit \/ (f.fn = "append" /\ f.pc = "commit")
    PROVE  /\ Shape' /\ Function' /\ Running' /\ Same
           /\ Len(frames') = Len(frames) /\ Top' = f
  <1>1. Running /\ CallsOK /\ Len(frames) \in {1, 2}
    BY TypeParts, FrameCount DEF Function
  <1>2. /\ frames' \in Seq(FrameSet) /\ Len(frames') = Len(frames)
        /\ \A j \in 1 .. Len(frames) :
              frames'[j] = IF j = Len(frames) THEN f ELSE frames[j]
    BY <1>1, EditLast DEF CallsOK, Running
  <1>3. Top = frames[Len(frames)] /\ Top' = f /\ Running'
    BY <1>1, <1>2 DEF Top, Running
  <1>4. Same
    BY <1>1, <1>2, <1>3 DEF Same, CallsOK
  <1>5. ASSUME Len(frames) = 1 PROVE Shape' /\ Function'
    <2>1. frames'[1] = f /\ Top' = f /\ Top = frames[1]
      BY <1>2, <1>3, <1>5
    <2> QED
      BY <1>2, <1>3, <1>5, <2>1 DEF Shape, Function
  <1>6. ASSUME Len(frames) = 2 PROVE Shape' /\ Function'
    <2>1. frames'[1] = frames[1] /\ frames'[2] = f /\ Top = frames[2]
      BY <1>2, <1>3, <1>6
    <2> QED
      BY <1>2, <1>3, <1>6, <2>1 DEF Shape, Function
  <1> QED
    BY <1>1, <1>2, <1>3, <1>4, <1>5, <1>6

LEMMA GoesTo ==
    ASSUME TypeOK, Shape, Function, NEW p \in PcSet, Goto(p), UNCHANGED pre,
           Top.onexit
    PROVE  /\ Shape' /\ Function' /\ Running' /\ Same
           /\ Len(frames') = Len(frames) /\ Moved(Top', Top, p)
  <1> DEFINE f == [Top EXCEPT !.pc = p]
  <1>1. Running /\ Top \in FrameSet
    BY TypeParts, TopFrame DEF Function
  <1>2. Moved(f, Top, p)
    BY <1>1, MovedFrame
  <1>3. frames' = [frames EXCEPT ![Len(frames)] = f]
    BY DEF Goto, Top
  <1> HIDE DEF f
  <1>4. f \in FrameSet /\ f.fn = Top.fn /\ f.sid = Top.sid /\ f.onexit
    BY <1>2 DEF Moved
  <1>5. /\ Shape' /\ Function' /\ Running' /\ Same
        /\ Len(frames') = Len(frames) /\ Top' = f
    BY <1>3, <1>4, Goes
  <1> QED
    BY <1>2, <1>5

\* The caller's dbRollback has nothing but its two statements.
LEMMA OnlyRollback ==
    ASSUME TypeOK, Shape, Rolling, Running, Top.pc \notin {"undo", "undone"}
    PROVE  Function
  <1> SUFFICES ASSUME ~Function PROVE FALSE
    OBVIOUS
  <1>1. Len(frames) = 1 /\ frames[1].pc \in {"undo", "undone"}
    BY DEF Shape, Rolling
  <1> QED
    BY <1>1 DEF Top

\* An error, after which SQLite has the state it had or none.
LEMMA StopWorks ==
    ASSUME TypeOK, Shape, Working, Function, Top.onexit, Stop,
           UNCHANGED engine \/ Abort
    PROVE  Shape' /\ Function' /\ Working' /\ pre' = pre
  <1>1. Goto("undo") /\ UNCHANGED pre
    BY DEF Stop
  <1>2. /\ Shape' /\ Function' /\ Running' /\ Same
        /\ Len(frames') = Len(frames) /\ Top'.pc = "undo"
    BY <1>1, GoesTo DEF PcSet, Moved
  <1>3. disk' = disk /\ disk = pre.disk
    BY DEF engine, Abort, Working
  <1>4. CASE Abort \/ (UNCHANGED engine /\ Lost)
    <2>1. sp' = <<>> /\ ~begun'
      BY <1>4 DEF Abort, engine, Lost
    <2> QED
      BY <1>1, <1>2, <1>3, <2>1 DEF Working, Lost
  <1>5. CASE UNCHANGED engine /\ Intact
    <2>1. Intact'
      <3>1. CallsOK'
        BY <1>1, GotoFrames, TypeParts DEF CallsOK, PcSet, Function
      <3> QED
        BY <1>1, <1>2, <1>5, <3>1, IntactKept DEF engine, Function
    <2>2. Progress'
      BY <1>2 DEF Progress
    <2> QED
      BY <1>1, <1>2, <1>3, <2>1, <2>2 DEF Working
  <1> QED
    BY <1>1, <1>2, <1>4, <1>5 DEF Working

\* A step inside a function that leaves the savepoints alone.
LEMMA GoesWorks ==
    ASSUME TypeOK, Shape, Working, Function, Top.pc # "undo", NEW f \in FrameSet,
           frames' = [frames EXCEPT ![Len(frames)] = f], UNCHANGED <<pre, sp, begun, disk>>,
           f.fn = Top.fn, f.sid = Top.sid,
           f.onexit \/ (f.fn = "append" /\ f.pc = "commit")
    PROVE  /\ Shape' /\ Function' /\ Top' = f /\ Len(frames') = Len(frames)
           /\ Progress' => Working'
  <1>1. Intact /\ disk = pre.disk
    BY DEF Working, Lost
  <1>2. Running /\ CallsOK
    BY TypeParts DEF Function
  <1>3. /\ Shape' /\ Function' /\ Same
        /\ Len(frames') = Len(frames) /\ Top' = f
    BY Goes
  <1>4. CallsOK'
    BY <1>2, EditLast DEF CallsOK, Running
  <1>5. Intact'
    BY <1>1, <1>2, <1>3, <1>4, IntactKept
  <1> QED
    BY <1>1, <1>3, <1>5 DEF Working

\* The same, where the function only goes on to p.
LEMMA GoesToWorks ==
    ASSUME TypeOK, Shape, Working, Function, NEW p \in PcSet, Goto(p),
           UNCHANGED <<pre, sp, begun, disk>>, Top.pc \notin {"undo", "commit"}
    PROVE  /\ Shape' /\ Function' /\ Moved(Top', Top, p) /\ Len(frames') = Len(frames)
           /\ Progress' => Working'
  <1> DEFINE f == [Top EXCEPT !.pc = p]
  <1>1. Running /\ Top \in FrameSet
    BY TypeParts, TopFrame DEF Function
  <1>2. Moved(f, Top, p)
    BY <1>1, MovedFrame
  <1>3. frames' = [frames EXCEPT ![Len(frames)] = f]
    BY DEF Goto, Top
  <1>4. Top.onexit
    BY DEF Shape
  <1> HIDE DEF f
  <1>5. f \in FrameSet /\ f.fn = Top.fn /\ f.sid = Top.sid /\ f.onexit
    BY <1>2, <1>4 DEF Moved
  <1>6. /\ Shape' /\ Function' /\ Top' = f /\ Len(frames') = Len(frames)
        /\ Progress' => Working'
    BY <1>3, <1>5, GoesWorks
  <1> QED
    BY <1>2, <1>6

\* A function writes in a transaction: nothing is committed.
LEMMA WritesInside ==
    ASSUME TypeOK, Working, Function, Top.pc # "undo", NEW t, Write(t)
    PROVE  db' = t /\ UNCHANGED <<disk, sp, begun>>
  <1>1. InTransaction
    BY OwnIsOpen DEF Working, Lost, Function
  <1> QED
    BY <1>1 DEF Write

Works == Shape' /\ Function' /\ Working'

LEMMA ExistsWorks ==
    ASSUME TypeOK, Shape, Working, Function, Exists
    PROVE  Works
  <1>1. Top.pc = "exists" /\ Top.fn \in Writers /\ UNCHANGED <<engine, pre>>
    BY DEF Exists, At
  <1>2. Progress
    BY <1>1 DEF Working, Lost
  <1>3. /\ pre.want = Wanted(Top) /\ ~(Top.overwrite /\ Top.append)
        /\ db # Absent => (Top.overwrite \/ Top.append)
    BY <1>1, <1>2 DEF Progress, Exists
  <1>4. ASSUME NEW p \in PcSet, Goto(p), Moved(Top', Top, p) => Progress'
        PROVE  Works
    BY <1>1, <1>4, GoesToWorks DEF Works, engine
  <1>5. db' = db /\ pre' = pre
    BY <1>1 DEF engine
  <1>6. CASE db = Absent \/ Top.overwrite
    <2>1. pre.want = Top.rows
      BY <1>3, <1>6 DEF Wanted
    <2>2. PICK p \in {"create", "remove"} : Goto(p)
      BY <1>6 DEF Exists
    <2>3. Moved(Top', Top, p) => Progress'
      BY <1>5, <2>1 DEF Progress, Moved
    <2> QED
      BY <1>4, <2>2, <2>3 DEF PcSet, Statements
  <1>7. CASE db # Absent /\ ~Top.overwrite
    <2>1. pre.want = db + Top.rows
      BY <1>3, <1>7 DEF Wanted
    <2>2. PICK p \in {"match", "insert"} : Goto(p)
      BY <1>7 DEF Exists
    <2>3. Moved(Top', Top, p) => Progress'
      BY <1>5, <1>7, <2>1 DEF Progress, Moved
    <2> QED
      BY <1>4, <2>2, <2>3 DEF PcSet, Statements
  <1> QED
    BY <1>6, <1>7

LEMMA FillingGoes ==
    ASSUME TypeOK, Shape, Working, Function, Goto(Filling), UNCHANGED <<pre, sp, begun, disk>>,
           Top.pc \in {"create", "match"}, db' # Absent, db' \in Table,
           pre.want = db' + Top.rows
    PROVE  Works
  <1>1. Top.rows \in Nat /\ db' \in Nat
    BY TypeParts, TopFrame, Tables DEF Function, FrameSet, Table
  <1>2. PICK p \in {"insert", "append", "commit"} :
            Goto(p) /\ (p = "commit" => ~(Top.rows > 0))
    BY DEF Filling
  <1>3. p = "commit" => pre.want = db'
    BY <1>1, <1>2
  <1>4. Moved(Top', Top, p) => Progress'
    BY <1>3 DEF Progress, Moved
  <1> QED
    BY <1>2, <1>4, GoesToWorks DEF Works, PcSet, Statements

LEMMA WritersWork ==
    ASSUME TypeOK, Shape, Working, Function, Remove \/ Create \/ Match
    PROVE  Works
  <1>1. Top.pc \in {"remove", "create", "match"} /\ UNCHANGED pre
    BY DEF Remove, Create, Match, At
  <1>2. Progress
    BY <1>1 DEF Working, Lost
  <1>3. CASE Remove
    <2>1. Top.pc = "remove" /\ Goto("create")
      BY <1>3 DEF Remove, At
    <2>2. UNCHANGED <<disk, sp, begun>>
      BY <1>1, <1>3, WritesInside DEF Remove
    <2>3. pre.want = Top.rows
      BY <1>2, <2>1 DEF Progress
    <2>4. Moved(Top', Top, "create") => Progress'
      BY <1>1, <2>3 DEF Progress, Moved
    <2> QED
      BY <1>1, <2>1, <2>2, <2>4, GoesToWorks DEF Works, PcSet, Statements
  <1>4. CASE Create
    <2>1. Top.pc = "create" /\ Goto(Filling)
      BY <1>4 DEF Create, At
    <2>2. UNCHANGED <<disk, sp, begun>> /\ db' = 0
      BY <1>1, <1>4, WritesInside DEF Create
    <2>3. pre.want = Top.rows /\ Top.rows \in Nat
      BY <1>2, <2>1, TypeParts, TopFrame DEF Progress, Function, FrameSet
    <2> QED
      BY <1>1, <2>1, <2>2, <2>3, FillingGoes, Tables DEF Absent
  <1>5. CASE Match
    <2>1. Top.pc = "match" /\ Goto(Filling) /\ UNCHANGED engine
      BY <1>5 DEF Match, At
    <2>2. db # Absent /\ pre.want = db + Top.rows
      BY <1>2, <2>1 DEF Progress
    <2>3. db' = db /\ db \in Table
      BY <2>1, TypeParts DEF engine, EngineOK
    <2> QED
      BY <1>1, <2>1, <2>2, <2>3, FillingGoes DEF engine
  <1> QED
    BY <1>3, <1>4, <1>5

LEMMA InsertWorks ==
    ASSUME TypeOK, Shape, Working, Function, Insert \/ Inserted
    PROVE  Works
  <1>1. /\ Top.pc = "insert" /\ Top.fn \in {"append", "import"} /\ db # Absent
        /\ UNCHANGED pre
    BY DEF Insert, Inserted, At
  <1>2. pre.want = db + Top.rows
    BY <1>1 DEF Working, Lost, Progress
  <1>3. Top \in FrameSet /\ db \in Nat /\ Top.onexit
    BY <1>1, TypeParts, TopFrame, Tables DEF Function, Shape, EngineOK, Table
  <1>4. CASE Insert
    <2> DEFINE f == [Top EXCEPT !.rows = @ - 1]
    <2>1. Top.rows > 0 /\ Write(db + 1)
      BY <1>4 DEF Insert
    <2>2. frames' = [frames EXCEPT ![Len(frames)] = f]
      BY <1>4 DEF Insert, Top
    <2>3. Top.rows - 1 \in Nat
      BY <1>3, <2>1 DEF FrameSet
    <2>4. /\ f \in FrameSet /\ f.fn = Top.fn /\ f.sid = Top.sid /\ f.onexit
          /\ f.pc = "insert" /\ f.rows = Top.rows - 1
      BY <1>1, <1>3, <2>3 DEF FrameSet
    <2>5. db' = db + 1 /\ UNCHANGED <<disk, sp, begun>>
      BY <1>1, <2>1, WritesInside
    <2> HIDE DEF f
    <2>6. Top' = f => Progress'
      <3>1. Top.rows \in Nat
        BY <1>3 DEF FrameSet
      <3>2. pre.want = db' + f.rows
        BY <1>2, <1>3, <2>4, <2>5, <3>1
      <3> QED
        BY <1>1, <2>4, <3>2 DEF Progress
    <2> QED
      BY <1>1, <2>2, <2>4, <2>5, <2>6, GoesWorks DEF Works
  <1>5. CASE Inserted
    <2> DEFINE f == [Top EXCEPT !.pc = "commit", !.onexit = (Top.fn # "append")]
    <2>1. frames' = [frames EXCEPT ![Len(frames)] = f]
      BY <1>5 DEF Inserted, Top
    <2>2. /\ f \in FrameSet /\ f.fn = Top.fn /\ f.sid = Top.sid
          /\ f.pc = "commit" /\ f.onexit = (Top.fn # "append")
      BY <1>1, <1>3 DEF FrameSet, PcSet
    <2>3. db = pre.want /\ UNCHANGED engine
      BY <1>2, <1>3, <1>5 DEF Inserted
    <2> HIDE DEF f
    <2>4. Top' = f => Progress'
      BY <1>1, <2>2, <2>3 DEF Progress, engine
    <2> QED
      BY <1>1, <2>1, <2>2, <2>3, <2>4, GoesWorks DEF Works, engine
  <1> QED
    BY <1>4, <1>5

LEMMA NestedAppendWorks ==
    ASSUME TypeOK, Shape, Working, Function, NEW id \in Ids, NestedAppend(id)
    PROVE  Works
  <1> DEFINE f == Frame("append", "insert", id, Rows(Top.rows))
  <1>1. /\ Top.pc = "append" /\ Top.fn = "write" /\ UNCHANGED pre
        /\ frames' = Append(frames, f) /\ Savepoint(id)
    BY DEF NestedAppend, At
  <1>2. Intact /\ Progress /\ disk = pre.disk
    BY <1>1 DEF Working, Lost
  <1>3. Running /\ CallsOK /\ EngineOK /\ Len(frames) \in {1, 2}
    BY TypeParts, FrameCount DEF Function
  <1>4. Len(frames) = 1 /\ Top = frames[1]
    <2>1. Len(frames) = 2 => frames[2].fn = "append"
      BY DEF Shape
    <2> QED
      BY <1>1, <1>3, <2>1 DEF Top
  <1>5. Top.rows \in Nat /\ Top.onexit
    BY <1>1, <1>3, TopFrame DEF FrameSet, Shape
  <1>6. f \in FrameSet
    BY <1>5, FrameTypes
  <1>7. /\ f.fn = "append" /\ f.pc = "insert" /\ f.sid = id /\ f.onexit /\ f.rows = Top.rows
    BY DEF Frame, Rows
  <1> HIDE DEF f
  <1>8. /\ Len(frames') = 2 /\ frames'[1] = frames[1] /\ frames'[2] = f
        /\ frames' \in Seq(FrameSet)
    <2>1. /\ frames' \in Seq(FrameSet)
          /\ Len(frames') = Len(frames) + 1
          /\ \A i \in 1 .. Len(frames) : frames'[i] = frames[i]
          /\ frames'[Len(frames) + 1] = f
      BY <1>1, <1>3, <1>6, AppendProperties DEF CallsOK
    <2> QED
      BY <1>4, <2>1
  <1>9. Running' /\ Top' = f
    BY <1>8 DEF Top, Running
  <1>10. Shape' /\ Function'
    BY <1>1, <1>4, <1>5, <1>7, <1>8, <1>9 DEF Shape, Function
  <1>11. Intact'
    <2>1. [id |-> id, db |-> db] \in SavepointSet
      BY <1>3 DEF EngineOK, SavepointSet
    <2>2. /\ Len(sp') = Len(sp) + 1 /\ \A j \in 1 .. Len(sp) : sp'[j] = sp[j]
          /\ sp'[Len(sp) + 1] = [id |-> id, db |-> db]
          /\ begun' = begun
      BY <1>1, <1>3, <2>1, AppendProperties DEF EngineOK, Savepoint
    <2>3. /\ Len(sp) = Len(pre.sp) + 1 /\ Len(pre.sp) \in Nat
          /\ sp[Len(pre.sp) + 1].id = frames[1].sid
      BY <1>2, <1>3, <1>4 DEF Intact, CallsOK, PreSet, Saved
    <2>4. DOMAIN frames' = {1, 2}
      BY <1>8
    <2>5. pre' = pre /\ begun = pre.begun /\ sp[Len(pre.sp) + 1].db = pre.db
      BY <1>1, <1>2 DEF Intact
    <2>6. \A j \in 1 .. Len(pre.sp) : sp'[j] = pre.sp[j]
      BY <1>2, <2>2, <2>3 DEF Intact
    <2>7. sp'[Len(pre.sp) + 1] = sp[Len(pre.sp) + 1] /\ sp'[Len(pre.sp) + 2].id = id
      BY <2>2, <2>3
    <2>8. Len(sp') = Len(pre'.sp) + Len(frames')
      BY <1>8, <2>2, <2>3, <2>5
    <2>9. \A j \in DOMAIN frames' : sp'[Len(pre'.sp) + j].id = frames'[j].sid
      BY <1>7, <1>8, <2>3, <2>4, <2>5, <2>7
    <2> QED
      BY <2>2, <2>5, <2>6, <2>7, <2>8, <2>9 DEF Intact
  <1>12. Progress'
    BY <1>1, <1>2, <1>7, <1>9 DEF Progress, Savepoint
  <1> QED
    BY <1>1, <1>2, <1>10, <1>11, <1>12 DEF Works, Working, Savepoint

LEMMA OwnRelease ==
    ASSUME TypeOK, Running, Intact, Release(Top.sid)
    PROVE  /\ sp' = SubSeq(sp, 1, Len(sp) - 1)
           /\ Len(sp') = Len(sp) - 1 /\ \A j \in 1 .. Len(sp) - 1 : sp'[j] = sp[j]
           /\ disk' = IF Commits(Len(sp)) THEN db ELSE disk
           /\ UNCHANGED <<db, begun>>
  <1>1. PICK j \in DOMAIN sp :
            /\ Innermost(Top.sid, j)
            /\ sp' = SubSeq(sp, 1, j - 1)
            /\ disk' = IF Commits(j) THEN db ELSE disk
            /\ UNCHANGED <<db, begun>>
    BY DEF Release
  <1>2. j = Len(sp)
    BY <1>1, OwnIsLast
  <1>3. sp \in Seq(SavepointSet) /\ j - 1 \in 0 .. Len(sp)
    BY TypeParts DEF EngineOK
  <1> QED
    BY <1>1, <1>2, <1>3, Prefix

LEMMA OwnRollback ==
    ASSUME TypeOK, Running, Intact, RollbackTo(Top.sid)
    PROVE  /\ db' = sp[Len(sp)].db
           /\ UNCHANGED <<sp, disk, begun, wrote>>
  <1>1. PICK j \in DOMAIN sp :
            /\ Innermost(Top.sid, j)
            /\ db' = sp[j].db
            /\ sp' = SubSeq(sp, 1, j)
            /\ UNCHANGED <<disk, begun, wrote>>
    BY DEF RollbackTo
  <1>2. j = Len(sp)
    BY <1>1, OwnIsLast
  <1>3. sp' = sp
    BY <1>1, <1>2, SubSeqFull, TypeParts DEF EngineOK
  <1> QED
    BY <1>1, <1>2, <1>3

LEMMA NestedNotOutermost ==
    ASSUME TypeOK, Running, Shape, Intact, Len(frames) = 2
    PROVE  ~Commits(Len(sp))
  <1>1. Len(sp) = Len(pre.sp) + 2 /\ Len(pre.sp) \in Nat
    BY TypeParts DEF Intact, CallsOK, PreSet, Saved
  <1> QED
    BY <1>1 DEF Commits

\* dbAppendTable returns to dbWriteTable, or stops in it.
LEMMA InnerLeaves ==
    ASSUME TypeOK, Shape, Function, Len(frames) = 2, NEW how, Leave(how), disk' = pre.disk,
           \/ how # "ok" /\ sp' = <<>> /\ ~begun'
           \/ /\ Intact /\ begun' = begun
              /\ Len(sp') = Len(sp) - 1 /\ \A j \in 1 .. Len(sp) - 1 : sp'[j] = sp[j]
              /\ how = "ok" => db' = pre.want
    PROVE  Works
  <1>1. Running /\ CallsOK /\ frames[1].fn = "write" /\ frames[1].onexit
    BY TypeParts DEF Function, Shape
  <1>2. /\ frames' \in Seq(FrameSet) /\ pre' = pre /\ Len(frames') = 1
        /\ Moved(frames'[1], frames[1], After(how))
    <2>1. 2 > 1 /\ 2 - 1 = 1
      OBVIOUS
    <2> QED
      BY <1>1, <2>1, LeaveFrames
  <1>3. Running' /\ Top' = frames'[1]
    <2>1. frames' # <<>>
      BY <1>2, NotEmpty
    <2> QED
      BY <1>2, <2>1 DEF Top, Running
  <1>4. Shape' /\ Function'
    <2>1. frames'[1].fn = "write" /\ frames'[1].onexit /\ frames'[1].sid = frames[1].sid
      BY <1>1, <1>2 DEF Moved
    <2>2. frames[1].sid \in Ids /\ pre.want \in Nat \cup {Impossible}
      BY DEF Shape
    <2>3. Function'
      BY <1>3, <2>1 DEF Function
    <2>4. Len(frames') <= 2 /\ Len(frames') # 2
      BY <1>2
    <2> QED
      BY <1>2, <1>3, <2>1, <2>2, <2>3, <2>4 DEF Shape
  <1>5. CASE how # "ok" /\ sp' = <<>> /\ ~begun'
    <2>1. Lost'
      BY <1>2, <1>3, <1>5 DEF Lost, Moved, After
    <2> QED
      BY <1>2, <1>4, <2>1 DEF Works, Working
  <1>6. CASE /\ Intact /\ begun' = begun
             /\ Len(sp') = Len(sp) - 1 /\ \A j \in 1 .. Len(sp) - 1 : sp'[j] = sp[j]
             /\ how = "ok" => db' = pre.want
    <2>1. Len(sp) = Len(pre.sp) + 2 /\ Len(pre.sp) \in Nat
      BY <1>1, <1>6 DEF Intact, CallsOK, PreSet, Saved
    <2>2. DOMAIN frames' = {1} /\ DOMAIN frames = {1, 2}
      BY <1>1, <1>2 DEF CallsOK
    <2>3. frames'[1].sid = frames[1].sid /\ sp[Len(pre.sp) + 1].id = frames[1].sid
      BY <1>2, <1>6, <2>2 DEF Moved, Intact
    <2>4. sp'[Len(pre.sp) + 1] = sp[Len(pre.sp) + 1]
      BY <1>6, <2>1
    <2>5. Intact'
      BY <1>2, <1>6, <2>1, <2>2, <2>3, <2>4 DEF Intact
    <2>6. Progress'
      BY <1>2, <1>3, <1>6 DEF Progress, Moved, After
    <2> QED
      BY <1>2, <1>4, <2>5, <2>6 DEF Works, Working
  <1> QED
    BY <1>5, <1>6

\* Leaving the outermost function ends the call.
LEMMA OuterLeaves ==
    ASSUME TypeOK, Running, Len(frames) = 1, NEW how, Leave(how)
    PROVE  frames' = <<>>
  BY TypeParts, LeaveFrames

LEMMA TopFunction ==
    ASSUME TypeOK, Shape, Function
    PROVE  /\ Running /\ Len(frames) \in {1, 2} /\ Top.fn # "rollback"
           /\ Len(frames) = 1 => Top = frames[1]
  <1>1. Running /\ Len(frames) \in {1, 2}
    BY TypeParts, FrameCount DEF Function
  <1>2. Len(frames) = 2 => frames[2].fn = "append"
    BY DEF Shape
  <1> QED
    BY <1>1, <1>2 DEF Function, Top

LEMMA UndoWorks ==
    ASSUME TypeOK, Shape, Working, Function, Undo
    PROVE  Works
  <1>1. Top.pc = "undo" /\ RollbackTo(Top.sid) /\ Goto("undone") /\ pre' = pre
    BY DEF Undo
  <1>2. Intact /\ disk = pre.disk
    BY <1>1 DEF Working, Lost, RollbackTo
  <1>3. Running /\ Top.onexit /\ CallsOK /\ CallsOK'
    BY <1>1, TypeParts, GotoFrames DEF Function, Shape, CallsOK, PcSet
  <1>4. /\ Shape' /\ Function' /\ Same
        /\ Len(frames') = Len(frames) /\ Moved(Top', Top, "undone")
    BY <1>1, <1>3, GoesTo DEF PcSet
  <1>5. db' = sp[Len(sp)].db /\ UNCHANGED <<sp, disk, begun>>
    BY <1>1, <1>2, <1>3, OwnRollback
  <1>6. Intact'
    BY <1>1, <1>2, <1>3, <1>4, <1>5, IntactKept
  <1>7. Progress'
    <2>1. Len(frames) = 1 => db' = pre.db
      BY <1>2, <1>5 DEF Intact
    <2> QED
      BY <1>1, <1>4, <2>1 DEF Progress, Moved
  <1> QED
    BY <1>1, <1>2, <1>4, <1>5, <1>6, <1>7 DEF Works, Working

\* The steps that may end the call.
LEMMA EndsWork ==
    ASSUME TypeOK, Shape, Working, Function,
           UndoFails \/ UndoRelease \/ UndoReleaseLocked \/ CommitOwn \/ CommitOwnLocked
    PROVE  Works \/ frames' = <<>>
  <1>1. /\ Running /\ Len(frames) \in {1, 2} /\ Top.fn # "rollback"
        /\ disk = pre.disk
    BY TopFunction DEF Working
  <1>2. CASE UndoFails
    <2>1. Leave("error") /\ UNCHANGED engine /\ ~IsOpen(Top.sid)
      BY <1>2 DEF UndoFails
    <2>2. Lost
      BY <1>1, <2>1, OwnIsOpen DEF Working
    <2> QED
      BY <1>1, <2>1, <2>2, InnerLeaves, OuterLeaves DEF engine, Lost
  <1>3. ASSUME UndoRelease \/ CommitOwn PROVE Works \/ frames' = <<>>
    <2>1. Top.pc \in {"undone", "commit"} /\ Release(Top.sid)
      BY <1>3 DEF UndoRelease, CommitOwn, At
    <2>2. Intact /\ Progress
      BY <2>1 DEF Working, Lost
    <2>3. /\ Len(sp') = Len(sp) - 1 /\ \A j \in 1 .. Len(sp) - 1 : sp'[j] = sp[j]
          /\ disk' = IF Commits(Len(sp)) THEN db ELSE disk
          /\ UNCHANGED <<db, begun>>
      BY <1>1, <2>1, <2>2, OwnRelease
    <2>4. PICK how : Leave(how) /\ (how = "ok" => db = pre.want)
      <3>1. CASE CommitOwn
        BY <2>2, <3>1 DEF CommitOwn, At, Progress
      <3>2. CASE UndoRelease
        BY <1>1, <3>2 DEF UndoRelease, Outcome
      <3> QED
        BY <1>3, <3>1, <3>2
    <2>5. Len(frames) = 2 => disk' = disk
      BY <1>1, <2>2, <2>3, NestedNotOutermost
    <2> QED
      BY <1>1, <2>2, <2>3, <2>4, <2>5, InnerLeaves, OuterLeaves
  <1>4. CASE UndoReleaseLocked \/ CommitOwnLocked
    <2>1. /\ Top.pc \in {"undone", "commit"} /\ ReleaseLocked(Top.sid)
          /\ Stop \/ Leave("error")
      BY <1>4 DEF UndoReleaseLocked, CommitOwnLocked, At
    <2>2. Intact
      BY <2>1 DEF Working, Lost
    <2>3. UNCHANGED engine /\ Commits(Len(sp))
      BY <1>1, <2>1, <2>2, OwnIsLast DEF ReleaseLocked
    <2>4. Len(frames) = 1
      BY <1>1, <2>2, <2>3, NestedNotOutermost
    <2>5. CASE Leave("error")
      BY <1>1, <2>4, <2>5, OuterLeaves
    <2>6. CASE Stop /\ Top.onexit
      BY <2>3, <2>6, StopWorks DEF Works
    <2>7. CASE Stop /\ ~Top.onexit
      BY <1>1, <2>4, <2>7, OuterLeaves DEF Stop
    <2> QED
      BY <2>1, <2>5, <2>6, <2>7
  <1> QED
    BY <1>2, <1>3, <1>4

LEMMA FunctionStep ==
    ASSUME TypeOK, Shape, Working, Function, Run
    PROVE  Works \/ frames' = <<>>
  <1>1. CASE ExistsStop \/ StatementFails \/ StatementAborts \/ NoSuchTable
    <2>1. /\ Top.pc \in Statements /\ Stop /\ (UNCHANGED engine \/ Abort)
      BY <1>1 DEF ExistsStop, StatementFails, StatementAborts, NoSuchTable, At, Statements
    <2>2. Top.onexit
      BY <2>1 DEF Shape, Statements
    <2> QED
      BY <2>1, <2>2, StopWorks DEF Works
  <1>2. CASE Exists
    BY <1>2, ExistsWorks
  <1>3. CASE Remove \/ Create \/ Match
    BY <1>3, WritersWork
  <1>4. CASE Insert \/ Inserted
    BY <1>4, InsertWorks
  <1>5. CASE \E id \in Ids : NestedAppend(id)
    BY <1>5, NestedAppendWorks
  <1>6. CASE Undo
    BY <1>6, UndoWorks
  <1>7. CASE UndoFails \/ UndoRelease \/ UndoReleaseLocked \/ CommitOwn \/ CommitOwnLocked
    BY <1>7, EndsWork
  <1> QED
    BY <1>1, <1>2, <1>3, <1>4, <1>5, <1>6, <1>7 DEF Run

-----------------------------------------------------------------------------

LEMMA NoFrames ==
    ASSUME frames' = <<>>
    PROVE  Shape' /\ Working' /\ Rolling'
  <1>1. ~Running' /\ ~Function' /\ Len(frames') = 0
    BY DEF Running, Function
  <1> QED
    BY <1>1 DEF Shape, Working, Rolling

\* A call from the top level opens the savepoint of the function.
LEMMA CallWorks ==
    ASSUME TypeOK, NEW f \in FrameSet, NEW w \in Nat \cup {Impossible}, Call(f, w),
           f.fn # "rollback", f.sid \in Ids, f.onexit, Savepoint(f.sid)
    PROVE  /\ Shape' /\ Function' /\ Top' = f /\ pre' = Snapshot(w)
           /\ Progress' => Working'
  <1>1. /\ Running' /\ frames' = <<f>> /\ Len(frames') = 1 /\ frames'[1] = f
        /\ pre' = Snapshot(w)
    <2>1. w \in Table \cup {Impossible, Back, Idle}
      BY Tables
    <2> QED
      BY <2>1, CallFrames
  <1>2. Top' = f /\ Function'
    BY <1>1 DEF Top, Function
  <1>3. pre'.want = w /\ pre'.sp = sp /\ pre'.begun = begun /\ pre'.db = db /\ pre'.disk = disk
    BY <1>1 DEF Snapshot
  <1>4. Shape'
    BY <1>1, <1>2, <1>3 DEF Shape
  <1>5. EngineOK /\ [id |-> f.sid, db |-> db] \in SavepointSet
    BY TypeParts DEF EngineOK, SavepointSet
  <1>6. /\ Len(sp') = Len(sp) + 1 /\ \A j \in 1 .. Len(sp) : sp'[j] = sp[j]
        /\ sp'[Len(sp) + 1] = [id |-> f.sid, db |-> db]
        /\ disk' = disk /\ begun' = begun
    BY <1>5, AppendProperties DEF EngineOK, Savepoint
  <1>7. Intact'
    <2>1. DOMAIN frames' = {1}
      BY <1>1
    <2> QED
      BY <1>1, <1>3, <1>6, <2>1 DEF Intact
  <1> QED
    BY <1>1, <1>2, <1>3, <1>4, <1>6, <1>7 DEF Working

LEMMA CallerStep ==
    ASSUME TypeOK, Caller
    PROVE  Shape' /\ Working' /\ Rolling'
  <1>0. EngineOK
    BY TypeParts
  <1>1. CASE \/ Begin \/ Commit \/ Rollback \/ RemoveTable
             \/ \E n \in Names : BeginNamed(n) \/ CommitNamed(n)
    <2>1. frames' = <<>>
      BY <1>1 DEF Begin, Commit, Rollback, RemoveTable, BeginNamed, CommitNamed, Running
    <2> QED
      BY <2>1, NoFrames
  <1>2. ASSUME NEW n \in Names, RollbackNamed(n) PROVE Shape' /\ Working' /\ Rolling'
    <2> DEFINE f == Frame("rollback", "undo", n, Rows(0))
    <2>1. f \in FrameSet
      BY FrameTypes
    <2>2. f.fn = "rollback" /\ f.pc = "undo" /\ f.sid = n
      BY DEF Frame
    <2>3. Call(f, Back) /\ UNCHANGED engine
      BY <1>2 DEF RollbackNamed
    <2> HIDE DEF f
    <2>4. /\ Running' /\ Len(frames') = 1 /\ frames'[1] = f
          /\ pre' = Snapshot(Back)
      BY <2>1, <2>3, CallFrames
    <2>5. ~Function'
      BY <2>2, <2>4 DEF Function
    <2>6. Shape'
      BY <2>2, <2>4, <2>5 DEF Shape, Snapshot
    <2>7. Rolling'
      BY <2>2, <2>3, <2>4 DEF Rolling, Snapshot, engine
    <2> QED
      BY <2>5, <2>6, <2>7 DEF Working
  <1>3. ASSUME NEW args \in Args, NEW id \in Ids, NEW fn \in Writers, CallWrite(fn, args, id)
        PROVE  Shape' /\ Working' /\ Rolling'
    <2> DEFINE f == Frame(fn, "exists", id, args)
    <2>1. f \in FrameSet
      BY FrameTypes
    <2>2. /\ f.fn = fn /\ f.pc = "exists" /\ f.sid = id /\ f.onexit = (fn # "rollback")
          /\ f.rows = args.rows /\ f.overwrite = args.overwrite /\ f.append = args.append
      BY DEF Frame
    <2>3. Call(f, Wanted(args)) /\ Savepoint(id) /\ ~(args.overwrite /\ args.append)
      BY <1>3 DEF CallWrite
    <2>4. Wanted(args) \in Nat \cup {Impossible}
      BY <1>0 DEF Wanted, EngineOK, Table, Absent, Args
    <2> HIDE DEF f
    <2>5. fn # "rollback"
      BY DEF Writers
    <2>6. /\ Shape' /\ Function' /\ Top' = f /\ pre' = Snapshot(Wanted(args))
          /\ Progress' => Working'
      BY <2>1, <2>2, <2>3, <2>4, <2>5, CallWorks
    <2>7. db' = db /\ pre'.db = db /\ pre'.want = Wanted(args)
      BY <2>3, <2>6 DEF Savepoint, Snapshot
    <2>8. Wanted(Top)' = Wanted(args)
      BY <2>2, <2>6, <2>7 DEF Wanted
    <2>9. Progress'
      BY <2>2, <2>3, <2>6, <2>7, <2>8 DEF Progress
    <2> QED
      BY <2>6, <2>9 DEF Rolling
  <1>4. ASSUME NEW k \in 0 .. MaxRows, NEW id \in Ids, CallAppend(k, id)
        PROVE  Shape' /\ Working' /\ Rolling'
    <2> DEFINE f == Frame("append", "insert", id, Rows(k))
               w == IF db = Absent THEN Impossible ELSE db + k
    <2>1. f \in FrameSet
      BY FrameTypes
    <2>2. f.fn = "append" /\ f.pc = "insert" /\ f.sid = id /\ f.onexit /\ f.rows = k
      BY DEF Frame, Rows
    <2>3. Call(f, w) /\ Savepoint(id)
      BY <1>4 DEF CallAppend
    <2>4. w \in Nat \cup {Impossible} /\ (db # Absent => w = db + k)
      BY <1>0 DEF EngineOK, Table, Absent
    <2> HIDE DEF f, w
    <2>5. /\ Shape' /\ Function' /\ Top' = f /\ pre' = Snapshot(w)
          /\ Progress' => Working'
      BY <2>1, <2>2, <2>3, <2>4, CallWorks
    <2>6. db' = db /\ pre'.want = w
      BY <2>3, <2>5 DEF Savepoint, Snapshot
    <2>7. Progress'
      BY <2>2, <2>4, <2>5, <2>6 DEF Progress
    <2> QED
      BY <2>5, <2>7 DEF Rolling
  <1> QED
    BY <1>1, <1>2, <1>3, <1>4 DEF Caller

\* dbRollback of the caller is at one of its two statements.
LEMMA RollingRuns ==
    ASSUME TypeOK, Shape, Rolling, Running, ~Function, Run
    PROVE  /\ Len(frames) = 1 /\ Top = frames[1] /\ Top.fn = "rollback"
           /\ Top.pc \in {"undo", "undone"}
           /\ Undo \/ UndoFails \/ UndoRelease \/ UndoReleaseLocked
  <1>1. Len(frames) = 1 /\ frames[1].pc \in {"undo", "undone"} /\ frames[1].fn = "rollback"
    BY DEF Shape, Rolling, Function
  <1>2. Top = frames[1]
    BY <1>1 DEF Top
  <1> QED
    BY <1>1, <1>2 DEF Run, Exists, ExistsStop, Remove, Create, Match, NestedAppend, Insert,
          Inserted, CommitOwn, CommitOwnLocked, StatementFails, StatementAborts,
          NoSuchTable, At, Statements

LEMMA RollingStep ==
    ASSUME TypeOK, Shape, Rolling, Running, ~Function, Run
    PROVE  Shape' /\ Working' /\ Rolling'
  <1>1. /\ Len(frames) = 1 /\ Top = frames[1] /\ Top.fn = "rollback"
        /\ Top.pc \in {"undo", "undone"}
        /\ Undo \/ UndoFails \/ UndoRelease \/ UndoReleaseLocked
    BY RollingRuns
  <1>2. CASE UndoFails \/ UndoRelease \/ UndoReleaseLocked
    <2>1. PICK how : Leave(how)
      BY <1>2 DEF UndoFails, UndoRelease, UndoReleaseLocked
    <2> QED
      BY <1>1, <2>1, OuterLeaves, NoFrames
  <1>3. CASE Undo
    <2>1. frames[1].pc = "undo" /\ RollbackTo(frames[1].sid) /\ Goto("undone") /\ pre' = pre
      BY <1>1, <1>3 DEF Undo
    <2>2. sp = pre.sp /\ disk = pre.disk /\ begun = pre.begun
      BY <2>1 DEF Rolling
    <2>3. PICK j \in DOMAIN sp :
              /\ Innermost(frames[1].sid, j) /\ db' = sp[j].db
              /\ sp' = SubSeq(sp, 1, j) /\ UNCHANGED <<disk, begun>>
      BY <2>1 DEF RollbackTo
    <2>4. /\ Running' /\ Len(frames') = 1 /\ Moved(Top', frames[1], "undone")
      BY <1>1, <2>1, GotoFrames, TypeParts DEF PcSet
    <2>5. Top' = frames'[1]
      BY <2>4 DEF Top
    <2>6. frames'[1].pc = "undone" /\ frames'[1].fn = "rollback" /\ frames'[1].sid = frames[1].sid
      BY <1>1, <2>4, <2>5 DEF Moved
    <2>7. ~Function'
      BY <2>6 DEF Function
    <2>8. Shape'
      BY <2>1, <2>4, <2>6, <2>7 DEF Shape
    <2>9. Meant(j)'
      BY <2>1, <2>2, <2>3, <2>6 DEF Meant, Innermost
    <2>10. Rolling'
      BY <2>1, <2>2, <2>3, <2>6, <2>9 DEF Rolling
    <2> QED
      BY <2>7, <2>8, <2>10 DEF Working
  <1> QED
    BY <1>1, <1>2, <1>3

LEMMA TInvInit == Init => TInv
  <1> SUFFICES ASSUME Init PROVE TInv
    OBVIOUS
  <1>1. TypeOK
    BY TypeInit
  <1>2. frames = <<>> /\ sp = <<>> /\ ~Running /\ ~Function /\ Len(frames) = 0
    BY DEF Init, Running, Function
  <1> QED
    BY <1>1, <1>2 DEF TInv, Base, Shape, Working, Rolling

LEMMA TInvStep == TInv /\ [Next]_vars => TInv'
  <1>1. ASSUME TInv, Next PROVE TInv'
    <2>1. TypeOK' /\ Base'
      BY <1>1, TypeStep, EngineSteps DEF TInv, EngineKeeps
    <2>2. CASE Caller
      BY <1>1, <2>1, <2>2, CallerStep DEF TInv
    <2>3. CASE Run /\ Function
      <3>1. Works \/ frames' = <<>>
        BY <1>1, <2>3, FunctionStep DEF TInv
      <3>2. Works => Rolling'
        BY DEF Works, Rolling
      <3> QED
        BY <2>1, <3>1, <3>2, NoFrames DEF TInv, Works
    <2>4. CASE Run /\ ~Function
      <3>1. Running
        BY <2>4 DEF Run, Exists, ExistsStop, Remove, Create, Match, NestedAppend, Insert,
              Inserted, CommitOwn, CommitOwnLocked, StatementFails, StatementAborts,
              NoSuchTable, Undo, UndoFails, UndoRelease, UndoReleaseLocked, At
      <3> QED
        BY <1>1, <2>1, <2>4, <3>1, RollingStep DEF TInv
    <2> QED
      BY <1>1, <2>2, <2>3, <2>4 DEF Next
  <1>2. ASSUME TInv, UNCHANGED vars PROVE TInv'
    <2>1. TypeOK'
      BY <1>2, TypeStep DEF TInv
    <2>2. UNCHANGED <<disk, db, begun, sp, wrote, frames, pre>>
      BY <1>2 DEF vars, engine
    <2>3. Base' /\ Shape' /\ Working' /\ Rolling'
      BY <1>2, <2>2 DEF TInv, Base, Shape, Working, Rolling, Function, Running, Lost, Intact,
                        Progress, Top, Wanted, Meant
    <2> QED
      BY <2>1, <2>3 DEF TInv
  <1> QED
    BY <1>1, <1>2

LEMMA TInvAlways == Spec => []TInv
  BY TInvInit, TInvStep, PTL DEF Spec

-----------------------------------------------------------------------------

\* Each handler finds the savepoint of its function where it was left, or none at
\* all (dbWriteTable, dbAppendTable, dbRollback).
THEOREM SavepointsInOrder == Spec => []StackDiscipline
  <1>1. ASSUME TInv PROVE StackDiscipline
    <2> SUFFICES ASSUME Function
                 PROVE  /\ disk = pre.disk
                        /\ \/ sp = <<>> /\ ~begun
                           \/ /\ begun = pre.begun
                              /\ Len(sp) = Len(pre.sp) + Len(frames)
                              /\ SubSeq(sp, 1, Len(pre.sp)) = pre.sp
                              /\ \A j \in DOMAIN frames : sp[Len(pre.sp) + j].id = frames[j].sid
                              /\ sp[Len(pre.sp) + 1].db = pre.db
      BY DEF StackDiscipline, Function
    <2>1. Intact => SubSeq(sp, 1, Len(pre.sp)) = pre.sp
      <3> SUFFICES ASSUME Intact PROVE SubSeq(sp, 1, Len(pre.sp)) = pre.sp
        OBVIOUS
      <3>1. pre.sp \in Seq(SavepointSet) /\ sp \in Seq(SavepointSet)
        BY <1>1, TypeParts DEF TInv, EngineOK, CallsOK, PreSet, Saved, SavepointSet
      <3>2. Len(pre.sp) \in 0 .. Len(sp)
        BY <1>1, <3>1, TypeParts DEF TInv, CallsOK, Intact
      <3>3. /\ SubSeq(sp, 1, Len(pre.sp)) \in Seq(SavepointSet)
            /\ Len(SubSeq(sp, 1, Len(pre.sp))) = Len(pre.sp)
            /\ \A i \in 1 .. Len(pre.sp) : SubSeq(sp, 1, Len(pre.sp))[i] = pre.sp[i]
        BY <3>1, <3>2, Prefix DEF Intact
      <3> QED
        BY <3>1, <3>3, SeqEqual
    <2> QED
      BY <1>1, <2>1 DEF TInv, Working, Lost, Intact
  <1> QED
    BY <1>1, TInvAlways, PTL

\* A table function does not commit the transaction it was called in (dbCommit of
\* its own savepoint, dbRollback in its handler).
LEMMA NothingCommitted ==
    ASSUME TInv, Next, Function, pre.begun \/ pre.sp # <<>>
    PROVE  disk' = disk
  <1>1. TypeOK /\ Shape /\ Working /\ Running /\ EngineOK /\ CallsOK
    BY TypeParts DEF TInv, Function
  <1>2. Run
    BY <1>1 DEF Next, Caller, Begin, Commit, Rollback, RemoveTable, BeginNamed, CommitNamed,
                RollbackNamed, CallWrite, CallAppend, Call
  <1>3. CASE Remove \/ Create \/ Insert
    <2>1. PICK t : Write(t)
      BY <1>3 DEF Remove, Create, Insert
    <2>2. Top.pc # "undo"
      BY <1>3 DEF Remove, Create, Insert, At
    <2> QED
      BY <1>1, <2>1, <2>2, WritesInside
  <1>4. CASE CommitOwn \/ UndoRelease
    <2>1. Release(Top.sid) /\ Top.pc # "undo"
      BY <1>4 DEF CommitOwn, UndoRelease, At
    <2>2. Intact
      BY <1>1, <2>1 DEF Working, Lost
    <2>3. disk' = IF Commits(Len(sp)) THEN db ELSE disk
      BY <1>1, <2>1, <2>2, OwnRelease
    <2>4. ~Commits(Len(sp))
      <3>1. Len(sp) = Len(pre.sp) + Len(frames) /\ begun = pre.begun
        BY <2>2 DEF Intact
      <3>2. Len(frames) \in Nat \ {0} /\ pre.sp \in Seq(SavepointSet)
        BY <1>1, TopFrame DEF CallsOK, PreSet, Saved, SavepointSet
      <3>3. pre.sp # <<>> => Len(pre.sp) \in Nat \ {0}
        BY <3>2
      <3>4. pre.sp # <<>> => Len(sp) # 1
        BY <3>1, <3>2, <3>3
      <3> QED
        BY <3>1, <3>4 DEF Commits
    <2> QED
      BY <2>3, <2>4
  <1> QED
    BY <1>2, <1>3, <1>4 DEF Run, Exists, ExistsStop, Match, NestedAppend, Savepoint, Inserted,
          CommitOwnLocked, ReleaseLocked, StatementFails, StatementAborts, Abort, NoSuchTable,
          Undo, RollbackTo, UndoFails, UndoReleaseLocked, engine

\* Whatever becomes of a table function, the caller's transaction is not committed
\* by it (dbWriteTable, dbAppendTable).
THEOREM TransactionIsTheCallers == Spec => CallersTransaction
  <1>1. TInv /\ [Next]_vars =>
          [(Running /\ (pre.begun \/ pre.sp # <<>>) /\ frames[1].fn # "rollback")
             => disk' = disk]_vars
    BY NothingCommitted DEF Function
  <1> QED
    BY <1>1, TInvAlways, PTL DEF Spec, CallersTransaction

-----------------------------------------------------------------------------

(***************************************************************************)
(* The refinement: a call is one step of AtomicTables, when it returns.    *)
(***************************************************************************)

\* While functions run, the state they were called in stays.
LEMMA PreKept ==
    ASSUME Run, Running'
    PROVE  pre' = pre
  <1>1. ASSUME NEW how, Leave(how) PROVE pre' = pre
    BY <1>1 DEF Leave, Running
  <1>2. Stop => pre' = pre
    BY <1>1 DEF Stop
  <1> QED
    BY <1>1, <1>2 DEF Run, Exists, ExistsStop, Remove, Create, Match, NestedAppend, Insert,
          Inserted, CommitOwn, CommitOwnLocked, StatementFails, StatementAborts,
          NoSuchTable, Undo, UndoFails, UndoRelease, UndoReleaseLocked

LEMMA InsideStutters ==
    ASSUME Run, Running, Running'
    PROVE  UNCHANGED Atomic!vars
  BY PreKept DEF Atomic!vars

LEMMA CallRequests ==
    ASSUME TInv, TInv', NEW f, NEW w, Call(f, w)
    PROVE  Atomic!Request
  <1>1. ~Running /\ Running' /\ pre' = Snapshot(w)
    BY DEF Call, Running
  <1>2. pre'.want \in Nat \cup {Impossible, Back}
    BY <1>1 DEF TInv, Shape
  <1>3. pre'.disk = disk /\ pre'.db = db /\ pre'.begun = begun /\ pre'.sp = sp
    BY <1>1 DEF Snapshot
  <1> QED
    BY <1>1, <1>2, <1>3 DEF Atomic!Request

LEMMA CallerImplements ==
    ASSUME TInv, TInv', Caller
    PROVE  Atomic!Next
  <1>1. CASE \/ \E n \in Names : RollbackNamed(n)
             \/ \E args \in Args, id \in Ids, fn \in Writers : CallWrite(fn, args, id)
             \/ \E k \in 0 .. MaxRows, id \in Ids : CallAppend(k, id)
    <2>1. PICK f, w : Call(f, w)
      BY <1>1 DEF RollbackNamed, CallWrite, CallAppend
    <2> QED
      BY <2>1, CallRequests DEF Atomic!Next
  <1>2. CASE \/ Begin \/ Commit \/ Rollback \/ RemoveTable
             \/ \E n \in Names : BeginNamed(n) \/ CommitNamed(n)
    <2>1. ~Running /\ ~Running'
      BY <1>2 DEF Begin, Commit, Rollback, RemoveTable, BeginNamed, CommitNamed, Running
    <2>2. CASE Begin \/ Commit \/ Rollback \/ RemoveTable
      BY <2>1, <2>2 DEF Begin, Commit, Rollback, RemoveTable, Abort, Write, InTransaction,
            Atomic!Next, Atomic!Statement, Atomic!Begin, Atomic!Commit, Atomic!Rollback,
            Atomic!Becomes, Atomic!InTransaction
    <2>3. ASSUME NEW n \in Names, BeginNamed(n) PROVE Atomic!Next
      BY <2>1, <2>3 DEF BeginNamed, Savepoint, Atomic!Next, Atomic!Statement, Atomic!Mark
    <2>4. ASSUME NEW n \in Names, CommitNamed(n) PROVE Atomic!Next
      BY <2>1, <2>4 DEF CommitNamed, Release, Innermost, Commits, Atomic!Next,
            Atomic!Statement, Atomic!CommitTo, Atomic!Named, Atomic!Outermost
    <2> QED
      BY <1>2, <2>2, <2>3, <2>4
  <1> QED
    BY <1>1, <1>2 DEF Caller

\* Only these steps end the call of a table function.
LEMMA EndOfCall ==
    ASSUME TInv, Function, Run, ~Running'
    PROVE  /\ Running /\ Len(frames) = 1
           /\ UndoFails \/ UndoRelease \/ UndoReleaseLocked \/ CommitOwn \/ CommitOwnLocked
  <1> USE DEF TInv
  <1>1. ~Works
    BY DEF Works, Function
  <1>2. UndoFails \/ UndoRelease \/ UndoReleaseLocked \/ CommitOwn \/ CommitOwnLocked
    <2>1. ~(ExistsStop \/ StatementFails \/ StatementAborts \/ NoSuchTable)
      <3>1. SUFFICES ASSUME ExistsStop \/ StatementFails \/ StatementAborts \/ NoSuchTable
                     PROVE  Works
        BY <1>1
      <3>2. Top.pc \in Statements /\ Stop /\ (UNCHANGED engine \/ Abort)
        BY <3>1 DEF ExistsStop, StatementFails, StatementAborts, NoSuchTable, At, Statements
      <3>3. Top.onexit
        BY <3>2 DEF Shape, Statements
      <3> QED
        BY <3>2, <3>3, StopWorks DEF Works
    <2> QED
      BY <1>1, <2>1, ExistsWorks, WritersWork, InsertWorks, NestedAppendWorks, UndoWorks
         DEF Run
  <1>3. PICK how : Leave(how) \/ (Stop /\ Top.onexit)
    BY <1>2 DEF UndoFails, UndoRelease, UndoReleaseLocked, CommitOwn, CommitOwnLocked, Stop
  <1>4. Running /\ CallsOK /\ Len(frames) \in {1, 2}
    BY TopFunction, TypeParts
  <1>5. Leave(how)
    BY <1>3, <1>4, GotoFrames DEF Stop, PcSet
  <1>6. Len(frames) # 2
    BY <1>4, <1>5, LeaveFrames DEF Running
  <1> QED
    BY <1>2, <1>4, <1>6

\* What is left of the transaction when the outermost function releases its
\* savepoint.
LEMMA OutermostRelease ==
    ASSUME TInv, Function, Len(frames) = 1, Intact, Release(Top.sid)
    PROVE  /\ sp' = pre.sp /\ begun' = pre.begun /\ db' = db
           /\ disk' = IF pre.begun \/ pre.sp # <<>> THEN pre.disk ELSE db
           /\ ~(pre.begun \/ pre.sp # <<>>) => pre.disk = pre.db
  <1>1. TypeOK /\ Running /\ Base /\ disk = pre.disk /\ begun = pre.begun
    BY DEF TInv, Function, Working, Intact
  <1>2. /\ Len(sp') = Len(sp) - 1 /\ \A j \in 1 .. Len(sp) - 1 : sp'[j] = sp[j]
        /\ disk' = IF Commits(Len(sp)) THEN db ELSE disk
        /\ UNCHANGED <<db, begun>>
    BY <1>1, OwnRelease
  <1>3. sp \in Seq(SavepointSet) /\ pre.sp \in Seq(SavepointSet) /\ sp' \in Seq(SavepointSet)
    <2>1. EngineOK'
      BY <1>1, EngineTypes, TypeParts
    <2> QED
      BY <1>1, <2>1, TypeParts DEF EngineOK, CallsOK, PreSet, Saved, SavepointSet
  <1>4. /\ Len(sp) = Len(pre.sp) + 1
        /\ \A j \in 1 .. Len(pre.sp) : sp[j] = pre.sp[j]
        /\ sp[Len(pre.sp) + 1].db = pre.db
    BY DEF Intact
  <1>5. sp' = pre.sp
    BY <1>2, <1>3, <1>4, SeqEqual
  <1>6. Commits(Len(sp)) <=> ~(pre.begun \/ pre.sp # <<>>)
    BY <1>1, <1>3, <1>4 DEF Commits
  <1>7. ~(pre.begun \/ pre.sp # <<>>) => pre.disk = pre.db
    BY <1>1, <1>3, <1>4 DEF Base
  <1> QED
    BY <1>1, <1>2, <1>5, <1>6, <1>7

LEMMA FunctionReturns ==
    ASSUME TInv, Function, Run, ~Running'
    PROVE  Atomic!Return
  <1>1. /\ Running /\ Len(frames) = 1 /\ TypeOK
        /\ UndoFails \/ UndoRelease \/ UndoReleaseLocked \/ CommitOwn \/ CommitOwnLocked
    BY EndOfCall DEF TInv
  <1>2. /\ pre.want \in Nat \cup {Impossible} /\ frames[1].sid \in Ids /\ Top = frames[1]
        /\ disk = pre.disk /\ (Lost \/ (Intact /\ Progress)) /\ EngineOK
    BY <1>1, TypeParts DEF TInv, Shape, Working, Top
  <1>3. pre.want # Idle /\ pre.want # Back /\ Top.fn # "rollback"
    BY <1>2 DEF Idle, Back, Impossible, Function
  <1>4. CASE UndoFails
    <2>1. ~IsOpen(Top.sid) /\ UNCHANGED engine
      BY <1>4 DEF UndoFails
    <2>2. Lost
      BY <1>1, <1>2, <2>1, OwnIsOpen
    <2>3. db = disk
      BY <1>2, <2>2 DEF EngineOK, InTransaction, Lost
    <2> QED
      BY <1>1, <1>2, <1>3, <2>1, <2>2, <2>3 DEF Lost, engine, Atomic!Return, Atomic!Aborted
  <1>5. CASE CommitOwn
    <2>1. Release(Top.sid) /\ Intact /\ db = pre.want
      BY <1>2, <1>5 DEF CommitOwn, At, Lost, Progress
    <2>2. db \in Nat
      BY <1>2, <2>1 DEF EngineOK, Table, Absent, Impossible
    <2>3. /\ sp' = pre.sp /\ begun' = pre.begun /\ db' = db
          /\ disk' = IF pre.begun \/ pre.sp # <<>> THEN pre.disk ELSE db
      BY <1>1, <2>1, OutermostRelease
    <2> QED
      BY <1>1, <1>3, <2>1, <2>2, <2>3
         DEF Atomic!Return, Atomic!Done, Atomic!Becomes, Atomic!InTransaction
  <1>6. CASE UndoRelease
    <2>1. Release(Top.sid) /\ Intact /\ db = pre.db
      BY <1>1, <1>2, <1>6 DEF UndoRelease, Lost, Progress
    <2>2. /\ sp' = pre.sp /\ begun' = pre.begun /\ db' = db
          /\ disk' = IF pre.begun \/ pre.sp # <<>> THEN pre.disk ELSE db
          /\ ~(pre.begun \/ pre.sp # <<>>) => pre.disk = pre.db
      BY <1>1, <2>1, OutermostRelease
    <2>3. disk' = pre.disk
      BY <2>1, <2>2
    <2> QED
      BY <1>1, <1>3, <2>1, <2>2, <2>3 DEF Atomic!Return, Atomic!Undone
  <1>7. CASE UndoReleaseLocked \/ CommitOwnLocked
    <2>1. /\ Top.pc \in {"undone", "commit"} /\ ReleaseLocked(Top.sid)
      BY <1>7 DEF UndoReleaseLocked, CommitOwnLocked, At
    <2>2. Intact /\ db \in {pre.db, pre.want}
      BY <1>1, <1>2, <2>1 DEF Lost, Progress
    <2>3. UNCHANGED engine /\ Commits(Len(sp))
      BY <1>1, <2>1, <2>2, OwnIsLast DEF ReleaseLocked
    <2>4. sp \in Seq(SavepointSet) /\ pre.sp \in Seq(SavepointSet)
      BY <1>1, TypeParts DEF EngineOK, CallsOK, PreSet, Saved, SavepointSet
    <2>5. /\ ~begun /\ ~pre.begun /\ Len(sp) = 1 /\ Len(pre.sp) = 0
          /\ sp[1].id = frames[1].sid /\ sp[1].db = pre.db
      <3>1. Len(sp) = 1 /\ ~begun /\ ~pre.begun
        BY <2>2, <2>3, <2>4 DEF Commits, Intact
      <3>2. 1 \in DOMAIN frames
        BY <1>1, TopFrame, TypeParts
      <3>3. Len(sp) = Len(pre.sp) + 1
        BY <1>1, <2>2 DEF Intact
      <3>4. Len(pre.sp) \in Nat
        BY <2>4
      <3>5. Len(pre.sp) = 0
        BY <3>1, <3>3, <3>4, OnlyOne, Zenon
      <3>6. sp[Len(pre.sp) + 1].id = frames[1].sid /\ sp[Len(pre.sp) + 1].db = pre.db
        BY <2>2, <3>2 DEF Intact
      <3> QED
        BY <3>1, <3>5, <3>6
    <2>6. pre.sp = <<>> /\ sp = <<[id |-> frames[1].sid, db |-> pre.db]>>
      <3>1. sp[1] \in SavepointSet
        <4>1. 1 \in 1 .. Len(sp)
          BY <2>5
        <4> QED
          BY <2>4, <4>1, ElementOfSeq
      <3>2. sp[1] = [id |-> frames[1].sid, db |-> pre.db]
        BY <2>5, <3>1 DEF SavepointSet
      <3> QED
        BY <2>4, <2>5, <3>2
    <2>7. UNCHANGED <<disk, db, begun, sp>>
      BY <2>3 DEF engine
    <2>8. \E id \in Ids : sp' = <<[id |-> id, db |-> pre.db]>>
      BY <1>2, <2>6, <2>7
    <2>9. db' \in {pre.db, pre.want} /\ disk' = pre.disk /\ begun' = pre.begun
      BY <1>2, <2>2, <2>7 DEF Intact
    <2>10. Atomic!LeftOpen
      BY <1>1, <1>2, <2>5, <2>6, <2>8, <2>9 DEF Atomic!LeftOpen, Atomic!InTransaction
    <2> QED
      BY <1>1, <1>3, <2>10 DEF Atomic!Return
  <1> QED
    BY <1>1, <1>4, <1>5, <1>6, <1>7

\* The caller's dbRollback is one step too.
LEMMA RollbackReturns ==
    ASSUME TInv, Running, ~Function, Run, ~Running'
    PROVE  Atomic!Return
  <1>1. /\ Len(frames) = 1 /\ Top = frames[1] /\ CallsOK /\ EngineOK /\ Base
        /\ Undo \/ UndoFails \/ UndoRelease \/ UndoReleaseLocked
        /\ frames[1].sid \in Names /\ pre.want = Back
        /\ disk = pre.disk /\ begun = pre.begun
    BY RollingRuns, TypeParts DEF TInv, Shape, Rolling
  <1>2. ~Undo
    BY <1>1, GotoFrames DEF Undo, PcSet
  <1>3. pre.want # Idle
    BY <1>1 DEF Idle, Back
  <1>4. CASE UndoFails
    <2>1. sp = pre.sp /\ db = pre.db /\ UNCHANGED <<disk, db, begun, sp>>
      BY <1>1, <1>4 DEF UndoFails, TInv, Rolling, engine
    <2> QED
      BY <1>1, <1>3, <2>1 DEF Atomic!Return, Atomic!Undone
  <1>5. CASE UndoRelease \/ UndoReleaseLocked
    <2>1. frames[1].pc = "undone"
      BY <1>1, <1>5 DEF UndoRelease, UndoReleaseLocked
    <2>2. PICK j \in DOMAIN pre.sp :
              Meant(j) /\ sp = SubSeq(pre.sp, 1, j) /\ db = pre.sp[j].db
      BY <2>1 DEF TInv, Rolling
    <2>3. pre.sp \in Seq(SavepointSet) /\ j \in 0 .. Len(pre.sp) /\ j > 0 /\ j - 1 \in 0 .. Len(pre.sp)
      BY <1>1 DEF CallsOK, PreSet, Saved, SavepointSet
    <2>4. sp \in Seq(SavepointSet) /\ Len(sp) = j /\ \A i \in 1 .. j : sp[i] = pre.sp[i]
      BY <2>2, <2>3, Prefix
    <2>5. ASSUME NEW i \in DOMAIN sp, Innermost(Top.sid, i) PROVE i = j
      <3>1. sp[j].id = frames[1].sid /\ j \in DOMAIN sp
        BY <2>2, <2>3, <2>4 DEF Meant
      <3> QED
        BY <1>1, <2>3, <2>4, <2>5, <3>1 DEF Innermost
    <2>6. Commits(j) => db = disk
      BY <1>1, <2>2, <2>3, <2>4 DEF Commits, Base
    <2>7. disk' = pre.disk /\ begun' = pre.begun /\ db' = pre.sp[j].db
          /\ (sp' = SubSeq(pre.sp, 1, j - 1) \/ (Commits(j) /\ sp' = SubSeq(pre.sp, 1, j)))
      <3>1. CASE UndoRelease
        <4>1. /\ sp' = SubSeq(sp, 1, j - 1) /\ disk' = IF Commits(j) THEN db ELSE disk
              /\ UNCHANGED <<db, begun>>
          BY <2>5, <3>1 DEF UndoRelease, Release
        <4>2. SubSeq(sp, 1, j - 1) = SubSeq(pre.sp, 1, j - 1)
          <5>1. j - 1 \in 0 .. Len(sp)
            BY <2>3, <2>4
          <5>2. /\ SubSeq(sp, 1, j - 1) \in Seq(SavepointSet)
                /\ Len(SubSeq(sp, 1, j - 1)) = j - 1
                /\ \A i \in 1 .. j - 1 : SubSeq(sp, 1, j - 1)[i] = sp[i]
            BY <2>4, <5>1, Prefix
          <5>3. /\ SubSeq(pre.sp, 1, j - 1) \in Seq(SavepointSet)
                /\ Len(SubSeq(pre.sp, 1, j - 1)) = j - 1
                /\ \A i \in 1 .. j - 1 : SubSeq(pre.sp, 1, j - 1)[i] = pre.sp[i]
            BY <2>3, Prefix
          <5> QED
            BY <2>3, <2>4, <5>2, <5>3, SeqEqual
        <4> QED
          BY <1>1, <2>2, <2>6, <4>1, <4>2
      <3>2. CASE UndoReleaseLocked
        BY <1>1, <2>2, <2>5, <3>2 DEF UndoReleaseLocked, ReleaseLocked, engine
      <3> QED
        BY <1>5, <3>1, <3>2
    <2>8. Atomic!Named(frames[1].sid, j) /\ (Commits(j) => Atomic!Outermost(j))
      BY <1>1, <2>2 DEF Meant, Commits, Atomic!Named, Atomic!Outermost
    <2>9. Atomic!RolledBackTo(frames[1].sid)
      BY <1>1, <2>2, <2>7, <2>8 DEF Atomic!RolledBackTo
    <2> QED
      BY <1>1, <1>3, <2>9 DEF Atomic!Return
  <1> QED
    BY <1>1, <1>2, <1>4, <1>5

\* A call of a table function, whatever fails in it, is one step of AtomicTables
\* (dbWriteTable, dbAppendTable, dbRollback).
THEOREM CallsAreAtomic == Spec => ImplementsAtomicTables
  <1>1. Init => Atomic!Init
    BY DEF Init, Running, Atomic!Init
  <1>2. TInv /\ TInv' /\ [Next]_vars => [Atomic!Next]_(Atomic!vars)
    <2> SUFFICES ASSUME TInv, TInv', [Next]_vars
                 PROVE  Atomic!Next \/ UNCHANGED Atomic!vars
      OBVIOUS
    <2>1. CASE Caller
      BY <2>1, CallerImplements
    <2>2. CASE Run
      <3>1. Running
        BY <2>2 DEF Run, Exists, ExistsStop, Remove, Create, Match, NestedAppend, Insert,
              Inserted, CommitOwn, CommitOwnLocked, StatementFails, StatementAborts,
              NoSuchTable, Undo, UndoFails, UndoRelease, UndoReleaseLocked, At
      <3>2. CASE Running'
        BY <2>2, <3>1, <3>2, InsideStutters
      <3>3. CASE ~Running'
        BY <2>2, <3>1, <3>3, FunctionReturns, RollbackReturns DEF Atomic!Next
      <3> QED
        BY <3>2, <3>3
    <2>3. CASE UNCHANGED vars
      BY <2>3 DEF vars, engine, Running, Atomic!vars
    <2> QED
      BY <2>1, <2>2, <2>3 DEF Next
  <1> QED
    BY <1>1, <1>2, TInvAlways, PTL DEF Spec, ImplementsAtomicTables, Atomic!Spec
=============================================================================
