-------------------------- MODULE ResultSetProofs --------------------------
(***************************************************************************)
(* Proofs about ResultSet for every set of executions and parameter lists, *)
(* every fetch size and every number of faults.                            *)
(***************************************************************************)
EXTENDS ResultSetRefinement, Induction

(***************************************************************************)
(* The inductive invariant.                                                *)
(***************************************************************************)

\* A call runs on a bound result set, and steps only while rows are left.
CallInv ==
    /\ pc # "idle" => live /\ ready_
    /\ pc = "step" => ~complete_
    /\ pc = "advance" => caller = "fetch"

\* A result set without placeholders has one execution and no groups; one with
\* placeholders counts the elements of an accepted parameter list.
ParamsInv ==
    IF nparams = 0
    THEN groups_ = 0
    ELSE /\ groups_ = Len(params_.groups)
         /\ \A j \in DOMAIN params_.lens : params_.lens[j] = groups_

PlainInv == (live /\ ready_ /\ nparams = 0) => Len(params_.groups) = 1

\* Being about to step from p, with everything before p read up to r.
At(r, p) ==
    \/ r = p
    \/ /\ r[1] < p[1] /\ p[2] = 0
       /\ r[2] = RowsOf(r[1])
       /\ EmptyBetween(r[1], p[1])

Position == <<group_, IF vm = "run" THEN row ELSE 0>>

\* The statement executes the current group.
Executing ==
    /\ group_ \in GroupIds
    /\ slot = group_
    /\ job = params_.groups[group_ + 1]

\* Where the statement stands relative to the last row read.
StreamInv ==
    (live /\ ready_ /\ clean) =>
        /\ GroupIds # {} => LastTaken[1] \in GroupIds
        /\ complete_ => Exhausted(LastTaken)
        /\ (~complete_ /\ pc # "step") =>
              /\ Executing
              /\ vm = "run"
              /\ Follows(LastTaken, <<group_, row>>)
        /\ pc = "step" =>
              /\ Executing
              /\ Position[2] <= RowsOf(group_)
              /\ At(LastTaken, Position)

\* The data frame being filled, and the count of rows.
InLoop == pc \in {"fetch", "advance"} \/ (pc = "step" /\ caller = "fetch")

HasUncounted == pc = "advance" \/ (pc = "step" /\ caller = "fetch")

FrameInv ==
    /\ Len(frame) = IF HasUncounted THEN i + 1 ELSE i
    /\ ~InLoop /\ pc # "return" => frame = <<>> /\ i = 0
    /\ InLoop => n_max # 0 /\ (n_max > 0 => i < n_max)
    /\ pc = "return" => n_max > 0 /\ i = n_max

CountInv ==
    (live /\ ready_ /\ clean) =>
        /\ Len(taken) = IF HasUncounted THEN nrows_ + 1 ELSE nrows_
        /\ intact => taken = delivered \o frame

IInv ==
    /\ TypeOK
    /\ CallInv /\ ParamsInv /\ PlainInv
    /\ InBounds
    /\ CompleteFreesStatement
    /\ RowsInOrder
    /\ StreamInv
    /\ FrameInv
    /\ CountInv

-----------------------------------------------------------------------------

\* Initially no result set exists.
LEMMA InitIInv == Init => IInv
  <1> SUFFICES ASSUME Init PROVE IInv
    OBVIOUS
  <1> USE DEF Init, NoParams, NoJob, Partial, Origin
  <1>1. TypeOK
    <2>1. FlagsType
      BY DEF FlagsType
    <2>2. CursorType
      BY DEF CursorType
    <2>3. EngineType
      BY DEF EngineType, Execution
    <2>4. CallType
      BY DEF CallType
    <2>5. HistoryType
      BY BoundsAssumption DEF HistoryType
    <2> QED
      BY <2>1, <2>2, <2>3, <2>4, <2>5 DEF TypeOK
  <1>2. CallInv /\ ParamsInv /\ PlainInv /\ InBounds /\ CompleteFreesStatement
    BY DEF CallInv, ParamsInv, PlainInv, InBounds, CompleteFreesStatement
  <1>3. RowsInOrder /\ StreamInv /\ FrameInv /\ CountInv
    BY DEF RowsInOrder, StreamInv, FrameInv, CountInv, InLoop, HasUncounted
  <1> QED
    BY <1>1, <1>2, <1>3 DEF IInv

\* An accepted list is made of executions.
LEMMA ParamsType ==
    ASSUME NEW p \in ParamLists
    PROVE  /\ p \in [lens : Seq(Nat), groups : Seq(Execution)]
           /\ Len(p.groups) \in Nat
           /\ Len(p.groups) > 0 => p.groups[1] \in Execution
  <1>1. p \in [lens : Seq(Nat), groups : Seq(Groups)]
    BY ParamListsAssumption
  <1>2. p.groups \in Seq(Execution)
    BY <1>1, GroupsAssumption
  <1>3. p = [lens |-> p.lens, groups |-> p.groups] /\ p.lens \in Seq(Nat)
    BY <1>1
  <1> QED
    BY <1>2, <1>3

\* All vectors of an accepted list have one length, the number of its groups.
LEMMA AcceptedLengths ==
    ASSUME TypeOK, NEW p \in ParamLists, BindAccepted(p)
    PROVE  \A j \in DOMAIN p.lens : p.lens[j] = Len(p.groups)
  <1>1. Len(p.lens) > 0
    BY ParamsType DEF BindAccepted, TypeOK, CursorType
  <1>2. p.lens[1] = Len(p.groups)
    BY <1>1, FirstLengthAssumption
  <1> QED
    BY <1>2 DEF BindAccepted, ValidParams

LEMMA ResetChangesType ==
    ASSUME TypeOK PROVE ResetChanges \in Nat
  BY DEF ResetChanges, TypeOK, EngineType, Execution

\* bind_row() gives the statement an execution.
LEMMA BindRowType ==
    ASSUME TypeOK,
           NEW p, p.groups \in Seq(Execution),
           NEW g \in Nat, g < Len(p.groups),
           BindRow(p, g)
    PROVE  /\ vm' = "ready" /\ row' = 0
           /\ slot' \in Nat \cup {Partial}
           /\ job' \in Execution
           /\ oob' \in BOOLEAN
  <1>1. g + 1 \in 1 .. Len(p.groups)
    OBVIOUS
  <1>2. p.groups[g + 1] \in Execution
    BY <1>1
  <1>3. oob' \in BOOLEAN
    BY Zenon DEF BindRow, TypeOK, FlagsType
  <1> QED
    BY <1>2, <1>3, GroupsAssumption DEF BindRow, Partial

\* The flags stay Boolean, and what a bind cut off a number.
LEMMA FlagsStep == TypeOK /\ [Next]_vars => FlagsType'
  <1> SUFFICES ASSUME TypeOK, [Next]_vars PROVE FlagsType'
    OBVIOUS
  <1> USE DEF TypeOK, FlagsType
  <1>1. CASE CreatePlain
    BY <1>1, Zenon DEF CreatePlain, InitCursor
  <1>2. CASE CreateParameterised
    BY <1>2, Zenon DEF CreateParameterised
  <1>3. ASSUME NEW p \in ParamLists, Bind(p) PROVE FlagsType'
    <2>1. CASE BindRejected(p)
      BY <2>1, Zenon DEF BindRejected, vars, cursor, history
    <2>2. CASE BindEmpty(p)
      BY <2>2, Zenon DEF BindEmpty, InitCursor
    <2>3. CASE BindFirst(p)
      <3>1. stale' \in Nat
        BY <2>3, ResetChangesType DEF BindFirst
      <3> QED
        BY <2>3, <3>1, Zenon DEF BindFirst, InitCursor, BindRow
    <2>4. CASE BindFails(p)
      <3>1. stale' \in Nat
        BY <2>4, ResetChangesType DEF BindFails
      <3> QED
        BY <2>4, <3>1, Zenon DEF BindFails, BindRow, Spoil
    <2> QED
      BY <1>3, <2>1, <2>2, <2>3, <2>4 DEF Bind
  <1>4. ASSUME NEW n \in FetchSizes, Fetch(n) PROVE FlagsType'
    BY <1>4, Zenon DEF Fetch, FetchNothing, FetchCall, vars, cursor, history
  <1>5. CASE ReadRow
    BY <1>5, Zenon DEF ReadRow, cursor
  <1>6. CASE StepRow
    BY <1>6, Zenon DEF StepRow, cursor, history
  <1>7. CASE StepLast
    BY <1>7, Zenon DEF StepLast, history
  <1>8. CASE StepNextGroup
    BY <1>8, Zenon DEF StepNextGroup, BindRow
  <1>9. CASE StepNextGroupFails
    BY <1>9, Zenon DEF StepNextGroupFails, BindRow, Throw, Spoil
  <1>10. CASE StepError
    BY <1>10, Zenon DEF StepError, Throw, Spoil
  <1>11. CASE Advance
    BY <1>11, Zenon DEF Advance, history
  <1>12. CASE Interrupted
    BY <1>12, Zenon DEF Interrupted, Throw
  <1>13. CASE FetchReturn
    BY <1>13, Zenon DEF FetchReturn, cursor
  <1>14. CASE Release
    BY <1>14, Zenon DEF Release
  <1>15. CASE UNCHANGED vars
    BY <1>15, Zenon DEF vars, cursor, history
  <1> QED
    BY <1>1, <1>2, <1>3, <1>4, <1>5, <1>6, <1>7, <1>8, <1>9, <1>10, <1>11, <1>12,
       <1>13, <1>14, <1>15 DEF Next, Run

\* Every action keeps the types.
LEMMA TypeStep == TypeOK /\ ParamsInv /\ [Next]_vars => TypeOK'
  <1> SUFFICES ASSUME TypeOK, ParamsInv, [Next]_vars
               PROVE  CursorType' /\ EngineType' /\ CallType' /\ HistoryType'
    BY FlagsStep DEF TypeOK
  <1> USE BoundsAssumption
      DEF TypeOK, CursorType, EngineType, CallType, HistoryType
  <1>1. CASE CreatePlain
    BY <1>1, GroupsAssumption DEF CreatePlain, InitCursor
  <1>2. CASE CreateParameterised
    BY <1>2 DEF CreateParameterised, call, NoJob, NoParams, Execution
  <1>3. ASSUME NEW p \in ParamLists, Bind(p) PROVE TypeOK'
    <2>1. CASE BindRejected(p)
      BY <2>1, FlagsStep DEF BindRejected, vars, cursor, engine, call, history
    <2>2. CASE BindEmpty(p)
      BY <2>2, FlagsStep, ParamsType DEF BindEmpty, BindAccepted, InitCursor, call
    <2>3. CASE BindFirst(p)
      <3>1. BindRow(p, 0) /\ 0 < Len(p.groups)
        BY <2>3, ParamsType DEF BindFirst
      <3>2. EngineType'
        BY <2>3, <3>1, ParamsType, BindRowType, ResetChangesType DEF BindFirst, RestartCount
      <3>3. CursorType' /\ CallType' /\ HistoryType'
        BY <2>3, ParamsType DEF BindFirst, BindAccepted, InitCursor
      <3> QED
        BY <3>2, <3>3, FlagsStep
    <2>4. CASE BindFails(p)
      <3>1. BindRow(p, 0) /\ 0 < Len(p.groups)
        BY <2>4, ParamsType DEF BindFails
      <3>2. EngineType'
        BY <2>4, <3>1, ParamsType, BindRowType, ResetChangesType DEF BindFails, RestartCount
      <3>3. CursorType' /\ CallType' /\ HistoryType'
        BY <2>4, ParamsType DEF BindFails, BindAccepted, Spoil, call
      <3> QED
        BY <3>2, <3>3, FlagsStep
    <2> QED
      BY <1>3, <2>1, <2>2, <2>3, <2>4 DEF Bind
  <1>4. ASSUME NEW n \in FetchSizes, Fetch(n) PROVE TypeOK'
    <2>1. CASE FetchNothing(n)
      BY <2>1, FlagsStep DEF FetchNothing, vars, cursor, engine, call, history
    <2>2. CASE FetchCall(n)
      BY <2>2, FlagsStep DEF FetchCall, cursor, engine, history
    <2> QED
      BY <1>4, <2>1, <2>2 DEF Fetch
  <1>5. CASE ReadRow
    <2>1. CurrentRow \in Int \X Int
      BY DEF CurrentRow, NoRow, Partial
    <2>2. Append(frame, CurrentRow) \in Seq(Int \X Int)
          /\ Append(taken, CurrentRow) \in Seq(Int \X Int)
      BY <2>1
    <2>3. CursorType' /\ EngineType'
      BY <1>5 DEF ReadRow, cursor, engine
    <2>4. CallType' /\ HistoryType'
      BY <1>5, <2>2 DEF ReadRow
    <2> QED
      BY <2>3, <2>4
  <1>6. CASE StepRow
    BY <1>6 DEF StepRow, StepReturns, NextRow, cursor, history
  <1>7. CASE StepLast
    BY <1>7, SMTT(30) DEF StepLast, StepDone, StepReturns, history, Execution
  <1>8. ASSUME BindRow(params_, group_ + 1), MoreGroups, StepDone
        PROVE  EngineType'
    <2>1. group_ + 1 < Len(params_.groups) /\ group_ + 1 \in Nat
      BY <1>8 DEF MoreGroups, ParamsInv
    <2>2. params_.groups \in Seq(Execution)
      OBVIOUS
    <2>3. job'  \in Execution /\ vm' = "ready" /\ row' = 0 /\ slot' \in Nat \cup {Partial}
      BY <1>8, <2>1, <2>2, BindRowType
    <2> QED
      BY <1>8, <2>3 DEF StepDone, Execution
  <1>9. CASE StepNextGroup
    BY <1>8, <1>9 DEF StepNextGroup, StepDone, call
  <1>10. CASE StepNextGroupFails
    BY <1>8, <1>10 DEF StepNextGroupFails, StepDone, Throw, Spoil
  <1>11. CASE StepError
    BY <1>11 DEF StepError, Throw, Spoil
  <1>12. CASE Advance
    BY <1>12 DEF Advance, engine, history
  <1>13. CASE Interrupted
    BY <1>13 DEF Interrupted, Throw, engine
  <1>14. CASE FetchReturn
    BY <1>14 DEF FetchReturn, cursor, engine
  <1>15. CASE Release
    BY <1>15, ResetChangesType DEF Release, call
  <1>16. CASE UNCHANGED vars
    BY <1>16 DEF vars, cursor, engine, call, history
  <1> QED
    BY <1>1, <1>2, <1>3, <1>4, <1>5, <1>6, <1>7, <1>9, <1>10, <1>11, <1>12,
       <1>13, <1>14, <1>15, <1>16 DEF Next, Run

(***************************************************************************)
(* The parts of the invariant that do not look at the stream.              *)
(***************************************************************************)

\* groups_ always is the number of elements of every vector of params_.
LEMMA ParamsStep ==
    TypeOK /\ ParamsInv /\ PlainInv /\ [Next]_vars => ParamsInv' /\ PlainInv'
  <1> SUFFICES ASSUME TypeOK, ParamsInv, PlainInv, [Next]_vars
               PROVE  ParamsInv' /\ PlainInv'
    OBVIOUS
  <1> USE DEF TypeOK, CursorType, ParamsInv, PlainInv
  <1>1. CASE CreatePlain
    BY <1>1 DEF CreatePlain
  <1>2. CASE CreateParameterised
    BY <1>2, BoundsAssumption DEF CreateParameterised, NoParams
  <1>3. ASSUME NEW p \in ParamLists, Bind(p) PROVE ParamsInv' /\ PlainInv'
    <2>1. CASE BindRejected(p)
      BY <2>1 DEF BindRejected, vars, cursor
    <2>2. CASE BindAccepted(p) /\ UNCHANGED nparams
      BY <2>2, AcceptedLengths DEF BindAccepted
    <2> QED
      BY <1>3, <2>1, <2>2 DEF Bind, BindEmpty, BindFirst, BindFails
  <1>4. CASE UNCHANGED <<nparams, groups_, params_>> /\ (live' => live)
             /\ (ready_' => ready_)
    BY <1>4
  <1>5. ASSUME NEW n \in FetchSizes, Fetch(n) PROVE ParamsInv' /\ PlainInv'
    BY <1>4, <1>5 DEF Fetch, FetchNothing, FetchCall, vars, cursor
  <1>6. CASE Run
    BY <1>4, <1>6 DEF Run, ReadRow, StepRow, StepLast, StepNextGroup,
       StepNextGroupFails, Advance, FetchReturn, Throw, cursor
  <1>7. CASE StepError \/ Interrupted \/ Release
    BY <1>4, <1>7 DEF StepError, Interrupted, Release, Throw
  <1>8. CASE UNCHANGED vars
    BY <1>4, <1>8 DEF vars, cursor
  <1> QED
    BY <1>1, <1>2, <1>3, <1>5, <1>6, <1>7, <1>8 DEF Next

\* A call runs on a bound result set.
LEMMA CallStep == TypeOK /\ CallInv /\ [Next]_vars => CallInv'
  <1> SUFFICES ASSUME TypeOK, CallInv, [Next]_vars PROVE CallInv'
    OBVIOUS
  <1> USE DEF TypeOK, CallType, CallInv
  <1>1. CASE CreatePlain \/ CreateParameterised
    BY <1>1 DEF CreatePlain, CreateParameterised, InitCursor, call
  <1>2. ASSUME NEW p \in ParamLists, Bind(p) PROVE CallInv'
    BY <1>2 DEF Bind, BindRejected, BindAccepted, BindEmpty, BindFirst, BindFails,
       InitCursor, vars, cursor, call
  <1>3. ASSUME NEW n \in FetchSizes, Fetch(n) PROVE CallInv'
    BY <1>3 DEF Fetch, FetchNothing, FetchCall, vars, cursor, call
  <1>4. CASE Run
    BY <1>4 DEF Run, ReadRow, StepRow, StepLast, StepNextGroup, StepDone,
       StepNextGroupFails, StepReturns, Advance, FetchReturn, Throw, cursor, call
  <1>5. CASE StepError \/ Interrupted \/ Release
    BY <1>5 DEF StepError, Interrupted, Release, Throw, call
  <1>6. CASE UNCHANGED vars
    BY <1>6 DEF vars, cursor, call
  <1> QED
    BY <1>1, <1>2, <1>3, <1>4, <1>5, <1>6 DEF Next

\* No parameter vector is read past its end.
LEMMA InBoundsStep ==
    TypeOK /\ ParamsInv /\ InBounds /\ [Next]_vars => InBounds'
  <1> SUFFICES ASSUME TypeOK, ParamsInv, ~oob, [Next]_vars PROVE oob' = FALSE
    BY DEF InBounds
  <1> USE DEF TypeOK, FlagsType, CursorType
  <1>1. ASSUME NEW p \in ParamLists, BindAccepted(p), Len(p.groups) > 0, BindRow(p, 0)
        PROVE  oob' = FALSE
    <2>2. \A j \in DOMAIN p.lens : p.lens[j] = Len(p.groups)
      BY <1>1, AcceptedLengths
    <2>3. \A j \in DOMAIN p.lens : ~(p.lens[j] <= 0)
      BY <1>1, <2>2, ParamsType
    <2> QED
      BY <1>1, <2>3 DEF BindRow
  <1>2. ASSUME MoreGroups, BindRow(params_, group_ + 1) PROVE oob' = FALSE
    <2>1. \A j \in DOMAIN params_.lens : ~(params_.lens[j] <= group_ + 1)
      BY <1>2 DEF MoreGroups, ParamsInv
    <2> QED
      BY <1>2, <2>1 DEF BindRow
  <1>3. ASSUME NEW p \in ParamLists, Bind(p) PROVE oob' = FALSE
    BY <1>1, <1>3 DEF Bind, BindRejected, BindEmpty, BindFirst, BindFails, vars, history
  <1>4. ASSUME NEW n \in FetchSizes, Fetch(n) PROVE oob' = FALSE
    BY <1>4 DEF Fetch, FetchNothing, FetchCall, vars, history
  <1>5. CASE Run
    BY <1>2, <1>5 DEF Run, ReadRow, StepRow, StepLast, StepNextGroup,
       StepNextGroupFails, Advance, FetchReturn, history
  <1>6. CASE CreatePlain \/ CreateParameterised \/ StepError \/ Interrupted \/ Release
    BY <1>6 DEF CreatePlain, CreateParameterised, StepError, Interrupted, Release
  <1>7. CASE UNCHANGED vars
    BY <1>7 DEF vars, history
  <1> QED
    BY <1>3, <1>4, <1>5, <1>6, <1>7 DEF Next

\* A complete result set does not leave its statement on a row.
LEMMA FreesStep ==
    TypeOK /\ CallInv /\ CompleteFreesStatement /\ [Next]_vars
        => CompleteFreesStatement'
  <1> SUFFICES ASSUME TypeOK, CallInv, CompleteFreesStatement, [Next]_vars
               PROVE  CompleteFreesStatement'
    OBVIOUS
  <1> USE DEF TypeOK, CursorType, EngineType, CompleteFreesStatement, CallInv
  <1>1. CASE CreatePlain \/ CreateParameterised
    BY <1>1 DEF CreatePlain, CreateParameterised
  <1>2. ASSUME NEW p \in ParamLists, Bind(p) PROVE CompleteFreesStatement'
    <2>1. CASE BindRejected(p)
      BY <2>1 DEF BindRejected, vars, cursor, engine
    <2>2. CASE BindEmpty(p)
      BY <2>2 DEF BindEmpty, BindAccepted
    <2>3. CASE BindFirst(p) \/ BindFails(p)
      BY <2>3 DEF BindFirst, BindFails, BindRow
    <2> QED
      BY <1>2, <2>1, <2>2, <2>3 DEF Bind
  <1>3. ASSUME NEW n \in FetchSizes, Fetch(n) PROVE CompleteFreesStatement'
    BY <1>3 DEF Fetch, FetchNothing, FetchCall, vars, cursor, engine
  <1>4. CASE Run
    BY <1>4 DEF Run, ReadRow, StepRow, StepLast, StepNextGroup, StepDone,
       StepNextGroupFails, BindRow, Advance, FetchReturn, Throw, cursor, engine
  <1>5. CASE StepError \/ Interrupted \/ Release
    BY <1>5 DEF StepError, Interrupted, Release, Throw, engine
  <1>6. CASE UNCHANGED vars
    BY <1>6 DEF vars, cursor, engine
  <1> QED
    BY <1>1, <1>2, <1>3, <1>4, <1>5, <1>6 DEF Next

(***************************************************************************)
(* The order of the stream.                                                *)
(***************************************************************************)

\* Stepping onto a row of the group moves to the next row of the stream.
LEMMA NextRowFollows ==
    ASSUME TypeOK, NEW r \in Int \X Int, NEW g \in GroupIds, NEW k \in Nat,
           At(r, <<g, k>>), k + 1 <= RowsOf(g)
    PROVE  Follows(r, <<g, k + 1>>)
  BY DEF At, Follows, TypeOK, CursorType, GroupIds

\* Stepping past the end of a group to the start of the next one leaves no row
\* out.
LEMMA NextGroupAt ==
    ASSUME TypeOK, NEW r \in Int \X Int, NEW g \in GroupIds, NEW k \in Nat,
           At(r, <<g, k>>), k = RowsOf(g)
    PROVE  At(r, <<g + 1, 0>>)
  BY DEF At, EmptyBetween, TypeOK, CursorType, GroupIds

\* Stepping past the end of the last group exhausts the stream.
LEMMA LastGroupExhausts ==
    ASSUME TypeOK, NEW r \in Int \X Int, NEW g \in GroupIds, NEW k \in Nat,
           At(r, <<g, k>>), k = RowsOf(g), g + 1 >= Len(params_.groups)
    PROVE  Exhausted(r)
  BY DEF At, Exhausted, EmptyBetween, TypeOK, CursorType, GroupIds

\* A stream with a row to come is not exhausted.
LEMMA FollowsNotExhausted ==
    ASSUME TypeOK, NEW r \in Int \X Int, NEW s \in Int \X Int, Follows(r, s)
    PROVE  ~Exhausted(r)
  BY DEF Follows, Exhausted, EmptyBetween, TypeOK, CursorType, GroupIds

LEMMA LastTakenType == ASSUME TypeOK PROVE LastTaken \in Int \X Int
  BY DEF LastTaken, Origin, TypeOK, HistoryType

\* The row read next is the one that follows the last one read.
LEMMA OrderStep ==
    TypeOK /\ CallInv /\ RowsInOrder /\ StreamInv /\ [Next]_vars => RowsInOrder'
  <1> SUFFICES ASSUME TypeOK, CallInv, RowsInOrder, StreamInv, [Next]_vars
               PROVE  RowsInOrder'
    OBVIOUS
  <1>1. CASE taken' = <<>>
    BY <1>1 DEF RowsInOrder
  <1>2. CASE UNCHANGED <<taken, params_, clean>>
    BY <1>2 DEF RowsInOrder, Follows, EmptyBetween, RowsOf, GroupIds
  <1>3. CASE ReadRow
    <2>1. CASE ~clean
      BY <1>2, <1>3, <2>1 DEF ReadRow, cursor
    <2>2. CASE clean
      <3>1. CurrentRow = <<group_, row>> /\ Follows(LastTaken, <<group_, row>>)
        BY <1>3, <2>2 DEF ReadRow, StreamInv, CallInv, Executing, CurrentRow
      <3>2. taken' = Append(taken, CurrentRow) /\ UNCHANGED params_ /\ clean'
        BY <1>3, <2>2 DEF ReadRow, cursor
      <3>3. taken \in Seq(Int \X Int)
        BY DEF TypeOK, HistoryType
      <3>4. \A r, s : Follows(r, s)' <=> Follows(r, s)
        BY <3>2 DEF Follows, EmptyBetween, RowsOf, GroupIds
      <3>5. ASSUME NEW k \in 1 .. Len(taken')
            PROVE  Follows(IF k = 1 THEN Origin ELSE taken'[k - 1], taken'[k])
        <4>1. CASE k <= Len(taken)
          BY <2>2, <3>2, <3>3, <4>1 DEF RowsInOrder
        <4>2. CASE k = Len(taken) + 1
          BY <3>1, <3>2, <3>3, <4>2 DEF LastTaken
        <4> QED
          BY <3>2, <3>3, <4>1, <4>2
      <3> QED
        BY <3>4, <3>5 DEF RowsInOrder, Origin
    <2> QED
      BY <2>1, <2>2
  <1>4. CASE CreatePlain \/ CreateParameterised
    BY <1>1, <1>4 DEF CreatePlain, CreateParameterised, InitCursor
  <1>5. ASSUME NEW p \in ParamLists, Bind(p) PROVE RowsInOrder'
    BY <1>1, <1>2, <1>5 DEF Bind, BindRejected, BindEmpty, BindFirst, BindFails,
       InitCursor, Spoil, vars, cursor, history
  <1>6. ASSUME NEW n \in FetchSizes, Fetch(n) PROVE RowsInOrder'
    BY <1>2, <1>6 DEF Fetch, FetchNothing, FetchCall, vars, cursor, history
  <1>7. CASE StepRow \/ StepLast \/ StepNextGroup \/ Advance \/ FetchReturn
    BY <1>2, <1>7 DEF StepRow, StepLast, StepNextGroup, Advance, FetchReturn,
       cursor, history
  <1>8. CASE StepNextGroupFails \/ StepError \/ Interrupted \/ Release
    BY <1>1, <1>2, <1>8 DEF StepNextGroupFails, StepError, Interrupted, Release, Spoil
  <1>9. CASE UNCHANGED vars
    BY <1>2, <1>9 DEF vars, cursor, history
  <1> QED
    BY <1>3, <1>4, <1>5, <1>6, <1>7, <1>8, <1>9 DEF Next, Run

\* Stepping ahead keeps the statement right after the last row read.
LEMMA StreamStep ==
    /\ TypeOK /\ CallInv /\ ParamsInv /\ PlainInv /\ StreamInv
    /\ [Next]_vars
    => StreamInv'
  <1> SUFFICES ASSUME TypeOK, CallInv, ParamsInv, PlainInv, StreamInv, [Next]_vars
               PROVE  StreamInv'
    OBVIOUS
  <1>1. CASE ~clean' \/ ~live' \/ ~ready_'
    BY <1>1 DEF StreamInv
  <1>2. CASE /\ UNCHANGED <<live, ready_, clean, complete_, group_, params_, taken,
                            slot, job, vm, row>>
             /\ pc # "step" /\ pc' # "step"
    BY <1>2 DEF StreamInv, Executing, Follows, Exhausted, EmptyBetween, RowsOf,
       GroupIds, LastTaken
  <1>a. ASSUME taken' = <<>>, group_' = 0, slot' = 0, vm' = "ready", pc' = "step",
               complete_' = FALSE, params_'.groups \in Seq(Execution),
               Len(params_'.groups) > 0, job' = params_'.groups[1]
        PROVE  StreamInv'
    <2>1. LastTaken' = Origin /\ Position' = Origin
      BY <1>a DEF LastTaken, Position, Origin
    <2>2. 0 \in GroupIds'
      BY <1>a DEF GroupIds
    <2>3. RowsOf(0)' \in Nat
      <3>1. params_'.groups[0 + 1] \in Execution
        BY <1>a
      <3> QED
        BY <3>1 DEF RowsOf, Execution
    <2>4. Executing'
      BY <1>a, <2>2 DEF Executing
    <2>5. At(LastTaken, Position)'
      BY <2>1 DEF At
    <2> QED
      BY <1>a, <2>1, <2>2, <2>3, <2>4, <2>5 DEF StreamInv, Origin
  <1>3. CASE CreatePlain
    <2>1. PICK j \in {g \in Groups : g.ok} :
              params_' = [lens |-> <<>>, groups |-> <<j>>] /\ job' = j
      BY <1>3 DEF CreatePlain
    <2>2. j \in Execution
      BY GroupsAssumption
    <2>3. params_'.groups = <<j>> /\ params_'.groups[1] = j
      BY <2>1
    <2>4. params_'.groups \in Seq(Execution) /\ Len(params_'.groups) > 0
      BY <2>2, <2>3
    <2> QED
      BY <1>3, <1>a, <2>1, <2>3, <2>4 DEF CreatePlain, InitCursor
  <1>4. ASSUME NEW p \in ParamLists, Bind(p) PROVE StreamInv'
    <2>1. CASE BindRejected(p)
      BY <1>2, <2>1 DEF BindRejected, vars, cursor, engine, call, history
    <2>2. CASE BindEmpty(p)
      <3>1. GroupIds' = {}
        BY <2>2, ParamsType DEF BindEmpty, BindAccepted, GroupIds
      <3>2. complete_' /\ pc' # "step"
        BY <2>2 DEF BindEmpty, BindAccepted, InitCursor, call
      <3> QED
        BY <3>1, <3>2 DEF StreamInv, Exhausted
    <2>3. CASE BindFirst(p)
      <3>1. /\ params_' = p /\ group_' = 0 /\ taken' = <<>> /\ pc' = "step"
            /\ complete_' = FALSE /\ Len(p.groups) > 0
        BY <2>3 DEF BindFirst, BindAccepted, InitCursor
      <3>2. vm' = "ready" /\ slot' = 0 /\ job' = p.groups[1]
        BY <2>3 DEF BindFirst, BindRow
      <3>3. p.groups \in Seq(Execution)
        BY ParamsType
      <3> QED
        BY <1>a, <3>1, <3>2, <3>3
    <2>4. CASE BindFails(p)
      BY <1>1, <2>4 DEF BindFails, Spoil
    <2> QED
      BY <1>4, <2>1, <2>2, <2>3, <2>4 DEF Bind
  <1>5. ASSUME NEW n \in FetchSizes, Fetch(n) PROVE StreamInv'
    BY <1>2, <1>5 DEF Fetch, FetchNothing, FetchCall, vars, cursor, engine, call, history
  <1>6. CASE Advance \/ FetchReturn
    BY <1>2, <1>6 DEF Advance, FetchReturn, cursor, engine, history
  <1>7. CASE Interrupted
    BY <1>1, <1>2, <1>7 DEF Interrupted, Throw, engine
  <1>8. CASE CreateParameterised \/ StepNextGroupFails \/ StepError \/ Release
    BY <1>1, <1>8 DEF CreateParameterised, StepNextGroupFails, StepError, Release, Spoil
  <1>9. CASE UNCHANGED vars
    BY <1>9 DEF vars, cursor, engine, call, history, StreamInv, Executing, Follows,
       Exhausted, EmptyBetween, RowsOf, GroupIds, LastTaken, Position, At
  <1>b. ASSUME UNCHANGED params_
        PROVE  /\ GroupIds' = GroupIds
               /\ \A g : RowsOf(g)' = RowsOf(g)
               /\ \A r, p : Follows(r, p)' <=> Follows(r, p)
               /\ \A r, p : At(r, p)' <=> At(r, p)
               /\ \A r : Exhausted(r)' <=> Exhausted(r)
    BY <1>b DEF Follows, At, Exhausted, EmptyBetween, RowsOf, GroupIds
  <1>10. ASSUME live, ready_, clean, ReadRow PROVE StreamInv'
    <2>1. /\ Executing /\ vm = "run" /\ Follows(LastTaken, <<group_, row>>)
          /\ CurrentRow = <<group_, row>>
      BY <1>10 DEF ReadRow, StreamInv, Executing, CurrentRow
    <2>2. taken' = Append(taken, <<group_, row>>) /\ UNCHANGED <<cursor, engine>>
      BY <1>10, <2>1 DEF ReadRow
    <2>3. LastTaken' = <<group_, row>> /\ Position' = <<group_, row>>
      BY <2>1, <2>2 DEF LastTaken, Position, TypeOK, HistoryType, cursor, engine
    <2>4. Executing' /\ row <= RowsOf(group_)
      BY <2>1, <2>2 DEF Executing, Follows, GroupIds, cursor, engine
    <2>5. UNCHANGED <<params_, complete_, group_>> /\ ~complete_ /\ pc' = "step"
      BY <1>10 DEF ReadRow, cursor
    <2>6. At(LastTaken, Position)'
      BY <2>3 DEF At
    <2> QED
      BY <1>b, <2>1, <2>3, <2>4, <2>5, <2>6 DEF StreamInv, Executing
  <1>11. ASSUME live, ready_, clean, pc = "step"
         PROVE  /\ Executing /\ ~complete_
                /\ At(LastTaken, <<group_, NextRow - 1>>)
                /\ NextRow \in Nat /\ NextRow - 1 \in Nat /\ NextRow - 1 <= RowsOf(group_)
                /\ job.rows = RowsOf(group_) /\ RowsOf(group_) \in Nat
                /\ LastTaken[1] \in GroupIds
    <2>1. Executing /\ ~complete_ /\ At(LastTaken, Position) /\ Position[2] <= RowsOf(group_)
      BY <1>11 DEF StreamInv, CallInv
    <2>2. Position = <<group_, NextRow - 1>> /\ NextRow \in Nat /\ NextRow - 1 \in Nat
      BY DEF Position, NextRow, TypeOK, EngineType
    <2>3. job.rows = RowsOf(group_) /\ job.rows \in Nat
      BY <2>1 DEF Executing, RowsOf, TypeOK, EngineType, Execution
    <2>4. LastTaken[1] \in GroupIds
      BY <1>11, <2>1 DEF StreamInv, Executing
    <2> QED
      BY <2>1, <2>2, <2>3, <2>4
  <1>12. ASSUME live, ready_, clean, StepRow PROVE StreamInv'
    <2>1. pc = "step" /\ NextRow <= job.rows /\ vm' = "run" /\ row' = NextRow
      BY <1>12 DEF StepRow
    <2>2. Follows(LastTaken, <<group_, NextRow>>)
      <3>1. At(LastTaken, <<group_, NextRow - 1>>) /\ (NextRow - 1) + 1 <= RowsOf(group_)
        BY <1>11, <1>12, <2>1
      <3>2. group_ \in GroupIds /\ NextRow - 1 \in Nat /\ (NextRow - 1) + 1 = NextRow
        BY <1>11, <1>12, <2>1 DEF Executing
      <3> QED
        BY <3>1, <3>2, NextRowFollows, LastTakenType
    <2>3. UNCHANGED <<params_, complete_, group_, slot, job, taken>> /\ pc' # "step"
      BY <1>12 DEF StepRow, StepReturns, cursor, history
    <2>4. LastTaken' = LastTaken /\ Executing'
      BY <1>11, <1>12, <2>1, <2>3, <1>b DEF LastTaken, Executing
    <2> QED
      BY <1>11, <1>12, <1>b, <2>1, <2>2, <2>3, <2>4 DEF StreamInv
  <1>13. ASSUME live, ready_, clean, StepLast PROVE StreamInv'
    <2>1. pc = "step" /\ NextRow > job.rows /\ complete_' /\ ~MoreGroups
      BY <1>13 DEF StepLast, StepDone
    <2>2. group_ \in GroupIds /\ NextRow - 1 = RowsOf(group_)
      BY <1>11, <1>13, <2>1 DEF Executing
    <2>3. group_ + 1 >= Len(params_.groups)
      <3>1. CASE nparams = 0
        <4>1. Len(params_.groups) = 1
          BY <1>13, <3>1, Zenon DEF PlainInv
        <4> QED
          BY <4>1, <2>2 DEF GroupIds, TypeOK, CursorType
      <3>2. CASE nparams # 0
        BY <2>1, <3>2 DEF MoreGroups, ParamsInv, TypeOK, CursorType
      <3> QED
        BY <3>1, <3>2
    <2>4. Exhausted(LastTaken)
      BY <1>11, <1>13, <2>1, <2>2, <2>3, LastGroupExhausts, LastTakenType
    <2>5. UNCHANGED <<params_, taken>> /\ pc' # "step"
      BY <1>13 DEF StepLast, StepReturns, history
    <2>6. LastTaken' = LastTaken
      BY <2>5 DEF LastTaken
    <2> QED
      BY <1>11, <1>13, <1>b, <2>1, <2>4, <2>5, <2>6 DEF StreamInv
  <1>15. ASSUME live, ready_, clean, StepNextGroup PROVE StreamInv'
    <2>1. pc = "step" /\ NextRow > job.rows /\ MoreGroups /\ group_' = group_ + 1
      BY <1>15 DEF StepNextGroup, StepDone
    <2>2. group_ \in GroupIds /\ NextRow - 1 = RowsOf(group_)
      BY <1>11, <1>15, <2>1 DEF Executing
    <2>3. group_ + 1 \in GroupIds
      BY <2>1, <2>2 DEF MoreGroups, ParamsInv, TypeOK, CursorType, GroupIds
    <2>4. At(LastTaken, <<group_ + 1, 0>>)
      BY <1>11, <1>15, <2>1, <2>2, NextGroupAt, LastTakenType
    <2>5. /\ UNCHANGED <<params_, taken, complete_, pc>>
          /\ vm' = "ready" /\ slot' = group_ + 1 /\ job' = params_.groups[group_ + 2]
      BY <1>15 DEF StepNextGroup, BindRow, call, TypeOK, CursorType
    <2>6. LastTaken' = LastTaken /\ Position' = <<group_ + 1, 0>>
      BY <2>1, <2>5 DEF LastTaken, Position
    <2>7. RowsOf(group_ + 1) \in Nat
      <3>1. params_.groups[(group_ + 1) + 1] \in Execution
        BY <2>3 DEF GroupIds, TypeOK, CursorType
      <3> QED
        BY <3>1 DEF RowsOf, Execution
    <2>8. Executing'
      BY <1>b, <2>1, <2>3, <2>5 DEF Executing, TypeOK, CursorType
    <2> QED
      BY <1>11, <1>15, <1>b, <2>1, <2>4, <2>5, <2>6, <2>7, <2>8 DEF StreamInv
  <1>14. CASE (ReadRow \/ StepRow \/ StepLast \/ StepNextGroup) /\ ~(live /\ ready_ /\ clean)
    BY <1>1, <1>14 DEF ReadRow, StepRow, StepLast, StepNextGroup, cursor, history
  <1> QED
    BY <1>3, <1>4, <1>5, <1>6, <1>7, <1>8, <1>9, <1>10, <1>12, <1>13, <1>14, <1>15
       DEF Next, Run

(***************************************************************************)
(* The data frame and the count of rows.                                   *)
(***************************************************************************)

\* The data frame of a fetch never holds more than n rows, and is returned
\* early only with complete_ set.
LEMMA FrameStep == TypeOK /\ CallInv /\ FrameInv /\ [Next]_vars => FrameInv'
  <1> SUFFICES ASSUME TypeOK, CallInv, FrameInv, [Next]_vars PROVE FrameInv'
    OBVIOUS
  <1> USE BoundsAssumption
      DEF TypeOK, CallType, CallInv, FrameInv, InLoop, HasUncounted
  <1>1. CASE CreatePlain
    BY <1>1 DEF CreatePlain
  <1>2. ASSUME NEW p \in ParamLists, Bind(p) PROVE FrameInv'
    BY <1>2 DEF Bind, BindRejected, BindAccepted, BindEmpty, BindFirst, BindFails,
       vars, call
  <1>3. ASSUME NEW n \in FetchSizes, Fetch(n) PROVE FrameInv'
    BY <1>3 DEF Fetch, FetchNothing, FetchCall, vars, call
  <1>4. CASE ReadRow
    BY <1>4 DEF ReadRow
  <1>5. CASE StepRow \/ StepLast
    BY <1>5 DEF StepRow, StepLast, StepDone, StepReturns
  <1>6. CASE StepNextGroupFails \/ StepError \/ Interrupted
    BY <1>6 DEF StepNextGroupFails, StepError, Interrupted, Throw
  <1>7. CASE Advance
    BY <1>7 DEF Advance
  <1>8. CASE FetchReturn
    BY <1>8 DEF FetchReturn
  <1>9. CASE UNCHANGED call
    BY <1>9 DEF call
  <1> QED
    BY <1>1, <1>2, <1>3, <1>4, <1>5, <1>6, <1>7, <1>8, <1>9
       DEF Next, Run, CreateParameterised, StepNextGroup, Release, vars

LEMMA AppendOfConcat ==
    ASSUME NEW a \in Seq(Int \X Int), NEW b \in Seq(Int \X Int),
           NEW x \in Int \X Int
    PROVE  Append(a \o b, x) = a \o Append(b, x)
  <1> DEFINE S == Int \X Int
  <1>1. a \in Seq(S) /\ b \in Seq(S) /\ x \in S
    OBVIOUS
  <1> HIDE DEF S
  <1>2. a \o b \in Seq(S) /\ <<x>> \in Seq(S)
    BY <1>1, ConcatProperties
  <1>3. Append(a \o b, x) = (a \o b) \o <<x>> /\ Append(b, x) = b \o <<x>>
    BY <1>1, <1>2, AppendIsConcat
  <1> QED
    BY <1>1, <1>2, <1>3, ConcatAssociative

\* The rows read are the rows delivered and those of the data frame, and nrows_
\* counts them.
LEMMA CountStep ==
    TypeOK /\ CallInv /\ FrameInv /\ CountInv /\ [Next]_vars => CountInv'
  <1> SUFFICES ASSUME TypeOK, CallInv, FrameInv, CountInv, [Next]_vars
               PROVE  CountInv'
    OBVIOUS
  <1> USE DEF TypeOK, CursorType, CallType, HistoryType, CallInv, HasUncounted
  <1>1. CASE ~clean' \/ ~live' \/ ~ready_'
    BY <1>1 DEF CountInv
  <1>2. ASSUME UNCHANGED <<live, ready_, clean, intact, nrows_, taken, delivered, frame>>,
               HasUncounted' <=> HasUncounted
        PROVE  CountInv'
    BY <1>2 DEF CountInv
  <1>3. ASSUME taken' = <<>>, delivered' = <<>>, frame' = <<>>, nrows_' = 0,
               ~HasUncounted'
        PROVE  CountInv'
    BY <1>3 DEF CountInv
  <1>4. CASE CreatePlain
    BY <1>3, <1>4 DEF CreatePlain, InitCursor, FrameInv, InLoop
  <1>5. ASSUME NEW p \in ParamLists, Bind(p) PROVE CountInv'
    <2>1. CASE BindRejected(p)
      BY <1>2, <2>1 DEF BindRejected, vars, cursor, call, history
    <2>2. CASE BindEmpty(p) \/ BindFirst(p)
      BY <1>3, <2>2 DEF BindEmpty, BindFirst, BindAccepted, InitCursor, FrameInv,
         InLoop, call
    <2>3. CASE BindFails(p)
      BY <1>1, <2>3 DEF BindFails, Spoil
    <2> QED
      BY <1>5, <2>1, <2>2, <2>3 DEF Bind
  <1>6. ASSUME NEW n \in FetchSizes, Fetch(n) PROVE CountInv'
    BY <1>2, <1>6 DEF Fetch, FetchNothing, FetchCall, FrameInv, InLoop, vars, cursor,
       call, history
  <1>7. CASE ReadRow
    <2>1. CASE clean /\ live /\ ready_
      <3>1. CurrentRow \in Int \X Int
        BY DEF CurrentRow, NoRow, Partial, EngineType
      <3>2. taken' = Append(taken, CurrentRow) /\ frame' = Append(frame, CurrentRow)
            /\ UNCHANGED <<nrows_, delivered, intact>>
            /\ ~HasUncounted /\ HasUncounted'
        BY <1>7, <2>1 DEF ReadRow, cursor
      <3>3. intact => taken' = delivered' \o frame'
        <4>1. intact => Append(taken, CurrentRow) = Append(delivered \o frame, CurrentRow)
          BY <2>1, Zenon DEF CountInv
        <4>2. Append(delivered \o frame, CurrentRow) = delivered \o Append(frame, CurrentRow)
          <5>1. delivered \in Seq(Int \X Int) /\ frame \in Seq(Int \X Int)
            OBVIOUS
          <5> QED
            BY ONLY <3>1, <5>1, AppendOfConcat
        <4> QED
          BY <3>2, <4>1, <4>2
      <3>4. Len(taken') = nrows_ + 1
        BY <2>1, <3>1, <3>2 DEF CountInv
      <3> QED
        BY <3>2, <3>3, <3>4 DEF CountInv
    <2> QED
      BY <1>1, <1>7, <2>1 DEF ReadRow, cursor
  <1>8. CASE StepRow \/ StepLast \/ StepNextGroup
    BY <1>2, <1>8 DEF StepRow, StepLast, StepNextGroup, StepDone, StepReturns, cursor,
       call, history
  <1>9. CASE StepNextGroupFails \/ StepError \/ CreateParameterised \/ Release
    BY <1>1, <1>9 DEF StepNextGroupFails, StepError, CreateParameterised, Release, Spoil
  <1>10. CASE Advance
    BY <1>10 DEF Advance, CountInv, history
  <1>11. CASE Interrupted
    BY <1>11 DEF Interrupted, Throw, CountInv
  <1>12. CASE FetchReturn
    <2>1. ~HasUncounted /\ ~HasUncounted' /\ frame' = <<>>
          /\ UNCHANGED <<taken, nrows_, clean, live, ready_, intact>>
      BY <1>12 DEF FetchReturn, cursor
    <2>2. CASE clean
      <3>1. delivered' \o frame' = delivered \o frame
        <4>1. delivered' = delivered \o frame /\ frame' = <<>>
          BY <1>12, <2>2 DEF FetchReturn
        <4>2. delivered \o frame \in Seq(Int \X Int)
          BY DEF TypeOK, HistoryType, CallType
        <4> QED
          BY <4>1, <4>2, ConcatEmptySeq
      <3> QED
        BY <2>1, <3>1 DEF CountInv
    <2> QED
      BY <1>1, <2>1, <2>2
  <1>13. CASE UNCHANGED vars
    BY <1>2, <1>13 DEF vars, cursor, call, history
  <1> QED
    BY <1>4, <1>5, <1>6, <1>7, <1>8, <1>9, <1>10, <1>11, <1>12, <1>13 DEF Next, Run

-----------------------------------------------------------------------------

\* IInv is inductive.
LEMMA IInvStep == IInv /\ [Next]_vars => IInv'
  BY TypeStep, ParamsStep, CallStep, InBoundsStep, FreesStep, OrderStep, StreamStep,
     FrameStep, CountStep DEF IInv

\* The inductive invariant holds in every reachable state.
THEOREM Invariance == Spec => []IInv
  BY InitIInv, IInvStep, PTL DEF Spec

\* The state variables of a result set keep their types.
THEOREM TypeCorrect == Spec => []TypeOK
  <1>1. IInv => TypeOK
    BY DEF IInv
  <1> QED
    BY <1>1, Invariance, PTL

\* fetch() reads the rows of every binding in order, none twice, none left out,
\* as long as no step and no binding failed.
THEOREM OrderCorrect == Spec => []RowsInOrder
  <1>1. IInv => RowsInOrder
    BY DEF IInv
  <1> QED
    BY <1>1, Invariance, PTL

\* complete() tells the truth between calls.
THEOREM CompletionCorrect == Spec => []CompleteIsExact
  <1>1. ASSUME IInv, live, ready_, clean, pc = "idle"
        PROVE  complete_ <=> Exhausted(LastTaken)
    <2>1. TypeOK /\ StreamInv
      BY <1>1 DEF IInv
    <2>2. CASE complete_
      BY <1>1, <2>1, <2>2 DEF StreamInv
    <2>3. CASE ~complete_
      <3>1. Follows(LastTaken, <<group_, row>>)
        BY <1>1, <2>1, <2>3 DEF StreamInv
      <3>2. <<group_, row>> \in Int \X Int
        BY <2>1 DEF TypeOK, CursorType, EngineType
      <3> QED
        BY <2>1, <2>3, <3>1, <3>2, FollowsNotExhausted, LastTakenType
    <2> QED
      BY <2>2, <2>3
  <1>2. IInv => CompleteIsExact
    BY <1>1 DEF CompleteIsExact
  <1> QED
    BY <1>2, Invariance, PTL

\* nrows_ and the delivered data frames account for every row read.
THEOREM CountCorrect == Spec => []FetchedIsDelivered
  <1>1. IInv => FetchedIsDelivered
    <2> SUFFICES ASSUME IInv, live, ready_, clean, pc = "idle"
                 PROVE  nrows_ = Len(taken) /\ (intact => delivered = taken)
      BY DEF FetchedIsDelivered
    <2>1. frame = <<>> /\ ~HasUncounted
      BY DEF IInv, FrameInv, InLoop, HasUncounted
    <2>2. delivered \o frame = delivered
      BY <2>1, ConcatEmptySeq DEF IInv, TypeOK, HistoryType
    <2> QED
      BY <2>1, <2>2 DEF IInv, CountInv
  <1> QED
    BY <1>1, Invariance, PTL

\* No parameter vector is read past its end.
THEOREM BoundsCorrect == Spec => []InBounds
  <1>1. IInv => InBounds
    BY DEF IInv
  <1> QED
    BY <1>1, Invariance, PTL

\* A complete result set has left its rows, except after a bind to nothing.
THEOREM FreesCorrect == Spec => []CompleteFreesStatement
  <1>1. IInv => CompleteFreesStatement
    BY DEF IInv
  <1> QED
    BY <1>1, Invariance, PTL

\* A data frame shorter than asked for means that the rows ran out.
THEOREM FetchSizeCorrect == Spec => ShortOnlyAtEnd
  <1>1. IInv /\ [Next]_vars =>
            [FetchReturn => complete_ \/ (n_max > 0 /\ Len(frame) = n_max)]_vars
    BY DEF IInv, FrameInv, HasUncounted, FetchReturn
  <1> QED
    BY <1>1, Invariance, PTL DEF Spec, ShortOnlyAtEnd

(***************************************************************************)
(* The count of changes.                                                   *)
(***************************************************************************)

\* The count grows by the changes of one execution after the other.
LEMMA ChangesOfSteps ==
    ASSUME NEW groups \in Seq(Execution)
    PROVE  /\ ChangesOf(groups)[0] = 0
           /\ \A k \in 1 .. Len(groups) :
                 ChangesOf(groups)[k] = ChangesOf(groups)[k - 1] + groups[k].changes
  <1> DEFINE N == Len(groups)
             Graph(f) == [k \in 0 .. N |-> IF k = 0 THEN 0 ELSE f[k - 1] + groups[k].changes]
             step == [p \in (1 .. N) \X Nat |-> p[2] + groups[p[1]].changes]
  <1>1. ChangesOf(groups) = CHOOSE f : f = Graph(f)
    BY DEF ChangesOf
  <1>2. N \in Nat /\ \A k \in 1 .. N : groups[k].changes \in Nat
    <2>1. \A k \in 1 .. N : groups[k] \in Execution
      OBVIOUS
    <2> QED
      BY <2>1 DEF Execution
  <1> HIDE DEF N
  <1>3. ASSUME NEW k \in 1 .. N, NEW v \in Nat
        PROVE  step[<<k, v>>] = v + groups[k].changes /\ step[<<k, v>>] \in Nat
    BY <1>2
  <1> HIDE DEF step
  <1>4. PICK h : Recursion(h, N, Nat, 0, step)
    <2>1. StepsInto(N, Nat, step)
      BY <1>3 DEF StepsInto
    <2> QED
      BY <1>2, <2>1, RecursionExists
  <1>5. h = Graph(h)
    <2>1. \A k \in 0 .. N : h[k] = Graph(h)[k]
      <3> SUFFICES ASSUME NEW k \in 0 .. N PROVE h[k] = Graph(h)[k]
        OBVIOUS
      <3>1. CASE k = 0
        BY <1>4, <3>1 DEF Recursion
      <3>2. CASE k # 0
        <4>1. k \in 1 .. N
          BY <1>2, <3>2
        <4>2. h[k] = step[<<k, h[k - 1]>>]
          BY <1>4, <4>1 DEF Recursion
        <4>3. h[k - 1] \in Nat
          <5>1. k - 1 \in 0 .. N
            BY <1>2, <4>1
          <5> QED
            BY <1>4, <5>1 DEF Recursion
        <4> QED
          BY <1>3, <3>2, <4>1, <4>2, <4>3
      <3> QED
        BY <3>1, <3>2
    <2> QED
      BY <1>4, <2>1 DEF Recursion
  <1>6. ChangesOf(groups) = Graph(ChangesOf(groups))
    <2> HIDE DEF Graph
    <2> QED
      BY <1>1, <1>5, Zenon
  <1> QED
    BY <1>2, <1>6 DEF N

AffectedInv ==
    (live /\ ready_ /\ clean) =>
        /\ group_ <= Len(params_.groups)
        /\ ChangesOf(params_.groups)[group_] \in Nat
        /\ delta = ChangesOf(params_.groups)[group_] + stale

\* An execution that ends adds its own changes, and every other step none.
LEMMA AffectedStep == IInv /\ AffectedInv /\ [Next]_vars => AffectedInv'
  <1> SUFFICES ASSUME IInv, AffectedInv, [Next]_vars PROVE AffectedInv'
    OBVIOUS
  <1> USE DEF IInv, AffectedInv
  <1>1. CASE /\ UNCHANGED <<group_, delta, params_, stale>>
             /\ (live' => live) /\ (ready_' => ready_) /\ (clean' => clean)
    BY <1>1
  <1>2. ASSUME group_' = 0, delta' = stale', stale' \in Nat,
               params_'.groups \in Seq(Execution)
        PROVE  AffectedInv'
    BY <1>2, ChangesOfSteps
  <1>3. CASE CreatePlain
    <2>1. params_'.groups \in Seq(Execution)
      BY <1>3, GroupsAssumption DEF CreatePlain
    <2> QED
      BY <1>2, <1>3, <2>1 DEF CreatePlain
  <1>4. CASE CreateParameterised
    BY <1>4 DEF CreateParameterised
  <1>5. ASSUME NEW p \in ParamLists, Bind(p) PROVE AffectedInv'
    <2>1. p.groups \in Seq(Execution)
      BY ParamsType
    <2>2. CASE BindRejected(p)
      BY <1>1, <2>2 DEF BindRejected, vars, cursor, engine, history
    <2>3. CASE BindEmpty(p)
      BY <1>2, <2>1, <2>3 DEF BindEmpty, BindAccepted
    <2>4. CASE BindFirst(p)
      <3>1. delta' = stale' /\ stale' \in Nat
        BY <2>4, ResetChangesType DEF BindFirst, RestartCount
      <3> QED
        BY <1>2, <2>1, <2>4, <3>1 DEF BindFirst, BindAccepted
    <2>5. CASE BindFails(p)
      BY <2>5 DEF BindFails, Spoil
    <2> QED
      BY <1>5, <2>2, <2>3, <2>4, <2>5 DEF Bind
  <1>6. ASSUME NEW n \in FetchSizes, Fetch(n) PROVE AffectedInv'
    BY <1>1, <1>6 DEF Fetch, FetchNothing, FetchCall, vars, cursor, engine, history
  <1>7. CASE ReadRow \/ StepRow \/ Advance \/ FetchReturn
    BY <1>1, <1>7 DEF ReadRow, StepRow, Advance, FetchReturn, cursor, engine, history
  <1>8. CASE StepLast \/ StepNextGroup
    <2>1. /\ pc = "step" /\ group_' = group_ + 1 /\ delta' = delta + job.changes
          /\ UNCHANGED <<live, ready_, clean, stale, params_>>
      BY <1>8 DEF StepLast, StepNextGroup, StepDone, history
    <2> SUFFICES ASSUME live, ready_, clean
                 PROVE  LET sum == ChangesOf(params_.groups)[group_ + 1] IN
                        /\ group_ + 1 <= Len(params_.groups)
                        /\ sum \in Nat /\ delta + job.changes = sum + stale
      BY <2>1
    <2>2. group_ \in GroupIds /\ job = params_.groups[group_ + 1]
      BY <2>1 DEF StreamInv, Executing
    <2>3. group_ + 1 \in 1 .. Len(params_.groups) /\ params_.groups \in Seq(Execution)
          /\ (group_ + 1) - 1 = group_
      BY <2>2 DEF GroupIds, TypeOK, CursorType
    <2>4. job.changes \in Nat /\ stale \in Nat
      BY DEF TypeOK, FlagsType, EngineType, Execution
    <2>5. ChangesOf(params_.groups)[group_ + 1] = ChangesOf(params_.groups)[group_] + job.changes
      BY <2>2, <2>3, ChangesOfSteps
    <2> QED
      BY <2>3, <2>4, <2>5
  <1>9. CASE StepNextGroupFails \/ StepError
    BY <1>9 DEF StepNextGroupFails, StepError, Spoil
  <1>10. CASE Interrupted
    BY <1>1, <1>10 DEF Interrupted, Throw, engine
  <1>11. CASE Release
    BY <1>11 DEF Release
  <1>12. CASE UNCHANGED vars
    BY <1>1, <1>12 DEF vars, cursor, engine, history
  <1> QED
    BY <1>3, <1>4, <1>5, <1>6, <1>7, <1>8, <1>9, <1>10, <1>11, <1>12 DEF Next, Run

\* n_rows_affected() counts the changes of the executions that have ended, each
\* once.
THEOREM AffectedCorrect == Spec => []AffectedIsExact
  <1>1. Init => AffectedInv
    BY DEF Init, AffectedInv
  <1>2. AffectedInv => AffectedIsExact
    BY DEF AffectedInv, AffectedIsExact
  <1> QED
    BY <1>1, <1>2, AffectedStep, Invariance, PTL DEF Spec

(***************************************************************************)
(* The refinement of RowCursor: the rows of all groups in one sequence.    *)
(***************************************************************************)

Parts == [g \in 1 .. Len(params_.groups) |-> GroupRows(g - 1)]

Laid(off) == Offsets(off, Parts) /\ Layout(Stream, off, Parts)

\* The place of a row in the stream.
Place(off, r) == off[r[1]] + r[2]

IsRow(r) == r[1] \in GroupIds /\ r[2] \in 1 .. RowsOf(r[1])

LEMMA PartsType ==
    ASSUME TypeOK
    PROVE  /\ Parts \in Seq(Seq(Int \X Int))
           /\ Len(Parts) = Len(params_.groups) /\ Len(Parts) \in Nat
           /\ GroupIds = 0 .. Len(Parts) - 1
           /\ \A g \in GroupIds : RowsOf(g) \in Nat /\ Parts[g + 1] = GroupRows(g)
                                  /\ Len(GroupRows(g)) = RowsOf(g)
  <1>1. params_.groups \in Seq(Execution) /\ Len(params_.groups) \in Nat
    BY DEF TypeOK, CursorType
  <1>2. ASSUME NEW g \in GroupIds
        PROVE  /\ RowsOf(g) \in Nat
               /\ GroupRows(g) \in Seq(Int \X Int) /\ Len(GroupRows(g)) = RowsOf(g)
    <2>1. g \in Int /\ g + 1 \in 1 .. Len(params_.groups)
      BY <1>1 DEF GroupIds
    <2>2. params_.groups[g + 1] \in Execution
      BY <1>1, <2>1
    <2>3. RowsOf(g) \in Nat
      BY <2>2 DEF RowsOf, Execution
    <2>4. \A k \in 1 .. RowsOf(g) : <<g, k>> \in Int \X Int
      BY <2>1
    <2> QED
      BY <2>3, <2>4 DEF GroupRows
  <1>3. ASSUME NEW g \in 1 .. Len(params_.groups) PROVE g - 1 \in GroupIds
    BY <1>1 DEF GroupIds
  <1>4. Parts \in Seq(Seq(Int \X Int)) /\ Len(Parts) = Len(params_.groups)
    BY <1>1, <1>2, <1>3 DEF Parts
  <1>5. ASSUME NEW g \in GroupIds PROVE Parts[g + 1] = GroupRows(g)
    <2>1. g + 1 \in 1 .. Len(params_.groups) /\ (g + 1) - 1 = g
      BY <1>1 DEF GroupIds
    <2> QED
      BY <2>1 DEF Parts
  <1> QED
    BY <1>1, <1>2, <1>4, <1>5 DEF GroupIds

LEMMA LaidExists == ASSUME TypeOK PROVE Stream \in Seq(Int \X Int) /\ \E off : Laid(off)
  <1>1. Stream = FlattenSeq(Parts)
    BY DEF Stream, Parts
  <1> QED
    BY <1>1, PartsType, FlattenSeqLayout DEF Laid

\* A group adds its rows to the offset; groups without rows nothing.
LEMMA OffsetOfGroup ==
    ASSUME TypeOK, NEW off, Laid(off), NEW g \in GroupIds
    PROVE  /\ off[g] \in Nat /\ off[g + 1] = off[g] + RowsOf(g)
           /\ g \in 0 .. Len(Parts) /\ g + 1 \in 0 .. Len(Parts)
  <1>1. g + 1 \in 1 .. Len(Parts) /\ (g + 1) - 1 = g /\ g \in 0 .. Len(Parts)
        /\ g + 1 \in 0 .. Len(Parts)
    <2>1. Len(Parts) \in Nat /\ GroupIds = 0 .. Len(Parts) - 1
      BY PartsType
    <2>2. g \in 0 .. Len(Parts) - 1
      BY <2>1
    <2> QED
      BY ONLY <2>1, <2>2
  <1>2. off[g + 1] = off[g] + Len(Parts[g + 1]) /\ off[g] \in Nat
    BY <1>1 DEF Laid, Offsets
  <1> QED
    BY <1>1, <1>2, PartsType

LEMMA OffsetOverEmpty ==
    ASSUME TypeOK, NEW off, Laid(off), NEW g \in GroupIds, NEW h \in g + 1 .. Len(Parts),
           EmptyBetween(g, h)
    PROVE  off[h] = off[g + 1]
  <1> DEFINE N == Len(Parts)
             T == {k \in 0 .. N : k <= g \/ k > h \/ off[k] = off[g + 1]}
  <1>1. N \in Nat /\ g \in Nat /\ g + 1 <= h /\ h <= N /\ h \in Nat /\ GroupIds = 0 .. N - 1
    BY PartsType
  <1>2. \A k \in GroupIds : off[k + 1] = off[k] + RowsOf(k) /\ off[k] \in Nat
    BY OffsetOfGroup
  <1> HIDE DEF N
  <1>3. 0 \in T
    BY <1>1
  <1>4. ASSUME NEW k \in 0 .. N - 1, k \in T PROVE k + 1 \in T
    <2>1. k \in GroupIds /\ k + 1 \in 0 .. N
      BY <1>1
    <2>2. CASE k <= g \/ k >= h
      BY <1>1, <2>1, <2>2
    <2>3. CASE g < k /\ k < h
      <3>1. RowsOf(k) = 0 /\ off[k] = off[g + 1]
        BY <1>1, <1>4, <2>1, <2>3 DEF EmptyBetween
      <3> QED
        BY <1>2, <2>1, <3>1
    <2> QED
      BY <1>1, <2>2, <2>3
  <1>5. 0 .. N \subseteq T
    <2> HIDE DEF T
    <2> QED
      BY <1>1, <1>3, <1>4, IntervalInduction
  <1> QED
    BY <1>1, <1>5

\* Rows that follow each other in the bound groups are neighbours in the stream.
LEMMA PlaceOfNext ==
    ASSUME TypeOK, NEW off, Laid(off), NEW r \in Int \X Int, NEW s \in Int \X Int,
           r[1] \in GroupIds, Follows(r, s)
    PROVE  IsRow(s) /\ Place(off, s) = Place(off, r) + 1
  <1>1. s[1] \in GroupIds /\ r[1] \in Int /\ r[2] \in Int /\ s[1] \in Int /\ s[2] \in Int
    BY DEF Follows
  <1>2. IsRow(s)
    BY <1>1, PartsType DEF Follows, IsRow
  <1>3. off[r[1]] \in Nat /\ off[s[1]] \in Nat
    BY <1>1, OffsetOfGroup
  <1>4. CASE s[1] = r[1] /\ s[2] = r[2] + 1
    BY <1>1, <1>2, <1>3, <1>4 DEF Place
  <1>5. CASE /\ r[1] < s[1] /\ s[2] = 1
             /\ r[2] = RowsOf(r[1])
             /\ EmptyBetween(r[1], s[1])
    <2>1. s[1] \in r[1] + 1 .. Len(Parts)
      BY <1>1, <1>5, OffsetOfGroup
    <2>2. off[s[1]] = off[r[1] + 1]
      BY <1>5, <2>1, OffsetOverEmpty
    <2>3. off[r[1] + 1] = off[r[1]] + r[2]
      BY <1>5, OffsetOfGroup
    <2> QED
      BY <1>1, <1>2, <1>3, <1>5, <2>2, <2>3 DEF Place
  <1> QED
    BY <1>2, <1>4, <1>5 DEF Follows

\* The rows read are the first rows of the stream.
LEMMA TakenPlaces ==
    ASSUME TypeOK, RowsInOrder, clean, NEW off, Laid(off)
    PROVE  \A k \in 1 .. Len(taken) : IsRow(taken[k]) /\ Place(off, taken[k]) = k
  <1> DEFINE N == Len(taken)
             Good(k) == IsRow(taken[k]) /\ Place(off, taken[k]) = k
             T == {k \in 0 .. N : k = 0 \/ Good(k)}
  <1>1. N \in Nat /\ \A k \in 1 .. N : taken[k] \in Int \X Int
    BY DEF TypeOK, HistoryType
  <1>2. \A k \in 1 .. N : Follows(IF k = 1 THEN Origin ELSE taken[k - 1], taken[k])
    BY DEF RowsInOrder
  <1> HIDE DEF N
  <1>3. ASSUME NEW k \in 0 .. N - 1, k \in T PROVE Good(k + 1)
    <2> DEFINE r == IF k = 0 THEN Origin ELSE taken[k]
    <2>1. k + 1 \in 1 .. N /\ (k + 1) - 1 = k /\ k \in Nat
      BY <1>1
    <2>2. Follows(r, taken[k + 1]) /\ taken[k + 1] \in Int \X Int
      <3>1. k + 1 = 1 <=> k = 0
        BY <2>1
      <3> QED
        BY <1>1, <1>2, <2>1, <3>1, Zenon
    <2>3. r \in Int \X Int /\ r[1] \in GroupIds /\ Place(off, r) = k
      <3>1. CASE k = 0
        <4>1. 0 \in GroupIds
          BY <2>2, PartsType DEF Follows
        <4>2. off[0] = 0
          BY DEF Laid, Offsets
        <4> QED
          BY <3>1, <4>1, <4>2 DEF Origin, Place
      <3>2. CASE k # 0
        BY <1>1, <1>3, <2>1, <3>2 DEF IsRow
      <3> QED
        BY <3>1, <3>2
    <2> HIDE DEF r
    <2> QED
      BY <2>2, <2>3, PlaceOfNext
  <1>4. 0 .. N \subseteq T
    <2>1. 0 \in T /\ \A k \in 0 .. N - 1 : k \in T => k + 1 \in T
      BY <1>1, <1>3
    <2> HIDE DEF T
    <2> QED
      BY <1>1, <2>1, IntervalInduction
  <1> QED
    BY <1>1, <1>4 DEF N

LEMMA LastTakenPlace ==
    ASSUME TypeOK, RowsInOrder, clean, NEW off, Laid(off), GroupIds # {}
    PROVE  /\ LastTaken \in Int \X Int
           /\ LastTaken[1] \in GroupIds /\ LastTaken[2] \in 0 .. RowsOf(LastTaken[1])
           /\ Place(off, LastTaken) = Len(taken)
  <1>1. LastTaken \in Int \X Int
    BY LastTakenType
  <1>2. CASE taken = <<>>
    <2>1. 0 \in GroupIds /\ RowsOf(0) \in Nat
      <3>1. 0 \in GroupIds
        BY DEF GroupIds, TypeOK, CursorType
      <3> QED
        BY <3>1, PartsType
    <2>2. off[0] = 0
      BY DEF Laid, Offsets
    <2> QED
      BY <1>1, <1>2, <2>1, <2>2 DEF LastTaken, Origin, Place
  <1>3. CASE taken # <<>>
    <2>1. Len(taken) \in 1 .. Len(taken)
      BY <1>3 DEF TypeOK, HistoryType
    <2>2. IsRow(LastTaken) /\ Place(off, LastTaken) = Len(taken)
      BY <1>3, <2>1, TakenPlaces DEF LastTaken
    <2> QED
      BY <1>1, <2>2, PartsType DEF IsRow
  <1> QED
    BY <1>2, <1>3

\* What is read is a prefix of the stream.
LEMMA TakenIsPrefix ==
    ASSUME TypeOK, RowsInOrder, clean
    PROVE  \A k \in 1 .. Len(taken) : k <= Len(Stream) /\ taken[k] = Stream[k]
  <1> SUFFICES ASSUME NEW k \in 1 .. Len(taken)
               PROVE  k <= Len(Stream) /\ taken[k] = Stream[k]
    OBVIOUS
  <1>1. PICK off : Laid(off)
    BY LaidExists
  <1> DEFINE r == taken[k]
             g == r[1]
  <1>2. r \in Int \X Int
    BY DEF TypeOK, HistoryType
  <1>3. g \in GroupIds /\ r[2] \in 1 .. RowsOf(g) /\ off[g] + r[2] = k
    BY <1>1, TakenPlaces DEF IsRow, Place
  <1> HIDE DEF r
  <1> HIDE DEF g
  <1>4. g + 1 \in 1 .. Len(Parts) /\ (g + 1) - 1 = g
        /\ Parts[g + 1] = GroupRows(g) /\ Len(GroupRows(g)) = RowsOf(g)
    <2>1. g \in 0 .. Len(Parts) - 1 /\ Len(Parts) \in Nat
      BY <1>3, PartsType
    <2> QED
      BY <1>3, <2>1, PartsType
  <1>5. Stream[off[(g + 1) - 1] + r[2]] = GroupRows(g)[r[2]]
    BY <1>1, <1>3, <1>4 DEF Laid, Layout
  <1>6. Stream[k] = <<g, r[2]>>
    BY <1>3, <1>4, <1>5 DEF GroupRows
  <1>7. k <= Len(Stream)
    <2>1. off[g + 1] = off[g] + RowsOf(g) /\ off[g] \in Nat /\ RowsOf(g) \in Nat
      BY <1>1, <1>3, OffsetOfGroup, PartsType
    <2>2. off[g + 1] <= off[Len(Parts)] /\ off[Len(Parts)] \in Nat
      <3>1. g + 1 \in 0 .. Len(Parts) /\ Len(Parts) \in g + 1 .. Len(Parts)
            /\ Len(Parts) \in 0 .. Len(Parts)
        BY <1>4, PartsType
      <3> QED
        BY <1>1, <3>1, PartsType, OffsetsGrow DEF Laid, Offsets
    <2>3. Len(Stream) = off[Len(Parts)]
      BY <1>1 DEF Laid, Layout
    <2> QED
      BY <1>3, <2>1, <2>2, <2>3
  <1> QED
    BY <1>2, <1>6, <1>7 DEF g, r

\* The stream is exhausted when all of it has been read.
LEMMA ExhaustedAtEnd ==
    ASSUME TypeOK, RowsInOrder, clean
    PROVE  Exhausted(LastTaken) <=> Len(taken) = Len(Stream)
  <1>1. PICK off : Laid(off)
    BY LaidExists
  <1> DEFINE N == Len(Parts)
             r == LastTaken
             g == r[1]
  <1>2. N \in Nat /\ GroupIds = 0 .. N - 1 /\ Len(params_.groups) = N
    BY PartsType
  <1>3. Len(Stream) = off[N] /\ off[0] = 0 /\ \A k \in 0 .. N : off[k] \in Nat
    BY <1>1 DEF Laid, Layout, Offsets
  <1>4. CASE GroupIds = {}
    <2>1. N = 0
      BY <1>2, <1>4
    <2>2. Len(taken) = 0
      <3>1. Len(taken) \in Nat /\ (Len(taken) # 0 => 1 \in 1 .. Len(taken))
        BY DEF TypeOK, HistoryType
      <3> QED
        BY <1>4, <3>1, <1>1, TakenPlaces DEF IsRow
    <2> QED
      BY <1>3, <1>4, <2>1, <2>2 DEF Exhausted
  <1>5. CASE GroupIds # {}
    <2>1. /\ g \in GroupIds /\ r[2] \in 0 .. RowsOf(g) /\ RowsOf(g) \in Nat
          /\ off[g] + r[2] = Len(taken)
      BY <1>1, <1>5, LastTakenPlace, PartsType DEF Place
    <2> HIDE DEF r
    <2>2. off[g + 1] = off[g] + RowsOf(g) /\ off[g] \in Nat /\ g + 1 \in 0 .. N
          /\ N \in g + 1 .. N /\ N \in 0 .. N
      BY <1>1, <1>2, <2>1, OffsetOfGroup
    <2>3. ASSUME Exhausted(r) PROVE Len(taken) = Len(Stream)
      <3>1. r[2] = RowsOf(g) /\ EmptyBetween(g, N)
        BY <1>2, <1>5, <2>3 DEF Exhausted
      <3>2. off[N] = off[g + 1]
        BY <1>1, <2>1, <2>2, <3>1, OffsetOverEmpty
      <3> QED
        BY <1>3, <2>1, <2>2, <3>1, <3>2
    <2>4. ASSUME Len(taken) = Len(Stream) PROVE Exhausted(r)
      <3>1. ASSUME NEW a \in 0 .. N, NEW b \in a .. N PROVE off[a] <= off[b]
        BY <1>1, <3>1, PartsType, OffsetsGrow DEF Laid
      <3>2. r[2] = RowsOf(g) /\ off[g + 1] = off[N]
        <4>1. off[g + 1] <= off[N] /\ off[g + 1] \in Nat /\ off[N] \in Nat
          BY <1>3, <2>2, <3>1
        <4> QED
          BY <1>3, <2>1, <2>2, <2>4, <4>1
      <3>3. ASSUME NEW k \in GroupIds, g < k PROVE RowsOf(k) = 0
        <4>1. off[k + 1] = off[k] + RowsOf(k) /\ RowsOf(k) \in Nat /\ off[k] \in Nat
              /\ k \in 0 .. N /\ k + 1 \in 0 .. N
          BY <1>1, OffsetOfGroup, PartsType
        <4>2. k \in g + 1 .. N /\ N \in k + 1 .. N
          BY <1>2, <2>1, <3>3, <4>1
        <4>3. off[g + 1] <= off[k] /\ off[k + 1] <= off[N]
          BY <2>2, <3>1, <4>1, <4>2
        <4>4. off[N] \in Nat /\ off[k + 1] \in Nat
          BY <1>3, <2>2, <4>1
        <4> QED
          BY <3>2, <4>1, <4>3, <4>4
      <3> QED
        BY <3>2, <3>3 DEF Exhausted, EmptyBetween
    <2> QED
      BY <2>3, <2>4 DEF r
  <1> QED
    BY <1>4, <1>5

\* Nothing has been read while a new query is stepped to its first row.
FreshInv == (pc = "step" /\ caller # "fetch") => nrows_ = 0 /\ taken = <<>>

LEMMA FreshStep == IInv /\ FreshInv /\ [Next]_vars => FreshInv'
  <1> SUFFICES ASSUME IInv, FreshInv, [Next]_vars PROVE FreshInv'
    OBVIOUS
  <1> USE DEF FreshInv
  <1>1. CASE UNCHANGED <<pc, caller, nrows_, taken>> \/ pc' # "step" \/ caller' = "fetch"
    BY <1>1
  <1>2. CASE CreatePlain
    BY <1>2 DEF CreatePlain, InitCursor
  <1>3. CASE CreateParameterised
    BY <1>3 DEF CreateParameterised, call
  <1>4. ASSUME NEW p \in ParamLists, Bind(p) PROVE FreshInv'
    BY <1>4 DEF Bind, BindRejected, BindEmpty, BindFirst, BindFails, BindAccepted,
       InitCursor, call, vars, cursor, history
  <1>5. ASSUME NEW n \in FetchSizes, Fetch(n) PROVE FreshInv'
    BY <1>1, <1>5 DEF Fetch, FetchNothing, FetchCall, vars, cursor, call, history
  <1>6. CASE ReadRow \/ StepRow \/ StepLast \/ StepNextGroupFails \/ StepError
             \/ Interrupted \/ FetchReturn
    BY <1>1, <1>6 DEF ReadRow, StepRow, StepLast, StepDone, StepReturns,
       StepNextGroupFails, StepError, Interrupted, Throw, FetchReturn
  <1>7. CASE StepNextGroup
    BY <1>1, <1>7 DEF StepNextGroup, call
  <1>8. CASE Advance
    BY <1>1, <1>8 DEF Advance
  <1>9. CASE Release
    BY <1>9 DEF Release, call
  <1>10. CASE UNCHANGED vars
    BY <1>1, <1>10 DEF vars, cursor, call, history
  <1> QED
    BY <1>2, <1>3, <1>4, <1>5, <1>6, <1>7, <1>8, <1>9, <1>10 DEF Next, Run

\* Between two rows, what has been counted has been read.
LEMMA TakenCounted ==
    ASSUME IInv, live, ready_, clean, ~HasUncounted
    PROVE  SubSeq(taken, 1, nrows_) = taken /\ nrows_ = Len(taken)
  <1>1. nrows_ = Len(taken) /\ taken \in Seq(Int \X Int)
    BY DEF IInv, CountInv, TypeOK, HistoryType
  <1> QED
    BY <1>1, SubSeqFull

LEMMA StreamKept == ASSUME UNCHANGED params_ PROVE UNCHANGED Stream
  BY DEF Stream, GroupRows, RowsOf

\* Steps that do not show outside.
LEMMA CursorStutters ==
    ASSUME UNCHANGED <<live, ready_, clean, params_>>,
           (live /\ ready_ /\ clean) =>
               /\ UNCHANGED SubSeq(taken, 1, nrows_)
               /\ (complete_ /\ ~Reading)' <=> (complete_ /\ ~Reading)
    PROVE  UNCHANGED Cursor!vars
  BY StreamKept DEF Cursor!vars, Open

LEMMA StreamType ==
    TypeOK => Stream \in Seq(Int \X Int) /\ (Len(params_.groups) = 0 => Stream = <<>>)
  <1> SUFFICES ASSUME TypeOK
               PROVE  Stream \in Seq(Int \X Int) /\ (Len(params_.groups) = 0 => Stream = <<>>)
    OBVIOUS
  <1>1. PICK off : Laid(off)
    BY LaidExists
  <1>2. ASSUME Len(params_.groups) = 0 PROVE Len(Stream) = 0
    BY <1>1, <1>2, PartsType DEF Laid, Layout, Offsets
  <1> QED
    BY <1>2, LaidExists

\* A query is bound, or a result set is created and executed.
LEMMA CursorOpens ==
    ASSUME IInv', live', ready_', clean', taken' = <<>>, nrows_' = 0,
           ~complete_' \/ (pc' = "idle" /\ Len(params_'.groups) = 0)
    PROVE  Cursor!Open
  <1>1. /\ Stream' \in Seq(Int \X Int)
        /\ Len(params_'.groups) = 0 => Stream' = <<>>
    <2>1. (TypeOK => Stream \in Seq(Int \X Int) /\ (Len(params_.groups) = 0 => Stream = <<>>))'
      BY StreamType, PTL
    <2> QED
      BY <2>1 DEF IInv
  <1>2. SubSeq(taken, 1, nrows_)' = <<>>
    <2>1. SubSeq(<<>>, 1, 0) = <<>>
      BY SubSeqEmpty, EmptySeq
    <2> QED
      BY <2>1
  <1>3. (complete_ /\ ~Reading)' \in {FALSE, Stream' = <<>>}
    <2>1. complete_' \in BOOLEAN
      BY DEF IInv, TypeOK, FlagsType
    <2> QED
      BY <1>1, <2>1 DEF Reading
  <1> QED
    BY <1>1, <1>2, <1>3 DEF Cursor!Open, Open

LEMMA CursorBreaks ==
    ASSUME ~clean', live' PROVE Cursor!Break
  BY DEF Cursor!Break, Open

LEMMA CursorCloses ==
    ASSUME ~live' \/ (~ready_' /\ clean') PROVE Cursor!Close
  BY DEF Cursor!Close, Cursor!Closed, Open

\* A row that has been read is counted: advance() or an interrupt in it.
LEMMA CursorTakes ==
    ASSUME IInv, live, ready_, clean, pc = "advance", pc' # "advance",
           nrows_' = nrows_ + 1,
           UNCHANGED <<live, ready_, clean, params_, taken, complete_>>
    PROVE  Cursor!Take
  <1>1. /\ TypeOK /\ RowsInOrder /\ nrows_ \in Nat /\ taken \in Seq(Int \X Int)
        /\ Len(taken) = nrows_ + 1
    BY DEF IInv, CountInv, HasUncounted, TypeOK, HistoryType, CursorType
  <1>2. complete_ <=> Exhausted(LastTaken)
    <2>1. complete_ => Exhausted(LastTaken)
      BY DEF IInv, StreamInv
    <2>2. ~complete_ => ~Exhausted(LastTaken)
      <3>1. ~complete_ => Follows(LastTaken, <<group_, row>>)
        BY DEF IInv, StreamInv
      <3>2. <<group_, row>> \in Int \X Int
        BY <1>1 DEF TypeOK, CursorType, EngineType
      <3>3. LastTaken \in Int \X Int
        BY <1>1, LastTakenType
      <3> DEFINE next == <<group_, row>>
      <3> HIDE DEF next
      <3>4. Follows(LastTaken, next) => ~Exhausted(LastTaken)
        BY <1>1, <3>2, <3>3, FollowsNotExhausted DEF next
      <3> QED
        BY <3>1, <3>4 DEF next
    <2>3. complete_ \in BOOLEAN
      BY <1>1 DEF TypeOK, FlagsType
    <2> QED
      BY <2>1, <2>2, <2>3
  <1>3. complete_ <=> nrows_ + 1 = Len(Stream)
    BY <1>1, <1>2, ExhaustedAtEnd
  <1>4. nrows_ + 1 <= Len(Stream) /\ taken[nrows_ + 1] = Stream[nrows_ + 1]
        /\ Len(Stream) \in Nat
    BY <1>1, TakenIsPrefix, StreamType, SMTT(30)
  <1> DEFINE got == SubSeq(taken, 1, nrows_)
  <1>5. got \in Seq(Int \X Int) /\ Len(got) = nrows_
        /\ SubSeq(taken, 1, nrows_ + 1) = Append(got, taken[nrows_ + 1])
        /\ Len(SubSeq(taken, 1, nrows_ + 1)) = nrows_ + 1
    BY <1>1
  <1>6. SubSeq(taken, 1, nrows_)' = Append(got, Stream[nrows_ + 1])
        /\ Len(SubSeq(taken, 1, nrows_)') = nrows_ + 1
    BY <1>4, <1>5
  <1>7. (complete_ /\ ~Reading)' <=> nrows_ + 1 = Len(Stream)
    BY <1>3 DEF Reading
  <1>8. Open /\ Open' /\ Stream' = Stream /\ Reading
    BY StreamKept DEF Open, Reading
  <1>9. (complete_ /\ ~Reading)' = (Len(SubSeq(taken, 1, nrows_)') = Len(Stream))
    BY <1>6, <1>7
  <1> HIDE DEF Open, Reading
  <1> QED
    BY <1>4, <1>5, <1>6, <1>8, <1>9 DEF Cursor!Take

\* Every step of the implementation is a step of RowCursor or none.
LEMMA CursorStep == IInv /\ FreshInv /\ [Next]_vars => [Cursor!Next]_Cursor!vars
  <1> SUFFICES ASSUME IInv, FreshInv, [Next]_vars
               PROVE  Cursor!Next \/ UNCHANGED Cursor!vars
    OBVIOUS
  <1>1. IInv'
    BY IInvStep
  <1>2. CASE CreatePlain
    <2>1. Cursor!Open
      BY <1>1, <1>2, CursorOpens DEF CreatePlain, InitCursor
    <2> QED
      BY <2>1 DEF Cursor!Next
  <1>3. CASE CreateParameterised
    <2>1. Cursor!Close
      BY <1>3, CursorCloses DEF CreateParameterised
    <2> QED
      BY <2>1 DEF Cursor!Next
  <1>4. ASSUME NEW p \in ParamLists, Bind(p) PROVE Cursor!Next \/ UNCHANGED Cursor!vars
    <2>1. CASE BindRejected(p)
      BY <2>1, CursorStutters DEF BindRejected, vars, cursor, call, history, Reading
    <2>2. CASE BindEmpty(p)
      <3>1. Cursor!Open
        BY <1>1, <2>2, CursorOpens DEF BindEmpty, BindAccepted, InitCursor, call
      <3> QED
        BY <3>1 DEF Cursor!Next
    <2>3. CASE BindFirst(p)
      <3>1. Cursor!Open
        BY <1>1, <2>3, CursorOpens DEF BindFirst, BindAccepted, InitCursor
      <3> QED
        BY <3>1 DEF Cursor!Next
    <2>4. CASE BindFails(p)
      <3>1. Cursor!Break
        BY <2>4, CursorBreaks DEF BindFails, BindAccepted, Spoil
      <3> QED
        BY <3>1 DEF Cursor!Next
    <2> QED
      BY <1>4, <2>1, <2>2, <2>3, <2>4 DEF Bind
  <1>5. ASSUME NEW n \in FetchSizes, Fetch(n) PROVE UNCHANGED Cursor!vars
    <2>1. CASE FetchNothing(n)
      BY <2>1, CursorStutters DEF FetchNothing, vars, cursor, call, history, Reading
    <2>2. CASE FetchCall(n)
      <3>1. /\ UNCHANGED <<live, ready_, clean, params_, taken, nrows_, complete_>>
            /\ pc = "idle" /\ pc' = "fetch"
        BY <2>2 DEF FetchCall, cursor, history
      <3>2. UNCHANGED SubSeq(taken, 1, nrows_)
        BY <3>1
      <3>3. (complete_ /\ ~Reading)' <=> (complete_ /\ ~Reading)
        BY <3>1 DEF Reading
      <3> QED
        BY <3>1, <3>2, <3>3, CursorStutters
    <2> QED
      BY <1>5, <2>1, <2>2 DEF Fetch
  <1>6. CASE ReadRow
    <2>1. /\ pc = "fetch" /\ ~Reading /\ ~Reading'
          /\ UNCHANGED <<live, ready_, clean, params_, complete_, nrows_>>
      BY <1>6 DEF ReadRow, cursor, Reading
    <2>2. ASSUME live, ready_, clean PROVE UNCHANGED SubSeq(taken, 1, nrows_)
      <3>1. ~HasUncounted /\ HasUncounted'
        BY <1>6, <2>1 DEF ReadRow, HasUncounted
      <3>2. SubSeq(taken, 1, nrows_) = taken /\ nrows_ = Len(taken)
        BY <2>2, <3>1, TakenCounted
      <3>3. taken \in Seq(Int \X Int) /\ CurrentRow \in Int \X Int
        BY DEF IInv, TypeOK, HistoryType, EngineType, CurrentRow, NoRow, Partial
      <3>4. SubSeq(Append(taken, CurrentRow), 1, Len(taken)) = taken
        BY <3>3
      <3> QED
        BY <1>6, <2>1, <2>2, <3>2, <3>4 DEF ReadRow
    <2> QED
      BY <2>1, <2>2, CursorStutters
  <1>7. ASSUME pc = "step", UNCHANGED <<live, ready_, clean, params_, taken, nrows_>>,
               complete_' => pc' = "advance"
        PROVE  UNCHANGED Cursor!vars
    <2>1. ~complete_
      BY <1>7 DEF IInv, CallInv
    <2> QED
      BY <1>7, <2>1, CursorStutters DEF Reading
  <1>8. CASE StepRow
    <2>1. ~complete_
      BY <1>8 DEF StepRow, IInv, CallInv
    <2> QED
      BY <1>7, <1>8, <2>1 DEF StepRow, cursor, history
  <1>9. CASE StepNextGroup
    <2>1. ~complete_
      BY <1>9 DEF StepNextGroup, StepDone, IInv, CallInv
    <2> QED
      BY <1>7, <1>9, <2>1 DEF StepNextGroup, StepDone
  <1>10. CASE StepLast
    <2>1. /\ pc = "step" /\ complete_' /\ StepReturns
          /\ UNCHANGED <<live, ready_, clean, params_, taken, nrows_>>
      BY <1>10 DEF StepLast, StepDone, history
    <2>2. CASE caller = "fetch" \/ ~(live /\ ready_ /\ clean)
      <3>1. CASE caller = "fetch"
        BY <1>7, <2>1, <3>1 DEF StepReturns
      <3>2. CASE ~(live /\ ready_ /\ clean)
        BY <2>1, <3>2, CursorStutters
      <3> QED
        BY <2>2, <3>1, <3>2
    <2>3. CASE caller # "fetch" /\ live /\ ready_ /\ clean
      <3>1. nrows_ = 0 /\ taken = <<>> /\ pc' = "idle" /\ ~complete_
        BY <2>1, <2>3 DEF FreshInv, StepReturns, IInv, CallInv
      <3>2. Exhausted(LastTaken)
        <4>1. Exhausted(LastTaken)'
          BY <1>1, <2>1, <2>3 DEF IInv, StreamInv
        <4> QED
          BY <2>1, <4>1 DEF Exhausted, LastTaken, EmptyBetween, GroupIds, RowsOf
      <3>3. Stream = <<>>
        <4>1. TypeOK /\ RowsInOrder
          BY <2>3, <3>1 DEF IInv
        <4>2. Stream \in Seq(Int \X Int)
          BY <4>1, StreamType
        <4>3. Len(taken) = Len(Stream)
          BY <2>3, <3>2, <4>1, ExhaustedAtEnd
        <4>4. Len(taken) = 0
          BY <3>1, EmptySeq
        <4> QED
          BY <4>2, <4>3, <4>4, EmptySeq
      <3>4. Open /\ Open' /\ Stream' = Stream /\ complete_' = TRUE /\ ~Reading'
        <4>1. complete_' \in BOOLEAN
          BY <1>1 DEF IInv, TypeOK, FlagsType
        <4> QED
          BY <2>1, <2>3, <3>1, <4>1, StreamKept DEF Open, Reading
      <3>5. UNCHANGED SubSeq(taken, 1, nrows_) /\ clean' = clean /\ live' = live
        BY <2>1
      <3>6. (complete_ /\ ~Reading)' = TRUE
        BY <3>4
      <3> HIDE DEF Open, Reading
      <3>7. Cursor!FindEnd
        BY <2>3, <3>1, <3>3, <3>4, <3>5, <3>6 DEF Cursor!FindEnd
      <3> QED
        BY <3>7 DEF Cursor!Next
    <2> QED
      BY <2>2, <2>3
  <1>11. CASE StepNextGroupFails \/ StepError
    <2>1. ~clean'
      BY <1>11 DEF StepNextGroupFails, StepError, Spoil
    <2>2. Cursor!Break \/ Cursor!Close
      BY <2>1, CursorBreaks, CursorCloses
    <2> QED
      BY <2>2 DEF Cursor!Next
  <1>12. CASE Advance \/ Interrupted
    <2>1. /\ pc = "advance" /\ pc' # "advance" /\ nrows_' = nrows_ + 1
          /\ UNCHANGED <<live, ready_, clean, params_, taken, complete_>>
      <3>1. CASE Advance
        BY <3>1 DEF Advance, history
      <3>2. CASE Interrupted
        <4>1. live' = (live /\ caller # "ctor") /\ pc = "advance"
          BY <3>2 DEF Interrupted, Throw
        <4>2. live' = live
          BY <4>1 DEF IInv, CallInv, TypeOK, FlagsType
        <4> QED
          BY <3>2, <4>2 DEF Interrupted, Throw
      <3> QED
        BY <1>12, <3>1, <3>2
    <2>2. CASE live /\ ready_ /\ clean
      <3>1. Cursor!Take
        BY <2>1, <2>2, CursorTakes
      <3> QED
        BY <3>1 DEF Cursor!Next
    <2>3. CASE ~(live /\ ready_ /\ clean)
      BY <2>1, <2>3, CursorStutters
    <2> QED
      BY <2>2, <2>3
  <1>13. CASE FetchReturn
    BY <1>13, CursorStutters DEF FetchReturn, cursor, Reading
  <1>14. CASE Release
    <2>1. Cursor!Close
      BY <1>14, CursorCloses DEF Release
    <2> QED
      BY <2>1 DEF Cursor!Next
  <1>15. CASE UNCHANGED vars
    BY <1>15, CursorStutters DEF vars, cursor, call, history, Reading
  <1> QED
    BY <1>2, <1>3, <1>4, <1>5, <1>6, <1>8, <1>9, <1>10, <1>11, <1>12, <1>13, <1>14, <1>15
       DEF Next, Run

\* A result set is a cursor on one fixed sequence of rows: binding group after
\* group, looking one row ahead and fetching in frames of any size do not show.
THEOREM IsARowCursor == Spec => ImplementsRowCursor
  <1>1. Init => Cursor!Init /\ FreshInv
    BY DEF Init, Cursor!Init, Cursor!Closed, Open, FreshInv
  <1> QED
    BY <1>1, CursorStep, FreshStep, Invariance, PTL DEF Spec, ImplementsRowCursor, Cursor!Spec
=============================================================================
