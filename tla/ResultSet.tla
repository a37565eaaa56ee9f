----------------------------- MODULE ResultSet -----------------------------
(***************************************************************************)
(* The row cursor of a result set: class SqliteResultImpl and the loop it  *)
(* runs over DbDataFrame (src/src/SqliteResultImpl.cpp,                    *)
(* src/src/DbDataFrame.cpp), entered through DbResult and result.cpp.      *)
(*                                                                         *)
(* A statement with placeholders is bound to a list of parameter vectors   *)
(* and executed once per element ("group") of the vectors; the rows of the *)
(* executions are handed out, one fetch() after the other, as one stream.  *)
(* The object keeps one row of look-ahead: the SQLite statement is always  *)
(* stepped onto the next row (or past the last one) before a call returns. *)
(*                                                                         *)
(* The calls run to completion in one thread, but they are loops that can  *)
(* leave through an exception at every sqlite3_step(), at every binding of *)
(* a group and at every interrupt check.  pc cuts a call at those places.  *)
(*                                                                         *)
(* The statement itself (vm, row, slot, job) belongs to the SQLite         *)
(* library; it is modelled by what sqlite3_step, sqlite3_reset and the     *)
(* sqlite3_column functions do to it.                                      *)
(***************************************************************************)
EXTENDS Integers, Sequences

CONSTANTS
    Groups,      \* executions: [rows, changes, ok]; ok: the parameters bind
    ParamLists,  \* lists a caller may bind: [lens, groups]
    MaxParams,   \* placeholders of a statement: 0 .. MaxParams
    FetchSizes,  \* values of n a caller passes to fetch()
    Period,      \* DbDataFrame::advance looks for an interrupt every Period rows
    MaxFaults    \* bound: step errors, failed binds and interrupts, in all

Execution == [rows : Nat, changes : Nat, ok : BOOLEAN]

ASSUME GroupsAssumption == Groups \subseteq Execution

ASSUME ParamListsAssumption ==
    \A p \in ParamLists : p \in [lens : Seq(Nat), groups : Seq(Groups)]

ASSUME FirstLengthAssumption ==
    \A p \in ParamLists : Len(p.lens) > 0 => Len(p.groups) = p.lens[1]

ASSUME BoundsAssumption ==
    /\ MaxParams \in Nat
    /\ FetchSizes \subseteq Int
    /\ Period \in Nat \ {0}
    /\ MaxFaults \in Nat

VARIABLES
    live,       \* the external pointer holds a DbResult
    nparams,    \* cache.nparams_
    ready_, complete_, nrows_, group_, groups_,
    params_,    \* params_; for a statement without placeholders its one execution
    vm,         \* "ready" (reset), "run" (on a row) or "halt" (finished, failed)
    row,        \* the row the statement is on, 0 when on none
    slot,       \* group whose parameters are bound, Partial if not all are
    job,        \* the execution those parameters give
    delta,      \* sqlite3_total_changes(conn) - total_changes_start_
    pc,         \* where the running call is; "idle": no call
    caller,     \* the call step() returns to
    n_max, i,   \* of the DbDataFrame being filled
    frame,      \* its rows
    taken,      \* history: rows read since the last init()
    delivered,  \* history: rows returned to R since the last init()
    clean,      \* history: since init() no step or binding has failed
    intact,     \* history: since init() no fetch() was interrupted
    stale,      \* history: changes of the execution that the bind cut off
    oob,        \* history: a parameter vector was read past its end
    faults      \* failures so far

cursor  == <<live, nparams, ready_, complete_, nrows_, group_, groups_, params_>>
engine  == <<vm, row, slot, job, delta>>
call    == <<pc, caller, n_max, i, frame>>
history == <<taken, delivered, clean, intact, stale, oob, faults>>
vars    == <<cursor, engine, call, history>>

Partial == -1
Origin  == <<0, 0>>
NoRow   == <<Partial, 0>>    \* what the column functions see off a row: NULLs
NoParams == [lens |-> <<>>, groups |-> <<>>]
NoJob   == [rows |-> 0, changes |-> 0, ok |-> TRUE]

(***************************************************************************)
(* The SQLite statement.                                                   *)
(***************************************************************************)

\* The row sqlite3_step moves to; a halted statement restarts by itself.
NextRow == IF vm = "run" THEN row + 1 ELSE 1

\* What sqlite3_column_* reads.
CurrentRow == IF vm = "run" THEN <<slot, row>> ELSE NoRow

\* sqlite3_reset of a statement on a row ends its execution, which adds its
\* changes to the connection's counter.
ResetChanges == IF vm = "run" THEN job.changes ELSE 0

(***************************************************************************)
(* Leaving a call.                                                         *)
(***************************************************************************)

\* An exception: the data frame is lost, and a constructor leaves no object.
Throw ==
    /\ pc' = "idle"
    /\ frame' = <<>>
    /\ n_max' = 0 /\ i' = 0
    /\ caller' = "none"
    /\ live' = (live /\ caller # "ctor")

\* Mutant of InitCursor: nrows_ is not reset.
InitCursor_KeepsRowCount(params_have_rows) ==
    /\ ready_' = TRUE
    /\ UNCHANGED nrows_
    /\ complete_' = ~params_have_rows
    /\ taken' = <<>> /\ delivered' = <<>> /\ clean' = TRUE /\ intact' = TRUE

\* init(): the history variables start over with the stream.
InitCursor(params_have_rows) ==
    /\ ready_' = TRUE
    /\ nrows_' = 0
    /\ complete_' = ~params_have_rows
    /\ taken' = <<>>
    /\ delivered' = <<>>
    /\ clean' = TRUE
    /\ intact' = TRUE

\* A step or a binding failed: the stream is no longer recorded.
Spoil == clean' = FALSE /\ taken' = <<>> /\ delivered' = <<>>

(***************************************************************************)
(* result_create / the constructor: prepare, then, without placeholders,   *)
(* after_bind(true).                                                       *)
(***************************************************************************)

CreatePlain ==
    /\ pc = "idle" /\ ~live
    /\ \E j \in {g \in Groups : g.ok} :
          /\ params_' = [lens |-> <<>>, groups |-> <<j>>]
          /\ job' = j
    /\ live' = TRUE
    /\ nparams' = 0 /\ group_' = 0 /\ groups_' = 0
    /\ vm' = "ready" /\ row' = 0 /\ slot' = 0 /\ delta' = 0
    /\ InitCursor(TRUE)
    /\ pc' = "step" /\ caller' = "ctor"
    /\ stale' = 0
    /\ UNCHANGED <<n_max, i, frame, oob, faults>>

CreateParameterised ==
    /\ pc = "idle" /\ ~live
    /\ nparams' \in 1 .. MaxParams
    /\ live' = TRUE
    /\ ready_' = FALSE /\ complete_' = FALSE /\ nrows_' = 0
    /\ group_' = 0 /\ groups_' = 0 /\ params_' = NoParams
    /\ vm' = "ready" /\ row' = 0 /\ slot' = Partial /\ job' = NoJob
    /\ delta' = 0
    /\ taken' = <<>> /\ delivered' = <<>>
    /\ clean' = TRUE /\ intact' = TRUE /\ stale' = 0
    /\ UNCHANGED <<call, oob, faults>>

(***************************************************************************)
(* bind_row() on list p at element g < Len(p.groups): reset, clear all     *)
(* bindings, bind one parameter after the other.                           *)
(***************************************************************************)

\* Mutant of ValidParams: vectors of different lengths get through.
ValidParams_Unchecked(p) == TRUE

\* DbResult::validate_params: all vectors as long as the first.
ValidParams(p) == \A j \in DOMAIN p.lens : p.lens[j] = p.lens[1]

\* Mutant of BindRow: no sqlite3_reset before the new parameters.
BindRow_NoReset(p, g) ==
    /\ UNCHANGED <<vm, row>>
    /\ oob' = (oob \/ \E j \in DOMAIN p.lens : p.lens[j] <= g)
    /\ IF p.groups[g + 1].ok
       THEN slot' = g /\ job' = p.groups[g + 1]
       ELSE slot' = Partial /\ job' \in Groups

BindRow(p, g) ==
    /\ vm' = "ready" /\ row' = 0
    /\ oob' = (oob \/ \E j \in DOMAIN p.lens : p.lens[j] <= g)
    /\ IF p.groups[g + 1].ok
       THEN slot' = g /\ job' = p.groups[g + 1]
       ELSE slot' = Partial /\ job' \in Groups

(***************************************************************************)
(* result_bind.                                                            *)
(***************************************************************************)

\* bind() stops before it changes anything.
BindRejected(p) ==
    /\ pc = "idle" /\ live
    /\ \/ ~ValidParams(p)
       \/ nparams = 0
       \/ Len(p.lens) # nparams
    /\ UNCHANGED vars

BindAccepted(p) ==
    /\ pc = "idle" /\ live
    /\ ValidParams(p)
    /\ nparams # 0
    /\ Len(p.lens) = nparams
    /\ params_' = p
    /\ groups_' = Len(p.groups)
    /\ group_' = 0

\* Mutant of RestartCount: total_changes_start_ keeps the value of the
\* constructor.
RestartCount_KeepsStart == delta' = delta + ResetChanges

\* total_changes_start_ is read before bind_row() resets the statement.
RestartCount == delta' = ResetChanges

\* No elements: bind_row() returns before the reset, init(false).
BindEmpty(p) ==
    /\ BindAccepted(p)
    /\ Len(p.groups) = 0
    /\ delta' = 0
    /\ InitCursor(FALSE)
    /\ stale' = 0
    /\ UNCHANGED <<live, nparams, vm, row, slot, job, call, oob, faults>>

\* The first element is bound: init(true), then step().
BindFirst(p) ==
    /\ BindAccepted(p)
    /\ Len(p.groups) > 0 /\ p.groups[1].ok
    /\ RestartCount
    /\ BindRow(p, 0)
    /\ InitCursor(TRUE)
    /\ stale' = ResetChanges
    /\ pc' = "step" /\ caller' = "bind"
    /\ UNCHANGED <<live, nparams, n_max, i, frame, faults>>

\* The first element does not bind: the exception leaves ready_, complete_ and
\* nrows_ as they were.
BindFails(p) ==
    /\ BindAccepted(p)
    /\ Len(p.groups) > 0 /\ ~p.groups[1].ok
    /\ faults < MaxFaults
    /\ RestartCount
    /\ BindRow(p, 0)
    /\ faults' = faults + 1
    /\ Spoil
    /\ stale' = ResetChanges
    /\ UNCHANGED <<live, nparams, ready_, complete_, nrows_, call, intact>>

(***************************************************************************)
(* result_fetch.                                                           *)
(***************************************************************************)

\* Not bound yet ("Query needs to be bound before fetching"), or n = 0, which
\* only looks at the row the statement is on.
FetchNothing(n) ==
    /\ pc = "idle" /\ live
    /\ ~ready_ \/ n = 0
    /\ UNCHANGED vars

\* Mutant of FetchCall: a negative n asks for no rows instead of all.
FetchCall_NegativeIsNone(n) ==
    /\ pc = "idle" /\ live /\ ready_ /\ n # 0
    /\ n_max' = n /\ i' = 0 /\ frame' = <<>>
    /\ pc' = IF n < 0 THEN "return" ELSE "fetch"
    /\ UNCHANGED <<cursor, engine, caller, history>>

FetchCall(n) ==
    /\ pc = "idle" /\ live
    /\ ready_
    /\ n # 0
    /\ n_max' = n /\ i' = 0 /\ frame' = <<>>
    /\ pc' = "fetch"
    /\ UNCHANGED <<cursor, engine, caller, history>>

\* while (!complete_): set_col_values(), then step().
ReadRow ==
    /\ pc = "fetch" /\ ~complete_
    /\ frame' = Append(frame, CurrentRow)
    /\ taken' = IF clean THEN Append(taken, CurrentRow) ELSE taken
    /\ pc' = "step" /\ caller' = "fetch"
    /\ UNCHANGED <<cursor, engine, n_max, i,
                   delivered, clean, intact, stale, oob, faults>>

(***************************************************************************)
(* step(): sqlite3_step until a row, the end or an error; at the end of an *)
(* execution step_done() binds the next group.                             *)
(***************************************************************************)

StepReturns ==
    IF caller = "fetch"
    THEN pc' = "advance" /\ UNCHANGED caller
    ELSE pc' = "idle" /\ caller' = "none"

\* Mutant of StepRow: complete_ is set on the last row, not after it.
StepRow_CompletesEarly ==
    /\ pc = "step" /\ NextRow <= job.rows
    /\ vm' = "run" /\ row' = NextRow
    /\ complete_' = (NextRow = job.rows /\ group_ + 1 >= groups_)
    /\ StepReturns
    /\ UNCHANGED <<live, nparams, ready_, nrows_, group_, groups_, params_,
                   slot, job, delta, n_max, i, frame, history>>

StepRow ==
    /\ pc = "step"
    /\ NextRow <= job.rows
    /\ vm' = "run" /\ row' = NextRow
    /\ StepReturns
    /\ UNCHANGED <<cursor, slot, job, delta, n_max, i, frame, history>>

\* Mutant of StepDone: group_ counts down.
StepDone_CountsDown ==
    /\ pc = "step" /\ NextRow > job.rows
    /\ delta' = delta + job.changes
    /\ group_' = group_ - 1

\* Mutant of StepDone: ++group_ is missing.
StepDone_SameGroup ==
    /\ pc = "step" /\ NextRow > job.rows
    /\ delta' = delta + job.changes
    /\ group_' = group_

StepDone ==
    /\ pc = "step"
    /\ NextRow > job.rows
    /\ delta' = delta + job.changes
    /\ group_' = group_ + 1

\* Mutant of MoreGroups: off by one.
MoreGroups_OffByOne == group_ + 2 < groups_

\* bind_row() finds group_ < groups_ after ++group_.
MoreGroups == group_ + 1 < groups_

\* No further group: complete_.
StepLast ==
    /\ StepDone
    /\ ~MoreGroups
    /\ complete_' = TRUE
    /\ vm' = "halt" /\ row' = 0
    /\ StepReturns
    /\ UNCHANGED <<live, nparams, ready_, nrows_, groups_, params_, slot, job,
                   n_max, i, frame, history>>

StepNextGroup ==
    /\ StepDone
    /\ MoreGroups
    /\ params_.groups[group_ + 2].ok
    /\ BindRow(params_, group_ + 1)
    /\ UNCHANGED <<live, nparams, ready_, complete_, nrows_, groups_, params_,
                   call, taken, delivered, clean, intact, stale, faults>>

StepNextGroupFails ==
    /\ StepDone
    /\ MoreGroups
    /\ ~params_.groups[group_ + 2].ok
    /\ BindRow(params_, group_ + 1)
    /\ Throw
    /\ Spoil
    /\ UNCHANGED <<nparams, ready_, complete_, nrows_, groups_, params_,
                   intact, stale, faults>>

\* sqlite3_step returns an error code: the execution is rolled back and halts.
StepError ==
    /\ pc = "step"
    /\ faults < MaxFaults
    /\ vm' = "halt" /\ row' = 0
    /\ Throw
    /\ faults' = faults + 1
    /\ Spoil
    /\ UNCHANGED <<nparams, ready_, complete_, nrows_, group_, groups_, params_,
                   slot, job, delta, intact, stale, oob>>

(***************************************************************************)
(* nrows_++ and DbDataFrame::advance().                                    *)
(***************************************************************************)

\* Mutant of Advance: stops one row before n.
Advance_OneShort ==
    /\ pc = "advance"
    /\ nrows_' = nrows_ + 1
    /\ i' = i + 1
    /\ pc' = IF n_max < 0 \/ i + 2 < n_max THEN "fetch" ELSE "return"
    /\ UNCHANGED <<live, nparams, ready_, complete_, group_, groups_, params_,
                   engine, caller, n_max, frame, history>>

Advance ==
    /\ pc = "advance"
    /\ nrows_' = nrows_ + 1
    /\ i' = i + 1
    /\ pc' = IF n_max < 0 \/ i + 1 < n_max THEN "fetch" ELSE "return"
    /\ UNCHANGED <<live, nparams, ready_, complete_, group_, groups_, params_,
                   engine, caller, n_max, frame, history>>

\* check_user_interrupt() leaves fetch() with the rows read so far.
Interrupted ==
    /\ pc = "advance"
    /\ (i + 1) % Period = 0
    /\ faults < MaxFaults
    /\ nrows_' = nrows_ + 1
    /\ Throw
    /\ faults' = faults + 1
    /\ intact' = FALSE
    /\ UNCHANGED <<nparams, ready_, complete_, group_, groups_, params_,
                   engine, taken, delivered, clean, stale, oob>>

\* get_data(): the data frame goes to R.
FetchReturn ==
    /\ pc = "return" \/ (pc = "fetch" /\ complete_)
    /\ delivered' = IF clean THEN delivered \o frame ELSE delivered
    /\ frame' = <<>>
    /\ n_max' = 0 /\ i' = 0
    /\ pc' = "idle" /\ caller' = "none"
    /\ UNCHANGED <<cursor, engine,
                   taken, clean, intact, stale, oob, faults>>

(***************************************************************************)
(* result_release: the destructor finalizes the statement.                 *)
(***************************************************************************)

Release ==
    /\ pc = "idle" /\ live
    /\ live' = FALSE
    /\ vm' = "halt" /\ row' = 0
    /\ delta' = delta + ResetChanges
    /\ ready_' = FALSE /\ complete_' = FALSE /\ nrows_' = 0
    /\ taken' = <<>> /\ delivered' = <<>>
    /\ UNCHANGED <<nparams, group_, groups_, params_, slot, job, call,
                   clean, intact, stale, oob, faults>>

-----------------------------------------------------------------------------

Init ==
    /\ live = FALSE
    /\ nparams = 0
    /\ ready_ = FALSE /\ complete_ = FALSE /\ nrows_ = 0
    /\ group_ = 0 /\ groups_ = 0 /\ params_ = NoParams
    /\ vm = "halt" /\ row = 0 /\ slot = Partial /\ job = NoJob /\ delta = 0
    /\ pc = "idle" /\ caller = "none" /\ n_max = 0 /\ i = 0 /\ frame = <<>>
    /\ taken = <<>> /\ delivered = <<>>
    /\ clean = TRUE /\ intact = TRUE /\ stale = 0 /\ oob = FALSE
    /\ faults = 0

\* The code of a running call.
Run ==
    \/ ReadRow
    \/ StepRow \/ StepLast \/ StepNextGroup \/ StepNextGroupFails
    \/ Advance \/ FetchReturn

Bind(p) == BindRejected(p) \/ BindEmpty(p) \/ BindFirst(p) \/ BindFails(p)

Fetch(n) == FetchNothing(n) \/ FetchCall(n)

Next ==
    \/ CreatePlain \/ CreateParameterised
    \/ \E p \in ParamLists : Bind(p)
    \/ \E n \in FetchSizes : Fetch(n)
    \/ Run
    \/ StepError \/ Interrupted
    \/ Release

Spec == Init /\ [][Next]_vars

\* A call is ordinary sequential code: it goes on until it returns.
FairSpec == Spec /\ WF_vars(Run)

\* One round of the loop of the vignette,
\* while (!dbHasCompleted(rs)) dbFetch(rs, n = ...).
LoopFetch == ~complete_ /\ \E n \in FetchSizes \ {0} : FetchCall(n)

-----------------------------------------------------------------------------
(***************************************************************************)
(* The stream a binding stands for: the rows of its groups, in order.      *)
(* Nothing has been read at Origin.                                        *)
(***************************************************************************)

RowsOf(g) == params_.groups[g + 1].rows

\* The changes of the first k executions of a list.
ChangesOf(groups) ==
    LET sum[k \in 0 .. Len(groups)] ==
            IF k = 0 THEN 0 ELSE sum[k - 1] + groups[k].changes
    IN  sum

GroupIds == 0 .. Len(params_.groups) - 1

EmptyBetween(g, h) == \A k \in GroupIds : g < k /\ k < h => RowsOf(k) = 0

\* The stream's next row after r is s.
Follows(r, s) ==
    /\ s[1] \in GroupIds
    /\ 1 <= s[2] /\ s[2] <= RowsOf(s[1])
    /\ \/ s[1] = r[1] /\ s[2] = r[2] + 1
       \/ /\ r[1] < s[1] /\ s[2] = 1
          /\ r[2] = RowsOf(r[1])
          /\ EmptyBetween(r[1], s[1])

\* The stream has no row after r.
Exhausted(r) ==
    GroupIds # {} =>
        /\ r[2] = RowsOf(r[1])
        /\ EmptyBetween(r[1], Len(params_.groups))

LastTaken == IF taken = <<>> THEN Origin ELSE taken[Len(taken)]

FlagsType ==
    /\ live \in BOOLEAN /\ ready_ \in BOOLEAN /\ complete_ \in BOOLEAN
    /\ clean \in BOOLEAN /\ intact \in BOOLEAN /\ stale \in Nat
    /\ oob \in BOOLEAN

CursorType ==
    /\ nparams \in Nat /\ nrows_ \in Nat /\ group_ \in Nat /\ groups_ \in Nat
    /\ params_ \in [lens : Seq(Nat), groups : Seq(Execution)]

EngineType ==
    /\ vm \in {"ready", "run", "halt"}
    /\ row \in Nat /\ slot \in Nat \cup {Partial}
    /\ job \in Execution /\ delta \in Nat

CallType ==
    /\ pc \in {"idle", "step", "fetch", "advance", "return"}
    /\ caller \in {"none", "ctor", "bind", "fetch"}
    /\ n_max \in FetchSizes \cup {0} /\ i \in Nat
    /\ frame \in Seq(Int \X Int)

HistoryType ==
    /\ taken \in Seq(Int \X Int) /\ delivered \in Seq(Int \X Int)
    /\ faults \in 0 .. MaxFaults

\* Every variable has its type; in particular group_ and nrows_ stay natural
\* numbers and at most MaxFaults faults happen.
TypeOK == FlagsType /\ CursorType /\ EngineType /\ CallType /\ HistoryType

\* As long as no sqlite3_step and no binding has failed since the last bind,
\* fetch() reads the rows of all groups in the order of the parameter vectors,
\* none twice and none left out, whatever the sizes of the fetches, whatever
\* empty groups lie between, and also after an interrupted fetch
\* (fetch_rows, step, step_done).
RowsInOrder ==
    clean => \A k \in 1 .. Len(taken) :
                Follows(IF k = 1 THEN Origin ELSE taken[k - 1], taken[k])

\* Between calls, a bound result set reports complete() exactly when no row of
\* its stream is left: the look-ahead of step() sees the end of the last
\* non-empty group at once, and never takes an empty group for the end.
CompleteIsExact ==
    (live /\ ready_ /\ clean /\ pc = "idle") => (complete_ <=> Exhausted(LastTaken))

\* What R has been given and what n_rows_fetched() reports are the rows read,
\* unless an interrupt or an error made a data frame get lost.
FetchedIsDelivered ==
    (live /\ ready_ /\ clean /\ pc = "idle") =>
        /\ nrows_ = Len(taken)
        /\ intact => delivered = taken

\* A data frame that goes to R is filled up to n unless the rows ran out, even
\* after errors: fetch_rows gives up early only with complete_ set.
ShortOnlyAtEnd ==
    [][FetchReturn => \/ complete_
                      \/ n_max > 0 /\ Len(frame) = n_max]_vars

\* When nothing failed, n_rows_affected() is the number of changes of the executions
\* finished since bind(), each counted once, and of nothing else but the execution
\* that bind() itself cut off: total_changes_start_ is read before that one is reset.
AffectedIsExact ==
    (live /\ ready_ /\ clean) =>
        delta = ChangesOf(params_.groups)[group_] + stale

\* bind_parameter_pos never reads a parameter vector past its end, although
\* groups_ is taken from the first vector only (validate_params).
InBounds == ~oob

\* When a result set is complete its statement is not left on a row (where it
\* would keep the database locked); the one exception is a bind to vectors of
\* length zero, which returns before sqlite3_reset.
CompleteFreesStatement ==
    (live /\ complete_ /\ vm = "run") => groups_ = 0 /\ nparams > 0

\* Every call returns (or throws).
CallsReturn == pc # "idle" ~> pc = "idle"

\* The fetch loop ends: a caller who goes on fetching, and does not bind anew for
\* ever, sees dbHasCompleted() or an error, or gives the result set up.
LoopEnds ==
    ( /\ WF_vars(LoopFetch)
      /\ <>[][\A p \in ParamLists : ~Bind(p)]_vars )
    => ((live /\ ready_) ~> (complete_ \/ ~clean \/ ~live))

\* "Query needs to be bound before fetching" (SqliteResultImpl.cpp:149): fetch()
\* reads no row of a statement whose parameters are not all bound.  An element that
\* does not bind breaks it in step_done(), after init() of its own binding has set
\* ready_, and in bind(), when ready_ is still that of an earlier binding.
BoundBeforeFetching == (pc = "fetch" /\ ~complete_) => slot # Partial
=============================================================================
