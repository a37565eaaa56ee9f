---------------------------- MODULE Connection ----------------------------
(***************************************************************************)
(* The life of connections and result sets: class DbConnection,            *)
(* connection.cpp and result.cpp, and the R methods that create, replace   *)
(* and drop them (dbConnect, dbSendQuery, dbClearResult, dbDisconnect,     *)
(* sqliteCopyDatabase, sqliteSetBusyHandler, sqliteIsTransacting).         *)
(*                                                                         *)
(* Three things have to agree: the registry conn@ref$result of the R       *)
(* layer, the reference-counted C++ objects, and SQLite's own handle, which *)
(* lives on as a "zombie" after sqlite3_close_v2 until its last statement  *)
(* and its last backup are gone.                                           *)
(***************************************************************************)
EXTENDS Naturals, FiniteSets

CONSTANTS
    Conns,      \* connection objects
    Results,    \* result objects
    Callbacks,  \* R closures and timeouts given to sqliteSetBusyHandler
    Timeouts,   \* those of Callbacks that are integers
    None,       \* no result, no connection, no callback
    MaxLeaks    \* bound: backups and imports left unfinished per connection

ASSUME NoneAssumption == None \notin Conns \cup Results \cup Callbacks

ASSUME HandlerNamesAssumption ==
    Callbacks \cap {"none", "null", "timeout"} = {}

ASSUME BoundsAssumption ==
    MaxLeaks \in Nat /\ Timeouts \subseteq Callbacks

VARIABLES
    conn,       \* "none", "open" (pConn_ set) or "closed" (pConn_ NULL)
    db,         \* SQLite's handle: "none", "open", "zombie" or "freed"
    leaks,      \* on the handle: sqlite3_backup objects that are not finished, and
                \* statements of imports that are not finalized
    keyed,      \* the handle has been given a key
    txn,        \* the handle is in an explicit transaction
    ref,        \* conn@ref$result
    res,        \* "free", "live" (the pointer holds a DbResult) or "cleared"
    owner,      \* the connection of a result object
    onRow,      \* live results whose statement is on a row: a read transaction
    busy_callback_,
    handler,    \* what SQLite calls when locked: "none", "timeout", "null" or a callback
    preserved,  \* R objects protected by R_PreserveObject
    crashed     \* how the process has died: "no", or in which call

connVars == <<conn, db, leaks, keyed, txn>>
resVars  == <<ref, res, owner, onRow>>
busyVars == <<busy_callback_, handler, preserved>>
vars     == <<connVars, resVars, busyVars, crashed>>

Live(c) == {r \in Results : res[r] = "live" /\ owner[r] = c}

Init ==
    /\ conn = [c \in Conns |-> "none"]
    /\ db = [c \in Conns |-> "none"]
    /\ leaks = [c \in Conns |-> 0]
    /\ keyed = [c \in Conns |-> FALSE]
    /\ txn = [c \in Conns |-> FALSE]
    /\ ref = [c \in Conns |-> None]
    /\ res = [r \in Results |-> "free"]
    /\ owner = [r \in Results |-> None]
    /\ onRow = {}
    /\ busy_callback_ = [c \in Conns |-> None]
    /\ handler = [c \in Conns |-> "none"]
    /\ preserved = {}
    /\ crashed = "no"

\* The process ends, and with it all of its state; another one starts.
NewProcess(why) ==
    /\ conn' = [c \in Conns |-> "none"]
    /\ db' = [c \in Conns |-> "none"]
    /\ leaks' = [c \in Conns |-> 0]
    /\ keyed' = [c \in Conns |-> FALSE]
    /\ txn' = [c \in Conns |-> FALSE]
    /\ ref' = [c \in Conns |-> None]
    /\ res' = [r \in Results |-> "free"]
    /\ owner' = [r \in Results |-> None]
    /\ onRow' = {}
    /\ busy_callback_' = [c \in Conns |-> None]
    /\ handler' = [c \in Conns |-> "none"]
    /\ preserved' = {}
    /\ crashed' = why

Quit == NewProcess("no")

\* A NULL pointer goes to SQLite or to R's evaluator, and the process dies.
Crash(where) == NewProcess(where)

(***************************************************************************)
(* Connecting and disconnecting.                                           *)
(***************************************************************************)

\* connection_connect; the PRAGMAs dbConnect executes leave no result behind.  A
\* handle that a collected connection left behind is not used again.
Connect(c, key) ==
    /\ conn[c] = "none" /\ db[c] # "zombie"
    /\ keyed' = [keyed EXCEPT ![c] = key]
    /\ conn' = [conn EXCEPT ![c] = "open"]
    /\ db' = [db EXCEPT ![c] = "open"]
    /\ crashed' = "no"
    /\ UNCHANGED <<leaks, txn, resVars, busyVars>>

\* sqlite3_close_v2 and the end of a zombie: the handle goes when no statement
\* and no backup is left on it, and rolls an open transaction back.
CloseHandle(c, stmts) ==
    IF stmts = {} /\ leaks[c] = 0
    THEN /\ db' = [db EXCEPT ![c] = "freed"]
         /\ txn' = [txn EXCEPT ![c] = FALSE]
    ELSE db' = [db EXCEPT ![c] = "zombie"] /\ UNCHANGED txn

ReleaseCallback(c) ==
    /\ preserved' = preserved \ {busy_callback_[c]}
    /\ busy_callback_' = [busy_callback_ EXCEPT ![c] = None]

\* Mutant of Disconnect: pConn_ is not set to NULL.
Disconnect_KeepsPointer(c) ==
    /\ conn[c] = "open"
    /\ CloseHandle(c, Live(c))
    /\ ReleaseCallback(c)
    /\ UNCHANGED <<conn, leaks, keyed, resVars, handler, crashed>>

\* connection_release: warns of the results in use, and disconnects anyway.
Disconnect(c) ==
    /\ conn[c] = "open"
    /\ conn' = [conn EXCEPT ![c] = "closed"]
    /\ CloseHandle(c, Live(c))
    /\ ReleaseCallback(c)
    /\ UNCHANGED <<leaks, keyed, resVars, handler, crashed>>

\* "Already disconnected".
DisconnectAgain(c) == conn[c] = "closed" /\ UNCHANGED vars

\* The garbage collector takes a connection that R no longer refers to; its
\* results refer to it, so they are taken too.  Both finalizers run, in either
\* order: the last reference to the DbConnection disconnects it.
Collect(c) ==
    /\ conn[c] # "none"
    /\ conn' = [conn EXCEPT ![c] = "none"]
    /\ db' = [db EXCEPT ![c] = IF leaks[c] = 0 THEN "none" ELSE "zombie"]
    /\ txn' = [txn EXCEPT ![c] = FALSE]
    /\ ref' = [ref EXCEPT ![c] = None]
    /\ res' = [r \in Results |-> IF owner[r] = c THEN "free" ELSE res[r]]
    /\ owner' = [r \in Results |-> IF owner[r] = c THEN None ELSE owner[r]]
    /\ onRow' = {r \in onRow : owner[r] # c}
    /\ ReleaseCallback(c)
    /\ handler' = [handler EXCEPT ![c] = "none"]
    /\ keyed' = [keyed EXCEPT ![c] = FALSE]
    /\ UNCHANGED <<leaks, crashed>>

(***************************************************************************)
(* Result sets.                                                            *)
(***************************************************************************)

\* Mutant of ReleaseResult: a zombie stays one.
ReleaseResult_KeepsZombie(r) ==
    /\ res' = [res EXCEPT ![r] = "cleared"]
    /\ onRow' = onRow \ {r}
    /\ UNCHANGED <<db, txn>>

\* Mutant of ReleaseResult: the destructor does not finalize the statement.
ReleaseResult_KeepsStatement(r) ==
    /\ res' = [res EXCEPT ![r] = "cleared"]
    /\ UNCHANGED <<db, txn, onRow>>

\* result_release: the DbResult is deleted and its statement finalized, which
\* may be what a zombie handle was waiting for.
ReleaseResult(r) ==
    LET c == owner[r] IN
    /\ res' = [res EXCEPT ![r] = "cleared"]
    /\ onRow' = onRow \ {r}
    /\ IF db[c] = "zombie"
       THEN CloseHandle(c, Live(c) \ {r})
       ELSE UNCHANGED <<db, txn>>

\* dbClearResult.
ClearResult(r) ==
    /\ res[r] = "live"
    /\ ReleaseResult(r)
    /\ ref' = [ref EXCEPT ![owner[r]] = None]
    /\ UNCHANGED <<conn, leaks, keyed, owner, busyVars, crashed>>

\* Mutant of ClearExpired: unregisters whatever result is there.
ClearExpired_Unregisters(r) ==
    /\ res[r] = "cleared"
    /\ ref' = [ref EXCEPT ![owner[r]] = None]
    /\ UNCHANGED <<connVars, res, owner, onRow, busyVars, crashed>>

\* "Expired, result set already closed".
ClearExpired(r) == res[r] = "cleared" /\ UNCHANGED vars

\* R drops its last reference to a cleared result.
Forget(r) ==
    /\ res[r] = "cleared"
    /\ res' = [res EXCEPT ![r] = "free"]
    /\ owner' = [owner EXCEPT ![r] = None]
    /\ UNCHANGED <<connVars, ref, onRow, busyVars, crashed>>

\* dbSendQuery closes the open result set first.
ClosesFirst(c) == IF ref[c] = None THEN {} ELSE {ref[c]}

\* ... and registers the new one, on a row or complete, in its place.
SendQuery(c, r) ==
    /\ conn[c] = "open"
    /\ res[r] = "free"
    /\ res' = [q \in Results |-> IF q = r THEN "live"
                                 ELSE IF q \in ClosesFirst(c) THEN "cleared"
                                 ELSE res[q]]
    /\ owner' = [owner EXCEPT ![r] = c]
    /\ onRow' \in {onRow \ ClosesFirst(c), (onRow \ ClosesFirst(c)) \cup {r}}
    /\ ref' = [ref EXCEPT ![c] = r]
    /\ UNCHANGED <<connVars, busyVars, crashed>>

Unregister(c) ==
    /\ res' = [q \in Results |-> IF q \in ClosesFirst(c) THEN "cleared" ELSE res[q]]
    /\ onRow' = onRow \ ClosesFirst(c)
    /\ ref' = [ref EXCEPT ![c] = None]

\* SQLite ends the transaction on some errors (disk full, I/O, lock).
MayRollBack(c) == txn' \in {txn, [txn EXCEPT ![c] = FALSE]}

\* Preparing, binding or the first step fails, and the new result, if there is
\* one, is cleared again: the old result is gone too.
SendQueryFails(c) ==
    /\ conn[c] = "open"
    /\ Unregister(c)
    /\ MayRollBack(c)
    /\ UNCHANGED <<conn, db, leaks, keyed, owner, busyVars, crashed>>

\* check_connection() stops dbSendQuery on a closed connection, after the old
\* result was closed.
SendQueryClosed(c) ==
    /\ conn[c] = "closed"
    /\ IF ref[c] = None
       THEN UNCHANGED <<db, txn, res, onRow>>
       ELSE ReleaseResult(ref[c])
    /\ ref' = [ref EXCEPT ![c] = None]
    /\ UNCHANGED <<conn, leaks, keyed, owner, busyVars, crashed>>

\* dbFetch or dbBind on a live result steps its statement.
Step(r) ==
    /\ res[r] = "live"
    /\ onRow' \in {onRow \cup {r}, onRow \ {r}}
    /\ MayRollBack(owner[r])
    /\ UNCHANGED <<conn, db, leaks, keyed, ref, res, owner, busyVars, crashed>>

\* dbBegin, dbCommit and dbRollback: a statement sent, run and cleared.
Transact(c) ==
    /\ conn[c] = "open"
    /\ Unregister(c)
    /\ txn' = [txn EXCEPT ![c] = ~txn[c]]
    /\ UNCHANGED <<conn, db, leaks, keyed, owner, busyVars, crashed>>

\* dbWriteTable of a file whose lines have another number of columns, or which
\* cannot be opened: dbBegin closes the open result set, then RS_sqlite_import
\* leaves by Rf_error() and does not finalize its INSERT.
ImportStops(c) ==
    /\ conn[c] = "open"
    /\ Unregister(c)
    /\ leaks[c] < MaxLeaks
    /\ leaks' = [leaks EXCEPT ![c] = @ + 1]
    /\ UNCHANGED <<conn, db, keyed, txn, owner, busyVars, crashed>>

(***************************************************************************)
(* sqliteIsTransacting: connection_in_transaction does not check pConn_.   *)
(***************************************************************************)

IsTransacting(c) == conn[c] = "open" /\ UNCHANGED vars

IsTransactingClosed(c) == conn[c] = "closed" /\ Crash("in_transaction")

(***************************************************************************)
(* The busy handler.                                                       *)
(***************************************************************************)

\* Mutant of SetBusyHandler: no release_callback_data().
SetBusyHandler_KeepsOld(c, h) ==
    /\ conn[c] = "open" /\ h \notin preserved
    /\ preserved' = preserved \cup (IF h = None THEN {} ELSE {h})
    /\ busy_callback_' = [busy_callback_ EXCEPT ![c] = h]
    /\ handler' = [handler EXCEPT ![c] =
                      IF h = None THEN "null"
                      ELSE IF h \in Timeouts THEN "timeout" ELSE h]
    /\ UNCHANGED <<connVars, resVars, crashed>>

\* sqliteSetBusyHandler wraps the caller's function in a closure of its own, so
\* h is an object no connection has.
SetBusyHandler(c, h) ==
    /\ conn[c] = "open"
    /\ h \notin preserved
    /\ preserved' = (preserved \ {busy_callback_[c]})
                        \cup (IF h = None THEN {} ELSE {h})
    /\ busy_callback_' = [busy_callback_ EXCEPT ![c] = h]
    /\ handler' = [handler EXCEPT ![c] =
                      IF h = None THEN "null"
                      ELSE IF h \in Timeouts THEN "timeout" ELSE h]
    /\ UNCHANGED <<connVars, resVars, crashed>>

\* Another connection holds a lock when r is stepped: SQLite asks the handler;
\* busy_callback_helper calls the R function it was given.
Locked(r) ==
    /\ res[r] = "live"
    /\ IF handler[owner[r]] = "null"
       THEN Crash("busy_handler")
       ELSE UNCHANGED vars

(***************************************************************************)
(* sqliteCopyDatabase: DbConnection::copy_to.                              *)
(***************************************************************************)

\* The destination may be in use: a transaction that has touched it, or a
\* statement on one of its rows.
MayBeInUse(to) == txn[to] \/ \E r \in onRow : owner[r] = to

CopyOk(from, to) ==
    /\ from # to /\ conn[from] = "open" /\ conn[to] = "open"
    /\ keyed[from] = keyed[to]
    /\ UNCHANGED vars

\* The destination is closed: "disconnected".
CopyToClosed(from, to) ==
    /\ conn[from] # "none" /\ conn[to] = "closed"
    /\ UNCHANGED vars

\* sqlite3_backup_step stops before the end (a writer has the source, the
\* destination is locked or full): copy_to throws without sqlite3_backup_finish.
CopyStops(from, to) ==
    /\ from # to /\ conn[from] = "open" /\ conn[to] = "open"
    /\ keyed[from] = keyed[to]
    /\ leaks[from] < MaxLeaks
    /\ leaks' = [leaks EXCEPT ![from] = @ + 1]
    /\ UNCHANGED <<conn, db, keyed, txn, resVars, busyVars, crashed>>

\* sqlite3_backup_init is given a NULL source, or finds that it cannot copy and
\* returns NULL, which goes to sqlite3_backup_step.
CopyCrashes(from, to) ==
    /\ conn[from] # "none" /\ conn[to] = "open"
    /\ \/ conn[from] = "closed"
       \/ from = to
       \/ keyed[from] # keyed[to]
       \/ MayBeInUse(to)
    /\ Crash("copy")

-----------------------------------------------------------------------------

Next ==
    \/ \E c \in Conns :
          \/ \E key \in BOOLEAN : Connect(c, key)
          \/ Disconnect(c) \/ DisconnectAgain(c) \/ Collect(c)
          \/ SendQueryFails(c) \/ SendQueryClosed(c) \/ Transact(c)
          \/ ImportStops(c)
          \/ IsTransacting(c) \/ IsTransactingClosed(c)
          \/ \E r \in Results : SendQuery(c, r)
          \/ \E h \in Callbacks \cup {None} : SetBusyHandler(c, h)
          \/ \E to \in Conns : \/ CopyOk(c, to) \/ CopyToClosed(c, to)
                               \/ CopyStops(c, to) \/ CopyCrashes(c, to)
    \/ \E r \in Results :
          \/ ClearResult(r) \/ ClearExpired(r) \/ Forget(r)
          \/ Step(r) \/ Locked(r)
    \/ Quit

Spec == Init /\ [][Next]_vars

-----------------------------------------------------------------------------

\* Every variable has its type; only a live result has a statement on a row, and
\* only an object that is in use has an owner.
TypeOK ==
    /\ conn \in [Conns -> {"none", "open", "closed"}]
    /\ db \in [Conns -> {"none", "open", "zombie", "freed"}]
    /\ leaks \in [Conns -> 0 .. MaxLeaks]
    /\ keyed \in [Conns -> BOOLEAN]
    /\ txn \in [Conns -> BOOLEAN]
    /\ ref \in [Conns -> Results \cup {None}]
    /\ res \in [Results -> {"free", "live", "cleared"}]
    /\ owner \in [Results -> Conns \cup {None}]
    /\ onRow \subseteq {r \in Results : res[r] = "live"}
    /\ \A r \in Results : res[r] = "free" <=> owner[r] = None
    /\ busy_callback_ \in [Conns -> Callbacks \cup {None}]
    /\ handler \in [Conns -> Callbacks \cup {"none", "timeout", "null"}]
    /\ preserved \subseteq Callbacks
    /\ crashed \in {"no", "in_transaction", "busy_handler", "copy"}

\* conn@ref$result is the one live result of the connection: dbSendQuery leaves
\* no second one behind, and clearing a result that a later dbSendQuery has
\* already closed does not unregister the later one.  Only so may dbClearResult
\* set the registry to NULL without looking at what is in it.
RegistryExact ==
    \A c \in Conns : Live(c) = IF ref[c] = None THEN {} ELSE {ref[c]}

\* The handle a live result works on (SqliteResultImpl::conn, a bare pointer) is
\* not freed, also after dbDisconnect; the connection object itself never holds
\* on to a handle that is not open.
HandleLifetime ==
    /\ \A r \in Results : res[r] = "live" => db[owner[r]] \in {"open", "zombie"}
    /\ \A c \in Conns : conn[c] = "open" <=> db[c] = "open"

\* A disconnected connection is released when its results are closed, whichever
\* of dbDisconnect, dbClearResult and dbSendQuery comes last, if no backup and
\* no import was left unfinished on it.
ClosedWhenIdle ==
    \A c \in Conns :
        (conn[c] = "closed" /\ Live(c) = {} /\ leaks[c] = 0) => db[c] = "freed"

\* The R objects protected by R_PreserveObject are the busy handlers of the
\* connections, none too many and none too few; the closure that SQLite calls
\* for an open connection is one of them (set_busy_handler, disconnect, the
\* destructor).
HandlerPreserved ==
    /\ preserved = {busy_callback_[c] : c \in Conns} \ {None}
    /\ \A c \in Conns :
          (conn[c] = "open" /\ handler[c] \in Callbacks) => handler[c] \in preserved

\* "The connection will be released when they are closed" (connection.cpp:60):
\* a disconnected connection without open results has no handle left.
ReleasedWhenResultsClosed ==
    \A c \in Conns : (conn[c] = "closed" /\ Live(c) = {}) => db[c] = "freed"

\* "`NULL`: fail immediately" (SQLiteConnection.R:109): a locked database never
\* takes the process down.
NullFailsImmediately == crashed # "busy_handler"
=============================================================================
