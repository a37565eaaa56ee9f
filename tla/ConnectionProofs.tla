-------------------------- MODULE ConnectionProofs --------------------------
(***************************************************************************)
(* The registry of results, the life of SQLite's handle and the protection *)
(* of the busy handlers, for any number of connections, results and        *)
(* closures.                                                               *)
(*                                                                         *)
(* The properties speak of Live(c), the set of live results.  The          *)
(* inductive invariant says pointwise what the registry is (Registered),   *)
(* and adds that objects in use belong to connections in use (InUse), how  *)
(* the two halves of a connection go together (Handles) and that no two    *)
(* connections share a busy handler (Unshared).                            *)
(***************************************************************************)
EXTENDS Connection, TLAPS

Registered ==
    \A r \in Results, c \in Conns :
        (res[r] = "live" /\ owner[r] = c) <=> ref[c] = r

InUse == \A r \in Results : res[r] # "free" => conn[owner[r]] # "none"

Handles ==
    \A c \in Conns :
        /\ conn[c] = "open" <=> db[c] = "open"
        /\ conn[c] = "closed" => db[c] \in {"zombie", "freed"}

Freed == \A c \in Conns : db[c] = "freed" => ref[c] = None

Idle ==
    \A c \in Conns :
        (conn[c] = "closed" /\ ref[c] = None /\ leaks[c] = 0) => db[c] = "freed"

HandleInv == Registered /\ InUse /\ Handles /\ Freed /\ Idle

Unshared ==
    \A c, d \in Conns :
        (busy_callback_[c] = busy_callback_[d] /\ c # d) => busy_callback_[c] = None

Protected ==
    \A h \in Callbacks : h \in preserved <=> \E c \in Conns : busy_callback_[c] = h

Installed ==
    \A c \in Conns :
        (conn[c] = "open" /\ handler[c] \in Callbacks) => busy_callback_[c] = handler[c]

Fresh == \A c \in Conns : conn[c] = "none" => handler[c] = "none"

HandlerInv == Unshared /\ Protected /\ Installed /\ Fresh

CInv == TypeOK /\ HandleInv /\ HandlerInv

USE NoneAssumption, HandlerNamesAssumption, BoundsAssumption

-----------------------------------------------------------------------------

\* The live results of a connection, by the registry.
LEMMA LiveOfRef ==
    ASSUME TypeOK, Registered, NEW c \in Conns
    PROVE  Live(c) = IF ref[c] = None THEN {} ELSE {ref[c]}
  <1>1. ref[c] \in Results \cup {None}
    BY DEF TypeOK
  <1>2. \A r \in Results : r \in Live(c) <=> ref[c] = r
    BY DEF Registered, Live
  <1>. QED
    BY <1>1, <1>2 DEF Live

LEMMA InitCInv == Init => CInv
  BY DEF Init, CInv, TypeOK, HandleInv, Registered, InUse, Handles, Freed, Idle,
         HandlerInv, Unshared, Protected, Installed, Fresh

LEMMA NewProcessCInv ==
    ASSUME NEW why \in {"no", "in_transaction", "busy_handler", "copy"},
           NewProcess(why)
    PROVE  CInv'
  BY DEF NewProcess, CInv, TypeOK, HandleInv, Registered, InUse, Handles, Freed,
         Idle, HandlerInv, Unshared, Protected, Installed, Fresh

LEMMA StutterCInv == CInv /\ UNCHANGED vars => CInv'
  BY DEF CInv, TypeOK, HandleInv, Registered, InUse, Handles, Freed, Idle,
         HandlerInv, Unshared, Protected, Installed, Fresh,
         vars, connVars, resVars, busyVars

-----------------------------------------------------------------------------
(***************************************************************************)
(* Actions that leave the busy handlers alone.                             *)
(***************************************************************************)

LEMMA SameHandlers ==
    ASSUME HandlerInv, UNCHANGED busyVars,
           \A c \in Conns : conn'[c] = conn[c]
    PROVE  HandlerInv'
  BY DEF HandlerInv, Unshared, Protected, Installed, Fresh, busyVars

\* The end of a statement, on an open connection or on a zombie.
LEMMA ReleaseResultKeeps ==
    ASSUME CInv, NEW r \in Results, res[r] = "live",
           ReleaseResult(r),
           ref' = [ref EXCEPT ![owner[r]] = None],
           UNCHANGED <<conn, leaks, keyed, owner, busyVars, crashed>>
    PROVE  CInv'
  <1>. USE DEF CInv
  <1>1. owner[r] \in Conns /\ ref[owner[r]] = r
    BY DEF TypeOK, HandleInv, Registered
  <1>2. Live(owner[r]) \ {r} = {}
    BY <1>1, LiveOfRef DEF HandleInv
  <1>3. TypeOK'
    <2>1. /\ res' = [res EXCEPT ![r] = "cleared"] /\ onRow' = onRow \ {r}
          /\ UNCHANGED <<conn, leaks, keyed, owner, busy_callback_, handler,
                         preserved, crashed>>
      BY DEF ReleaseResult, busyVars
    <2>2. db' \in [Conns -> {"none", "open", "zombie", "freed"}]
      BY <1>1, <1>2 DEF TypeOK, ReleaseResult, CloseHandle
    <2>3. txn' \in [Conns -> BOOLEAN]
      BY <1>1, <1>2, ZenonT(30) DEF TypeOK, ReleaseResult, CloseHandle
    <2>4. onRow' \subseteq {q \in Results : res'[q] = "live"}
      BY <2>1 DEF TypeOK
    <2>5. \A q \in Results : res'[q] = "free" <=> owner'[q] = None
      BY <1>1, <2>1 DEF TypeOK
    <2>. QED
      <3>1. ref' \in [Conns -> Results \cup {None}]
        BY <1>1 DEF TypeOK
      <3>2. res' \in [Results -> {"free", "live", "cleared"}]
        BY <2>1 DEF TypeOK
      <3>. QED
        BY <2>1, <2>2, <2>3, <2>4, <2>5, <3>1, <3>2 DEF TypeOK
  <1>4. Registered' /\ InUse'
    BY <1>1 DEF TypeOK, HandleInv, Registered, InUse, ReleaseResult
  <1>5. Handles' /\ Freed' /\ Idle'
    BY <1>1, <1>2 DEF TypeOK, HandleInv, Registered, InUse, Handles, Freed, Idle,
                      ReleaseResult, CloseHandle
  <1>6. HandlerInv'
    BY SameHandlers DEF busyVars
  <1>. QED
    BY <1>3, <1>4, <1>5, <1>6 DEF HandleInv

LEMMA ClearResultCInv ==
    ASSUME CInv, NEW r \in Results, ClearResult(r)
    PROVE  CInv'
  BY ReleaseResultKeeps DEF ClearResult

LEMMA SendQueryClosedCInv ==
    ASSUME CInv, NEW c \in Conns, SendQueryClosed(c)
    PROVE  CInv'
  <1>. USE DEF CInv
  <1>1. CASE ref[c] = None
    <2>1. UNCHANGED vars
      BY <1>1 DEF SendQueryClosed, TypeOK, vars, connVars, resVars, busyVars
    <2>. QED
      BY <2>1, StutterCInv
  <1>2. CASE ref[c] # None
    <2>1. ref[c] \in Results /\ res[ref[c]] = "live" /\ owner[ref[c]] = c
      BY <1>2 DEF TypeOK, HandleInv, Registered
    <2>. QED
      BY <1>2, <2>1, ReleaseResultKeeps DEF SendQueryClosed
  <1>. QED
    BY <1>1, <1>2

LEMMA ForgetCInv ==
    ASSUME CInv, NEW r \in Results, Forget(r)
    PROVE  CInv'
  <1>. USE DEF CInv
  <1>1. TypeOK'
    BY DEF TypeOK, Forget, connVars, busyVars
  <1>2. HandleInv'
    BY DEF TypeOK, Forget, connVars, HandleInv, Registered, InUse, Handles,
           Freed, Idle
  <1>3. HandlerInv'
    BY SameHandlers DEF Forget, connVars
  <1>. QED
    BY <1>1, <1>2, <1>3

\* The registered result is closed on an open connection.
LEMMA UnregisterKeeps ==
    ASSUME CInv, NEW c \in Conns, conn[c] = "open", Unregister(c),
           txn' \in [Conns -> BOOLEAN], leaks' \in [Conns -> 0 .. MaxLeaks],
           \A d \in Conns \ {c} : leaks'[d] = leaks[d],
           UNCHANGED <<conn, db, keyed, owner, busyVars, crashed>>
    PROVE  CInv'
  <1>. USE DEF CInv
  <1>1. TypeOK'
    <2>1. \A q \in Results : q \in ClosesFirst(c) <=> ref[c] = q
      BY DEF ClosesFirst
    <2>2. /\ res' \in [Results -> {"free", "live", "cleared"}]
          /\ ref' \in [Conns -> Results \cup {None}]
      BY DEF TypeOK, Unregister
    <2>3. onRow' \subseteq {q \in Results : res'[q] = "live"}
      BY <2>1 DEF TypeOK, Unregister
    <2>4. \A q \in Results : res'[q] = "free" <=> owner'[q] = None
      BY <2>1 DEF TypeOK, Unregister, HandleInv, Registered
    <2>. QED
      BY <2>2, <2>3, <2>4 DEF TypeOK, busyVars
  <1>2. Registered' /\ InUse'
    BY DEF TypeOK, Unregister, ClosesFirst, HandleInv, Registered, InUse
  <1>3. Handles' /\ Freed' /\ Idle'
    BY DEF TypeOK, Unregister, HandleInv, Handles, Freed, Idle
  <1>4. HandlerInv'
    BY SameHandlers
  <1>. QED
    BY <1>1, <1>2, <1>3, <1>4 DEF HandleInv

LEMMA SendQueryFailsCInv ==
    ASSUME CInv, NEW c \in Conns, SendQueryFails(c)
    PROVE  CInv'
  <1>1. txn' \in [Conns -> BOOLEAN] /\ leaks' \in [Conns -> 0 .. MaxLeaks]
    BY DEF SendQueryFails, MayRollBack, CInv, TypeOK
  <1>. QED
    BY <1>1, UnregisterKeeps DEF SendQueryFails

LEMMA TransactCInv ==
    ASSUME CInv, NEW c \in Conns, Transact(c)
    PROVE  CInv'
  <1>1. txn' \in [Conns -> BOOLEAN] /\ leaks' \in [Conns -> 0 .. MaxLeaks]
    BY DEF Transact, CInv, TypeOK
  <1>. QED
    BY <1>1, UnregisterKeeps DEF Transact

LEMMA ImportStopsCInv ==
    ASSUME CInv, NEW c \in Conns, ImportStops(c)
    PROVE  CInv'
  <1>1. /\ txn' \in [Conns -> BOOLEAN] /\ leaks' \in [Conns -> 0 .. MaxLeaks]
        /\ \A d \in Conns \ {c} : leaks'[d] = leaks[d]
    BY DEF ImportStops, CInv, TypeOK
  <1>. QED
    BY <1>1, UnregisterKeeps DEF ImportStops

LEMMA SendQueryCInv ==
    ASSUME CInv, NEW c \in Conns, NEW r \in Results, SendQuery(c, r)
    PROVE  CInv'
  <1>. USE DEF CInv
  <1>1. r # ref[c] /\ owner[r] = None
    BY DEF SendQuery, TypeOK, HandleInv, Registered
  <1>2. \A q \in Results : q \in ClosesFirst(c) <=> ref[c] = q
    BY DEF ClosesFirst
  <1>3. \A q \in Results : owner'[q] = IF q = r THEN c ELSE owner[q]
    BY DEF SendQuery, TypeOK
  <1>4. TypeOK'
    <2>1. /\ UNCHANGED <<conn, db, leaks, keyed, txn, busy_callback_, handler,
                         preserved, crashed>>
          /\ ref' \in [Conns -> Results \cup {None}]
          /\ res' \in [Results -> {"free", "live", "cleared"}]
          /\ owner' \in [Results -> Conns \cup {None}]
      BY DEF SendQuery, TypeOK, connVars, busyVars
    <2>2. onRow' \subseteq {q \in Results : res'[q] = "live"}
      BY <1>2 DEF SendQuery, TypeOK
    <2>3. \A q \in Results : res'[q] = "free" <=> owner'[q] = None
      BY <1>1, <1>2, <1>3 DEF SendQuery, TypeOK, HandleInv, Registered
    <2>. QED
      BY <2>1, <2>2, <2>3 DEF TypeOK
  <1>5. Registered'
    <2>. SUFFICES ASSUME NEW q \in Results, NEW d \in Conns
                  PROVE  (res'[q] = "live" /\ owner'[q] = d) <=> ref'[d] = q
      BY DEF Registered
    <2>1. ref'[d] = IF d = c THEN r ELSE ref[d]
      BY DEF SendQuery, TypeOK
    <2>2. res'[q] = IF q = r THEN "live" ELSE IF ref[c] = q THEN "cleared" ELSE res[q]
      BY <1>2 DEF SendQuery
    <2>3. (res[q] = "live" /\ owner[q] = d) <=> ref[d] = q
      BY DEF HandleInv, Registered
    <2>4. (res[q] = "live" /\ owner[q] = c) <=> ref[c] = q
      BY DEF HandleInv, Registered
    <2>. QED
      BY <1>1, <1>3, <2>1, <2>2, <2>3, <2>4 DEF TypeOK
  <1>6. InUse'
    BY <1>1, <1>2, <1>3 DEF SendQuery, TypeOK, HandleInv, InUse, connVars, Registered
  <1>7. Handles' /\ Freed' /\ Idle'
    BY DEF SendQuery, TypeOK, HandleInv, Handles, Freed, Idle, connVars
  <1>8. HandlerInv'
    BY SameHandlers DEF SendQuery, connVars
  <1>. QED
    BY <1>4, <1>5, <1>6, <1>7, <1>8 DEF HandleInv

LEMMA StepCInv ==
    ASSUME CInv, NEW r \in Results, Step(r)
    PROVE  CInv'
  <1>. USE DEF CInv
  <1>1. TypeOK'
    BY DEF Step, MayRollBack, TypeOK, busyVars
  <1>2. HandleInv'
    BY DEF Step, HandleInv, Registered, InUse, Handles, Freed, Idle
  <1>3. HandlerInv'
    BY SameHandlers DEF Step
  <1>. QED
    BY <1>1, <1>2, <1>3

LEMMA CopyStopsCInv ==
    ASSUME CInv, NEW from \in Conns, NEW to \in Conns, CopyStops(from, to)
    PROVE  CInv'
  <1>. USE DEF CInv
  <1>1. TypeOK'
    BY DEF CopyStops, TypeOK, resVars, busyVars
  <1>2. HandleInv'
    BY DEF CopyStops, TypeOK, HandleInv, Registered, InUse, Handles, Freed, Idle,
           resVars
  <1>3. HandlerInv'
    BY SameHandlers DEF CopyStops
  <1>. QED
    BY <1>1, <1>2, <1>3

-----------------------------------------------------------------------------
(***************************************************************************)
(* Actions on the connection object and its busy handler.                  *)
(***************************************************************************)

LEMMA ConnectCInv ==
    ASSUME CInv, NEW c \in Conns, NEW key \in BOOLEAN, Connect(c, key)
    PROVE  CInv'
  <1>. USE DEF CInv
  <1>1. TypeOK'
    BY DEF Connect, TypeOK, resVars, busyVars
  <1>2. ref[c] = None
    BY DEF Connect, TypeOK, HandleInv, Registered, InUse
  <1>3. HandleInv'
    BY <1>2 DEF Connect, TypeOK, HandleInv, Registered, InUse, Handles, Freed,
                Idle, resVars
  <1>4. HandlerInv'
    BY DEF Connect, TypeOK, HandlerInv, Unshared, Protected, Installed, Fresh, busyVars
  <1>. QED
    BY <1>1, <1>3, <1>4

\* release_callback_data() of c.
LEMMA ReleaseCallbackKeeps ==
    ASSUME TypeOK, HandlerInv, NEW c \in Conns, ReleaseCallback(c)
    PROVE  /\ preserved' \subseteq Callbacks
           /\ busy_callback_' \in [Conns -> Callbacks \cup {None}]
           /\ \A d \in Conns : busy_callback_'[d] = IF d = c THEN None
                                                    ELSE busy_callback_[d]
           /\ Unshared' /\ Protected'
  BY DEF TypeOK, HandlerInv, Unshared, Protected, ReleaseCallback

LEMMA DisconnectCInv ==
    ASSUME CInv, NEW c \in Conns, Disconnect(c)
    PROVE  CInv'
  <1>. USE DEF CInv
  <1>1. Live(c) = {} <=> ref[c] = None
    BY LiveOfRef DEF HandleInv
  <1>2. TypeOK'
    <2>1. /\ preserved' \subseteq Callbacks
          /\ busy_callback_' \in [Conns -> Callbacks \cup {None}]
      BY ReleaseCallbackKeeps DEF Disconnect
    <2>2. db' \in [Conns -> {"none", "open", "zombie", "freed"}]
      BY DEF TypeOK, Disconnect, CloseHandle
    <2>3. txn' \in [Conns -> BOOLEAN]
      BY DEF TypeOK, Disconnect, CloseHandle
    <2>. QED
      BY <2>1, <2>2, <2>3 DEF Disconnect, TypeOK, resVars
  <1>3. HandleInv'
    BY <1>1 DEF Disconnect, CloseHandle, TypeOK, HandleInv, Registered, InUse,
                Handles, Freed, Idle, resVars
  <1>4. Unshared' /\ Protected' /\ Installed' /\ Fresh'
    BY ReleaseCallbackKeeps DEF Disconnect, TypeOK, HandlerInv, Installed, Fresh
  <1>. QED
    BY <1>2, <1>3, <1>4 DEF HandlerInv

LEMMA CollectCInv ==
    ASSUME CInv, NEW c \in Conns, Collect(c)
    PROVE  CInv'
  <1>. USE DEF CInv
  <1>1. TypeOK'
    BY ReleaseCallbackKeeps DEF Collect, TypeOK
  <1>2. HandleInv'
    BY DEF Collect, TypeOK, HandleInv, Registered, InUse, Handles, Freed, Idle
  <1>3. Unshared' /\ Protected' /\ Installed' /\ Fresh'
    BY ReleaseCallbackKeeps DEF Collect, TypeOK, HandlerInv, Installed, Fresh
  <1>. QED
    BY <1>1, <1>2, <1>3 DEF HandlerInv

LEMMA SetBusyHandlerCInv ==
    ASSUME CInv, NEW c \in Conns, NEW h \in Callbacks \cup {None},
           SetBusyHandler(c, h)
    PROVE  CInv'
  <1>. USE DEF CInv
  <1>1. \A d \in Conns : busy_callback_'[d] = IF d = c THEN h ELSE busy_callback_[d]
    BY DEF SetBusyHandler, TypeOK
  <1>2. TypeOK'
    BY DEF SetBusyHandler, TypeOK, connVars, resVars
  <1>3. HandleInv'
    BY DEF SetBusyHandler, HandleInv, Registered, InUse, Handles, Freed, Idle,
           connVars, resVars
  <1>4. Unshared'
    BY <1>1 DEF SetBusyHandler, TypeOK, HandlerInv, Unshared, Protected
  <1>5. Protected'
    <2>. SUFFICES ASSUME NEW g \in Callbacks
                  PROVE  g \in preserved' <=> \E d \in Conns : busy_callback_'[d] = g
      BY DEF Protected
    <2>1. g \in preserved' <=> (g = h \/ (g \in preserved /\ g # busy_callback_[c]))
      BY DEF SetBusyHandler
    <2>2. g \in preserved <=> \E d \in Conns : busy_callback_[d] = g
      BY DEF HandlerInv, Protected
    <2>3. g # None
      OBVIOUS
    <2>. QED
      BY <1>1, <2>1, <2>2, <2>3 DEF HandlerInv, Unshared
  <1>6. Installed' /\ Fresh'
    BY <1>1 DEF SetBusyHandler, TypeOK, HandlerInv, Installed, Fresh, connVars
  <1>. QED
    BY <1>2, <1>3, <1>4, <1>5, <1>6 DEF HandlerInv

-----------------------------------------------------------------------------

LEMMA NextCInv ==
    ASSUME CInv, [Next]_vars
    PROVE  CInv'
  <1>1. CASE UNCHANGED vars
    BY <1>1, StutterCInv
  <1>2. ASSUME NEW c \in Conns, NEW key \in BOOLEAN, Connect(c, key) PROVE CInv'
    BY <1>2, ConnectCInv
  <1>3. ASSUME NEW c \in Conns,
               \/ Disconnect(c) \/ DisconnectAgain(c) \/ Collect(c)
               \/ SendQueryFails(c) \/ SendQueryClosed(c) \/ Transact(c)
               \/ ImportStops(c)
        PROVE CInv'
    BY <1>3, DisconnectCInv, StutterCInv, CollectCInv, SendQueryFailsCInv,
       SendQueryClosedCInv, TransactCInv, ImportStopsCInv DEF DisconnectAgain
  <1>4. ASSUME NEW c \in Conns, IsTransacting(c) \/ IsTransactingClosed(c)
        PROVE CInv'
    BY <1>4, StutterCInv, NewProcessCInv DEF IsTransacting, IsTransactingClosed, Crash
  <1>5. ASSUME NEW c \in Conns, NEW r \in Results, SendQuery(c, r) PROVE CInv'
    BY <1>5, SendQueryCInv
  <1>6. ASSUME NEW c \in Conns, NEW h \in Callbacks \cup {None}, SetBusyHandler(c, h)
        PROVE CInv'
    BY <1>6, SetBusyHandlerCInv
  <1>7. ASSUME NEW c \in Conns, NEW to \in Conns,
               \/ CopyOk(c, to) \/ CopyToClosed(c, to)
               \/ CopyStops(c, to) \/ CopyCrashes(c, to)
        PROVE CInv'
    BY <1>7, StutterCInv, CopyStopsCInv, NewProcessCInv
       DEF CopyOk, CopyToClosed, CopyCrashes, Crash
  <1>8. ASSUME NEW r \in Results, ClearResult(r) \/ ClearExpired(r) \/ Forget(r)
        PROVE CInv'
    BY <1>8, ClearResultCInv, ForgetCInv, StutterCInv DEF ClearExpired
  <1>9. ASSUME NEW r \in Results, Step(r) \/ Locked(r) PROVE CInv'
    BY <1>9, StepCInv, StutterCInv, NewProcessCInv DEF Locked, Crash
  <1>10. CASE Quit
    BY <1>10, NewProcessCInv DEF Quit
  <1>. QED
    BY <1>1, <1>2, <1>3, <1>4, <1>5, <1>6, <1>7, <1>8, <1>9, <1>10 DEF Next

\* The invariant above holds in every reachable state.
THEOREM ConnectionInvariance == Spec => []CInv
  <1>1. CInv /\ [Next]_vars => CInv'
    BY NextCInv
  <1>. QED
    BY InitCInv, <1>1, PTL DEF Spec

\* Type correctness, for any number of connections, results and handlers.
THEOREM ConnectionTypeCorrect == Spec => []TypeOK
  <1>1. CInv => TypeOK
    BY DEF CInv
  <1>. QED
    BY ConnectionInvariance, <1>1, PTL

\* The registry always holds exactly the live result of its connection
\* (dbSendQuery, dbClearResult).
THEOREM RegistryCorrect == Spec => []RegistryExact
  <1>1. CInv => RegistryExact
    BY LiveOfRef DEF CInv, HandleInv, RegistryExact
  <1>. QED
    BY ConnectionInvariance, <1>1, PTL

\* No result ever works on a freed handle (sqlite3_close_v2, result_release).
THEOREM HandleLifetimeCorrect == Spec => []HandleLifetime
  <1>1. ASSUME CInv PROVE HandleLifetime
    <2>. USE <1>1 DEF CInv
    <2>1. ASSUME NEW r \in Results, res[r] = "live"
          PROVE  db[owner[r]] \in {"open", "zombie"}
      <3>1. owner[r] \in Conns /\ ref[owner[r]] = r
        BY <2>1 DEF TypeOK, HandleInv, Registered
      <3>2. conn[owner[r]] \in {"open", "closed"}
        BY <2>1, <3>1 DEF TypeOK, HandleInv, InUse
      <3>. QED
        BY <3>1, <3>2 DEF TypeOK, HandleInv, Handles, Freed
    <2>. QED
      BY <2>1 DEF HandleLifetime, HandleInv, Handles
  <1>. QED
    BY ConnectionInvariance, <1>1, PTL

\* The handle of a disconnected connection goes with its last result, if no
\* backup was left unfinished (connection_release, result_release).
THEOREM ClosingCorrect == Spec => []ClosedWhenIdle
  <1>1. CInv => ClosedWhenIdle
    BY LiveOfRef DEF CInv, HandleInv, Idle, ClosedWhenIdle
  <1>. QED
    BY ConnectionInvariance, <1>1, PTL

\* R_PreserveObject protects the busy handlers in use and nothing else
\* (set_busy_handler, release_callback_data).
THEOREM HandlerCorrect == Spec => []HandlerPreserved
  <1>1. ASSUME CInv PROVE HandlerPreserved
    <2>. USE <1>1 DEF CInv
    <2>1. preserved = {busy_callback_[c] : c \in Conns} \ {None}
      BY DEF TypeOK, HandlerInv, Protected
    <2>2. ASSUME NEW c \in Conns, conn[c] = "open", handler[c] \in Callbacks
          PROVE  handler[c] \in preserved
      BY <2>2 DEF HandlerInv, Protected, Installed
    <2>. QED
      BY <2>1, <2>2 DEF HandlerPreserved
  <1>. QED
    BY ConnectionInvariance, <1>1, PTL
=============================================================================
