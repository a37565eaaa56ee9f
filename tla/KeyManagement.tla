--------------------------- MODULE KeyManagement ---------------------------
(***************************************************************************)
(* Encrypted databases: the key of dbConnect, databaseKeyAdd,              *)
(* databaseKeyRemove, databaseKeyChange and databaseIsEncryptionOn         *)
(* (src/R/), on the files and connections of one R session.                *)
(*                                                                         *)
(* Each function sends a few statements to SQLCipher, and stops at the     *)
(* first that fails.  What SQLCipher does with them is modelled by its     *)
(* effect: a handle has a codec, which a first read of the file confirms   *)
(* or breaks; PRAGMA key replaces a codec that is not confirmed and is     *)
(* ignored otherwise; PRAGMA rekey writes the file anew.  Keys with quotes *)
(* in them, locks between connections, and databaseKeyChange inside a      *)
(* transaction are left out.                                               *)
(***************************************************************************)
EXTENDS FiniteSets

CONSTANTS
    Files,
    Conns,
    HexKeys,      \* strings of 64 or 96 hex digits
    Passwords,    \* other strings, but the empty one
    NoFile

ASSUME FilesAssumption == NoFile \notin Files

ASSUME KeysAssumption ==
    /\ HexKeys \cap Passwords = {}
    /\ {"NULL", ""} \cap (HexKeys \cup Passwords) = {}

\* What R code may pass as a key; "NULL" stands for all that is no character string.
Arguments == HexKeys \cup Passwords \cup {"NULL", ""}

\* What a file is encrypted with: not at all, or by a key as SQLCipher gets it,
\* raw (x'...') or as a passphrase.
Plain == <<"plain", "">>
Fresh == <<"fresh", "">>      \* the file has no page yet
Specs == {"raw", "pass"} \X (HexKeys \cup Passwords)

VARIABLES
    lock,      \* of each file: Fresh, Plain or a key
    data,      \* of each file: its tables, "none", "all", or "part" of them
    on,        \* the file a connection is on
    codec,     \* of each connection's handle: Plain or a key
    state,     \* of the codec: "unused", "used", and after a page it could not
               \* decrypt "broken", or "lost" if it was used before
    attached,  \* schemas left attached
    pending,   \* a result set is open
    given,     \* the key argument the caller has last set a connection's key with
    known,     \* ... and, of each file, the one it was written with
    failed,    \* <<c, schema>>: such a copy has failed on the connection
    copied     \* the copy, if the last call has reported one

handle == <<on, codec, state, attached, pending>>
ghosts == <<given, known, failed>>
vars   == <<lock, data, handle, ghosts, copied>>

NoCopy == [from |-> NoFile, file |-> NoFile, key |-> "NULL"]

(***************************************************************************)
(* Keys.                                                                   *)
(***************************************************************************)

key_type(x) ==
    CASE x = "NULL" -> "NA"
      [] x \in HexKeys -> "key"
      [] x \in Passwords \cup {""} -> "pass"

\* As dbConnect and databaseKeyChange put a key into their PRAGMAs.
Pragma(x) == IF key_type(x) = "key" THEN <<"raw", x>> ELSE <<"pass", x>>

\* Mutant of AttachKey: a hex key is handed on as a passphrase.
AttachKey_Unquoted(x) == IF x = "" THEN Plain ELSE <<"pass", x>>

\* As databaseKeyAdd binds it; for ATTACH an empty key means none.
AttachKey(x) ==
    IF x = "" THEN Plain
    ELSE IF key_type(x) = "key" THEN <<"raw", x>> ELSE <<"pass", x>>

(***************************************************************************)
(* SQLCipher.                                                              *)
(***************************************************************************)

Opens(k, f) == lock[f] \in {Fresh, k}

Open(c) == on[c] # NoFile

CanRead(c) ==
    Open(c) /\ Opens(codec[c], on[c]) /\ state[c] \in {"unused", "used"}

\* The state of codec k after it has read file f.
AfterRead(k, f, before) ==
    IF k = Plain \/ lock[f] = Fresh \/ before \in {"broken", "lost"} THEN before
    ELSE IF lock[f] = k THEN "used"
    ELSE IF before = "used" THEN "lost" ELSE "broken"

\* PRAGMA key on c is ignored.
Ignored(c) == codec[c] # Plain /\ state[c] \in {"used", "lost"}

-----------------------------------------------------------------------------

Init ==
    /\ lock = [f \in Files |-> Fresh]
    /\ data = [f \in Files |-> "none"]
    /\ on = [c \in Conns |-> NoFile]
    /\ codec = [c \in Conns |-> Plain]
    /\ state = [c \in Conns |-> "unused"]
    /\ attached = [c \in Conns |-> {}]
    /\ pending = [c \in Conns |-> FALSE]
    /\ given = [c \in Conns |-> "NULL"]
    /\ known = [f \in Files |-> "NULL"]
    /\ failed = {}
    /\ copied = NoCopy

(***************************************************************************)
(* Connecting, and use of a connection.                                    *)
(***************************************************************************)

\* The codec of a new handle: an invalid key, and an empty one, which the PRAGMA
\* rejects, only lead to a warning.
ConnectKey(x) == IF key_type(x) = "NA" \/ x = "" THEN Plain ELSE Pragma(x)

\* PRAGMA synchronous, which dbConnect sends next, reads the file.
NewHandle(c, f, x) ==
    /\ ~Open(c)
    /\ on' = [on EXCEPT ![c] = f]
    /\ codec' = [codec EXCEPT ![c] = ConnectKey(x)]
    /\ state' = [state EXCEPT ![c] = AfterRead(ConnectKey(x), f, "unused")]
    /\ given' = [given EXCEPT ![c] = x]
    /\ UNCHANGED <<lock, data, attached, pending, known, failed>>

\* dbConnect.
Connect(c, f, x) ==
    /\ NewHandle(c, f, x)
    /\ copied' = NoCopy

\* dbConnect of a connection: another one on its file, without the key.
Clone(c, from) ==
    /\ Open(from)
    /\ NewHandle(c, on[from], "NULL")
    /\ copied' = NoCopy

\* Mutant of Disconnect: the next handle finds the schemas of this one.
Disconnect_Attached(c) ==
    /\ Open(c)
    /\ on' = [on EXCEPT ![c] = NoFile]
    /\ codec' = [codec EXCEPT ![c] = Plain]
    /\ state' = [state EXCEPT ![c] = "unused"]
    /\ pending' = [pending EXCEPT ![c] = FALSE]
    /\ given' = [given EXCEPT ![c] = "NULL"]
    /\ failed' = {p \in failed : p[1] # c}
    /\ copied' = NoCopy
    /\ UNCHANGED <<lock, data, attached, known>>

\* dbDisconnect.
Disconnect(c) ==
    /\ Open(c)
    /\ on' = [on EXCEPT ![c] = NoFile]
    /\ codec' = [codec EXCEPT ![c] = Plain]
    /\ state' = [state EXCEPT ![c] = "unused"]
    /\ attached' = [attached EXCEPT ![c] = {}]
    /\ pending' = [pending EXCEPT ![c] = FALSE]
    /\ given' = [given EXCEPT ![c] = "NULL"]
    /\ failed' = {p \in failed : p[1] # c}
    /\ copied' = NoCopy
    /\ UNCHANGED <<lock, data, known>>

Reads(c) == state' = [state EXCEPT ![c] = AfterRead(codec[c], on[c], @)]

\* dbSendQuery of something that only reads.
Query(c) ==
    /\ Open(c)
    /\ Reads(c)
    /\ pending' = [pending EXCEPT ![c] = CanRead(c)]
    /\ copied' = NoCopy
    /\ UNCHANGED <<lock, data, on, codec, attached, ghosts>>

Clear(c) ==
    /\ pending[c]
    /\ pending' = [pending EXCEPT ![c] = FALSE]
    /\ copied' = NoCopy
    /\ UNCHANGED <<lock, data, on, codec, state, attached, ghosts>>

\* A codec that has written a page is used.
Written(k, before) == IF k = Plain THEN before ELSE "used"

\* Tables are written, maybe as the first thing in the file.
WriteTables(c) ==
    /\ CanRead(c) /\ ~pending[c]
    /\ lock' = [lock EXCEPT ![on[c]] = codec[c]]
    /\ data' = [data EXCEPT ![on[c]] = "all"]
    /\ state' = [state EXCEPT ![c] = Written(codec[c], @)]
    /\ known' = [known EXCEPT ![on[c]] = IF lock[on[c]] = Fresh THEN given[c] ELSE @]
    /\ copied' = NoCopy
    /\ UNCHANGED <<on, codec, attached, pending, given, failed>>

(***************************************************************************)
(* databaseKeyAdd and databaseKeyRemove: ATTACH, export, DETACH.           *)
(***************************************************************************)

\* Everything the first statement may fail at: the connection is closed, an open
\* result set makes dbSendQuery warn (the warning ends the call), the database
\* cannot be read, the schema name is taken, the file has another key.
Attaches(c, schema, k, f) ==
    CanRead(c) /\ ~pending[c] /\ schema \notin attached[c] /\ Opens(k, f)

CopyRefused(c, schema, k, f, x) ==
    /\ ~Attaches(c, schema, k, f)
    /\ IF Open(c) /\ ~pending[c] THEN Reads(c) ELSE UNCHANGED state
    /\ copied' = NoCopy
    /\ UNCHANGED <<lock, data, on, codec, attached, pending, ghosts>>

\* The tables are not in the way of the ones in the file.
Exports(c, f) == data[f] = "none" \/ data[on[c]] = "none"

\* Mutant of CopyDone: the database itself gets the key, not the copy.
CopyDone_InPlace(c, schema, k, f, x) ==
    /\ Attaches(c, schema, k, f) /\ Exports(c, f)
    /\ lock' = [lock EXCEPT ![on[c]] = k, ![f] = k]
    /\ data' = [data EXCEPT ![f] = IF @ = "none" THEN data[on[c]] ELSE @]
    /\ Reads(c)
    /\ known' = [known EXCEPT ![on[c]] = x, ![f] = x]
    /\ copied' = [from |-> on[c], file |-> f, key |-> x]
    /\ UNCHANGED <<on, codec, attached, pending, given, failed>>

\* Mutant of CopyDone: no DETACH.
CopyDone_Attached(c, schema, k, f, x) ==
    /\ Attaches(c, schema, k, f) /\ Exports(c, f)
    /\ lock' = [lock EXCEPT ![f] = k]
    /\ data' = [data EXCEPT ![f] = IF @ = "none" THEN data[on[c]] ELSE @]
    /\ Reads(c)
    /\ attached' = [attached EXCEPT ![c] = @ \cup {schema}]
    /\ known' = [known EXCEPT ![f] = x]
    /\ copied' = [from |-> on[c], file |-> f, key |-> x]
    /\ UNCHANGED <<on, codec, pending, given, failed>>

CopyDone(c, schema, k, f, x) ==
    /\ Attaches(c, schema, k, f) /\ Exports(c, f)
    /\ lock' = [lock EXCEPT ![f] = k]
    /\ data' = [data EXCEPT ![f] = IF @ = "none" THEN data[on[c]] ELSE @]
    /\ Reads(c)
    /\ known' = [known EXCEPT ![f] = x]
    /\ copied' = [from |-> on[c], file |-> f, key |-> x]
    /\ UNCHANGED <<on, codec, attached, pending, given, failed>>

\* What a copy that fails may have put into the file: nothing, or some of the
\* tables; or all, if only DETACH fails, as it does in a transaction.
Leaves(c, f) ==
    IF data[f] = "none" /\ data[on[c]] # "none"
    THEN {"none", "part", data[on[c]]} ELSE {data[f]}

\* The export or DETACH fails: the schema stays attached.
CopyFails(c, schema, k, f, x) ==
    /\ Attaches(c, schema, k, f)
    /\ data' \in {[data EXCEPT ![f] = d] : d \in Leaves(c, f)}
    /\ \/ lock' = [lock EXCEPT ![f] = k] /\ known' = [known EXCEPT ![f] = x]
       \/ data' = data /\ UNCHANGED <<lock, known>>
    /\ Reads(c)
    /\ attached' = [attached EXCEPT ![c] = @ \cup {schema}]
    /\ failed' = failed \cup {<<c, schema>>}
    /\ copied' = NoCopy
    /\ UNCHANGED <<on, codec, pending, given>>

DoCopy(c, schema, k, f, x) ==
    \/ CopyRefused(c, schema, k, f, x)
    \/ CopyDone(c, schema, k, f, x)
    \/ CopyFails(c, schema, k, f, x)

\* A key_type() of NA is a warning and FALSE.
AddKey(c, x, f) ==
    /\ key_type(x) # "NA" /\ f # on[c]
    /\ DoCopy(c, "encrypted", AttachKey(x), f, x)

AddKeyInvalid(c, x, f) ==
    /\ key_type(x) = "NA"
    /\ copied' = NoCopy
    /\ UNCHANGED <<lock, data, handle, ghosts>>

RemoveKey(c, f) ==
    /\ f # on[c]
    /\ DoCopy(c, "plain", Plain, f, "NULL")

(***************************************************************************)
(* databaseKeyChange: PRAGMA key, then PRAGMA rekey, without a handler:    *)
(* what SQLCipher rejects is an R error.                                   *)
(***************************************************************************)

ChangeKeyInvalid(c, old, new) ==
    /\ "NA" \in {key_type(old), key_type(new)}
    /\ copied' = NoCopy
    /\ UNCHANGED <<lock, data, handle, ghosts>>

\* The connection is closed, or there is no key in the first PRAGMA.
ChangeKeyRejected(c, old, new) ==
    /\ "NA" \notin {key_type(old), key_type(new)}
    /\ ~Open(c) \/ old = ""
    /\ pending' = [pending EXCEPT ![c] = FALSE]
    /\ copied' = NoCopy
    /\ UNCHANGED <<lock, data, on, codec, state, attached, ghosts>>

\* The codec after PRAGMA key.
Rekeyed(c, old) == IF Ignored(c) THEN codec[c] ELSE Pragma(old)

RekeyedState(c) == IF Ignored(c) THEN state[c] ELSE "unused"

Rekeys(c, old, new) ==
    /\ Open(c) /\ {old, new} \subseteq HexKeys \cup Passwords
    /\ Opens(Rekeyed(c, old), on[c]) /\ RekeyedState(c) # "lost"

\* Mutant of ChangeKey: the new key is always quoted as a passphrase.
ChangeKey_Unquoted(c, old, new) ==
    /\ Rekeys(c, old, new)
    /\ lock' = [lock EXCEPT ![on[c]] = <<"pass", new>>]
    /\ codec' = [codec EXCEPT ![c] = <<"pass", new>>]
    /\ state' = [state EXCEPT ![c] = "used"]
    /\ pending' = [pending EXCEPT ![c] = FALSE]
    /\ known' = [known EXCEPT ![on[c]] = new]
    /\ given' = [given EXCEPT ![c] = new]
    /\ copied' = NoCopy
    /\ UNCHANGED <<data, on, attached, failed>>

\* An open result set is closed, with a warning.
ChangeKey(c, old, new) ==
    /\ Rekeys(c, old, new)
    /\ lock' = [lock EXCEPT ![on[c]] = Pragma(new)]
    /\ codec' = [codec EXCEPT ![c] = Pragma(new)]
    /\ state' = [state EXCEPT ![c] = "used"]
    /\ pending' = [pending EXCEPT ![c] = FALSE]
    /\ known' = [known EXCEPT ![on[c]] = new]
    /\ given' = [given EXCEPT ![c] = new]
    /\ copied' = NoCopy
    /\ UNCHANGED <<data, on, attached, failed>>

\* PRAGMA rekey has no key, or cannot read the file: the old key has been set, on
\* a plain connection, too.
ChangeKeyStops(c, old, new) ==
    /\ Open(c) /\ "NA" \notin {key_type(old), key_type(new)} /\ old # ""
    /\ ~Rekeys(c, old, new)
    /\ codec' = [codec EXCEPT ![c] = Rekeyed(c, old)]
    /\ state' = [state EXCEPT ![c] = IF new = "" THEN RekeyedState(c)
                                    ELSE AfterRead(Rekeyed(c, old), on[c], RekeyedState(c))]
    /\ pending' = [pending EXCEPT ![c] = FALSE]
    /\ given' = [given EXCEPT ![c] = IF Ignored(c) THEN @ ELSE old]
    /\ copied' = NoCopy
    /\ UNCHANGED <<lock, data, on, attached, known, failed>>

(***************************************************************************)
(* databaseIsEncryptionOn: PRAGMA cipher_status, which reads no page.      *)
(***************************************************************************)

\* A closed connection and the warning about an open result set both end up as
\* FALSE.
databaseIsEncryptionOn(c) ==
    /\ Open(c) /\ ~pending[c]
    /\ codec[c] # Plain /\ state[c] \in {"unused", "used"}

-----------------------------------------------------------------------------

Next ==
    \E c \in Conns :
        \/ \E f \in Files, x \in Arguments :
              Connect(c, f, x) \/ AddKey(c, x, f) \/ AddKeyInvalid(c, x, f)
        \/ \E from \in Conns : Clone(c, from)
        \/ Disconnect(c) \/ Query(c) \/ Clear(c) \/ WriteTables(c)
        \/ \E f \in Files : RemoveKey(c, f)
        \/ \E old, new \in Arguments :
              \/ ChangeKeyInvalid(c, old, new) \/ ChangeKeyRejected(c, old, new)
              \/ ChangeKey(c, old, new) \/ ChangeKeyStops(c, old, new)

Spec == Init /\ [][Next]_vars

-----------------------------------------------------------------------------

Locks == Specs \cup {Plain}

\* Every variable has its type; a file without pages has no tables, and a closed
\* connection has nothing attached or open.
TypeOK ==
    /\ lock \in [Files -> Locks \cup {Fresh}]
    /\ data \in [Files -> {"none", "part", "all"}]
    /\ on \in [Conns -> Files \cup {NoFile}]
    /\ codec \in [Conns -> Locks]
    /\ state \in [Conns -> {"unused", "used", "broken", "lost"}]
    /\ attached \in [Conns -> SUBSET {"encrypted", "plain"}]
    /\ pending \in [Conns -> BOOLEAN]
    /\ given \in [Conns -> Arguments] /\ known \in [Files -> Arguments]
    /\ failed \subseteq Conns \X {"encrypted", "plain"}
    /\ \A f \in Files : lock[f] = Fresh => data[f] = "none"
    /\ \A c \in Conns : ~Open(c) => attached[c] = {} /\ ~pending[c]

\* The key that the caller has last given for a file, by dbConnect before the
\* first table, databaseKeyAdd, databaseKeyRemove or databaseKeyChange, opens it
\* when it is given to dbConnect: no way of giving a key, in whatever order and
\* with whatever failures, means another one (Pragma, AttachKey, ConnectKey).
KnownKey == \A f \in Files : lock[f] # Fresh => lock[f] = ConnectKey(known[f])

\* A copy that is reported as made opens with the key asked for and holds what
\* the database held (databaseKeyAdd, databaseKeyRemove).
CopyOpens ==
    copied # NoCopy =>
        /\ Opens(ConnectKey(copied.key), copied.file)
        /\ data[copied.from] # "none" => data[copied.file] = data[copied.from]

\* Where nothing is in the way of a copy, databaseKeyAdd and databaseKeyRemove
\* refuse it only after an earlier copy has failed on this connection: calls that
\* succeed leave nothing behind.
RefusedAfterFailure ==
    \A c \in Conns : \A s \in attached[c] : <<c, s>> \in failed

\* A connection that can read its database goes on being able to, through every
\* call on it and every failure of one, and through every copy made of the file
\* by any connection.  Excepted are a databaseKeyChange with a key the connection
\* has not used yet, and what another connection puts into the file.
KeepsAccess ==
    [][\A c \in Conns :
          ( /\ CanRead(c) /\ on'[c] = on[c]
            /\ codec'[c] # codec[c] => state[c] = "used"
            /\ lock'[on[c]] # lock[on[c]] =>
                  codec'[c] # codec[c] \/ copied'.from = on[c] )
          => CanRead(c)']_vars

\* "TRUE if the database as encryption enabled, or FALSE otherwise"
\* (databaseIsEncryptionOn.R:8).
StatusIsRight ==
    \A c \in Conns :
        CanRead(c) /\ lock[on[c]] \in Specs => databaseIsEncryptionOn(c)

\* "an existing [SQLiteConnection]: the connection will be cloned": the clone of
\* a connection reads what the connection reads.
CloneReads ==
    [][\A c, from \in Conns : Clone(c, from) /\ CanRead(from) => CanRead(c)']_vars
=============================================================================
