------------------------ MODULE KeyManagementProofs ------------------------
(***************************************************************************)
(* Keys, copies and access, for any files, connections and keys.           *)
(*                                                                         *)
(* The inductive invariant adds to TypeOK and KnownKey that the codec of   *)
(* a handle is the one its last key argument stands for (GivenKey): what   *)
(* such a handle writes into an empty file is then encrypted with the key  *)
(* that is on record for it.  The functions reach SQLCipher by different   *)
(* PRAGMAs and ATTACH; KeysAgree is where they meet, and Steps uses it to  *)
(* put every step of Next into one of the few forms the proofs split on.   *)
(***************************************************************************)
EXTENDS KeyManagement, TLAPS

USE FilesAssumption, KeysAssumption

States  == {"unused", "used", "broken", "lost"}
Schemas == {"encrypted", "plain"}

\* The codec of a handle is the one its key argument stands for.
GivenKey == \A c \in Conns : codec[c] = ConnectKey(given[c])

\* A handle without a codec has none to use.
PlainUnused == \A c \in Conns : codec[c] = Plain => state[c] = "unused"

KInv ==
    /\ TypeOK
    /\ GivenKey /\ KnownKey        \* keys
    /\ PlainUnused                 \* access
    /\ RefusedAfterFailure /\ CopyOpens   \* copies

\* A call that changes nothing.
Nothing == copied' = NoCopy /\ UNCHANGED <<lock, data, handle, ghosts>>

\* A step of Next on connection c: both ways of connecting are NewHandle, both
\* copies are DoCopy with the key that dbConnect makes of the argument.
Step(c) ==
    \/ \E f \in Files, x \in Arguments : NewHandle(c, f, x) /\ copied' = NoCopy
    \/ Disconnect(c) \/ Query(c) \/ Clear(c) \/ WriteTables(c)
    \/ \E s \in Schemas, f \in Files, x \in Arguments :
          f # on[c] /\ DoCopy(c, s, ConnectKey(x), f, x)
    \/ Nothing
    \/ \E old, new \in Arguments :
          ChangeKeyRejected(c, old, new) \/ ChangeKey(c, old, new)
             \/ ChangeKeyStops(c, old, new)

-----------------------------------------------------------------------------

\* The functions make the same key of the same argument (dbConnect,
\* databaseKeyAdd and databaseKeyChange).
LEMMA KeysAgree ==
    /\ \A x \in HexKeys \cup Passwords : Pragma(x) = ConnectKey(x)
    /\ \A x \in Arguments : key_type(x) # "NA" => AttachKey(x) = ConnectKey(x)
    /\ ConnectKey("NULL") = Plain
  <1>1. \A x \in HexKeys \cup Passwords : x \notin {"NULL", ""} /\ key_type(x) # "NA"
    BY DEF key_type
  <1>2. key_type("NULL") = "NA"
    BY DEF key_type
  <1>3. \A x \in Arguments : key_type(x) # "NA" => x \in HexKeys \cup Passwords \cup {""}
    BY <1>2 DEF Arguments
  <1> QED
    BY <1>1, <1>2, <1>3 DEF Pragma, ConnectKey, AttachKey

\* What a key argument can stand for.
LEMMA KeyTypes ==
    /\ \A x \in Arguments : ConnectKey(x) \in Locks
    /\ \A x \in HexKeys \cup Passwords : Pragma(x) \in Specs
    /\ Plain \notin Specs /\ Fresh \notin Locks
  <1>1. \A x \in HexKeys \cup Passwords : Pragma(x) \in Specs
    BY DEF Pragma, Specs
  <1>2. \A x \in Arguments : ConnectKey(x) = Plain \/ x \in HexKeys \cup Passwords
    BY DEF ConnectKey, Arguments, key_type
  <1>3. Plain \notin Specs /\ Fresh \notin Locks
    BY DEF Specs, Locks, Plain, Fresh
  <1> QED
    BY <1>1, <1>2, <1>3, KeysAgree DEF Locks

\* Reading leaves a codec in one of its states.
LEMMA ReadTypes ==
    ASSUME NEW k, NEW f, NEW b \in States
    PROVE  AfterRead(k, f, b) \in States
  BY DEF AfterRead, States

LEMMA Steps ==
    ASSUME TypeOK, Next
    PROVE  \E c \in Conns : Step(c)
  <1>1. PICK c \in Conns :
            \/ \E f \in Files, x \in Arguments :
                  Connect(c, f, x) \/ AddKey(c, x, f) \/ AddKeyInvalid(c, x, f)
            \/ \E from \in Conns : Clone(c, from)
            \/ Disconnect(c) \/ Query(c) \/ Clear(c) \/ WriteTables(c)
            \/ \E f \in Files : RemoveKey(c, f)
            \/ \E old, new \in Arguments :
                  \/ ChangeKeyInvalid(c, old, new) \/ ChangeKeyRejected(c, old, new)
                  \/ ChangeKey(c, old, new) \/ ChangeKeyStops(c, old, new)
    BY Zenon DEF Next
  <1>2. "NULL" \in Arguments /\ Schemas = {"encrypted", "plain"}
    BY DEF Arguments, Schemas
  <1>3. ASSUME NEW from \in Conns, Clone(c, from) PROVE Step(c)
    <2>1. on[from] \in Files
      BY <1>3 DEF Clone, Open, TypeOK
    <2> QED
      BY <1>2, <1>3, <2>1 DEF Clone, Step
  <1>4. ASSUME NEW f \in Files, NEW x \in Arguments, AddKey(c, x, f) PROVE Step(c)
    <2>1. AttachKey(x) = ConnectKey(x)
      BY <1>4, KeysAgree DEF AddKey
    <2>2. f # on[c] /\ DoCopy(c, "encrypted", ConnectKey(x), f, x)
      BY <1>4, <2>1 DEF AddKey
    <2> QED
      BY <1>2, <2>2 DEF Step
  <1>5. ASSUME NEW f \in Files, RemoveKey(c, f) PROVE Step(c)
    <2>1. f # on[c] /\ DoCopy(c, "plain", ConnectKey("NULL"), f, "NULL")
      BY <1>5, KeysAgree DEF RemoveKey
    <2> QED
      BY <1>2, <2>1 DEF Step
  <1>6. ASSUME NEW f \in Files, NEW x \in Arguments,
               Connect(c, f, x) \/ AddKeyInvalid(c, x, f)
        PROVE  Step(c)
    BY <1>6 DEF Connect, AddKeyInvalid, Nothing, Step
  <1>7. ASSUME NEW old \in Arguments, NEW new \in Arguments, ChangeKeyInvalid(c, old, new)
        PROVE  Step(c)
    BY <1>7 DEF ChangeKeyInvalid, Nothing, Step
  <1>8. Step(c)
    BY <1>1, <1>3, <1>4, <1>5, <1>6, <1>7 DEF Step
  <1> QED
    BY <1>8

-----------------------------------------------------------------------------

LEMMA InitInv == Init => KInv
  <1> SUFFICES ASSUME Init PROVE KInv
    OBVIOUS
  <1>1. TypeOK
    BY KeyTypes DEF Init, TypeOK, Locks, Arguments, Open, NoCopy
  <1>2. GivenKey /\ KnownKey
    BY KeysAgree DEF Init, GivenKey, KnownKey
  <1>3. PlainUnused /\ RefusedAfterFailure /\ CopyOpens
    BY DEF Init, PlainUnused, RefusedAfterFailure, CopyOpens
  <1> QED
    BY <1>1, <1>2, <1>3 DEF KInv

\* Connections and the files under them: every call keeps the types.
LEMMA TypesKept ==
    ASSUME TypeOK, NEW c \in Conns, Step(c)
    PROVE  TypeOK'
  <1> USE KeyTypes DEF TypeOK
  <1>1. ASSUME NEW f \in Files, NEW x \in Arguments, NewHandle(c, f, x), copied' = NoCopy
        PROVE  TypeOK'
    <2>1. ConnectKey(x) \in Locks
      OBVIOUS
    <2>2. AfterRead(ConnectKey(x), f, "unused") \in States
      BY ReadTypes DEF States
    <2> HIDE KeyTypes
    <2> QED
      BY <1>1, <2>1, <2>2 DEF NewHandle, Open, States
  <1>2. ASSUME Disconnect(c) PROVE TypeOK'
    BY <1>2 DEF Disconnect, Open, Locks, Arguments
  <1>3. ASSUME Query(c) PROVE TypeOK'
    <2>1. AfterRead(codec[c], on[c], state[c]) \in States
      BY ReadTypes DEF States
    <2>2. CanRead(c) \in BOOLEAN
      BY DEF CanRead, Open, Opens
    <2> QED
      BY <1>3, <2>1, <2>2 DEF Query, Reads, Open, States, ghosts
  <1>4. ASSUME Clear(c) PROVE TypeOK'
    BY <1>4 DEF Clear, Open, ghosts
  <1>5. ASSUME WriteTables(c) PROVE TypeOK'
    <2>1. Open(c) /\ on[c] \in Files
      BY <1>5 DEF WriteTables, CanRead, Open
    <2>2. Written(codec[c], state[c]) \in States /\ codec[c] \in Locks
      BY DEF Written, States
    <2>3. /\ lock' = [lock EXCEPT ![on[c]] = codec[c]]
          /\ data' = [data EXCEPT ![on[c]] = "all"]
          /\ state' = [state EXCEPT ![c] = Written(codec[c], @)]
          /\ \/ known' = [known EXCEPT ![on[c]] = given[c]]
             \/ known' = [known EXCEPT ![on[c]] = @]
          /\ UNCHANGED <<on, codec, attached, pending, given, failed>>
      BY <1>5 DEF WriteTables
    <2> QED
      BY <2>1, <2>2, <2>3, ZenonT(30) DEF Open, States
  <1>6. ASSUME NEW s \in Schemas, NEW f \in Files, NEW x \in Arguments,
               f # on[c], DoCopy(c, s, ConnectKey(x), f, x)
        PROVE  TypeOK'
    <2> DEFINE k == ConnectKey(x)
    <2>1. k \in Locks
      OBVIOUS
    <2>2. AfterRead(codec[c], on[c], state[c]) \in States
      BY ReadTypes DEF States
    <2> HIDE DEF k
    <2>3. CASE CopyRefused(c, s, k, f, x)
      BY <2>2, <2>3, ZenonT(30) DEF CopyRefused, Reads, Open, States, ghosts
    <2>4. CASE CopyDone(c, s, k, f, x)
      BY <2>1, <2>2, <2>4 DEF CopyDone, Reads, Attaches, CanRead, Open, States
    <2>5. CASE CopyFails(c, s, k, f, x)
      <3>1. on[c] \in Files /\ Open(c)
        BY <2>5 DEF CopyFails, Attaches, CanRead, Open
      <3>2. PICK d \in Leaves(c, f) : data' = [data EXCEPT ![f] = d]
        BY <2>5 DEF CopyFails
      <3>3. d \in {"none", "part", "all"}
        <4>1. data[f] \in {"none", "part", "all"} /\ data[on[c]] \in {"none", "part", "all"}
          BY <3>1
        <4>2. \/ d \in {data[f]}
              \/ d \in {"none", "part", data[on[c]]}
          BY <3>2, Zenon DEF Leaves
        <4> QED
          BY <4>1, <4>2
      <3>4. data' \in [Files -> {"none", "part", "all"}]
        BY <3>2, <3>3
      <3>5. /\ lock' \in [Files -> Locks \cup {Fresh}]
            /\ known' \in [Files -> Arguments]
            /\ \A g \in Files : lock'[g] = Fresh => data'[g] = "none"
        <4>1. CASE lock' = [lock EXCEPT ![f] = k] /\ known' = [known EXCEPT ![f] = x]
          BY <2>1, <3>2, <4>1
        <4>2. CASE data' = data /\ UNCHANGED <<lock, known>>
          BY <4>2
        <4> QED
          BY <2>5, <4>1, <4>2 DEF CopyFails
      <3>6. on' = on /\ codec' = codec /\ pending' = pending /\ given' = given
        BY <2>5 DEF CopyFails
      <3>7. state' \in [Conns -> {"unused", "used", "broken", "lost"}]
        BY <2>2, <2>5 DEF CopyFails, Reads, States
      <3>8. /\ attached' \in [Conns -> SUBSET {"encrypted", "plain"}]
            /\ \A b \in Conns : b # c => attached'[b] = attached[b]
        <4>1. attached' = [attached EXCEPT ![c] = @ \cup {s}]
          BY <2>5 DEF CopyFails
        <4>2. attached[c] \cup {s} \in SUBSET {"encrypted", "plain"}
          BY DEF Schemas
        <4> QED
          BY <4>1, <4>2
      <3>9. failed' \subseteq Conns \X {"encrypted", "plain"}
        <4>1. failed' = failed \cup {<<c, s>>}
          BY <2>5 DEF CopyFails
        <4>2. <<c, s>> \in Conns \X {"encrypted", "plain"}
          BY DEF Schemas
        <4> QED
          BY <4>1, <4>2
      <3> QED
        BY <3>1, <3>4, <3>5, <3>6, <3>7, <3>8, <3>9 DEF Open
    <2> QED
      BY <1>6, <2>3, <2>4, <2>5 DEF DoCopy, k
  <1>7. ASSUME Nothing PROVE TypeOK'
    BY <1>7 DEF Nothing, handle, ghosts, Open
  <1>8. ASSUME NEW old \in Arguments, NEW new \in Arguments,
               ChangeKeyRejected(c, old, new) \/ ChangeKey(c, old, new)
                  \/ ChangeKeyStops(c, old, new)
        PROVE  TypeOK'
    <2>1. CASE ChangeKeyRejected(c, old, new)
      BY <2>1 DEF ChangeKeyRejected, Open, ghosts
    <2>2. CASE ChangeKey(c, old, new)
      <3>1. Pragma(new) \in Locks /\ Open(c)
        BY <2>2 DEF ChangeKey, Rekeys, Locks
      <3>2. on[c] \in Files
        BY <3>1 DEF Open
      <3> QED
        BY <2>2, <3>1, <3>2 DEF ChangeKey, Open
    <2>3. CASE ChangeKeyStops(c, old, new)
      <3>1. old \in HexKeys \cup Passwords /\ Open(c)
        BY <2>3 DEF ChangeKeyStops, Arguments, key_type
      <3>2. Rekeyed(c, old) \in Locks
        BY <3>1 DEF Rekeyed, Locks
      <3>3. RekeyedState(c) \in States
        BY DEF RekeyedState, States
      <3>4. AfterRead(Rekeyed(c, old), on[c], RekeyedState(c)) \in States
        BY <3>3, ReadTypes
      <3> HIDE KeyTypes
      <3> QED
        BY <2>3, <3>1, <3>2, <3>3, <3>4 DEF ChangeKeyStops, Open, States
    <2> QED
      BY <1>8, <2>1, <2>2, <2>3
  <1> HIDE KeyTypes DEF TypeOK
  <1> QED
    BY <1>1, <1>2, <1>3, <1>4, <1>5, <1>6, <1>7, <1>8 DEF Step

\* What is on record for a handle and for a file goes on standing for their keys.
LEMMA KeysKept ==
    ASSUME TypeOK, GivenKey, KnownKey, NEW c \in Conns, Step(c)
    PROVE  GivenKey' /\ KnownKey'
  <1>1. ASSUME NEW f \in Files, NEW x \in Arguments, NewHandle(c, f, x)
        PROVE  GivenKey' /\ KnownKey'
    BY <1>1 DEF NewHandle, GivenKey, KnownKey, TypeOK
  <1>2. ASSUME Disconnect(c) PROVE GivenKey' /\ KnownKey'
    BY <1>2, KeysAgree DEF Disconnect, GivenKey, KnownKey, TypeOK
  <1>3. ASSUME Query(c) \/ Clear(c) \/ Nothing PROVE GivenKey' /\ KnownKey'
    BY <1>3 DEF Query, Clear, Nothing, handle, ghosts, GivenKey, KnownKey
  <1>4. ASSUME WriteTables(c) PROVE GivenKey' /\ KnownKey'
    <2>1. on[c] \in Files /\ lock[on[c]] \in {Fresh, codec[c]}
      BY <1>4 DEF WriteTables, CanRead, Open, Opens, TypeOK
    <2>2. GivenKey'
      BY <1>4 DEF WriteTables, GivenKey
    <2>3. ASSUME NEW g \in Files, lock'[g] # Fresh PROVE lock'[g] = ConnectKey(known'[g])
      <3>1. CASE g # on[c]
        BY <1>4, <2>1, <2>3, <3>1 DEF WriteTables, KnownKey, TypeOK
      <3>2. CASE g = on[c] /\ lock[g] = Fresh
        <4>1. lock'[g] = codec[c] /\ known'[g] = given[c]
          BY <1>4, <2>1, <3>2 DEF WriteTables, TypeOK
        <4> QED
          BY <4>1 DEF GivenKey
      <3>3. CASE g = on[c] /\ lock[g] # Fresh
        <4>1. lock'[g] = lock[g] /\ known'[g] = known[g]
          BY <1>4, <2>1, <3>3 DEF WriteTables, TypeOK
        <4> QED
          BY <3>3, <4>1 DEF KnownKey
      <3> QED
        BY <3>1, <3>2, <3>3
    <2> QED
      BY <2>2, <2>3 DEF KnownKey
  <1>5. ASSUME NEW s \in Schemas, NEW f \in Files, NEW x \in Arguments,
               DoCopy(c, s, ConnectKey(x), f, x)
        PROVE  GivenKey' /\ KnownKey'
    <2> DEFINE k == ConnectKey(x)
    <2>1. \/ UNCHANGED <<lock, known>>
          \/ lock' = [lock EXCEPT ![f] = k] /\ known' = [known EXCEPT ![f] = x]
      BY <1>5, Zenon DEF DoCopy, CopyRefused, CopyDone, CopyFails, ghosts
    <2>2. UNCHANGED <<codec, given>>
      BY <1>5, Zenon DEF DoCopy, CopyRefused, CopyDone, CopyFails, ghosts
    <2>3. GivenKey'
      BY <2>2 DEF GivenKey
    <2>4. KnownKey'
      BY <2>1, ZenonT(30) DEF KnownKey, TypeOK
    <2> QED
      BY <2>3, <2>4
  <1>6. ASSUME NEW old \in Arguments, NEW new \in Arguments,
               ChangeKeyRejected(c, old, new)
        PROVE  GivenKey' /\ KnownKey'
    BY <1>6 DEF ChangeKeyRejected, ghosts, GivenKey, KnownKey
  <1>7. ASSUME NEW old \in Arguments, NEW new \in Arguments, ChangeKey(c, old, new)
        PROVE  GivenKey' /\ KnownKey'
    <2>1. Pragma(new) = ConnectKey(new)
      BY <1>7, KeysAgree DEF ChangeKey, Rekeys
    <2>2. on[c] \in Files
      BY <1>7 DEF ChangeKey, Rekeys, Open, TypeOK
    <2>3. GivenKey'
      BY <1>7, <2>1 DEF ChangeKey, GivenKey, TypeOK
    <2>4. KnownKey'
      BY <1>7, <2>1, <2>2 DEF ChangeKey, KnownKey, TypeOK
    <2> QED
      BY <2>3, <2>4
  <1>8. ASSUME NEW old \in Arguments, NEW new \in Arguments, ChangeKeyStops(c, old, new)
        PROVE  GivenKey' /\ KnownKey'
    <2>1. old \in HexKeys \cup Passwords
      BY <1>8 DEF ChangeKeyStops, Arguments, key_type
    <2>2. Pragma(old) = ConnectKey(old)
      BY <2>1, KeysAgree
    <2>3. /\ codec' = [codec EXCEPT ![c] = Rekeyed(c, old)]
          /\ given' = [given EXCEPT ![c] = IF Ignored(c) THEN @ ELSE old]
          /\ UNCHANGED <<lock, known>>
      BY <1>8 DEF ChangeKeyStops
    <2>4. GivenKey'
      BY <2>2, <2>3 DEF Rekeyed, GivenKey, TypeOK
    <2>5. KnownKey'
      BY <2>3 DEF KnownKey
    <2> QED
      BY <2>4, <2>5
  <1> QED
    BY <1>1, <1>2, <1>3, <1>4, <1>5, <1>6, <1>7, <1>8 DEF Step

\* A codec that is used belongs to a handle that has one.
LEMMA PlainKept ==
    ASSUME TypeOK, PlainUnused, NEW c \in Conns, Step(c)
    PROVE  PlainUnused'
  <1> USE DEF PlainUnused, TypeOK
  <1>1. codec[c] = Plain => /\ AfterRead(codec[c], on[c], state[c]) = "unused"
                            /\ Written(codec[c], state[c]) = "unused"
    BY DEF AfterRead, Written
  <1>2. ASSUME NEW f \in Files, NEW x \in Arguments, NewHandle(c, f, x)
        PROVE  PlainUnused'
    BY <1>2 DEF NewHandle, AfterRead
  <1>3. CASE Disconnect(c) \/ Clear(c) \/ Nothing
    BY <1>3 DEF Disconnect, Clear, Nothing, handle
  <1>4. CASE Query(c) \/ WriteTables(c)
    BY <1>1, <1>4 DEF Query, Reads, WriteTables
  <1>5. ASSUME NEW s \in Schemas, NEW f \in Files, NEW x \in Arguments,
               DoCopy(c, s, ConnectKey(x), f, x)
        PROVE  PlainUnused'
    <2>1. /\ codec' = codec
          /\ state' = state \/ Reads(c)
      BY <1>5, Zenon DEF DoCopy, CopyRefused, CopyDone, CopyFails
    <2> QED
      BY <1>1, <2>1 DEF Reads
  <1>6. ASSUME NEW old \in Arguments, NEW new \in Arguments,
               ChangeKeyRejected(c, old, new) \/ ChangeKey(c, old, new)
        PROVE  PlainUnused'
    <2>1. ASSUME ChangeKey(c, old, new) PROVE Pragma(new) # Plain
      <3>1. new \in HexKeys \cup Passwords
        BY <2>1 DEF ChangeKey, Rekeys
      <3> QED
        BY <3>1, KeyTypes, ZenonT(30)
    <2> QED
      BY <1>6, <2>1 DEF ChangeKeyRejected, ChangeKey
  <1>7. ASSUME NEW old \in Arguments, NEW new \in Arguments, ChangeKeyStops(c, old, new)
        PROVE  PlainUnused'
    <2>1. old \in HexKeys \cup Passwords
      BY <1>7 DEF ChangeKeyStops, Arguments, key_type
    <2>2. Rekeyed(c, old) # Plain
      BY <2>1, KeyTypes, ZenonT(30) DEF Rekeyed, Ignored
    <2> QED
      BY <1>7, <2>2 DEF ChangeKeyStops
  <1> QED
    BY <1>2, <1>3, <1>4, <1>5, <1>6, <1>7 DEF Step

\* Schemas that stay attached are those of failed copies, and a copy that is
\* reported has been made.
LEMMA CopiesKept ==
    ASSUME TypeOK, RefusedAfterFailure, NEW c \in Conns, Step(c)
    PROVE  RefusedAfterFailure' /\ CopyOpens'
  <1>1. ASSUME copied' = NoCopy PROVE CopyOpens'
    BY <1>1 DEF CopyOpens, NoCopy
  <1>2. ASSUME UNCHANGED <<attached, failed>> PROVE RefusedAfterFailure'
    BY <1>2 DEF RefusedAfterFailure
  <1>3. CASE Disconnect(c)
    <2>1. ASSUME NEW b \in Conns, NEW s \in attached'[b] PROVE <<b, s>> \in failed'
      <3>1. b # c /\ s \in attached[b]
        BY <1>3, <2>1 DEF Disconnect, TypeOK
      <3>2. <<b, s>> \in failed /\ <<b, s>>[1] = b
        BY <3>1 DEF RefusedAfterFailure
      <3> QED
        BY <1>3, <3>1, <3>2 DEF Disconnect
    <2> QED
      BY <1>1, <1>3, <2>1 DEF Disconnect, RefusedAfterFailure
  <1>4. ASSUME NEW s \in Schemas, NEW f \in Files, NEW x \in Arguments, f # on[c],
               DoCopy(c, s, ConnectKey(x), f, x)
        PROVE  RefusedAfterFailure' /\ CopyOpens'
    <2> DEFINE k == ConnectKey(x)
    <2>1. CASE CopyRefused(c, s, k, f, x)
      BY <1>1, <1>2, <2>1 DEF CopyRefused, ghosts
    <2>2. CASE CopyDone(c, s, k, f, x)
      <3>1. on[c] \in Files /\ Exports(c, f)
        BY <2>2 DEF CopyDone, Attaches, CanRead, Open, TypeOK
      <3>2. /\ copied' = [from |-> on[c], file |-> f, key |-> x]
            /\ lock' = [lock EXCEPT ![f] = k]
            /\ data' = [data EXCEPT ![f] = IF @ = "none" THEN data[on[c]] ELSE @]
            /\ UNCHANGED <<attached, failed>>
        BY <2>2 DEF CopyDone
      <3>3. lock'[f] = k
        BY <3>2 DEF TypeOK
      <3>4. data'[on[c]] # "none" => data'[f] = data'[on[c]]
        BY <1>4, <3>1, <3>2 DEF Exports, TypeOK
      <3>5. CopyOpens'
        BY <3>2, <3>3, <3>4 DEF CopyOpens, Opens
      <3> QED
        BY <1>2, <3>2, <3>5
    <2>3. CASE CopyFails(c, s, k, f, x)
      <3>1. /\ attached' = [attached EXCEPT ![c] = @ \cup {s}]
            /\ failed' = failed \cup {<<c, s>>}
            /\ copied' = NoCopy
        BY <2>3 DEF CopyFails
      <3> QED
        BY <1>1, <3>1 DEF RefusedAfterFailure, TypeOK
    <2> QED
      BY <1>4, <2>1, <2>2, <2>3 DEF DoCopy
  <1>5. CASE Query(c) \/ Clear(c) \/ WriteTables(c) \/ Nothing
    BY <1>1, <1>2, <1>5, Zenon DEF Query, Clear, WriteTables, Nothing, handle, ghosts
  <1>6. ASSUME NEW f \in Files, NEW x \in Arguments, NewHandle(c, f, x), copied' = NoCopy
        PROVE  RefusedAfterFailure' /\ CopyOpens'
    BY <1>1, <1>2, <1>6, Zenon DEF NewHandle
  <1>7. ASSUME NEW old \in Arguments, NEW new \in Arguments,
               ChangeKeyRejected(c, old, new) \/ ChangeKey(c, old, new)
                  \/ ChangeKeyStops(c, old, new)
        PROVE  RefusedAfterFailure' /\ CopyOpens'
    BY <1>1, <1>2, <1>7, Zenon DEF ChangeKeyRejected, ChangeKey, ChangeKeyStops, ghosts
  <1> QED
    BY <1>3, <1>4, <1>5, <1>6, <1>7, Zenon DEF Step

LEMMA KInvStep == KInv /\ [Next]_vars => KInv'
  <1>1. ASSUME KInv, Next PROVE KInv'
    <2>1. PICK c \in Conns : Step(c)
      BY <1>1, Steps DEF KInv
    <2> QED
      BY <1>1, <2>1, TypesKept, KeysKept, PlainKept, CopiesKept DEF KInv
  <1>2. ASSUME KInv, UNCHANGED vars PROVE KInv'
    BY <1>2 DEF KInv, TypeOK, GivenKey, KnownKey, PlainUnused, RefusedAfterFailure,
                CopyOpens, Opens, vars, handle, ghosts, Open
  <1> QED
    BY <1>1, <1>2

LEMMA KInvAlways == Spec => []KInv
  BY InitInv, KInvStep, PTL DEF Spec

\* Every variable keeps its type, and a closed connection has nothing attached.
THEOREM TypeCorrect == Spec => []TypeOK
  <1>1. KInv => TypeOK
    BY DEF KInv
  <1> QED
    BY <1>1, KInvAlways, PTL

\* The key last given for a file opens it, however it was given (dbConnect,
\* databaseKeyAdd, databaseKeyRemove, databaseKeyChange).
THEOREM KeyIsKnown == Spec => []KnownKey
  <1>1. KInv => KnownKey
    BY DEF KInv
  <1> QED
    BY <1>1, KInvAlways, PTL

\* A reported copy opens with the key asked for and is complete (databaseKeyAdd,
\* databaseKeyRemove).
THEOREM CopiesOpen == Spec => []CopyOpens
  <1>1. KInv => CopyOpens
    BY DEF KInv
  <1> QED
    BY <1>1, KInvAlways, PTL

\* Schemas are only left attached by copies that fail (databaseKeyAdd,
\* databaseKeyRemove).
THEOREM RefusedOnlyAfterFailure == Spec => []RefusedAfterFailure
  <1>1. KInv => RefusedAfterFailure
    BY DEF KInv
  <1> QED
    BY <1>1, KInvAlways, PTL

\* A codec that opens the file is not broken by reading it.
LEMMA ReadKeepsAccess ==
    ASSUME NEW c \in Conns, CanRead(c)
    PROVE  AfterRead(codec[c], on[c], state[c]) \in {"unused", "used"}
  BY DEF CanRead, Opens, AfterRead

\* What KeepsAccess says of one connection and one step.
KeptAccess(b) ==
    ( /\ CanRead(b) /\ on'[b] = on[b]
      /\ codec'[b] # codec[b] => state[b] = "used"
      /\ lock'[on[b]] # lock[on[b]] =>
            codec'[b] # codec[b] \/ copied'.from = on[b] )
    => CanRead(b)'

LEMMA StepKeepsAccess ==
    ASSUME TypeOK, PlainUnused, NEW c \in Conns, Step(c), NEW b \in Conns
    PROVE  KeptAccess(b)
  <1> SUFFICES ASSUME CanRead(b), on'[b] = on[b],
                      codec'[b] # codec[b] => state[b] = "used",
                      lock'[on[b]] # lock[on[b]] =>
                         codec'[b] # codec[b] \/ copied'.from = on[b]
               PROVE  CanRead(b)'
    BY DEF KeptAccess
  <1>1. on[b] \in Files /\ on[b] # NoFile
    BY DEF CanRead, Open, TypeOK
  <1>2. lock[on[b]] \in {Fresh, codec[b]} /\ state[b] \in {"unused", "used"}
    BY DEF CanRead, Opens
  <1>3. SUFFICES lock'[on[b]] \in {Fresh, codec'[b]} /\ state'[b] \in {"unused", "used"}
    BY <1>1 DEF CanRead, Open, Opens
  <1>4. ASSUME UNCHANGED codec, copied' = NoCopy PROVE lock'[on[b]] = lock[on[b]]
    BY <1>1, <1>4 DEF NoCopy
  <1>5. ASSUME Reads(c) \/ UNCHANGED state PROVE state'[b] \in {"unused", "used"}
    BY <1>2, <1>5, ReadKeepsAccess DEF Reads, TypeOK
  <1>6. ASSUME NEW f \in Files, NEW x \in Arguments, NewHandle(c, f, x)
        PROVE  lock'[on[b]] \in {Fresh, codec'[b]} /\ state'[b] \in {"unused", "used"}
    <2>1. b # c
      BY <1>1, <1>6 DEF NewHandle, Open
    <2> QED
      BY <1>2, <1>6, <2>1 DEF NewHandle, TypeOK
  <1>7. CASE Disconnect(c)
    <2>1. b # c
      BY <1>1, <1>7 DEF Disconnect, TypeOK
    <2> QED
      BY <1>2, <1>7, <2>1 DEF Disconnect, TypeOK
  <1>8. CASE Query(c) \/ Clear(c) \/ Nothing
    <2>1. UNCHANGED <<lock, codec>> /\ (Reads(c) \/ UNCHANGED state)
      BY <1>8, Zenon DEF Query, Clear, Nothing, handle
    <2> QED
      BY <1>2, <1>5, <2>1
  <1>9. CASE WriteTables(c)
    <2>1. UNCHANGED codec /\ copied' = NoCopy
      BY <1>9 DEF WriteTables
    <2>2. state'[b] \in {"unused", "used"}
      BY <1>2, <1>9 DEF WriteTables, Written, TypeOK
    <2> QED
      BY <1>2, <1>4, <2>1, <2>2
  <1>10. ASSUME NEW s \in Schemas, NEW f \in Files, NEW x \in Arguments, f # on[c],
                DoCopy(c, s, ConnectKey(x), f, x)
         PROVE  lock'[on[b]] \in {Fresh, codec'[b]} /\ state'[b] \in {"unused", "used"}
    <2> DEFINE k == ConnectKey(x)
    <2>1. codec' = codec /\ (Reads(c) \/ UNCHANGED state)
      BY <1>10, Zenon DEF DoCopy, CopyRefused, CopyDone, CopyFails
    <2>2. lock'[on[b]] = lock[on[b]]
      <3>1. CASE CopyDone(c, s, k, f, x)
        <4>1. copied'.from = on[c] /\ lock' = [lock EXCEPT ![f] = k]
          BY <3>1 DEF CopyDone
        <4> QED
          BY <1>1, <1>10, <2>1, <4>1 DEF TypeOK
      <3>2. CASE CopyRefused(c, s, k, f, x) \/ CopyFails(c, s, k, f, x)
        <4>1. copied' = NoCopy
          BY <3>2, Zenon DEF CopyRefused, CopyFails
        <4> QED
          BY <1>4, <2>1, <4>1
      <3> QED
        BY <1>10, <3>1, <3>2 DEF DoCopy
    <2> QED
      BY <1>2, <1>5, <2>1, <2>2
  <1>11. ASSUME NEW old \in Arguments, NEW new \in Arguments,
                ChangeKeyRejected(c, old, new)
         PROVE  lock'[on[b]] \in {Fresh, codec'[b]} /\ state'[b] \in {"unused", "used"}
    BY <1>2, <1>11 DEF ChangeKeyRejected
  <1>12. ASSUME NEW old \in Arguments, NEW new \in Arguments, ChangeKey(c, old, new)
         PROVE  lock'[on[b]] \in {Fresh, codec'[b]} /\ state'[b] \in {"unused", "used"}
    <2>1. CASE b = c
      BY <1>1, <1>12, <2>1 DEF ChangeKey, TypeOK
    <2>2. CASE b # c
      <3>1. codec'[b] = codec[b] /\ state'[b] = state[b] /\ copied'.from # on[b]
        BY <1>1, <1>12, <2>2 DEF ChangeKey, NoCopy, TypeOK
      <3> QED
        BY <1>2, <3>1
    <2> QED
      BY <2>1, <2>2
  <1>13. ASSUME NEW old \in Arguments, NEW new \in Arguments, ChangeKeyStops(c, old, new)
         PROVE  lock'[on[b]] \in {Fresh, codec'[b]} /\ state'[b] \in {"unused", "used"}
    <2>1. CASE b # c
      BY <1>2, <1>13, <2>1 DEF ChangeKeyStops, TypeOK
    <2>2. CASE b = c
      <3>1. lock' = lock /\ codec'[c] = Rekeyed(c, old)
        BY <1>13 DEF ChangeKeyStops, TypeOK
      <3>2. Rekeyed(c, old) = codec[c]
        BY <2>2, <3>1 DEF Rekeyed, Ignored, PlainUnused
      <3>3. RekeyedState(c) \in {"unused", "used"}
        BY <1>2, <2>2 DEF RekeyedState
      <3>4. AfterRead(codec[c], on[c], RekeyedState(c)) \in {"unused", "used"}
        BY <1>2, <2>2, <3>3 DEF AfterRead
      <3>5. state'[c] \in {RekeyedState(c), AfterRead(codec[c], on[c], RekeyedState(c))}
        BY <1>13, <3>2 DEF ChangeKeyStops, TypeOK
      <3> QED
        BY <1>2, <2>2, <3>1, <3>2, <3>3, <3>4, <3>5
    <2> QED
      BY <2>1, <2>2
  <1> QED
    BY <1>6, <1>7, <1>8, <1>9, <1>10, <1>11, <1>12, <1>13, Zenon DEF Step

\* A connection that reads its database keeps reading it, through failures of its
\* own calls and copies made by others (databaseKeyChange, databaseKeyAdd).
THEOREM AccessKept == Spec => KeepsAccess
  <1>1. ASSUME KInv, Next, NEW c \in Conns PROVE KeptAccess(c)
    <2>1. PICK d \in Conns : Step(d)
      BY <1>1, Steps DEF KInv
    <2> QED
      BY <1>1, <2>1, StepKeepsAccess DEF KInv
  <1>2. KInv /\ [Next]_vars =>
          [\A c \in Conns :
             ( /\ CanRead(c) /\ on'[c] = on[c]
               /\ codec'[c] # codec[c] => state[c] = "used"
               /\ lock'[on[c]] # lock[on[c]] =>
                     codec'[c] # codec[c] \/ copied'.from = on[c] )
             => CanRead(c)']_vars
    BY <1>1 DEF KeptAccess
  <1> QED
    BY <1>2, KInvAlways, PTL DEF Spec, KeepsAccess
=============================================================================
