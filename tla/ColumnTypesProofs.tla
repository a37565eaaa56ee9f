------------------------- MODULE ColumnTypesProofs -------------------------
(***************************************************************************)
(* What DbColumn does to types and values, for every sequence of values,   *)
(* every capacity and every width of the integers.                         *)
(*                                                                         *)
(* The argument goes storage by storage.  StorageOK says what a storage    *)
(* knows of each value it took (ValueOK), ChainInv how the types of the    *)
(* storages go together; putting a value into the last storage or into a   *)
(* new one preserves both.                                                 *)
(***************************************************************************)
EXTENDS ColumnTypes, SequenceTheorems, TLAPS

StorageType == [dt : DataTypes, cap : Nat, cells : Seq(Cells), vals : Seq(Values)]

\* Value x, in a storage of type dt, of which cell is the element and which has
\* room for it or not.
ValueOK(dt, room, cell, x) ==
    IF x.t = "null" THEN room => cell = Default(dt)
    ELSE /\ room /\ dt # "UNKNOWN"
         /\ cell = fetch_value(dt, x)

StorageOK(s) ==
    /\ s \in StorageType
    /\ s.dt # "BOOL"
    /\ s.dt = "UNKNOWN" <=> s.cap = 0
    /\ Len(s.cells) = IF Full(s) THEN s.cap ELSE Len(s.vals)
    /\ \A k \in 1 .. Len(s.vals) : ValueOK(s.dt, k <= s.cap, s.cells[k], s.vals[k])

\* What the column has noted of a value in a storage of type dt.
Noticed(dt, x) ==
    /\ get_data_type(x) \in seen
    /\ x.t # "null" => ~Widens(dt, get_data_type(x)) /\ (Unreadable(dt, x) => noted)

Chain(from, to) == from = "UNKNOWN" \/ from = to \/ Widens(from, to)

ColumnInv ==
    /\ storage # <<>>
    /\ \A j \in 1 .. Len(storage) :
          /\ StorageOK(storage[j])
          /\ Chain(storage[j].dt, Last(storage).dt)
          /\ \A k \in 1 .. Len(storage[j].vals) : Noticed(storage[j].dt, storage[j].vals[k])
    /\ storage[1].dt = FirstType

CInv ==
    /\ TypeOK
    /\ pc # "idle" => ColumnInv
    /\ pc = "idle" => storage = <<>>

USE ValuesAssumption, WidthAssumption, BoundsAssumption

-----------------------------------------------------------------------------
(***************************************************************************)
(* Types and elements.                                                     *)
(***************************************************************************)

LEMMA ItemType ==
    ASSUME NEW x \in Values, decl \in DeclTypes
    PROVE  /\ get_data_type(x) \in DataTypes
           /\ x.t # "null" => get_data_type(x) \notin {"UNKNOWN", "BOOL"}
           /\ (x.t # "null" /\ decl \notin AltTypes) =>
                 get_data_type(x) \in {"INT", "INT64", "REAL", "STRING", "BLOB"}
  BY DEF get_data_type, Value, DataTypes, AltTypes

LEMMA CellType ==
    ASSUME NEW x \in Values, NEW dt \in DataTypes
    PROVE  Default(dt) \in Cells /\ fetch_value(dt, x) \in Cells
  <1>1. Default(dt) \in Cells
    BY DEF Default, Cells, Num, NA, Cell
  <1>2. Shown(x) \in Cells /\ NA \in Cells /\ Coerced \in Cells
    BY DEF Shown, Coerced, NA, Num, Cell, Cells, Value
  <1>. QED
    BY <1>1, <1>2 DEF fetch_value

-----------------------------------------------------------------------------
(***************************************************************************)
(* Storages.                                                               *)
(***************************************************************************)

\* A new storage of a known type is empty and has room.
LEMMA NewStorageOK ==
    ASSUME NEW dt \in DataTypes \ {"BOOL", "UNKNOWN"}, NEW desired \in Int,
           n_max \in Int
    PROVE  /\ StorageOK(Storage(dt, desired))
           /\ Storage(dt, desired).dt = dt
           /\ Storage(dt, desired).cap > 0
           /\ Storage(dt, desired).vals = <<>>
  BY DEF Storage, get_new_capacity, Larger, StorageOK, StorageType, Full

LEMMA EmptyHasRoom ==
    ASSUME NEW dt \in DataTypes \ {"BOOL", "UNKNOWN"}, NEW desired \in Int,
           n_max \in Int
    PROVE  LET t == Storage(dt, desired) IN
           StorageOK(t) /\ t.dt = dt /\ ~Full(t) /\ t.vals = <<>>
  <1>. DEFINE t == Storage(dt, desired)
  <1>1. StorageOK(t) /\ t.dt = dt /\ t.cap > 0 /\ t.vals = <<>>
    BY NewStorageOK
  <1>2. Len(t.vals) = 0
    BY <1>1
  <1>3. t.cap \in Nat
    BY <1>1 DEF StorageOK, StorageType
  <1>. HIDE DEF t
  <1>4. ~Full(t)
    BY <1>1, <1>2, <1>3 DEF Full
  <1>. QED
    BY <1>1, <1>4 DEF t

LEMMA PutOK ==
    ASSUME decl \in DeclTypes,
           NEW s, StorageOK(s), NEW x \in Values, x.t # "null",
           s.dt # "UNKNOWN", ~Full(s)
    PROVE  /\ StorageOK(Put(s, x))
           /\ Put(s, x).dt = s.dt
           /\ Put(s, x).vals = Append(s.vals, x)
  <1>1. s \in StorageType /\ fetch_value(s.dt, x) \in Cells
    BY CellType DEF StorageOK, StorageType
  <1>. DEFINE p == Put(s, x)
  <1>2. /\ p \in StorageType /\ p.dt = s.dt /\ p.cap = s.cap
        /\ p.cells = Append(s.cells, fetch_value(s.dt, x))
        /\ p.vals = Append(s.vals, x)
    BY <1>1 DEF Put, StorageType
  <1>3. Len(s.cells) = Len(s.vals) /\ Len(s.vals) < s.cap
    BY <1>1 DEF StorageOK, StorageType, Full
  <1>4. Len(p.cells) = Len(s.vals) + 1 /\ Len(p.vals) = Len(s.vals) + 1
    BY <1>1, <1>2, <1>3 DEF StorageType
  <1>5. Len(p.cells) = IF Full(p) THEN p.cap ELSE Len(p.vals)
    BY <1>1, <1>2, <1>3, <1>4 DEF Full, StorageType
  <1>6. ASSUME NEW k \in 1 .. Len(p.vals)
        PROVE  ValueOK(p.dt, k <= p.cap, p.cells[k], p.vals[k])
    <2>1. CASE k = Len(s.vals) + 1
      BY <1>1, <1>2, <1>3, <1>4, <2>1 DEF ValueOK, StorageType
    <2>2. CASE k \in 1 .. Len(s.vals)
      <3>1. p.cells[k] = s.cells[k] /\ p.vals[k] = s.vals[k]
        BY <1>1, <1>2, <1>3, <2>2 DEF StorageType
      <3>. QED
        BY <1>2, <2>2, <3>1 DEF StorageOK
    <2>. QED
      BY <1>1, <1>4, <2>1, <2>2 DEF StorageType
  <1>. HIDE DEF p
  <1>7. StorageOK(p)
    BY <1>2, <1>5, <1>6 DEF StorageOK
  <1>. QED
    BY <1>2, <1>7 DEF p

LEMMA PutNullOK ==
    ASSUME NEW s, StorageOK(s), NEW x \in Values, x.t = "null"
    PROVE  /\ StorageOK(PutNull(s, x))
           /\ PutNull(s, x).dt = s.dt
           /\ PutNull(s, x).vals = Append(s.vals, x)
  <1>1. s \in StorageType /\ Default(s.dt) \in Cells
    BY CellType DEF StorageOK, StorageType
  <1>. DEFINE p == PutNull(s, x)
  <1>2. /\ p \in StorageType /\ p.dt = s.dt /\ p.cap = s.cap
        /\ p.cells = IF Full(s) THEN s.cells ELSE Append(s.cells, Default(s.dt))
        /\ p.vals = Append(s.vals, x)
    <2>1. /\ p.dt = s.dt /\ p.cap = s.cap
          /\ p.cells = IF Full(s) THEN s.cells ELSE Append(s.cells, Default(s.dt))
          /\ p.vals = Append(s.vals, x)
      BY DEF PutNull
    <2>2. p.cells \in Seq(Cells) /\ p.vals \in Seq(Values)
      BY <1>1, <2>1 DEF StorageType
    <2>. QED
      BY <1>1, <2>1, <2>2 DEF PutNull, StorageType
  <1>3. Len(p.vals) = Len(s.vals) + 1
    BY <1>1, <1>2 DEF StorageType
  <1>4. Len(p.cells) = IF Full(p) THEN p.cap ELSE Len(p.vals)
    <2>1. CASE Full(s)
      BY <1>1, <1>2, <1>3, <2>1 DEF StorageOK, StorageType, Full
    <2>2. CASE ~Full(s)
      <3>1. Len(p.cells) = Len(s.cells) + 1
        BY <1>1, <1>2, <2>2 DEF StorageType
      <3>. QED
        BY <1>1, <1>2, <1>3, <2>2, <3>1 DEF StorageOK, StorageType, Full
    <2>. QED
      BY <2>1, <2>2
  <1>5. ASSUME NEW k \in 1 .. Len(p.vals)
        PROVE  ValueOK(p.dt, k <= p.cap, p.cells[k], p.vals[k])
    <2>1. CASE k = Len(s.vals) + 1
      <3>1. p.vals[k] = x
        BY <1>1, <1>2, <2>1 DEF StorageType
      <3>2. k <= p.cap => p.cells[k] = Default(p.dt)
        BY <1>1, <1>2, <2>1 DEF StorageOK, StorageType, Full
      <3>. QED
        BY <3>1, <3>2 DEF ValueOK
    <2>2. CASE k \in 1 .. Len(s.vals)
      <3>1. p.vals[k] = s.vals[k]
        BY <1>1, <1>2, <2>2 DEF StorageType
      <3>2. k <= s.cap => p.cells[k] = s.cells[k]
        BY <1>1, <1>2, <2>2 DEF StorageOK, StorageType, Full
      <3>3. ValueOK(s.dt, k <= s.cap, s.cells[k], s.vals[k])
        BY <2>2 DEF StorageOK
      <3>. QED
        BY <1>2, <3>1, <3>2, <3>3 DEF ValueOK
    <2>. QED
      BY <1>1, <1>3, <2>1, <2>2 DEF StorageType
  <1>. HIDE DEF p
  <1>6. StorageOK(p)
    BY <1>2, <1>4, <1>5 DEF StorageOK
  <1>. QED
    BY <1>2, <1>6 DEF p

\* The storage a value spills over into.
LEMMA NextStorageOK ==
    ASSUME TypeOK, NEW s, StorageOK(s), NEW x \in Values, x.t # "null",
           ~Fits(s, get_data_type(x))
    PROVE  LET t == NextStorage(s, get_data_type(x)) IN
           /\ StorageOK(t) /\ t.dt # "UNKNOWN" /\ ~Full(t) /\ t.vals = <<>>
           /\ ~Widens(t.dt, get_data_type(x))
           /\ Chain(s.dt, t.dt) /\ t.dt \in {s.dt, get_data_type(x)}
  <1>. DEFINE g == get_data_type(x)
              t == NextStorage(s, g)
  <1>1. g \in DataTypes \ {"BOOL", "UNKNOWN"} /\ n_max \in Int
    BY ItemType DEF TypeOK
  <1>2. s \in StorageType
    BY DEF StorageOK
  <1>3. \A q \in StorageType : desired_capacity(q) \in Int
    BY <1>1 DEF desired_capacity, StorageType
  <1>4. CASE s.dt = "UNKNOWN"
    <2>1. t = Storage(g, desired_capacity(s))
      BY <1>4 DEF NextStorage, Spillover
    <2>. QED
      BY <1>1, <1>2, <1>3, <1>4, <2>1, EmptyHasRoom DEF Widens, Chain
  <1>5. CASE s.dt # "UNKNOWN" /\ ~Widens(s.dt, g)
    <2>1. t = Storage(s.dt, desired_capacity(s))
      BY <1>5 DEF NextStorage, Spillover
    <2>2. s.dt \in DataTypes \ {"BOOL", "UNKNOWN"}
      BY <1>2, <1>5 DEF StorageOK, StorageType
    <2>. QED
      BY <1>1, <1>2, <1>3, <1>5, <2>1, <2>2, EmptyHasRoom DEF Chain
  <1>6. CASE s.dt # "UNKNOWN" /\ Widens(s.dt, g)
    <2>. DEFINE room == IF Full(s) THEN Storage(s.dt, desired_capacity(s)) ELSE s
    <2>1. t = Storage(g, desired_capacity(room))
      BY <1>6 DEF NextStorage, Spillover
    <2>2. s.dt \in DataTypes \ {"BOOL", "UNKNOWN"}
      BY <1>2, <1>6 DEF StorageOK, StorageType
    <2>3. room \in StorageType
      BY <1>1, <1>2, <1>3, <2>2, NewStorageOK DEF StorageOK
    <2>. QED
      BY <1>1, <1>3, <1>6, <2>1, <2>3, EmptyHasRoom DEF Widens, Chain
  <1>. QED
    BY <1>4, <1>5, <1>6

-----------------------------------------------------------------------------
(***************************************************************************)
(* The column.                                                             *)
(***************************************************************************)

LEMMA ChainTransitive ==
    ASSUME NEW a, NEW b, NEW c, Chain(a, b), Chain(b, c), b # "UNKNOWN" \/ a = b
    PROVE  Chain(a, c)
  BY DEF Chain, Widens

\* The last storage afterwards: the old one or a new one, with the value in it.
LEMMA AppendColOK ==
    ASSUME TypeOK, ColumnInv, NEW x \in Values
    PROVE  \E p :
             /\ StorageOK(p) /\ Chain(Last(storage).dt, p.dt)
             /\ p.dt \in {Last(storage).dt, get_data_type(x)}
             /\ x.t # "null" => p.dt # "UNKNOWN" /\ ~Widens(p.dt, get_data_type(x))
             /\ \/ /\ append_col(storage, x) = [storage EXCEPT ![Len(storage)] = p]
                   /\ p.dt = Last(storage).dt
                   /\ p.vals = Append(Last(storage).vals, x)
                \/ /\ append_col(storage, x) = Append(storage, p)
                   /\ p.vals = <<x>>
  <1>. DEFINE s == Last(storage)
              g == get_data_type(x)
  <1>1. storage \in Seq(StorageType) /\ Len(storage) \in 1 .. Len(storage)
    BY EmptySeq, LenProperties DEF TypeOK, ColumnInv, StorageType
  <1>2. StorageOK(s)
    BY <1>1 DEF ColumnInv, Last
  <1>3. CASE x.t = "null"
    <2>1. append_col(storage, x) = [storage EXCEPT ![Len(storage)] = PutNull(s, x)]
      BY <1>3 DEF append_col
    <2>. QED
      BY <1>2, <1>3, <2>1, PutNullOK DEF Chain
  <1>4. CASE x.t # "null" /\ Fits(s, g)
    <2>1. append_col(storage, x) = [storage EXCEPT ![Len(storage)] = Put(s, x)]
      BY <1>4 DEF append_col
    <2>2. s.dt # "UNKNOWN" /\ ~Full(s) /\ ~Widens(s.dt, g)
      BY <1>4 DEF Fits
    <2>3. StorageOK(Put(s, x)) /\ Put(s, x).dt = s.dt
                                /\ Put(s, x).vals = Append(s.vals, x)
      BY <1>2, <1>4, <2>2, PutOK DEF TypeOK
    <2>. QED
      BY <2>1, <2>2, <2>3 DEF Chain
  <1>5. CASE x.t # "null" /\ ~Fits(s, g)
    <2>. DEFINE t == NextStorage(s, g)
    <2>1. append_col(storage, x) = Append(storage, Put(t, x))
      BY <1>5 DEF append_col
    <2>2. /\ StorageOK(t) /\ t.dt # "UNKNOWN" /\ ~Full(t) /\ t.vals = <<>>
          /\ ~Widens(t.dt, g) /\ Chain(s.dt, t.dt) /\ t.dt \in {s.dt, g}
      BY <1>2, <1>5, NextStorageOK
    <2>. HIDE DEF t
    <2>3. StorageOK(Put(t, x)) /\ Put(t, x).dt = t.dt
                                /\ Put(t, x).vals = Append(t.vals, x)
      BY <1>5, <2>2, PutOK DEF TypeOK
    <2>4. Append(t.vals, x) = <<x>>
      BY <2>2
    <2>. QED
      BY <2>1, <2>2, <2>3, <2>4
  <1>. QED
    BY <1>3, <1>4, <1>5

LEMMA SetColValueInv ==
    ASSUME CInv, NEW x \in Values, SetColValue(x)
    PROVE  CInv'
  <1>1. TypeOK /\ ColumnInv /\ pc # "idle" /\ pc' = pc
    BY DEF CInv, SetColValue
  <1>2. storage \in Seq(StorageType) /\ Len(storage) \in 1 .. Len(storage)
    BY <1>1, EmptySeq, LenProperties DEF TypeOK, ColumnInv, StorageType
  <1>. DEFINE N == Len(storage)
              s == Last(storage)
  <1>3. s = storage[N] /\ N \in Nat
    BY <1>2 DEF Last
  <1>4. /\ seen' = seen \cup {get_data_type(x)} /\ decl' = decl
        /\ noted' = (noted \/ Unreadable(Last(storage)'.dt, x))
        /\ types_' = types_ /\ n_max' = n_max /\ nrow' = nrow + 1
        /\ storage' = append_col(storage, x)
    BY DEF SetColValue
  <1>5. PICK p :
             /\ StorageOK(p) /\ Chain(s.dt, p.dt)
             /\ x.t # "null" => ~Widens(p.dt, get_data_type(x))
             /\ \/ /\ storage' = [storage EXCEPT ![N] = p]
                   /\ p.dt = s.dt
                   /\ p.vals = Append(s.vals, x)
                \/ /\ storage' = Append(storage, p)
                   /\ p.vals = <<x>>
    BY <1>1, <1>4, AppendColOK
  <1>6. p \in StorageType
    BY <1>5 DEF StorageOK
  <1>. DEFINE M == Len(storage')
  <1>7. /\ storage' \in Seq(StorageType) /\ M \in {N, N + 1} /\ M \in Nat /\ M >= 1
        /\ storage'[M] = p
        /\ \A j \in 1 .. M - 1 : j \in 1 .. N /\ storage'[j] = storage[j]
    BY <1>2, <1>3, <1>5, <1>6
  <1>8. Last(storage)' = p
    BY <1>7 DEF Last
  <1>9. \A j \in 1 .. M : StorageOK(storage'[j])
    BY <1>1, <1>2, <1>5, <1>7 DEF ColumnInv
  <1>10. ASSUME NEW j \in 1 .. M PROVE Chain(storage'[j].dt, p.dt)
    <2>1. CASE j = M
      BY <1>7, <2>1 DEF Chain
    <2>2. CASE j \in 1 .. M - 1
      <3>1. j \in 1 .. N /\ Chain(storage[j].dt, s.dt) /\ storage'[j] = storage[j]
        BY <1>1, <1>7, <2>2 DEF ColumnInv
      <3>. QED
        BY <1>5, <3>1 DEF Chain, Widens
    <2>. QED
      BY <1>7, <2>1, <2>2
  <1>11. ASSUME NEW j \in 1 .. M, NEW k \in 1 .. Len(storage'[j].vals)
         PROVE  Noticed(storage[j].dt, storage[j].vals[k])'
    <2>. DEFINE y == storage'[j].vals[k]
    <2>1. \/ y = x /\ storage'[j].dt = p.dt
          \/ y \in Values /\ Noticed(storage'[j].dt, y)
      <3>1. CASE j \in 1 .. M - 1
        <4>1. j \in 1 .. N /\ storage'[j] = storage[j]
          BY <1>7, <3>1
        <4>2. storage[j] \in StorageType
          BY <1>2, <4>1
        <4>. QED
          BY <1>1, <4>1, <4>2 DEF ColumnInv, StorageType
      <3>2. CASE j = M /\ p.vals = <<x>>
        BY <1>7, <3>2
      <3>3. CASE j = M /\ p.dt = s.dt /\ p.vals = Append(s.vals, x)
        <4>1. s \in StorageType
          BY <1>2, <1>3
        <4>2. CASE k = Len(s.vals) + 1
          BY <1>7, <3>3, <4>1, <4>2 DEF StorageType
        <4>3. CASE k \in 1 .. Len(s.vals)
          <5>1. y = s.vals[k] /\ y \in Values
            <6>1. s.vals \in Seq(Values)
              BY <4>1 DEF StorageType
            <6>2. Append(s.vals, x)[k] = s.vals[k] /\ s.vals[k] \in Values
              BY <4>3, <6>1, AppendProperties
            <6>. QED
              BY <1>7, <3>3, <6>2
          <5>2. Noticed(s.dt, s.vals[k])
            BY <1>1, <1>2, <1>3, <4>3 DEF ColumnInv
          <5>. QED
            BY <1>7, <3>3, <5>1, <5>2
        <4>. QED
          BY <1>7, <3>3, <4>1, <4>2, <4>3 DEF StorageType
      <3>. QED
        BY <1>5, <1>7, <3>1, <3>2, <3>3
    <2>2. /\ get_data_type(y) \in seen'
          /\ y.t # "null" => /\ ~Widens(storage'[j].dt, get_data_type(y))
                             /\ Unreadable(storage'[j].dt, y) => noted'
      BY <1>4, <1>5, <1>8, <2>1 DEF Noticed
    <2>. QED
      BY <1>4, <2>2 DEF Noticed, get_data_type, Widens, Unreadable, needs_64_bit
  <1>12. storage'[1].dt = FirstType'
    <2>1. storage'[1].dt = storage[1].dt
      BY <1>2, <1>3, <1>5, <1>7
    <2>. QED
      BY <1>1, <1>4, <2>1 DEF ColumnInv, FirstType
  <1>13. storage' # <<>>
    BY <1>7
  <1>14. ColumnInv'
    BY <1>8, <1>9, <1>10, <1>11, <1>12, <1>13 DEF ColumnInv
  <1>15. TypeOK'
    <2>1. \A j \in 1 .. M :
              Len(storage'[j].cells) = IF Full(storage'[j]) THEN storage'[j].cap
                                       ELSE Len(storage'[j].vals)
      BY <1>9 DEF StorageOK
    <2>2. get_data_type(x) \in DataTypes
      BY <1>1, ItemType DEF TypeOK
    <2>. QED
      BY <1>1, <1>4, <1>7, <1>13, <2>1, <2>2 DEF TypeOK, StorageType, Full
  <1>. QED
    BY <1>1, <1>14, <1>15 DEF CInv

LEMMA OpenInv ==
    ASSUME CInv, NEW n \in Int, NEW where \in {"fill", "peek"}, Open(n, where)
    PROVE  CInv'
  <1>. DEFINE f == [dt |-> FirstType, cells |-> <<>>, vals |-> <<>>,
                    cap |-> IF FirstType = "UNKNOWN" THEN 0
                            ELSE IF n < 0 THEN MinCapacity ELSE 1]
  <1>1. storage' = <<f>> /\ pc' = where /\ n_max' = n
    BY DEF Open
  <1>2. FirstType \in DataTypes \ {"BOOL"} /\ FirstType' = FirstType
    BY DEF CInv, TypeOK, FirstType, Open, DataTypes
  <1>3. f \in StorageType /\ StorageOK(f)
    BY <1>2 DEF StorageOK, StorageType, Full
  <1>4. storage' \in Seq(StorageType) /\ Len(storage') = 1 /\ storage'[1] = f
    BY <1>1, <1>3
  <1>5. f.dt = FirstType /\ f.vals = <<>> /\ Len(f.vals) = 0
    OBVIOUS
  <1>. HIDE DEF f
  <1>6. Last(storage)' = f /\ storage' # <<>>
    BY <1>1, <1>4 DEF Last
  <1>7. ColumnInv'
    BY <1>2, <1>3, <1>4, <1>5, <1>6 DEF ColumnInv, Chain
  <1>8. TypeOK'
    <2>1. \A j \in 1 .. Len(storage') :
              Len(storage'[j].cells) = IF Full(storage'[j]) THEN storage'[j].cap
                                       ELSE Len(storage'[j].vals)
      BY <1>3, <1>4 DEF StorageOK
    <2>. QED
      BY <1>1, <1>4, <1>6, <2>1 DEF CInv, TypeOK, Open, StorageType, Full
  <1>. QED
    BY <1>1, <1>7, <1>8 DEF CInv

\* A type of the column for every state of a frame.
LEMMA ColumnTypeIs ==
    ASSUME TypeOK, ColumnInv
    PROVE  ColumnType(storage) \in DataTypes /\ Len(storage) \in 1 .. Len(storage)
  <1>1. storage \in Seq(StorageType) /\ Len(storage) \in 1 .. Len(storage)
    BY EmptySeq, LenProperties DEF TypeOK, ColumnInv, StorageType
  <1>2. Last(storage) \in StorageType
    BY <1>1 DEF Last
  <1>. QED
    BY <1>1, <1>2 DEF ColumnType, StorageType, TypeOK

LEMMA CloseInv ==
    ASSUME CInv, Close, types_' \in DataTypes
    PROVE  CInv'
  <1>1. /\ storage' = <<>> /\ storage' \in Seq(StorageType)
        /\ \A j \in 1 .. Len(storage') : FALSE
    BY DEF Close
  <1>2. TypeOK'
    <2>1. decl' \in DeclTypes /\ pc' = "idle" /\ n_max' \in Int /\ nrow' \in Nat
      BY DEF CInv, Close, TypeOK
    <2>2. seen' \subseteq DataTypes
      BY DEF Close
    <2>3. noted' \in BOOLEAN
      BY DEF Close
    <2>4. storage' \in Seq([dt : DataTypes, cap : Nat, cells : Seq(Cells), vals : Seq(Values)])
      BY <1>1 DEF StorageType
    <2>. QED
      BY <1>1, <2>1, <2>2, <2>3, <2>4 DEF TypeOK
  <1>. QED
    BY <1>1, <1>2 DEF CInv, Close

LEMMA NextInv ==
    ASSUME CInv, [Next]_vars
    PROVE  CInv'
  <1>1. ASSUME NEW n \in FetchSizes, Fetch(n) PROVE CInv'
    BY <1>1, OpenInv DEF Fetch
  <1>2. CASE Peek
    BY <1>2, OpenInv DEF Peek
  <1>3. ASSUME NEW x \in Values, SetColValue(x) PROVE CInv'
    BY <1>3, SetColValueInv
  <1>4. CASE GetData
    BY <1>4, CloseInv, ColumnTypeIs DEF GetData, CInv
  <1>5. CASE Abandon
    BY <1>5, CloseInv DEF Abandon, CInv, TypeOK
  <1>6. CASE UNCHANGED vars
    <2>1. TypeOK'
      BY <1>6 DEF CInv, TypeOK, Full, vars
    <2>2. pc # "idle" => ColumnInv'
      <3>. SUFFICES ASSUME ColumnInv PROVE ColumnInv'
        BY DEF CInv
      <3>1. FirstType' = FirstType /\ Last(storage)' = Last(storage)
        BY <1>6 DEF FirstType, Last, vars
      <3>2. ASSUME NEW j \in 1 .. Len(storage), NEW k \in 1 .. Len(storage[j].vals)
            PROVE  Noticed(storage[j].dt, storage[j].vals[k])'
        <4>1. Noticed(storage[j].dt, storage[j].vals[k])
          BY DEF ColumnInv
        <4>. DEFINE y == storage'[j].vals[k]
        <4>2. /\ get_data_type(y) \in seen'
              /\ y.t # "null" => /\ ~Widens(storage'[j].dt, get_data_type(y))
                                 /\ Unreadable(storage'[j].dt, y) => noted'
          BY <1>6, <4>1 DEF Noticed, vars
        <4>3. decl' = decl
          BY <1>6 DEF vars
        <4>. QED
          BY <4>2, <4>3 DEF Noticed, get_data_type, Widens, Unreadable, needs_64_bit
      <3>. QED
        BY <1>6, <3>1, <3>2 DEF ColumnInv, vars
    <2>. QED
      BY <1>6, <2>1, <2>2 DEF CInv, vars
  <1>. QED
    BY <1>1, <1>2, <1>3, <1>4, <1>5, <1>6 DEF Next

\* The invariant of storages and types holds in every reachable state.
THEOREM ColumnInvariance == Spec => []CInv
  <1>1. Init => CInv
    <2>. SUFFICES ASSUME Init PROVE CInv
      OBVIOUS
    <2>1. /\ storage = <<>> /\ storage \in Seq(StorageType)
          /\ \A j \in 1 .. Len(storage) : FALSE
      BY DEF Init
    <2>2. TypeOK
      <3>1. storage \in Seq([dt : DataTypes, cap : Nat, cells : Seq(Cells), vals : Seq(Values)])
        BY <2>1 DEF StorageType
      <3>2. types_ \in DataTypes
        BY DEF Init, DataTypes
      <3>3. seen \subseteq DataTypes /\ noted \in BOOLEAN
        BY DEF Init
      <3>. QED
        BY <2>1, <3>1, <3>2, <3>3 DEF Init, TypeOK
    <2>. QED
      BY <2>1, <2>2 DEF Init, CInv
  <1>2. CInv /\ [Next]_vars => CInv'
    BY NextInv
  <1>. QED
    BY <1>1, <1>2, PTL DEF Spec

\* Type correctness, for all values, capacities and widths.
THEOREM ColumnTypeCorrect == Spec => []TypeOK
  <1>1. CInv => TypeOK
    BY DEF CInv
  <1>. QED
    BY ColumnInvariance, <1>1, PTL

\* How the types of the storages relate to the type of the column.
LEMMA ChainToColumn ==
    ASSUME TypeOK, ColumnInv, NEW j \in 1 .. Len(storage)
    PROVE  \/ storage[j].dt = "UNKNOWN"
           \/ /\ Chain(storage[j].dt, ColumnType(storage))
              /\ ColumnType(storage) = Last(storage).dt
  <1>1. Chain(storage[j].dt, Last(storage).dt)
    BY DEF ColumnInv
  <1>. QED
    BY <1>1 DEF Chain, Widens, ColumnType

\* copy_value always has a branch for what it copies.
THEOREM CopyCorrect == Spec => []CopyDefined
  <1>1. CInv => CopyDefined
    BY ChainToColumn DEF CInv, CopyDefined, Chain, Widens
  <1>. QED
    BY ColumnInvariance, <1>1, PTL

\* From fetch to fetch the type of a column becomes known or wider, and nothing
\* else (DbColumn's constructor, get_type).
THEOREM WideningCorrect == Spec => TypeOnlyWidens
  <1>1. ASSUME CInv, [Next]_vars PROVE [Becomes(types_, types_')]_vars
    <2>1. CASE GetData
      <3>1. TypeOK /\ ColumnInv /\ types_' = ColumnType(storage)
        BY <1>1, <2>1 DEF CInv, GetData
      <3>2. 1 \in 1 .. Len(storage) /\ storage[1].dt = FirstType
        BY <3>1, ColumnTypeIs DEF ColumnInv
      <3>. QED
        BY <3>1, <3>2, ChainToColumn DEF FirstType, Becomes, Chain
    <2>2. CASE ~GetData
      <3>1. types_' = types_
        BY <1>1, <2>2 DEF Next, Fetch, Peek, Open, SetColValue, Abandon, vars
      <3>. QED
        BY <3>1 DEF Becomes
    <2>. QED
      BY <2>1, <2>2
  <1>. QED
    BY ColumnInvariance, <1>1, PTL DEF TypeOnlyWidens, Spec

-----------------------------------------------------------------------------
(***************************************************************************)
(* Values.                                                                 *)
(***************************************************************************)

\* An element that shows its value still does so in the R vector, or is taken
\* for NA because of its number.
LEMMA ShownStaysShown ==
    ASSUME NEW x \in Values, x.t # "null", NEW from, NEW dt, from # "UNKNOWN",
           NEW r, r = Reads(dt, copy_value(from, dt, Shown(x)))
    PROVE  r = Shown(x) \/ (r = NA /\ LooksLikeNA(x))
  <1>1. x.t \in {"int", "real", "text", "blob"}
    BY DEF Value
  <1>2. \A n : Shown(x) = Num(n) => x.t = "int" /\ x.v = n
    BY <1>1 DEF Shown, Num, Cell
  <1>3. \A d : Shown(x) = Default(d) => LooksLikeNA(x) \/ Shown(x) = NA
    BY <1>2 DEF Default, LooksLikeNA
  <1>4. Shown(x) = Default("INT") => LooksLikeNA(x)
    BY <1>2 DEF Default, LooksLikeNA
  <1>5. CASE Widens(from, dt) /\ Shown(x) = Default("INT")
    BY <1>4, <1>5 DEF copy_value, Reads
  <1>6. CASE ~(Widens(from, dt) /\ Shown(x) = Default("INT"))
    <2>1. copy_value(from, dt, Shown(x)) = Shown(x)
      BY <1>6 DEF copy_value
    <2>. QED
      BY <1>3, <2>1 DEF Reads
  <1>. QED
    BY <1>5, <1>6

\* A value that was converted to another type is reported, but for numbers in dates
\* and times.
LEMMA CoercedIsReported ==
    ASSUME NEW x \in Values, x.t # "null", decl \in DeclTypes,
           NEW from \in DataTypes, NEW dt, from \notin {"UNKNOWN", "BOOL"},
           from = dt \/ Widens(from, dt), ~LostAsDate(dt, x),
           ~Widens(from, get_data_type(x)), get_data_type(x) \in seen,
           ~Unreadable(from, x),
           x.t \notin Holds(from) \/ Inexact(from, x)
    PROVE  Conflicts(dt) # {}
  <1>. DEFINE g == get_data_type(x)
  <1>1. x.t \in {"int", "real", "text", "blob"}
    BY DEF Value
  <1>2. g \notin {"UNKNOWN", "BOOL"}
    BY ItemType
  <1>3. g # dt /\ ~(g = "INT" /\ dt \in {"REAL", "INT64"})
    <2>1. CASE decl \in AltTypes
      <3>1. g = decl
        BY <2>1 DEF get_data_type
      <3>2. CASE from \in AltTypes
        <4>1. from = dt
          BY <3>2 DEF Widens, AltTypes
        <4>2. x.t \in Holds(from) => ~Inexact(from, x)
          BY <3>2, <4>1 DEF Inexact, LostAsDate, AltTypes
        <4>3. x.t = "blob"
          BY <1>1, <3>2, <4>2 DEF Holds, AltTypes
        <4>. QED
          BY <3>2, <4>3 DEF Unreadable
      <3>3. CASE from \notin AltTypes
        <4>1. dt \notin AltTypes
          BY <3>3 DEF Widens, AltTypes
        <4>. QED
          BY <2>1, <3>1, <4>1 DEF AltTypes
      <3>. QED
        BY <3>2, <3>3
    <2>2. CASE decl \notin AltTypes
      <3>1. /\ x.t = "int"  => g = IF needs_64_bit(x.v) THEN "INT64" ELSE "INT"
            /\ x.t = "real" => g = "REAL"
            /\ x.t = "text" => g = "STRING"
            /\ x.t = "blob" => g = "BLOB"
        BY <2>2 DEF get_data_type
      <3>2. CASE from = "INT"
        BY <1>1, <3>1, <3>2 DEF Widens, Holds, Inexact
      <3>3. CASE from = "INT64"
        BY <1>1, <3>1, <3>3 DEF Widens, Holds, Inexact
      <3>4. CASE from = "REAL"
        <4>1. (x.t = "int" /\ x.v \notin Doubles) => needs_64_bit(x.v)
          BY DEF needs_64_bit, Value
        <4>. QED
          BY <1>1, <3>1, <3>4, <4>1 DEF Widens, Holds, Inexact
      <3>5. CASE from = "STRING"
        BY <1>1, <3>1, <3>5 DEF Widens, Holds, Inexact
      <3>6. CASE from = "BLOB"
        BY <1>1, <3>1, <3>6 DEF Widens, Holds, Inexact, AltTypes
      <3>7. CASE from \in AltTypes
        BY <1>1, <3>1, <3>7 DEF Widens, AltTypes
      <3>. QED
        BY <3>2, <3>3, <3>4, <3>5, <3>6, <3>7 DEF DataTypes
    <2>. QED
      BY <2>1, <2>2
  <1>. QED
    BY <1>2, <1>3 DEF Conflicts

\* What a vector of the column's type has of a value.
LEMMA ElementOf ==
    ASSUME CInv, pc # "idle", NEW j \in 1 .. Len(storage),
           NEW k \in 1 .. Len(storage[j].vals)
    PROVE  LET s  == storage[j]
               x  == s.vals[k]
               dt == ColumnType(storage)
           IN  /\ x \in Values /\ s.dt \in DataTypes \ {"BOOL"} /\ Noticed(s.dt, x)
               /\ s.dt = "UNKNOWN" \/ s.dt = dt \/ Widens(s.dt, dt)
               /\ x.t = "null" => copy_to(s, dt, k) = Default(dt)
               /\ x.t # "null" =>
                     /\ s.dt # "UNKNOWN"
                     /\ copy_to(s, dt, k) = copy_value(s.dt, dt, fetch_value(s.dt, x))
  <1>. DEFINE s  == storage[j]
              x  == s.vals[k]
              dt == ColumnType(storage)
  <1>1. TypeOK /\ ColumnInv
    BY DEF CInv
  <1>2. StorageOK(s) /\ Noticed(s.dt, x)
    BY <1>1 DEF ColumnInv
  <1>3. s \in StorageType /\ s.dt # "BOOL" /\ (s.dt = "UNKNOWN" <=> s.cap = 0)
    BY <1>2 DEF StorageOK
  <1>4. x \in Values /\ k \in Nat \ {0} /\ s.cap \in Nat /\ s.dt \in DataTypes
    BY <1>3 DEF StorageType
  <1>5. ValueOK(s.dt, k <= s.cap, s.cells[k], x)
    BY <1>2 DEF StorageOK
  <1>6. s.dt = "UNKNOWN" \/ s.dt = dt \/ Widens(s.dt, dt)
    BY <1>1, ChainToColumn DEF Chain
  <1>. HIDE DEF dt, s, x
  <1>7. ASSUME x.t = "null" PROVE copy_to(s, dt, k) = Default(dt)
    <2>1. CASE k <= s.cap
      <3>1. s.cells[k] = Default(s.dt)
        BY <1>5, <1>7, <2>1 DEF ValueOK
      <3>. QED
        BY <1>6, <2>1, <3>1 DEF copy_to, copy_value, Widens
    <2>2. CASE ~(k <= s.cap)
      BY <2>2 DEF copy_to
    <2>. QED
      BY <2>1, <2>2
  <1>8. ASSUME x.t # "null"
        PROVE  s.dt # "UNKNOWN" /\ copy_to(s, dt, k) = copy_value(s.dt, dt, fetch_value(s.dt, x))
    BY <1>5, <1>8 DEF ValueOK, copy_to
  <1>. QED
    BY <1>2, <1>3, <1>4, <1>6, <1>7, <1>8 DEF s, x, dt

\* No value changes on its way to R without a warning, for every sequence of
\* values, every fetch size, every capacity and all widths and doubles; the
\* exceptions are the two that NoSilentChange names: integers that look like NA, and
\* in columns of dates and times the numbers of LostAsDate.
THEOREM ValuesCorrect == Spec => []NoSilentChange
  <1>1. ASSUME CInv PROVE NoSilentChange
    <2>. DEFINE dt == ColumnType(storage)
    <2>. SUFFICES ASSUME pc # "idle",
                         NEW j \in 1 .. Len(storage),
                         NEW k \in 1 .. Len(storage[j].vals)
                  PROVE  LET x == storage[j].vals[k]
                             r == Reads(dt, copy_to(storage[j], dt, k))
                         IN  \/ r = Shown(x)
                             \/ r = NA /\ LooksLikeNA(x)
                             \/ r = Coerced /\ LostAsDate(dt, x)
                             \/ Conflicts(dt) # {} \/ noted
      BY DEF NoSilentChange
    <2>. DEFINE s == storage[j]
                x == s.vals[k]
                r == Reads(dt, copy_to(s, dt, k))
    <2>1. /\ x \in Values /\ s.dt \in DataTypes \ {"BOOL"} /\ Noticed(s.dt, x)
          /\ s.dt = "UNKNOWN" \/ s.dt = dt \/ Widens(s.dt, dt)
          /\ x.t = "null" => copy_to(s, dt, k) = Default(dt)
          /\ x.t # "null" =>
                /\ s.dt # "UNKNOWN"
                /\ copy_to(s, dt, k) = copy_value(s.dt, dt, fetch_value(s.dt, x))
      BY <1>1, ElementOf
    <2>2. decl \in DeclTypes
      BY <1>1 DEF CInv, TypeOK
    <2>. HIDE DEF dt, s, x
    <2>3. CASE x.t = "null"
      BY <2>1, <2>3 DEF Reads, Shown, s, x
    <2>4. CASE x.t # "null" /\ Unreadable(s.dt, x)
      BY <2>1, <2>4 DEF Noticed, s, x
    <2>5. CASE /\ x.t # "null" /\ ~Unreadable(s.dt, x)
               /\ x.t \in Holds(s.dt) /\ ~Inexact(s.dt, x)
      <3>1. fetch_value(s.dt, x) = Shown(x)
        BY <2>5 DEF fetch_value
      <3>2. r = Shown(x) \/ (r = NA /\ LooksLikeNA(x))
        BY <2>1, <2>5, <3>1, ShownStaysShown
      <3>. QED
        BY <3>2 DEF s, x
    <2>6. CASE /\ x.t # "null" /\ ~Unreadable(s.dt, x)
               /\ (x.t \notin Holds(s.dt) \/ Inexact(s.dt, x))
      <3>1. s.dt # "UNKNOWN" /\ get_data_type(x) \in seen /\ ~Widens(s.dt, get_data_type(x))
        BY <2>1, <2>6 DEF Noticed
      <3>2. CASE ~LostAsDate(dt, x)
        BY <2>1, <2>2, <2>6, <3>1, <3>2, CoercedIsReported DEF s, x
      <3>3. CASE LostAsDate(dt, x)
        <4>1. dt \in AltTypes /\ s.dt = dt
          BY <2>1, <3>1, <3>3 DEF LostAsDate, Widens, AltTypes
        <4>2. fetch_value(s.dt, x) = Coerced
          BY <2>6 DEF fetch_value
        <4>3. copy_value(s.dt, dt, Coerced) = Coerced
          BY <3>1, <4>1 DEF copy_value, Widens, AltTypes
        <4>4. Default(dt) = NA /\ Coerced # NA
          BY <4>1 DEF Default, AltTypes, Coerced, NA, Cell
        <4>5. r = Coerced
          BY <2>1, <2>6, <4>2, <4>3, <4>4 DEF Reads
        <4>. QED
          BY <3>3, <4>5 DEF s, x
      <3>. QED
        BY <3>2, <3>3
    <2>. QED
      BY <2>3, <2>4, <2>5, <2>6 DEF s, x
  <1>. QED
    BY ColumnInvariance, <1>1, PTL
=============================================================================
