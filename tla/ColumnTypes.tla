---------------------------- MODULE ColumnTypes ----------------------------
(***************************************************************************)
(* How a column of dynamically typed SQLite values becomes one typed R     *)
(* vector: classes DbColumn, DbColumnStorage and SqliteColumnDataSource    *)
(* (src/src/), for one column of a result set over several fetches.        *)
(*                                                                         *)
(* A column is a chain of storages.  The first has the type that the       *)
(* previous fetch ended with; a storage spills over into a new one when    *)
(* its type becomes known, when it is full, or when an integer column has  *)
(* to be widened.  At the end all storages are copied into a vector of the *)
(* last one's type, and values of a type that does not fit are reported.   *)
(*                                                                         *)
(* Integers have the widths of the code, with smaller bounds: 32-bit       *)
(* integers are Min32 .. Max32 and the smallest value of each width is     *)
(* what R takes for NA.  A double has every 32-bit integer and only some   *)
(* of the larger ones (all of them up to 53 bits): Doubles.                *)
(***************************************************************************)
EXTENDS Integers, SequencesExt

CONSTANTS
    Values,       \* what SQLite may have in a column: [t, v]
    DeclTypes,    \* declared types: results of datatype_from_decltype
    FetchSizes,   \* values of n passed to fetch()
    MinCapacity,  \* MIN_DATA_CAPACITY, 100 in the code
    MaxRows,      \* bound: rows of one fetch
    Min32, Max32, Min64,
    Doubles       \* integers that a double represents

AltTypes == {"DATE", "DATETIME", "TIME"}

DataTypes == {"UNKNOWN", "BOOL", "INT", "INT64", "REAL", "STRING", "BLOB"} \cup AltTypes

\* v: the number, or, of a text, 1 if it reads as a date or time.
Value == [t : {"null", "int", "real", "text", "blob"}, v : Int]

ASSUME ValuesAssumption ==
    /\ Values \subseteq Value
    /\ DeclTypes \subseteq DataTypes \ {"UNKNOWN"}

ASSUME WidthAssumption ==
    /\ Min32 \in Int /\ Max32 \in Int /\ Min64 \in Int
    /\ Min64 < Min32 /\ Min32 < 0 /\ 0 < Max32
    /\ Doubles \subseteq Int /\ Min32 .. Max32 \subseteq Doubles

ASSUME BoundsAssumption ==
    MinCapacity \in Nat \ {0} /\ MaxRows \in Nat /\ FetchSizes \subseteq Int

VARIABLES
    decl,      \* datatype_from_decltype of the column
    types_,    \* SqliteResultImpl::types_ of the column
    pc,        \* "idle", "fill" (fetch_rows) or "peek" (peek_first_row)
    n_max,
    nrow,      \* rows put in the column so far
    storage,   \* DbColumn::storage: [dt, cap, cells, vals]
    seen,      \* data_types_seen
    noted      \* a conversion has warned by itself

vars == <<decl, types_, pc, n_max, nrow, storage, seen, noted>>

(***************************************************************************)
(* A value as the column's source presents it.                             *)
(***************************************************************************)

needs_64_bit(n) == n < Min32 \/ n > Max32

get_data_type(x) ==
    CASE decl \in AltTypes -> decl
      [] decl \notin AltTypes /\ x.t = "null" -> "UNKNOWN"
      [] decl \notin AltTypes /\ x.t = "int"  -> IF needs_64_bit(x.v) THEN "INT64" ELSE "INT"
      [] decl \notin AltTypes /\ x.t = "real" -> "REAL"
      [] decl \notin AltTypes /\ x.t = "text" -> "STRING"
      [] decl \notin AltTypes /\ x.t = "blob" -> "BLOB"

(***************************************************************************)
(* The elements of R vectors.  INT and INT64 vectors have no NA but their  *)
(* smallest number.                                                        *)
(***************************************************************************)

Cell(k, n) == [k |-> k, v |-> n]
Num(n)  == Cell("num", n)
NA      == Cell("na", 0)
Coerced == Cell("coerced", 0)   \* another type's reading, rounded or cut off by SQLite

\* fill_default_value.
Default(dt) ==
    CASE dt = "INT"   -> Num(Min32)
      [] dt = "INT64" -> Num(Min64)
      [] dt \notin {"INT", "INT64"} -> NA

Holds(dt) ==
    CASE dt = "INT"    -> {"int"}
      [] dt = "INT64"  -> {"int"}
      [] dt = "REAL"   -> {"int", "real"}
      [] dt = "STRING" -> {"text"}
      [] dt = "BLOB"   -> {"blob"}
      [] dt \in AltTypes -> {"int", "real", "text"}
      [] dt \in {"UNKNOWN", "BOOL"} -> {}

\* fetch_int and fetch_date read with sqlite3_column_int, which cuts off everything
\* but a 32-bit integer; fetch_real, fetch_datetime_local and fetch_time with
\* sqlite3_column_double, which rounds integers that are no doubles.
Inexact(dt, x) ==
    \/ dt = "INT" /\ needs_64_bit(x.v)
    \/ dt = "DATE" /\ (x.t = "real" \/ (x.t = "int" /\ needs_64_bit(x.v)))
    \/ dt \in {"REAL", "DATETIME", "TIME"} /\ x.t = "int" /\ x.v \notin Doubles

\* A date, time or blob that does not convert: NA, with a warning of its own.
Unreadable(dt, x) ==
    dt \in AltTypes /\ (x.t = "blob" \/ (x.t = "text" /\ x.v = 0))

\* The element that shows x as it is.
Shown(x) ==
    CASE x.t = "null" -> NA
      [] x.t = "int"  -> Num(x.v)
      [] x.t \notin {"null", "int"} -> Cell(x.t, x.v)

fetch_value(dt, x) ==
    IF Unreadable(dt, x) THEN NA
    ELSE IF x.t \in Holds(dt) /\ ~Inexact(dt, x) THEN Shown(x)
    ELSE Coerced

(***************************************************************************)
(* DbColumnStorage.                                                        *)
(***************************************************************************)

Larger(a, b) == IF a >= b THEN a ELSE b

get_new_capacity(desired) ==
    Larger(desired, IF n_max < 0 THEN MinCapacity ELSE 1)

\* A vector of type UNKNOWN is R's NULL, which has length 0.
Storage(dt, desired) ==
    [dt |-> dt, cells |-> <<>>, vals |-> <<>>,
     cap |-> IF dt = "UNKNOWN" THEN 0 ELSE get_new_capacity(desired)]

Full(s) == Len(s.vals) >= s.cap

desired_capacity(s) == IF n_max < 0 THEN s.cap * 2 ELSE n_max - Len(s.vals)

Spillover(s, dt) == Storage(dt, desired_capacity(s))

\* Mutant of Widens: a text turns an integer column into one of strings.
Widens_TextToo(dt, new_dt) == dt = "INT" /\ new_dt \in {"INT64", "REAL", "STRING"}

Widens(dt, new_dt) == dt = "INT" /\ new_dt \in {"INT64", "REAL"}

Put(s, x) ==
    [dt |-> s.dt, cap |-> s.cap,
     cells |-> Append(s.cells, fetch_value(s.dt, x)), vals |-> Append(s.vals, x)]

\* Mutant of PutNull: the default is written past the end, too.
PutNull_Always(s, x) ==
    [dt |-> s.dt, cap |-> s.cap, vals |-> Append(s.vals, x),
     cells |-> Append(s.cells, Default(s.dt))]

\* append_null: past the end of the vector nothing is written.
PutNull(s, x) ==
    [dt |-> s.dt, cap |-> s.cap, vals |-> Append(s.vals, x),
     cells |-> IF Full(s) THEN s.cells ELSE Append(s.cells, Default(s.dt))]

\* append_data: the value goes into this storage.
Fits(s, new_dt) == s.dt # "UNKNOWN" /\ ~Full(s) /\ ~Widens(s.dt, new_dt)

\* append_data_to_new: or into another one.  A full storage spills over into one
\* of its own type, which may widen in turn (and is lost then: it is empty).
NextStorage(s, new_dt) ==
    IF s.dt = "UNKNOWN" THEN Spillover(s, new_dt)
    ELSE IF ~Widens(s.dt, new_dt) THEN Spillover(s, s.dt)
    ELSE Spillover(IF Full(s) THEN Spillover(s, s.dt) ELSE s, new_dt)

\* append_col, and DbColumn::set_col_value around it.
append_col(st, x) ==
    LET s == Last(st)
        new_dt == get_data_type(x)
    IN  IF x.t = "null" THEN [st EXCEPT ![Len(st)] = PutNull(s, x)]
        ELSE IF Fits(s, new_dt) THEN [st EXCEPT ![Len(st)] = Put(s, x)]
        ELSE Append(st, Put(NextStorage(s, new_dt), x))

\* Mutant of ColumnType: a column that held a NULL last reports its declared type.
ColumnType_Declared(st) ==
    IF Last(st).vals = <<>> \/ Last(st).vals[Len(Last(st).vals)].t = "null"
    THEN decl ELSE Last(st).dt

\* DbColumn::get_type.
ColumnType(st) == IF Last(st).dt = "UNKNOWN" THEN decl ELSE Last(st).dt

(***************************************************************************)
(* The R vector: DbColumn::operator SEXP, copy_to, copy_value.             *)
(***************************************************************************)

\* Mutant of copy_value: NA_INTEGER is not looked at.
copy_value_RawNA(from, dt, cell) ==
    IF from = "UNKNOWN" THEN Default(dt) ELSE cell

copy_value(from, dt, cell) ==
    IF from = "UNKNOWN" \/ (Widens(from, dt) /\ cell = Default("INT"))
    THEN Default(dt) ELSE cell

\* Element k of what s contributes to a vector of type dt.
copy_to(s, dt, k) ==
    IF k <= s.cap THEN copy_value(s.dt, dt, s.cells[k]) ELSE Default(dt)

\* What R sees in it.
Reads(dt, cell) == IF cell = Default(dt) THEN NA ELSE cell

\* warn_type_conflicts: the types it names.
Conflicts(dt) ==
    (seen \ (IF dt \in {"REAL", "INT64"} THEN {"INT"} ELSE {}))
        \ {"UNKNOWN", "BOOL", dt}

-----------------------------------------------------------------------------

Init ==
    /\ decl \in DeclTypes
    /\ types_ = "UNKNOWN"
    /\ pc = "idle" /\ n_max = 0 /\ nrow = 0
    /\ storage = <<>> /\ seen = {} /\ noted = FALSE

\* The constructor of DbColumn.
FirstType == IF types_ = "BOOL" THEN "UNKNOWN" ELSE types_

Open(n, where) ==
    /\ pc = "idle"
    /\ pc' = where
    /\ n_max' = n
    /\ storage' = << [dt |-> FirstType, cells |-> <<>>, vals |-> <<>>,
                      cap |-> IF FirstType = "UNKNOWN" THEN 0
                              ELSE IF n < 0 THEN MinCapacity ELSE 1] >>
    /\ UNCHANGED <<decl, types_, nrow, seen, noted>>

Fetch(n) == n # 0 /\ Open(n, "fill")

\* fetch(0) looks at the row the statement is on.
Peek == Open(1, "peek")

\* set_col_values().
SetColValue(x) ==
    /\ pc \in {"fill", "peek"}
    /\ nrow < MaxRows
    /\ IF pc = "peek" THEN nrow = 0 ELSE n_max < 0 \/ nrow < n_max
    /\ seen' = seen \cup {get_data_type(x)}
    /\ storage' = append_col(storage, x)
    /\ noted' = (noted \/ Unreadable(Last(storage').dt, x))
    /\ nrow' = nrow + 1
    /\ UNCHANGED <<decl, types_, pc, n_max>>

Close ==
    /\ pc' = "idle" /\ n_max' = 0 /\ nrow' = 0
    /\ storage' = <<>> /\ seen' = {} /\ noted' = FALSE
    /\ UNCHANGED decl

\* get_data(types_): n rows are read, or the rows ran out.
GetData ==
    /\ pc # "idle"
    /\ types_' = ColumnType(storage)
    /\ Close

\* A step fails or the user interrupts: the frame is lost.
Abandon ==
    /\ pc # "idle"
    /\ UNCHANGED types_
    /\ Close

Next ==
    \/ \E n \in FetchSizes : Fetch(n)
    \/ Peek
    \/ \E x \in Values : SetColValue(x)
    \/ GetData \/ Abandon

Spec == Init /\ [][Next]_vars

-----------------------------------------------------------------------------

Cells == [k : {"num", "na", "coerced", "real", "text", "blob"}, v : Int]

\* Every variable has its type; a storage has an element for every value it took
\* as long as there was room for one.
TypeOK ==
    /\ decl \in DeclTypes /\ types_ \in DataTypes
    /\ pc \in {"idle", "fill", "peek"}
    /\ n_max \in Int /\ nrow \in Nat
    /\ storage \in Seq([dt : DataTypes, cap : Nat, cells : Seq(Cells), vals : Seq(Values)])
    /\ \A j \in 1 .. Len(storage) :
          Len(storage[j].cells) = IF Full(storage[j]) THEN storage[j].cap
                                  ELSE Len(storage[j].vals)
    /\ pc # "idle" => storage # <<>>
    /\ seen \subseteq DataTypes /\ noted \in BOOLEAN

\* Types a column may go through while it is filled, and from fetch to fetch.
Becomes(from, to) == from = to \/ from \in {"UNKNOWN", "BOOL"} \/ Widens(from, to)

\* copy_value has a branch for every pair of a storage's type and the column's:
\* it never reads a vector as one of another type and never stops with
\* "NYI: default".
CopyDefined ==
    pc # "idle" =>
        \A j \in 1 .. Len(storage) :
            LET from == storage[j].dt  to == ColumnType(storage)
            IN  from = "UNKNOWN" \/ from = to
                    \/ (from = "INT" /\ to \in {"INT64", "REAL"})

\* A value the widths of R's integers cannot tell from NA.
LooksLikeNA(x) == x.t = "int" /\ x.v \in {Min32, Min64}

\* A number that a column of dates or times does not have room for: a date keeps the
\* low 32 bits of an integer and no fraction, a date with time or a time has the
\* integers that are doubles.  get_data_type calls every value of such a column a
\* date or time, so that there is no conflict of types to warn of.
LostAsDate(dt, x) ==
    \/ dt = "DATE" /\ x.t = "real"
    \/ dt = "DATE" /\ x.t = "int" /\ needs_64_bit(x.v)
    \/ dt \in {"DATETIME", "TIME"} /\ x.t = "int" /\ x.v \notin Doubles

\* Whenever the column goes to R, each value SQLite has returned is in it as it
\* is, NULL as NA, or R is warned.  Two things, and no others, happen without a
\* warning: the smallest 32-bit and 64-bit integers may read as NA, and with
\* extended types a date or time may be one of LostAsDate.  This holds whatever
\* spills over, widens, or was guessed from an earlier fetch or from the
\* declaration (append_col, copy_to, warn_type_conflicts).
NoSilentChange ==
    pc # "idle" =>
        LET dt == ColumnType(storage) IN
        \A j \in 1 .. Len(storage) :
            \A k \in 1 .. Len(storage[j].vals) :
                LET x == storage[j].vals[k]
                    r == Reads(dt, copy_to(storage[j], dt, k))
                IN  \/ r = Shown(x)
                    \/ r = NA /\ LooksLikeNA(x)
                    \/ r = Coerced /\ LostAsDate(dt, x)
                    \/ Conflicts(dt) # {} \/ noted

\* From one fetch to the next the type of a column changes only from "not known"
\* to a type or by widening an integer column, also if there was a peek at the
\* first row in between.
TypeOnlyWidens == [][Becomes(types_, types_')]_vars
=============================================================================
