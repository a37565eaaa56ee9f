------------------------------ MODULE Binding ------------------------------
(***************************************************************************)
(* The way of an R vector into a table and back: the declaration that      *)
(* dbDataType gives its column, the value that bind_parameter_pos binds    *)
(* for each element, the column of ColumnTypes that reads it, and          *)
(* convert_bigint.                                                         *)
(***************************************************************************)
EXTENDS ColumnTypes, Affinity

CONSTANT Numbers    \* numbers that R vectors have

ASSUME NumbersAssumption == Numbers \subseteq Int

Vector(class, typeof) == [class |-> class, typeof |-> typeof]

Plain == "plain"

Vectors ==
    {Vector(Plain, t) : t \in {"logical", "integer", "double", "character", "list", "raw"}}
    \cup {Vector("factor", "integer"), Vector("integer64", "double"),
          Vector("Date", "double"), Vector("Date", "integer"),
          Vector("POSIXct", "double"), Vector("hms", "double")}

\* An element: NA, or a number (of a text or blob, which one it is), whole or not.
Element(vec) ==
    [na : {TRUE}, v : {0}, whole : {TRUE}] \cup
    [na : {FALSE},
     v : CASE vec.typeof = "logical"   -> {0, 1}
           [] vec.typeof = "integer"   -> {n \in Numbers : Min32 < n /\ n <= Max32}
           [] vec.class = "integer64"  -> {n \in Numbers : Min64 < n}
           [] vec.typeof = "double" /\ vec.class # "integer64" -> Numbers \cap Doubles
           [] vec.typeof \in {"character", "raw"} -> {0, 1}
           [] vec.typeof = "list"      -> {0},
     whole : IF vec.typeof = "double" /\ vec.class # "integer64" THEN BOOLEAN ELSE {TRUE}]

INTEGER == INT \o <<"e", "g", "e", "r">>

dbDataType(vec, extended_types) ==
    IF vec.class = "factor" THEN TEXT
    ELSE IF vec.class = "integer64" THEN INTEGER
    ELSE IF extended_types /\ vec.class = "Date" THEN <<"date">>
    ELSE IF extended_types /\ vec.class = "POSIXct" THEN <<"timestamp">>
    ELSE IF extended_types /\ vec.class = "hms" THEN <<"time">>
    ELSE CASE vec.typeof \in {"integer", "logical"} -> INTEGER
           [] vec.typeof = "double" -> REAL
           [] vec.typeof \in {"character", "raw"} -> TEXT
           [] vec.typeof = "list" -> BLOB

\* Factors and raw vectors become strings, before their type is asked for.
sql_data(vec) ==
    IF vec.class = "factor" \/ vec.typeof = "raw" THEN Vector(Plain, "character") ELSE vec

Bound(type, e) == IF e.na THEN [t |-> "null", v |-> 0] ELSE [t |-> type, v |-> e.v]

\* Mutant of bind_parameter_pos: an integer64 goes through sqlite3_bind_int.
bind_parameter_pos_32Bits(vec, e) ==
    CASE vec.class = "integer64" ->
             Bound("int", [e EXCEPT !.v = Min32 + ((@ - Min32) % (Max32 - Min32 + 1))])
      [] vec.typeof \in {"logical", "integer"} -> Bound("int", e)
      [] vec.typeof = "double" /\ vec.class # "integer64" -> Bound("real", e)
      [] vec.typeof = "character" -> Bound("text", e)
      [] vec.typeof = "list" -> Bound("blob", e)

\* A double is never equal to NA_REAL in the code: sqlite3_bind_double makes it NULL.
bind_parameter_pos(vec, e) ==
    CASE vec.typeof \in {"logical", "integer"} \/ vec.class = "integer64" -> Bound("int", e)
      [] vec.typeof = "double" /\ vec.class # "integer64" -> Bound("real", e)
      [] vec.typeof = "character" -> Bound("text", e)
      [] vec.typeof = "list" -> Bound("blob", e)

\* The affinity of the column converts numbers.
Stored(aff, x, whole) ==
    IF aff = "REAL" /\ x.t = "int" THEN [x EXCEPT !.t = "real"]
    ELSE IF aff \in {"INTEGER", "NUMERIC"} /\ x.t = "real" /\ whole THEN [x EXCEPT !.t = "int"]
    ELSE x

\* What the table has for an element of a vector that dbWriteTable writes.
Written(vec, extended_types, e) ==
    Stored(sqlite3AffinityType(dbDataType(sql_data(vec), extended_types)),
           bind_parameter_pos(sql_data(vec), e), e.whole)

DeclOf(vec, extended_types) ==
    datatype_from_decltype(dbDataType(sql_data(vec), extended_types), extended_types)

\* After the column has become an R vector of type dt.
convert_bigint(bigint, dt, cell) ==
    IF dt # "INT64" \/ bigint \in {"integer64", "character"} \/ cell = NA THEN cell
    ELSE IF bigint = "integer" THEN IF needs_64_bit(cell.v) \/ cell.v = Min32 THEN NA ELSE cell
    ELSE IF cell.v \in Doubles THEN cell ELSE Coerced

Bigints == {"integer64", "integer", "numeric", "character"}

-----------------------------------------------------------------------------

\* "If zType contains more than one of the substrings, entries toward the top of
\* the table take priority" (affinity.c:43-44): a result whose column has not been
\* read yet has the type that the table gives to every declaration the code gives
\* it to, although the code goes through the declaration once and forgets all but
\* four characters.
PriorityKept ==
    (types_ = "UNKNOWN" /\ pc = "idle") =>
        \A d \in Declarations \ {NoDeclaration} :
            datatype_from_decltype(d, FALSE) = decl => OfAffinity(Documented(d)) = decl

\* Columns written, with the elements that each value in the table comes from.
Columns ==
    {[vec |-> vec, decl |-> DeclOf(vec, ext),
      from |-> {[e |-> e, x |-> Written(vec, ext, e)] : e \in Element(vec)}] :
        vec \in Vectors, ext \in BOOLEAN}

Shows(e, cell) ==
    IF e.na THEN cell = NA ELSE cell.k \notin {"na", "coerced"} /\ cell.v = e.v

\* What is lost: the 64-bit integer that looks like NA, parts of a day, dates that
\* need 64 bits, and integers that do not fit the type asked for with bigint.  Times
\* lose nothing: a double that was stored as an integer reads as that double.
Lost(col, e, dt, bigint) ==
    \/ col.vec.class = "integer64" /\ e.v = Min32
    \/ dt = "DATE" /\ (~e.whole \/ needs_64_bit(e.v))
    \/ dt = "INT64" /\ bigint = "integer" /\ needs_64_bit(e.v)
    \/ dt = "INT64" /\ bigint = "numeric" /\ e.v \notin Doubles

\* The column is one that dbWriteTable has written from this vector, and so were
\* its earlier fetches.
ReadsBack(col) ==
    LET X == {f.x : f \in col.from} IN
    /\ decl = col.decl
    /\ types_ \in {"UNKNOWN", decl} \cup {get_data_type(x) : x \in X}
    /\ \A j \in 1 .. Len(storage) : \A k \in 1 .. Len(storage[j].vals) : storage[j].vals[k] \in X

\* An R vector that is written to a table and read back, in fetches of any size,
\* comes back element for element and without a warning, whatever its first rows
\* are; what gets lost on the way is named in Lost (dbDataType, bind_parameter_pos,
\* DbColumn, convert_bigint).
RoundTrip ==
    pc # "idle" =>
        \A col \in Columns : ReadsBack(col) =>
            LET dt == ColumnType(storage) IN
            /\ Conflicts(dt) = {} /\ ~noted
            /\ \A j \in 1 .. Len(storage) : \A k \in 1 .. Len(storage[j].vals) :
                  \A f \in col.from : f.x = storage[j].vals[k] =>
                      \A bigint \in Bigints :
                          LET cell == convert_bigint(bigint, dt, Reads(dt, copy_to(storage[j], dt, k)))
                          IN  Shows(f.e, cell) \/ Lost(col, f.e, dt, bigint)
=============================================================================
