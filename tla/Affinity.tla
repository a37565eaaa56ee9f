------------------------------ MODULE Affinity ------------------------------
(***************************************************************************)
(* From the declaration of a column to the type of the R vector:           *)
(* sqlite3AffinityType (src/src/affinity.c), a copy of SQLite's, and       *)
(* datatype_from_decltype.  A declaration is a sequence of characters;     *)
(* upper and lower case are the same.                                      *)
(***************************************************************************)
EXTENDS Integers, Sequences

CONSTANT Declarations

ASSUME DeclarationsAssumption == Declarations \subseteq Seq(STRING)

NoDeclaration == <<"NULL">>     \* an expression has none

\* The last characters scanned, at most four: what the hash h holds.
Window(zIn, z) == SubSeq(zIn, IF z > 4 THEN z - 3 ELSE 1, z)

CHAR == <<"c", "h", "a", "r">>
CLOB == <<"c", "l", "o", "b">>
TEXT == <<"t", "e", "x", "t">>
BLOB == <<"b", "l", "o", "b">>
REAL == <<"r", "e", "a", "l">>
FLOA == <<"f", "l", "o", "a">>
DOUB == <<"d", "o", "u", "b">>
INT  == <<"i", "n", "t">>

\* Mutant of Scanned: BLOB replaces TEXT.
Scanned_BlobLast(aff, h) ==
    IF h \in {CHAR, CLOB, TEXT} THEN "TEXT"
    ELSE IF h = BLOB THEN "BLOB"
    ELSE IF h \in {REAL, FLOA, DOUB} /\ aff = "NUMERIC" THEN "REAL"
    ELSE aff

\* The affinity after one more character, but for INT.
Scanned(aff, h) ==
    IF h \in {CHAR, CLOB, TEXT} THEN "TEXT"
    ELSE IF h = BLOB /\ aff \in {"NUMERIC", "REAL"} THEN "BLOB"
    ELSE IF h \in {REAL, FLOA, DOUB} /\ aff = "NUMERIC" THEN "REAL"
    ELSE aff

\* INT ends the scan.
sqlite3AffinityType(zIn) ==
    LET aff[z \in 0 .. Len(zIn)] ==
            IF z = 0 THEN "NUMERIC"
            ELSE LET before == aff[z - 1] IN
                 IF before = "INTEGER" \/ (z >= 3 /\ SubSeq(zIn, z - 2, z) = INT)
                 THEN "INTEGER" ELSE Scanned(before, Window(zIn, z))
    IN  aff[Len(zIn)]

OfAffinity(aff) ==
    CASE aff = "INTEGER"             -> "INT"
      [] aff \in {"NUMERIC", "REAL"} -> "REAL"
      [] aff = "TEXT"                -> "STRING"
      [] aff = "BLOB"                -> "BLOB"

\* with_alt_types is extended_types of dbConnect.
datatype_from_decltype(decl_type, with_alt_types) ==
    IF decl_type = NoDeclaration THEN "BOOL"
    ELSE IF with_alt_types /\ decl_type \in {<<"datetime">>, <<"timestamp">>} THEN "DATETIME"
    ELSE IF with_alt_types /\ decl_type = <<"date">> THEN "DATE"
    ELSE IF with_alt_types /\ decl_type = <<"time">> THEN "TIME"
    ELSE OfAffinity(sqlite3AffinityType(decl_type))

-----------------------------------------------------------------------------

Has(decl, s) ==
    \E z \in 1 .. Len(decl) - Len(s) + 1 : SubSeq(decl, z, z + Len(s) - 1) = s

HasOne(decl, S) == \E s \in S : Has(decl, s)

\* The table above sqlite3AffinityType.
Documented(decl) ==
    IF Has(decl, INT) THEN "INTEGER"
    ELSE IF HasOne(decl, {CHAR, CLOB, TEXT}) THEN "TEXT"
    ELSE IF Has(decl, BLOB) THEN "BLOB"
    ELSE IF HasOne(decl, {REAL, FLOA, DOUB}) THEN "REAL"
    ELSE "NUMERIC"
=============================================================================
