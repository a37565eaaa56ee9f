--------------------------- MODULE BindingProofs ---------------------------
(***************************************************************************)
(* What sqlite3AffinityType gives to every declaration, and the way of     *)
(* every R vector into a table and back.                                   *)
(*                                                                         *)
(* The scan of a declaration is an induction over its prefixes: after z    *)
(* characters the affinity is the one that the documented table gives to   *)
(* the words that have ended so far.                                       *)
(***************************************************************************)
EXTENDS Binding, ColumnTypesProofs, Induction

USE DeclarationsAssumption

-----------------------------------------------------------------------------
(***************************************************************************)
(* The scan.                                                               *)
(***************************************************************************)

Affinities == {"INTEGER", "TEXT", "BLOB", "REAL", "NUMERIC"}

\* Word s ends with character z of d.
Ends(d, s, z) == z >= Len(s) /\ SubSeq(d, z - Len(s) + 1, z) = s

Before(d, s, z) == \E y \in 1 .. z : Ends(d, s, y)

BeforeOne(d, S, z) == \E s \in S : Before(d, s, z)

\* The documented table, of the words that have ended by character z.
DocumentedAt(d, z) ==
    IF Before(d, INT, z) THEN "INTEGER"
    ELSE IF BeforeOne(d, {CHAR, CLOB, TEXT}, z) THEN "TEXT"
    ELSE IF Before(d, BLOB, z) THEN "BLOB"
    ELSE IF BeforeOne(d, {REAL, FLOA, DOUB}, z) THEN "REAL"
    ELSE "NUMERIC"

FourLetters == {CHAR, CLOB, TEXT, BLOB, REAL, FLOA, DOUB}

LEMMA Words ==
    /\ \A s \in FourLetters : Len(s) = 4
    /\ Len(INT) = 3
    /\ BLOB \notin {CHAR, CLOB, TEXT}
    /\ \A s \in {REAL, FLOA, DOUB} : s \notin {CHAR, CLOB, TEXT, BLOB}
  <1> USE DEF FourLetters, CHAR, CLOB, TEXT, BLOB, REAL, FLOA, DOUB, INT
  <1>1. \A s \in FourLetters : Len(s) = 4
    <2>1. \A a, b, c, e : Len(<<a, b, c, e>>) = 4
      OBVIOUS
    <2> QED
      BY <2>1
  <1>2. Len(INT) = 3
    OBVIOUS
  <1>3. BLOB \notin {CHAR, CLOB, TEXT}
    OBVIOUS
  <1>4. REAL \notin {CHAR, CLOB, TEXT, BLOB} /\ FLOA \notin {CHAR, CLOB, TEXT, BLOB}
        /\ DOUB \notin {CHAR, CLOB, TEXT, BLOB}
    OBVIOUS
  <1> HIDE DEF CHAR, CLOB, TEXT, BLOB, REAL, FLOA, DOUB, INT
  <1> QED
    BY <1>1, <1>2, <1>3, <1>4

\* Having a word is its having ended somewhere.
LEMMA HasIsBefore ==
    ASSUME NEW S, NEW d \in Seq(S), NEW s, Len(s) \in Nat \ {0}
    PROVE  Has(d, s) <=> Before(d, s, Len(d))
  <1>1. Len(d) \in Nat
    OBVIOUS
  <1>2. ASSUME NEW z \in 1 .. Len(d) - Len(s) + 1, SubSeq(d, z, z + Len(s) - 1) = s
        PROVE  Before(d, s, Len(d))
    <2> DEFINE y == z + Len(s) - 1
    <2>1. y \in 1 .. Len(d) /\ y >= Len(s) /\ y - Len(s) + 1 = z
      BY <1>1
    <2>2. Ends(d, s, y)
      BY <1>2, <2>1 DEF Ends
    <2> QED
      BY <2>1, <2>2 DEF Before
  <1>3. ASSUME NEW y \in 1 .. Len(d), Ends(d, s, y) PROVE Has(d, s)
    <2> DEFINE z == y - Len(s) + 1
    <2>1. z \in 1 .. Len(d) - Len(s) + 1 /\ z + Len(s) - 1 = y
      BY <1>1, <1>3 DEF Ends
    <2>2. SubSeq(d, z, z + Len(s) - 1) = s
      BY <1>3, <2>1 DEF Ends
    <2> HIDE DEF z
    <2> QED
      BY <2>1, <2>2 DEF Has
  <1> QED
    BY <1>2, <1>3 DEF Has, Before

\* The four characters in the hash are a word when it ends there.
LEMMA WindowIsWord ==
    ASSUME NEW S, NEW d \in Seq(S), NEW z \in 1 .. Len(d), NEW s \in FourLetters
    PROVE  Window(d, z) = s <=> Ends(d, s, z)
  <1>1. Len(s) = 4 /\ Len(d) \in Nat
    BY Words
  <1>2. CASE z < 4
    <2>1. Window(d, z) = SubSeq(d, 1, z) /\ Len(SubSeq(d, 1, z)) = z
      BY <1>1, <1>2 DEF Window
    <2>2. Len(Window(d, z)) # Len(s)
      BY <1>1, <1>2, <2>1
    <2>3. ~Ends(d, s, z)
      BY <1>1, <1>2 DEF Ends
    <2> QED
      BY <2>2, <2>3
  <1>3. CASE z >= 4
    <2>1. Window(d, z) = SubSeq(d, z - 3, z) /\ z - Len(s) + 1 = z - 3
      <3>1. z = 4 => z - 3 = 1
        OBVIOUS
      <3> QED
        BY <1>1, <1>3, <3>1 DEF Window
    <2> QED
      BY <1>1, <1>3, <2>1 DEF Ends
  <1> QED
    BY <1>1, <1>2, <1>3

\* What one more character makes of an affinity.
Scan(d, z, a) ==
    IF a = "INTEGER" \/ Ends(d, INT, z) THEN "INTEGER" ELSE Scanned(a, Window(d, z))

\* The affinity after each character.
Scans(aff, d) ==
    /\ aff[0] = "NUMERIC"
    /\ \A z \in 1 .. Len(d) : aff[z] = Scan(d, z, aff[z - 1])

LEMMA AffinityScans ==
    ASSUME NEW S, NEW d \in Seq(S)
    PROVE  \E aff : Scans(aff, d) /\ sqlite3AffinityType(d) = aff[Len(d)]
  <1> DEFINE N == Len(d)
             Graph(f) ==
                 [z \in 0 .. N |->
                     IF z = 0 THEN "NUMERIC"
                     ELSE LET before == f[z - 1] IN
                          IF before = "INTEGER" \/ (z >= 3 /\ SubSeq(d, z - 2, z) = INT)
                          THEN "INTEGER" ELSE Scanned(before, Window(d, z))]
             type == CHOOSE f : f = Graph(f)
             step == [p \in (1 .. N) \X Affinities |-> Scan(d, p[1], p[2])]
             numeric == "NUMERIC"
  <1>1. sqlite3AffinityType(d) = type[N]
    BY DEF sqlite3AffinityType
  <1>2. N \in Nat /\ numeric \in Affinities
    BY DEF Affinities
  <1>3. ASSUME NEW z \in 1 .. N
        PROVE  Ends(d, INT, z) <=> z >= 3 /\ SubSeq(d, z - 2, z) = INT
    <2>1. z - Len(INT) + 1 = z - 2 /\ Len(INT) = 3
      BY <1>2, Words
    <2> QED
      BY <2>1 DEF Ends
  <1> HIDE DEF N
  <1>4. ASSUME NEW f, NEW z \in 1 .. N PROVE Graph(f)[z] = Scan(d, z, f[z - 1])
    BY <1>2, <1>3 DEF Scan
  <1>5. ASSUME NEW f PROVE Graph(f)[0] = "NUMERIC"
    BY <1>2
  <1>6. ASSUME NEW z \in 1 .. N, NEW a \in Affinities
        PROVE  step[<<z, a>>] = Scan(d, z, a) /\ step[<<z, a>>] \in Affinities
    <2>1. Scan(d, z, a) \in Affinities
      BY DEF Scan, Scanned, Affinities
    <2>2. <<z, a>> \in (1 .. N) \X Affinities
      OBVIOUS
    <2> QED
      BY <2>1, <2>2
  <1> HIDE DEF step, numeric
  <1>7. PICK h : Recursion(h, N, Affinities, numeric, step)
    <2>1. StepsInto(N, Affinities, step)
      BY <1>6 DEF StepsInto
    <2> QED
      BY <1>2, <2>1, RecursionExists
  <1>8. h = Graph(h)
    <2>1. h \in [0 .. N -> Affinities] /\ h[0] = "NUMERIC"
      BY <1>7 DEF Recursion, numeric
    <2>2. ASSUME NEW z \in 1 .. N PROVE h[z] = Scan(d, z, h[z - 1])
      <3>1. z - 1 \in 0 .. N
        BY <1>2
      <3>2. h[z] = step[<<z, h[z - 1]>>] /\ h[z - 1] \in Affinities
        BY <1>7, <3>1 DEF Recursion
      <3> QED
        BY <1>6, <3>2
    <2>3. ASSUME NEW z \in 0 .. N PROVE h[z] = Graph(h)[z]
      <3> HIDE DEF Graph
      <3>1. CASE z = 0
        BY <1>5, <2>1, <3>1
      <3>2. CASE z # 0
        <4>1. z \in 1 .. N
          BY <1>2, <3>2
        <4> QED
          BY <1>4, <2>2, <4>1
      <3> QED
        BY <3>1, <3>2
    <2> QED
      BY <2>1, <2>3
  <1>9. type = Graph(type)
    <2> HIDE DEF Graph
    <2> QED
      BY <1>8, Zenon
  <1>10. Scans(type, d)
    <2> HIDE DEF Graph, type
    <2>1. type[0] = "NUMERIC"
      BY <1>5, <1>9
    <2>2. ASSUME NEW z \in 1 .. N PROVE type[z] = Scan(d, z, type[z - 1])
      BY <1>4, <1>9
    <2> QED
      BY <2>1, <2>2 DEF Scans, N
  <1> QED
    BY <1>1, <1>10 DEF N

\* One more character of a declaration: the words that end with it are the only
\* ones to have ended and not to have ended before.
LEMMA BeforeStep ==
    ASSUME NEW d, NEW s, NEW z \in Nat
    PROVE  Before(d, s, z + 1) <=> Before(d, s, z) \/ Ends(d, s, z + 1)
  <1>1. 1 .. z + 1 = (1 .. z) \cup {z + 1}
    OBVIOUS
  <1> QED
    BY <1>1 DEF Before

LEMMA DocumentedStep ==
    ASSUME NEW S, NEW d \in Seq(S), NEW z \in 0 .. Len(d) - 1
    PROVE  DocumentedAt(d, z + 1) = Scan(d, z + 1, DocumentedAt(d, z))
  <1> DEFINE h == Window(d, z + 1)
             a == DocumentedAt(d, z)
  <1>1. z \in Nat /\ z + 1 \in 1 .. Len(d)
    OBVIOUS
  <1>2. \A s \in FourLetters : Before(d, s, z + 1) <=> Before(d, s, z) \/ h = s
    BY <1>1, BeforeStep, WindowIsWord
  <1>3. Before(d, INT, z + 1) <=> Before(d, INT, z) \/ Ends(d, INT, z + 1)
    BY <1>1, BeforeStep
  <1>4. BeforeOne(d, {CHAR, CLOB, TEXT}, z + 1)
           <=> BeforeOne(d, {CHAR, CLOB, TEXT}, z) \/ h \in {CHAR, CLOB, TEXT}
    BY <1>2 DEF BeforeOne, FourLetters
  <1>5. Before(d, BLOB, z + 1) <=> Before(d, BLOB, z) \/ h = BLOB
    BY <1>2 DEF FourLetters
  <1>6. BeforeOne(d, {REAL, FLOA, DOUB}, z + 1)
           <=> BeforeOne(d, {REAL, FLOA, DOUB}, z) \/ h \in {REAL, FLOA, DOUB}
    BY <1>2 DEF BeforeOne, FourLetters
  <1>7. /\ h = BLOB => h \notin {CHAR, CLOB, TEXT}
        /\ h \in {REAL, FLOA, DOUB} => h \notin {CHAR, CLOB, TEXT} /\ h # BLOB
    BY Words
  <1> HIDE DEF h
  <1> QED
    BY <1>3, <1>4, <1>5, <1>6, <1>7 DEF DocumentedAt, Scan, Scanned, h

\* The code gives each declaration, of whatever length, what the table gives it.
THEOREM AffinityIsDocumented ==
    ASSUME NEW S, NEW d \in Seq(S)
    PROVE  sqlite3AffinityType(d) = Documented(d)
  <1> DEFINE N == Len(d)
  <1>1. PICK aff : Scans(aff, d) /\ sqlite3AffinityType(d) = aff[N]
    BY AffinityScans
  <1>2. N \in Nat
    OBVIOUS
  <1> DEFINE T == {z \in 0 .. N : aff[z] = DocumentedAt(d, z)}
  <1>3. 0 \in T
    <2>1. \A s : ~Before(d, s, 0)
      BY DEF Before
    <2>2. DocumentedAt(d, 0) = "NUMERIC"
      BY <2>1 DEF DocumentedAt, BeforeOne
    <2> QED
      BY <1>1, <1>2, <2>2 DEF Scans
  <1>4. ASSUME NEW z \in 0 .. N - 1, z \in T PROVE z + 1 \in T
    <2>1. z + 1 \in 1 .. N /\ (z + 1) - 1 = z
      BY <1>2
    <2>2. aff[z + 1] = Scan(d, z + 1, aff[z])
      BY <1>1, <2>1 DEF Scans
    <2> QED
      BY <1>4, <2>1, <2>2, DocumentedStep
  <1>5. N \in T
    <2> HIDE DEF T, N
    <2>1. 0 .. N \subseteq T
      BY <1>2, <1>3, <1>4, IntervalInduction
    <2> QED
      BY <1>2, <2>1
  <1>6. \A s \in FourLetters \cup {INT} : Has(d, s) <=> Before(d, s, N)
    <2>1. \A s \in FourLetters \cup {INT} : Len(s) \in Nat \ {0}
      BY Words, SMTT(30)
    <2> QED
      BY <2>1, HasIsBefore
  <1>7. Documented(d) = DocumentedAt(d, N)
    <2> HIDE DEF N
    <2> QED
      BY <1>6 DEF Documented, DocumentedAt, HasOne, BeforeOne, FourLetters
  <1> QED
    BY <1>1, <1>5, <1>7

\* The type of every declared column is the one of the documented table.
THEOREM PriorityCorrect == Spec => []PriorityKept
  <1>1. PriorityKept
    <2> SUFFICES ASSUME NEW d \in Declarations \ {NoDeclaration}
                 PROVE  datatype_from_decltype(d, FALSE) = OfAffinity(Documented(d))
      BY DEF PriorityKept
    <2>1. d \in Seq(STRING)
      OBVIOUS
    <2> QED
      BY <2>1, AffinityIsDocumented DEF datatype_from_decltype
  <1> QED
    BY <1>1, PTL

-----------------------------------------------------------------------------
(***************************************************************************)
(* The declarations that dbDataType makes.                                 *)
(***************************************************************************)

\* Every word has itself.
LEMMA OwnWord ==
    ASSUME NEW s \in FourLetters \cup {INT}
    PROVE  Has(s, s)
  <1>1. Len(s) \in Nat \ {0} /\ SubSeq(s, 1, Len(s)) = s
    BY DEF FourLetters, CHAR, CLOB, TEXT, BLOB, REAL, FLOA, DOUB, INT
  <1> QED
    BY <1>1 DEF Has

\* A declaration without the first letter of a word does not have the word.
LEMMA NoPlace ==
    ASSUME NEW S, NEW d \in Seq(S), NEW s, Len(s) \in Nat \ {0}, s[1] \notin S
    PROVE  ~Has(d, s)
  <1> SUFFICES ASSUME NEW z \in 1 .. Len(d) - Len(s) + 1,
                      SubSeq(d, z, z + Len(s) - 1) = s
               PROVE  FALSE
    BY DEF Has
  <1>1. z \in 1 .. Len(d) /\ z + Len(s) - 1 \in z .. Len(d)
    OBVIOUS
  <1>2. SubSeq(d, z, z + Len(s) - 1)[1] = d[z] /\ d[z] \in S
    BY <1>1
  <1> QED
    BY <1>2

LEMMA IntegerIs ==
    /\ INTEGER \in Seq({"i", "n", "t", "e", "g", "r"}) /\ Len(INTEGER) = 7
    /\ SubSeq(INTEGER, 1, 3) = INT
  <1> DEFINE S == {"i", "n", "t", "e", "g", "r"}
             rest == <<"e", "g", "e", "r">>
  <1>1. INT \in Seq(S) /\ rest \in Seq(S) /\ Len(INT) = 3 /\ Len(rest) = 4
    BY DEF INT
  <1>2. INTEGER = INT \o rest
    BY DEF INTEGER
  <1> HIDE DEF S, rest
  <1>3. INT \o rest \in Seq(S) /\ Len(INT \o rest) = Len(INT) + Len(rest)
        /\ \A k \in 1 .. Len(INT) : (INT \o rest)[k] = INT[k]
    BY <1>1, ConcatElements, ZenonT(30)
  <1>4. SubSeq(INT \o rest, 1, 3) = INT
    <2> DEFINE w == INT \o rest
    <2>1. w \in Seq(S) /\ Len(w) = 7 /\ \A k \in 1 .. 3 : w[k] = INT[k]
      BY <1>1, <1>3
    <2> HIDE DEF w
    <2>2. SubSeq(w, 1, 3) \in Seq(S) /\ Len(SubSeq(w, 1, 3)) = 3
          /\ \A k \in 1 .. 3 : SubSeq(w, 1, 3)[k] = w[k]
      <3>1. \A k \in 1 .. Len(w) : w[k] \in S
        BY <2>1, ElementOfSeq
      <3> QED
        BY <2>1, <3>1, \A k \in 1 .. 3 : k \in 1 .. 7, SubSeqProperties
    <2> QED
      BY <1>1, <2>1, <2>2, SeqEqual DEF w
  <1> QED
    BY <1>1, <1>2, <1>3, <1>4 DEF S

LEMMA DeclaredAffinities ==
    /\ sqlite3AffinityType(INTEGER) = "INTEGER"
    /\ sqlite3AffinityType(REAL) = "REAL"
    /\ sqlite3AffinityType(TEXT) = "TEXT"
    /\ sqlite3AffinityType(BLOB) = "BLOB"
    /\ \A d \in {<<"date">>, <<"timestamp">>, <<"time">>} : sqlite3AffinityType(d) = "NUMERIC"
  <1>0. /\ \A s \in FourLetters \cup {INT} : Len(s) \in Nat \ {0}
        /\ INT[1] = "i" /\ CHAR[1] = "c" /\ CLOB[1] = "c" /\ TEXT[1] = "t" /\ BLOB[1] = "b"
    BY Words DEF INT, CHAR, CLOB, TEXT, BLOB
  <1>1. sqlite3AffinityType(INTEGER) = "INTEGER"
    <2>1. Has(INTEGER, INT)
      BY IntegerIs, Words DEF Has
    <2> QED
      BY <2>1, IntegerIs, AffinityIsDocumented DEF Documented
  <1>2. sqlite3AffinityType(REAL) = "REAL"
    <2> DEFINE S == {"r", "e", "a", "l"}
    <2>1. REAL \in Seq(S)
      BY DEF REAL
    <2>2. \A c \in {"i", "c", "t", "b"} : c \notin S
      OBVIOUS
    <2> HIDE DEF S
    <2>3. \A s \in {INT, CHAR, CLOB, TEXT, BLOB} : ~Has(REAL, s)
      BY <1>0, <2>1, <2>2, NoPlace DEF FourLetters
    <2>4. Has(REAL, REAL)
      BY OwnWord DEF FourLetters
    <2> QED
      BY <2>1, <2>3, <2>4, AffinityIsDocumented DEF Documented, HasOne
  <1>3. sqlite3AffinityType(TEXT) = "TEXT"
    <2> DEFINE S == {"t", "e", "x"}
    <2>1. TEXT \in Seq(S) /\ "i" \notin S
      BY DEF TEXT
    <2> HIDE DEF S
    <2>2. ~Has(TEXT, INT)
      BY <1>0, <2>1, NoPlace
    <2>3. Has(TEXT, TEXT)
      BY OwnWord DEF FourLetters
    <2> QED
      BY <2>1, <2>2, <2>3, AffinityIsDocumented DEF Documented, HasOne
  <1>4. sqlite3AffinityType(BLOB) = "BLOB"
    <2> DEFINE S == {"b", "l", "o"}
    <2>1. BLOB \in Seq(S)
      BY DEF BLOB
    <2>2. \A c \in {"i", "c", "t"} : c \notin S
      OBVIOUS
    <2> HIDE DEF S
    <2>3. \A s \in {INT, CHAR, CLOB, TEXT} : ~Has(BLOB, s)
      BY <1>0, <2>1, <2>2, NoPlace DEF FourLetters
    <2>4. Has(BLOB, BLOB)
      BY OwnWord DEF FourLetters
    <2> QED
      BY <2>1, <2>3, <2>4, AffinityIsDocumented DEF Documented, HasOne
  <1>5. ASSUME NEW d \in {<<"date">>, <<"timestamp">>, <<"time">>}
        PROVE  sqlite3AffinityType(d) = "NUMERIC"
    <2> DEFINE S == {"date", "timestamp", "time"}
    <2>0. \A w \in S : <<w>> \in Seq(S) /\ Len(<<w>>) = 1
      OBVIOUS
    <2>1. d \in Seq(S) /\ Len(d) = 1
      BY <2>0
    <2> HIDE DEF S
    <2>2. \A s \in FourLetters \cup {INT} : Len(s) \in {3, 4}
      BY Words
    <2>3. ASSUME NEW s \in FourLetters \cup {INT} PROVE ~Has(d, s)
      <3>1. 1 .. Len(d) - Len(s) + 1 = {}
        BY <2>1, <2>2, SMTT(30)
      <3> QED
        BY <3>1 DEF Has
    <2> QED
      BY <2>1, <2>3, AffinityIsDocumented DEF Documented, HasOne, FourLetters
  <1> QED
    BY <1>1, <1>2, <1>3, <1>4, <1>5

\* The type that each of the six declarations has in R.
LEMMA DeclaredTypes ==
    ASSUME NEW ext \in BOOLEAN
    PROVE  /\ datatype_from_decltype(INTEGER, ext) = "INT"
           /\ datatype_from_decltype(REAL, ext) = "REAL"
           /\ datatype_from_decltype(TEXT, ext) = "STRING"
           /\ datatype_from_decltype(BLOB, ext) = "BLOB"
           /\ datatype_from_decltype(<<"date">>, TRUE) = "DATE"
           /\ datatype_from_decltype(<<"timestamp">>, TRUE) = "DATETIME"
           /\ datatype_from_decltype(<<"time">>, TRUE) = "TIME"
  <1> DEFINE Special == {NoDeclaration, <<"datetime">>, <<"timestamp">>, <<"date">>, <<"time">>}
  <1>2. \A d \in {INTEGER, REAL, TEXT, BLOB} : Len(d) \in {4, 7}
    BY IntegerIs, Words DEF FourLetters
  <1>3. \A d \in Special : Len(d) = 1
    BY DEF NoDeclaration
  <1>4. \A d \in {INTEGER, REAL, TEXT, BLOB} : d \notin Special
    BY <1>2, <1>3
  <1>5. \A d \in {INTEGER, REAL, TEXT, BLOB} :
            datatype_from_decltype(d, ext) = OfAffinity(sqlite3AffinityType(d))
    BY <1>4 DEF datatype_from_decltype
  <1>6. /\ OfAffinity("INTEGER") = "INT" /\ OfAffinity("REAL") = "REAL"
        /\ OfAffinity("TEXT") = "STRING" /\ OfAffinity("BLOB") = "BLOB"
    BY DEF OfAffinity
  <1>7. /\ datatype_from_decltype(<<"date">>, TRUE) = "DATE"
        /\ datatype_from_decltype(<<"timestamp">>, TRUE) = "DATETIME"
        /\ datatype_from_decltype(<<"time">>, TRUE) = "TIME"
    BY DEF datatype_from_decltype, NoDeclaration
  <1> QED
    BY <1>5, <1>6, <1>7, DeclaredAffinities

-----------------------------------------------------------------------------
(***************************************************************************)
(* What the table has of an R vector.                                      *)
(***************************************************************************)

LEMMA VectorKinds ==
    ASSUME NEW vec \in Vectors
    PROVE  /\ \/ vec.class = Plain /\ vec.typeof \in {"logical", "integer", "double", "character",
                                                      "list", "raw"}
              \/ vec.class = "factor" /\ vec.typeof = "integer"
              \/ vec.class \in {"integer64", "Date", "POSIXct", "hms"} /\ vec.typeof = "double"
              \/ vec.class = "Date" /\ vec.typeof = "integer"
           /\ vec = Vector(vec.class, vec.typeof)
  BY DEF Vectors, Vector, Plain

LEMMA ElementKinds ==
    ASSUME NEW vec \in Vectors, NEW e \in Element(vec)
    PROVE  /\ e.na \in BOOLEAN /\ e.v \in Int /\ e.whole \in BOOLEAN
           /\ (~e.na /\ vec.typeof \in {"logical", "integer"}) => ~needs_64_bit(e.v) /\ e.v # Min32
           /\ (~e.na /\ vec.class = "integer64") => e.v > Min64
           /\ (~e.na /\ vec.class # "integer64") => e.v \in Doubles
  <1> DEFINE V == CASE vec.typeof = "logical"   -> {0, 1}
                    [] vec.typeof = "integer"   -> {n \in Numbers : Min32 < n /\ n <= Max32}
                    [] vec.class = "integer64"  -> {n \in Numbers : Min64 < n}
                    [] vec.typeof = "double" /\ vec.class # "integer64" -> Numbers \cap Doubles
                    [] vec.typeof \in {"character", "raw"} -> {0, 1}
                    [] vec.typeof = "list"      -> {0}
  <1>1. /\ vec.typeof = "logical" => V = {0, 1}
        /\ vec.typeof = "integer" => V = {n \in Numbers : Min32 < n /\ n <= Max32}
        /\ vec.class = "integer64" => V = {n \in Numbers : Min64 < n}
        /\ (vec.typeof = "double" /\ vec.class # "integer64") => V = Numbers \cap Doubles
        /\ vec.typeof \in {"character", "raw"} => V = {0, 1}
        /\ vec.typeof = "list" => V = {0}
    BY VectorKinds DEF Plain
  <1>2. \/ e.na = TRUE /\ e.v = 0 /\ e.whole = TRUE
        \/ e.na = FALSE /\ e.v \in V /\ e.whole \in BOOLEAN
    BY DEF Element
  <1> HIDE DEF V
  <1>3. /\ \A v \in {0, 1} : v \in Int /\ ~needs_64_bit(v) /\ v # Min32
        /\ \A n \in Numbers : n \in Int
        /\ \A n \in Numbers : Min32 < n /\ n <= Max32 => n \in Doubles
        /\ \A v \in {0, 1} : v \in Doubles
        /\ \A n \in Numbers : Min32 < n /\ n <= Max32 => ~needs_64_bit(n) /\ n # Min32
    BY WidthAssumption, NumbersAssumption DEF needs_64_bit
  <1>4. ASSUME NEW v \in V
        PROVE  /\ v \in Int
               /\ vec.typeof \in {"logical", "integer"} => ~needs_64_bit(v) /\ v # Min32
               /\ vec.class = "integer64" => v > Min64
               /\ vec.class # "integer64" => v \in Doubles
    <2>1. CASE vec.typeof = "logical"
      BY <1>1, <1>3, <2>1, VectorKinds DEF Plain
    <2>2. CASE vec.typeof = "integer"
      BY <1>1, <1>3, <2>2, VectorKinds DEF Plain
    <2>3. CASE vec.typeof = "double"
      <3>1. CASE vec.class = "integer64"
        BY <1>1, <1>3, <2>3, <3>1, WidthAssumption
      <3>2. CASE vec.class # "integer64"
        BY <1>1, <1>3, <2>3, <3>2
      <3> QED
        BY <3>1, <3>2
    <2>4. CASE vec.typeof \in {"character", "raw", "list"}
      BY <1>1, <1>3, <2>4, VectorKinds DEF Plain
    <2> QED
      BY <2>1, <2>2, <2>3, <2>4, VectorKinds
  <1> QED
    <2>1. CASE e.na = TRUE /\ e.v = 0 /\ e.whole = TRUE
      <3>1. 0 \in Int
        OBVIOUS
      <3> QED
        BY <2>1, <3>1, Zenon
    <2>2. CASE e.na = FALSE /\ e.v \in V /\ e.whole \in BOOLEAN
      BY <1>4, <2>2, Zenon
    <2> QED
      BY <1>2, <2>1, <2>2

\* The declaration and the value, from the kind of the vector as it is bound.
LEMMA SentAs ==
    ASSUME NEW vec \in Vectors, NEW ext \in BOOLEAN, NEW e
    PROVE  LET D == dbDataType(sql_data(vec), ext)
               b == bind_parameter_pos(sql_data(vec), e)
           IN  \/ /\ vec.class = "factor" \/ vec.typeof \in {"character", "raw"}
                  /\ vec.class # "integer64" /\ D = TEXT /\ b = Bound("text", e)
               \/ /\ vec.class = "integer64"
                  /\ D = INTEGER /\ b = Bound("int", e)
               \/ /\ vec.class # "integer64" /\ vec.typeof \in {"logical", "integer"}
                  /\ D = INTEGER /\ b = Bound("int", e)
               \/ /\ vec.class # "integer64" /\ D = REAL /\ b = Bound("real", e)
               \/ /\ vec.class # "integer64" /\ D = BLOB /\ b = Bound("blob", e)
               \/ /\ vec.class # "integer64" /\ ext = TRUE
                  /\ D \in {<<"date">>, <<"timestamp">>, <<"time">>}
                  /\ b \in {Bound("int", e), Bound("real", e)}
  <1> DEFINE s == sql_data(vec)
             D == dbDataType(s, ext)
             b == bind_parameter_pos(s, e)
  <1>1. ASSUME vec.class = "factor" \/ vec.typeof \in {"character", "raw"}
        PROVE  vec.class # "integer64" /\ D = TEXT /\ b = Bound("text", e)
    <2>1. s.class = Plain /\ s.typeof = "character" /\ vec.class # "integer64"
      BY <1>1, VectorKinds DEF sql_data, Vector, Plain
    <2> HIDE DEF s
    <2> QED
      BY <2>1 DEF dbDataType, bind_parameter_pos, Plain
  <1>2. ASSUME vec.class # "factor", vec.typeof \notin {"character", "raw"}
        PROVE  s = vec
    BY <1>2, VectorKinds DEF sql_data
  <1>3. CASE vec.class = "integer64"
    <2>1. s = vec /\ vec.typeof = "double"
      BY <1>2, <1>3, VectorKinds DEF Plain
    <2>2. D = INTEGER /\ b = Bound("int", e)
      BY <1>3, <2>1 DEF dbDataType, bind_parameter_pos
    <2> QED
      BY <1>3, <2>2
  <1>4. CASE vec.class # "factor" /\ vec.typeof \in {"logical", "integer"}
    <2>1. s = vec /\ vec.class \in {Plain, "Date"}
      BY <1>2, <1>4, VectorKinds DEF Plain
    <2>2. b = Bound("int", e)
      BY <1>4, <2>1 DEF bind_parameter_pos
    <2>3. D = INTEGER \/ (ext = TRUE /\ D = <<"date">>)
      BY <1>4, <2>1 DEF dbDataType, Plain
    <2> QED
      BY <1>4, <2>1, <2>2, <2>3 DEF Plain
  <1>5. CASE vec.class # "integer64" /\ vec.typeof = "double"
    <2>1. s = vec /\ vec.class \in {Plain, "Date", "POSIXct", "hms"}
      BY <1>2, <1>5, VectorKinds DEF Plain
    <2>2. b = Bound("real", e)
      BY <1>5, <2>1 DEF bind_parameter_pos
    <2>3. D = REAL \/ (ext = TRUE /\ D \in {<<"date">>, <<"timestamp">>, <<"time">>})
      BY <1>5, <2>1 DEF dbDataType, Plain
    <2> QED
      BY <1>5, <2>2, <2>3
  <1>6. CASE vec.typeof = "list"
    <2>1. s = vec /\ vec.class = Plain
      BY <1>2, <1>6, VectorKinds DEF Plain
    <2>2. D = BLOB /\ b = Bound("blob", e)
      BY <1>6, <2>1 DEF bind_parameter_pos, dbDataType, Plain
    <2> QED
      BY <2>1, <2>2 DEF Plain
  <1> HIDE DEF s, D, b
  <1>7. \/ vec.class = "factor" \/ vec.typeof \in {"character", "raw"}
        \/ vec.class = "integer64"
        \/ vec.class # "factor" /\ vec.typeof \in {"logical", "integer"}
        \/ vec.class # "integer64" /\ vec.typeof = "double"
        \/ vec.typeof = "list"
    BY VectorKinds DEF Plain
  <1> QED
    BY <1>1, <1>3, <1>4, <1>5, <1>6, <1>7 DEF s, D, b

\* What comes of an element e in a column that is declared to have type d.
Fitting(vec, d, e, x) ==
    IF e.na THEN x.t = "null"
    ELSE /\ x.v = e.v
         /\ d = "INT" =>
               /\ x.t = "int"
               /\ IF vec.class = "integer64" THEN x.v > Min64
                  ELSE ~needs_64_bit(x.v) /\ x.v # Min32
         /\ d = "REAL" => x.t = "real"
         /\ d = "STRING" => x.t = "text"
         /\ d = "BLOB" => x.t = "blob"
         /\ d \in AltTypes =>
               x.t \in {"int", "real"} /\ (x.t = "real" => ~e.whole) /\ x.v \in Doubles

LEMMA WrittenAs ==
    ASSUME NEW vec \in Vectors, NEW ext \in BOOLEAN, NEW e \in Element(vec)
    PROVE  /\ DeclOf(vec, ext) \in {"INT", "REAL", "STRING", "BLOB"} \cup AltTypes
           /\ vec.class = "integer64" => DeclOf(vec, ext) = "INT"
           /\ Fitting(vec, DeclOf(vec, ext), e, Written(vec, ext, e))
  <1> DEFINE D == dbDataType(sql_data(vec), ext)
             b == bind_parameter_pos(sql_data(vec), e)
             d == DeclOf(vec, ext)
             x == Written(vec, ext, e)
  <1>1. d = datatype_from_decltype(D, ext) /\ x = Stored(sqlite3AffinityType(D), b, e.whole)
    BY DEF DeclOf, Written
  <1>2. /\ e.na \in BOOLEAN
        /\ (~e.na /\ vec.typeof \in {"logical", "integer"}) => ~needs_64_bit(e.v) /\ e.v # Min32
        /\ (~e.na /\ vec.class = "integer64") => e.v > Min64
        /\ (~e.na /\ vec.class # "integer64") => e.v \in Doubles
    BY ElementKinds
  <1> HIDE DEF D, b, d, x
  <1>3. \A t : Bound(t, e).t = (IF e.na THEN "null" ELSE t) /\ (~e.na => Bound(t, e).v = e.v)
               /\ (e.na => Bound(t, e).t = "null")
    BY DEF Bound
  <1>4. CASE vec.class # "integer64" /\ D = TEXT /\ b = Bound("text", e)
    <2>1. d = "STRING" /\ x = b
      BY <1>1, <1>4, DeclaredAffinities, DeclaredTypes DEF Stored
    <2> QED
      BY <1>2, <1>3, <1>4, <2>1 DEF Fitting, AltTypes, d, x
  <1>5. CASE /\ vec.class = "integer64" \/ vec.typeof \in {"logical", "integer"}
             /\ D = INTEGER /\ b = Bound("int", e)
    <2>1. d = "INT" /\ x = b
      <3>1. b.t # "real"
        BY <1>2, <1>3, <1>5
      <3> QED
        BY <1>1, <1>5, <3>1, DeclaredAffinities, DeclaredTypes DEF Stored
    <2> QED
      BY <1>2, <1>3, <1>5, <2>1 DEF Fitting, AltTypes, d, x
  <1>6. CASE vec.class # "integer64" /\ D = REAL /\ b = Bound("real", e)
    <2>1. d = "REAL" /\ x = b
      <3>1. b.t # "int"
        BY <1>2, <1>3, <1>6
      <3> QED
        BY <1>1, <1>6, <3>1, DeclaredAffinities, DeclaredTypes DEF Stored
    <2> QED
      BY <1>2, <1>3, <1>6, <2>1 DEF Fitting, AltTypes, d, x
  <1>7. CASE vec.class # "integer64" /\ D = BLOB /\ b = Bound("blob", e)
    <2>1. d = "BLOB" /\ x = b
      BY <1>1, <1>7, DeclaredAffinities, DeclaredTypes DEF Stored
    <2> QED
      BY <1>2, <1>3, <1>7, <2>1 DEF Fitting, AltTypes, d, x
  <1>8. CASE /\ vec.class # "integer64" /\ ext = TRUE
             /\ D \in {<<"date">>, <<"timestamp">>, <<"time">>}
             /\ b \in {Bound("int", e), Bound("real", e)}
    <2>1. d \in AltTypes
      BY <1>1, <1>8, DeclaredTypes DEF AltTypes
    <2>2. x = Stored("NUMERIC", b, e.whole)
      BY <1>1, <1>8, DeclaredAffinities
    <2>3. CASE b.t = "real" /\ e.whole
      <3>1. x = [b EXCEPT !.t = "int"]
        BY <2>2, <2>3 DEF Stored
      <3>2. x.t = "int" /\ x.v = b.v
        BY <1>8, <3>1 DEF Bound
      <3>3. ~e.na
        BY <1>3, <1>8, <2>3
      <3> QED
        BY <1>2, <1>3, <1>8, <2>1, <3>2, <3>3 DEF Fitting, AltTypes, d, x
    <2>4. CASE ~(b.t = "real" /\ e.whole)
      <3>1. x = b
        BY <2>2, <2>4 DEF Stored
      <3> QED
        BY <1>2, <1>3, <1>8, <2>1, <2>4, <3>1 DEF Fitting, AltTypes, d, x
    <2> QED
      BY <2>3, <2>4
  <1> QED
    BY <1>4, <1>5, <1>6, <1>7, <1>8, SentAs DEF D, b

-----------------------------------------------------------------------------
(***************************************************************************)
(* Reading it back: the types that a column and its storages can have.     *)
(***************************************************************************)

TypesOf(col) ==
    {"UNKNOWN", col.decl} \cup (IF col.vec.class = "integer64" THEN {"INT64"} ELSE {})

Back(col) ==
    /\ ~noted
    /\ seen \subseteq TypesOf(col)
    /\ \A j \in 1 .. Len(storage) : storage[j].dt \in TypesOf(col)
    /\ "INT64" \in seen => Last(storage).dt = "INT64"

BackInv ==
    /\ pc = "idle" => seen = {} /\ noted = FALSE
    /\ pc # "idle" => \A col \in Columns : ReadsBack(col) => Back(col)

LEMMA ColumnKinds ==
    ASSUME NEW col \in Columns
    PROVE  /\ col.vec \in Vectors
           /\ col.decl \in {"INT", "REAL", "STRING", "BLOB"} \cup AltTypes
           /\ col.vec.class = "integer64" => col.decl = "INT"
           /\ \A f \in col.from : f.e \in Element(col.vec) /\ Fitting(col.vec, col.decl, f.e, f.x)
  <1>1. PICK vec \in Vectors, ext \in BOOLEAN :
            col = [vec |-> vec, decl |-> DeclOf(vec, ext),
                   from |-> {[e |-> e, x |-> Written(vec, ext, e)] : e \in Element(vec)}]
    BY DEF Columns
  <1>2. /\ col.vec = vec /\ col.decl = DeclOf(vec, ext)
        /\ \A f \in col.from : \E e \in Element(vec) : f.e = e /\ f.x = Written(vec, ext, e)
    BY <1>1
  <1>3. \E e : e \in Element(vec)
    <2>1. [na |-> TRUE, v |-> 0, whole |-> TRUE] \in Element(vec)
      BY DEF Element
    <2> QED
      BY <2>1
  <1> QED
    BY <1>2, <1>3, WrittenAs

\* No value of the column surprises the code.
LEMMA ValueKinds ==
    ASSUME NEW col \in Columns, decl = col.decl, NEW f \in col.from
    PROVE  /\ get_data_type(f.x) \in TypesOf(col)
           /\ \A dt \in TypesOf(col) : ~Unreadable(dt, f.x)
           /\ f.x.t = "null" => get_data_type(f.x) # "INT64"
  <1>1. /\ col.decl \in {"INT", "REAL", "STRING", "BLOB"} \cup AltTypes
        /\ Fitting(col.vec, col.decl, f.e, f.x)
    BY ColumnKinds
  <1> DEFINE g == get_data_type(f.x)
  <1>2. /\ decl \in AltTypes => g = decl
        /\ (decl \notin AltTypes /\ f.x.t = "null") => g = "UNKNOWN"
        /\ (decl \notin AltTypes /\ f.x.t = "int") =>
              g = IF needs_64_bit(f.x.v) THEN "INT64" ELSE "INT"
        /\ (decl \notin AltTypes /\ f.x.t = "real") => g = "REAL"
        /\ (decl \notin AltTypes /\ f.x.t = "text") => g = "STRING"
        /\ (decl \notin AltTypes /\ f.x.t = "blob") => g = "BLOB"
    BY DEF get_data_type
  <1> HIDE DEF g
  <1>3. CASE col.decl \in AltTypes
    <2>1. f.x.t \in {"null", "int", "real"}
      BY <1>1, <1>3 DEF Fitting
    <2> QED
      BY <1>2, <1>3, <2>1 DEF TypesOf, Unreadable, AltTypes, g
  <1>4. CASE col.decl \notin AltTypes
    <2>1. g \in TypesOf(col) /\ (f.x.t = "null" => g = "UNKNOWN")
      BY <1>1, <1>2, <1>4 DEF Fitting, TypesOf
    <2>2. \A dt \in TypesOf(col) : dt \notin AltTypes
      BY <1>4 DEF TypesOf, AltTypes
    <2> QED
      BY <2>1, <2>2 DEF Unreadable, g
  <1> QED
    BY <1>3, <1>4

\* A frame is opened: its first storage has a type of the column.
LEMMA OpenBack ==
    ASSUME CInv, BackInv, NEW n \in Int, NEW where \in {"fill", "peek"}, Open(n, where)
    PROVE  BackInv'
  <1> SUFFICES ASSUME NEW col \in Columns, ReadsBack(col)' PROVE Back(col)'
    BY DEF BackInv, Open
  <1>1. seen' = {} /\ noted' = FALSE /\ decl' = decl /\ types_' = types_
    BY DEF BackInv, Open
  <1>2. Len(storage') = 1 /\ storage'[1].dt = FirstType
    BY DEF Open
  <1>3. decl = col.decl /\ types_ \in {"UNKNOWN", decl} \cup {get_data_type(f.x) : f \in col.from}
    BY <1>1 DEF ReadsBack, get_data_type, needs_64_bit
  <1>4. types_ \in TypesOf(col)
    BY <1>3, ValueKinds DEF TypesOf
  <1>5. FirstType \in TypesOf(col)
    BY <1>4 DEF FirstType, TypesOf
  <1> QED
    BY <1>1, <1>2, <1>5 DEF Back

\* A value is put into the column: it is one of the column's and has such a type.
LEMMA SetColValueBack ==
    ASSUME CInv, BackInv, NEW x \in Values, SetColValue(x)
    PROVE  BackInv'
  <1>1. TypeOK /\ ColumnInv /\ pc # "idle" /\ pc' = pc
    BY DEF CInv, SetColValue
  <1> SUFFICES ASSUME NEW col \in Columns, ReadsBack(col)' PROVE Back(col)'
    BY <1>1 DEF BackInv
  <1> DEFINE N == Len(storage)
             s == Last(storage)
             X == {f.x : f \in col.from}
  <1>2. /\ storage \in Seq(StorageType) /\ N \in 1 .. N /\ s = storage[N] /\ N \in Nat
        /\ s \in StorageType
    <2>1. storage \in Seq(StorageType) /\ Len(storage) \in 1 .. Len(storage)
      BY <1>1, EmptySeq, LenProperties DEF TypeOK, ColumnInv, StorageType
    <2> QED
      BY <2>1 DEF Last
  <1>3. /\ seen' = seen \cup {get_data_type(x)} /\ decl' = decl /\ types_' = types_
        /\ noted' = (noted \/ Unreadable(Last(storage)'.dt, x))
        /\ storage' = append_col(storage, x)
    BY DEF SetColValue
  <1>4. PICK p :
             /\ StorageOK(p) /\ Chain(s.dt, p.dt)
             /\ p.dt \in {s.dt, get_data_type(x)}
             /\ x.t # "null" => p.dt # "UNKNOWN" /\ ~Widens(p.dt, get_data_type(x))
             /\ \/ /\ storage' = [storage EXCEPT ![N] = p]
                   /\ p.dt = s.dt
                   /\ p.vals = Append(s.vals, x)
                \/ /\ storage' = Append(storage, p)
                   /\ p.vals = <<x>>
    BY <1>1, <1>3, AppendColOK
  <1>5. p \in StorageType
    BY <1>4 DEF StorageOK
  <1> DEFINE M == Len(storage')
  <1>6. /\ M \in {N, N + 1} /\ storage'[M] = p /\ M \in 1 .. M
        /\ \A j \in 1 .. M - 1 : j \in 1 .. N /\ storage'[j] = storage[j]
    BY <1>2, <1>4, <1>5
  <1>7. /\ decl = col.decl
        /\ types_ \in {"UNKNOWN", decl} \cup {get_data_type(y) : y \in X}
        /\ \A j \in 1 .. M : \A k \in 1 .. Len(storage'[j].vals) : storage'[j].vals[k] \in X
    BY <1>3 DEF ReadsBack, get_data_type, needs_64_bit
  <1>8. x \in X /\ ReadsBack(col)
    <2> HIDE DEF X
    <2>1. CASE storage' = Append(storage, p) /\ p.vals = <<x>>
      <3>1. /\ M = N + 1 /\ 1 \in 1 .. Len(p.vals) /\ p.vals[1] = x
            /\ \A j \in 1 .. N : j \in 1 .. M /\ storage'[j] = storage[j]
        BY <1>2, <2>1
      <3>2. x \in X
        BY <1>6, <1>7, <3>1
      <3>3. \A j \in 1 .. N : \A k \in 1 .. Len(storage[j].vals) : storage[j].vals[k] \in X
        BY <1>7, <3>1
      <3> QED
        BY <1>7, <3>2, <3>3 DEF ReadsBack, X
    <2>2. CASE storage' = [storage EXCEPT ![N] = p] /\ p.vals = Append(s.vals, x)
      <3>1. /\ M = N /\ s.vals \in Seq(Values) /\ Len(p.vals) = Len(s.vals) + 1
            /\ p.vals[Len(s.vals) + 1] = x
            /\ \A k \in 1 .. Len(s.vals) : p.vals[k] = s.vals[k]
        <4>1. s.vals \in Seq(Values)
          BY <1>2 DEF StorageType
        <4> QED
          BY <1>2, <2>2, <4>1
      <3>2. x \in X
        <4>1. Len(s.vals) + 1 \in 1 .. Len(p.vals)
          BY <3>1
        <4> QED
          BY <1>6, <1>7, <3>1, <4>1
      <3>3. ASSUME NEW j \in 1 .. N, NEW k \in 1 .. Len(storage[j].vals)
            PROVE  storage[j].vals[k] \in X
        <4>1. CASE j = N
          <5>1. k \in 1 .. Len(p.vals) /\ storage[j].vals[k] = p.vals[k]
            BY <1>2, <3>1, <4>1
          <5> QED
            BY <1>6, <1>7, <5>1
        <4>2. CASE j # N
          <5>1. j \in 1 .. M
            BY <3>1
          <5>2. storage'[j] = storage[j]
            BY <1>2, <2>2, <4>2
          <5> QED
            BY <1>7, <5>1, <5>2
        <4> QED
          BY <4>1, <4>2
      <3> QED
        BY <1>7, <3>2, <3>3 DEF ReadsBack, X
    <2> QED
      BY <1>4, <2>1, <2>2
  <1>9. Back(col)
    BY <1>1, <1>8 DEF BackInv
  <1>10. /\ get_data_type(x) \in TypesOf(col)
         /\ \A dt \in TypesOf(col) : ~Unreadable(dt, x)
         /\ x.t = "null" => get_data_type(x) # "INT64"
    BY <1>7, <1>8, ValueKinds
  <1>11. s.dt \in TypesOf(col) /\ p.dt \in TypesOf(col)
    BY <1>2, <1>4, <1>9, <1>10 DEF Back
  <1>12. Last(storage)' = p
    BY <1>6 DEF Last
  <1>13. ~noted' /\ seen' \subseteq TypesOf(col)
    BY <1>3, <1>9, <1>10, <1>11, <1>12 DEF Back
  <1>14. ASSUME NEW j \in 1 .. M PROVE storage'[j].dt \in TypesOf(col)
    BY <1>6, <1>9, <1>11 DEF Back
  <1>15. ASSUME "INT64" \in seen' PROVE p.dt = "INT64"
    <2>1. CASE "INT64" \in seen
      <3>1. s.dt = "INT64"
        BY <1>9, <2>1 DEF Back
      <3> QED
        BY <1>4, <3>1 DEF Chain, Widens
    <2>2. CASE get_data_type(x) = "INT64"
      <3>1. p.dt # "UNKNOWN" /\ p.dt # "INT"
        BY <1>4, <1>10, <2>2 DEF Widens
      <3>2. col.decl \in {"INT"} \/ "INT64" \notin TypesOf(col)
        BY ColumnKinds DEF TypesOf, AltTypes
      <3> QED
        BY <1>10, <1>11, <2>2, <3>1, <3>2 DEF TypesOf
    <2> QED
      BY <1>3, <1>15, <2>1, <2>2
  <1> QED
    BY <1>12, <1>13, <1>14, <1>15 DEF Back

LEMMA BackStep == CInv /\ BackInv /\ [Next]_vars => BackInv'
  <1> SUFFICES ASSUME CInv, BackInv, [Next]_vars PROVE BackInv'
    OBVIOUS
  <1>1. ASSUME NEW n \in FetchSizes, Fetch(n) PROVE BackInv'
    BY <1>1, OpenBack, BoundsAssumption DEF Fetch
  <1>2. CASE Peek
    BY <1>2, OpenBack DEF Peek
  <1>3. ASSUME NEW x \in Values, SetColValue(x) PROVE BackInv'
    BY <1>3, SetColValueBack
  <1>4. CASE GetData \/ Abandon
    BY <1>4 DEF GetData, Abandon, Close, BackInv
  <1>5. CASE UNCHANGED vars
    <2>1. ASSUME pc # "idle", NEW col \in Columns, ReadsBack(col)' PROVE Back(col)'
      <3>1. ReadsBack(col)
        BY <1>5, <2>1 DEF vars, ReadsBack, get_data_type, needs_64_bit
      <3>2. Back(col)
        BY <2>1, <3>1 DEF BackInv
      <3> QED
        BY <1>5, <3>2 DEF vars, Back, Last
    <2> QED
      BY <1>5, <2>1 DEF vars, BackInv
  <1> QED
    BY <1>1, <1>2, <1>3, <1>4, <1>5 DEF Next

\* The type of the column as a whole.
LEMMA BackType ==
    ASSUME CInv, pc # "idle", NEW col \in Columns, ReadsBack(col), Back(col)
    PROVE  LET dt == ColumnType(storage) IN
           /\ dt \in TypesOf(col) \ {"UNKNOWN"}
           /\ "INT64" \in seen => dt = "INT64"
           /\ Conflicts(dt) = {}
  <1> DEFINE dt == ColumnType(storage)
  <1>1. decl = col.decl /\ Len(storage) \in 1 .. Len(storage)
    BY ColumnTypeIs DEF CInv, ReadsBack
  <1>2. col.decl \in {"INT", "REAL", "STRING", "BLOB"} \cup AltTypes
        /\ (col.vec.class = "integer64" => col.decl = "INT")
    BY ColumnKinds
  <1>3. Last(storage).dt \in TypesOf(col)
    BY <1>1 DEF Back, Last
  <1>4. dt \in TypesOf(col) \ {"UNKNOWN"}
    BY <1>1, <1>2, <1>3 DEF ColumnType, TypesOf, AltTypes
  <1>5. "INT64" \in seen => dt = "INT64"
    BY DEF Back, ColumnType
  <1> HIDE DEF dt
  <1>6. Conflicts(dt) = {}
    BY <1>2, <1>4, <1>5 DEF Conflicts, Back, TypesOf, AltTypes
  <1> QED
    BY <1>4, <1>5, <1>6 DEF dt

\* Each element reads as the one that was written.
LEMMA BackElement ==
    ASSUME CInv, pc # "idle", NEW col \in Columns, ReadsBack(col), Back(col),
           NEW j \in 1 .. Len(storage), NEW k \in 1 .. Len(storage[j].vals),
           NEW f \in col.from, f.x = storage[j].vals[k], NEW bigint \in Bigints
    PROVE  LET dt   == ColumnType(storage)
               cell == convert_bigint(bigint, dt, Reads(dt, copy_to(storage[j], dt, k)))
           IN  Shows(f.e, cell) \/ Lost(col, f.e, dt, bigint)
  <1> DEFINE dt == ColumnType(storage)
             s  == storage[j]
             x  == s.vals[k]
             r  == Reads(dt, copy_to(s, dt, k))
  <1>1. /\ x \in Values /\ s.dt \in DataTypes \ {"BOOL"} /\ Noticed(s.dt, x)
        /\ s.dt = "UNKNOWN" \/ s.dt = dt \/ Widens(s.dt, dt)
        /\ x.t = "null" => copy_to(s, dt, k) = Default(dt)
        /\ x.t # "null" =>
              /\ s.dt # "UNKNOWN"
              /\ copy_to(s, dt, k) = copy_value(s.dt, dt, fetch_value(s.dt, x))
    BY ElementOf
  <1>2. /\ col.decl \in {"INT", "REAL", "STRING", "BLOB"} \cup AltTypes
        /\ col.vec.class = "integer64" => col.decl = "INT"
        /\ col.vec \in Vectors /\ f.e \in Element(col.vec) /\ Fitting(col.vec, col.decl, f.e, x)
    BY ColumnKinds
  <1>3. f.e.na \in BOOLEAN /\ f.e.v \in Int
    BY <1>2, ElementKinds
  <1>4. dt \in TypesOf(col) \ {"UNKNOWN"} /\ s.dt \in TypesOf(col) /\ decl = col.decl
    BY BackType DEF Back, ReadsBack
  <1>5. ~Unreadable(s.dt, x)
    BY <1>4, ValueKinds
  <1> HIDE DEF dt, s, x
  <1>6. CASE f.e.na
    <2>1. r = NA
      BY <1>1, <1>2, <1>6 DEF Fitting, Reads
    <2>2. convert_bigint(bigint, dt, r) = NA
      BY <2>1 DEF convert_bigint
    <2> QED
      BY <1>6, <2>2 DEF Shows, dt, s
  <1>7. CASE ~f.e.na
    <2> DEFINE n == f.e.v
    <2>1. /\ x.v = n
          /\ col.decl = "INT" =>
                /\ x.t = "int"
                /\ IF col.vec.class = "integer64" THEN n > Min64
                   ELSE ~needs_64_bit(n) /\ n # Min32
          /\ col.decl = "REAL" => x.t = "real"
          /\ col.decl = "STRING" => x.t = "text"
          /\ col.decl = "BLOB" => x.t = "blob"
          /\ col.decl \in AltTypes =>
                x.t \in {"int", "real"} /\ (x.t = "real" => ~f.e.whole) /\ n \in Doubles
      BY <1>2, <1>7 DEF Fitting
    <2>2. x.t \in {"int", "real", "text", "blob"}
      BY <1>2, <2>1
    <2>3. s.dt # "UNKNOWN" /\ r = Reads(dt, copy_value(s.dt, dt, fetch_value(s.dt, x)))
      BY <1>1, <2>2
    <2>4. Shown(x) = Cell(IF x.t = "int" THEN "num" ELSE x.t, n)
      BY <2>1, <2>2 DEF Shown, Num
    <2> HIDE DEF r, n
    <2>5. CASE col.decl # "INT"
      <3>1. s.dt = col.decl /\ dt = col.decl
        BY <1>2, <1>4, <2>3, <2>5 DEF TypesOf
      <3>2. x.t \in Holds(s.dt)
        BY <1>2, <2>1, <2>5, <3>1 DEF Holds, AltTypes
      <3>3. Default(dt) = NA /\ dt # "INT64" /\ dt # "INT"
        BY <1>2, <2>5, <3>1 DEF Default, AltTypes
      <3>4. CASE Inexact(s.dt, x)
        <4>1. dt = "DATE" /\ (x.t = "real" \/ needs_64_bit(n))
          BY <1>2, <2>1, <2>5, <3>1, <3>4 DEF Inexact
        <4>2. dt = "DATE" /\ (~f.e.whole \/ needs_64_bit(f.e.v))
          BY <2>1, <3>1, <4>1 DEF AltTypes, n
        <4> QED
          BY <4>2 DEF Lost, dt
      <3>5. CASE ~Inexact(s.dt, x)
        <4>1. fetch_value(s.dt, x) = Shown(x)
          BY <1>5, <3>2, <3>5 DEF fetch_value
        <4>2. copy_value(s.dt, dt, Shown(x)) = Shown(x)
          BY <2>3, <3>1, <3>3 DEF copy_value, Widens
        <4>3. Shown(x) # NA
          BY <2>2, <2>4 DEF NA, Cell
        <4>4. r = Shown(x)
          BY <2>3, <3>3, <4>1, <4>2, <4>3 DEF Reads
        <4>5. convert_bigint(bigint, dt, r) = Shown(x)
          BY <3>3, <4>4 DEF convert_bigint
        <4>6. Shows(f.e, Shown(x))
          BY <1>7, <2>2, <2>4 DEF Shows, Cell, n
        <4> QED
          BY <4>5, <4>6 DEF dt, s, r
      <3> QED
        BY <3>4, <3>5
    <2>6. CASE col.decl = "INT"
      <3>1. s.dt \in {"INT", "INT64"} /\ dt \in {"INT", "INT64"}
            /\ ~(s.dt = "INT64" /\ dt = "INT")
        BY <1>1, <1>4, <2>3, <2>6 DEF TypesOf, Widens
      <3>2. x.t = "int" /\ n \in Int /\ n # Min64
            /\ (n = Min32 => col.vec.class = "integer64")
        BY <1>3, <2>1, <2>6, WidthAssumption DEF needs_64_bit, n
      <3>3. ~(s.dt = "INT" /\ needs_64_bit(n))
        BY <1>1, <1>4, <2>1, <2>6, <3>2 DEF Noticed, Widens, get_data_type, AltTypes
      <3>4. fetch_value(s.dt, x) = Num(n)
        <4>1. ~Inexact(s.dt, x) /\ x.t \in Holds(s.dt)
          BY <2>1, <3>1, <3>2, <3>3 DEF Inexact, Holds
        <4> QED
          BY <1>5, <2>4, <3>2, <4>1 DEF fetch_value, Num
      <3>5. /\ Default("INT") = Num(Min32) /\ Default("INT64") = Num(Min64)
            /\ \A a, b : Num(a) = Num(b) <=> a = b
            /\ \A a : Num(a) # NA /\ Num(a).v = a /\ Num(a).k = "num"
        BY DEF Default, Num, Cell, NA
      <3>6. CASE n = Min32
        BY <3>2, <3>6 DEF Lost, n
      <3>7. CASE n # Min32
        <4>1. copy_value(s.dt, dt, Num(n)) = Num(n)
          BY <2>3, <3>5, <3>7 DEF copy_value
        <4>2. r = Num(n)
          BY <2>3, <3>1, <3>2, <3>4, <3>5, <3>7, <4>1 DEF Reads
        <4>3. CASE dt = "INT64" /\ bigint = "integer" /\ needs_64_bit(n)
          BY <4>3 DEF Lost, dt, n
        <4>4. CASE dt = "INT64" /\ bigint = "numeric" /\ n \notin Doubles
          BY <4>4 DEF Lost, dt, n
        <4>5. CASE /\ ~(dt = "INT64" /\ bigint = "integer" /\ needs_64_bit(n))
                   /\ ~(dt = "INT64" /\ bigint = "numeric" /\ n \notin Doubles)
          <5>1. convert_bigint(bigint, dt, r) = Num(n)
            <6> DEFINE c == Num(n)
            <6>1. c # NA /\ c.v = n
              BY <3>5
            <6> HIDE DEF c
            <6>2. bigint \in {"integer64", "integer", "numeric", "character"}
              BY DEF Bigints
            <6>3. convert_bigint(bigint, dt, c) = c
              BY <3>7, <4>5, <6>1, <6>2 DEF convert_bigint
            <6> QED
              BY <4>2, <6>3 DEF c
          <5>2. Shows(f.e, Num(n))
            BY <1>7, <3>5 DEF Shows, n
          <5> QED
            BY <5>1, <5>2 DEF dt, s, r
        <4> QED
          BY <4>3, <4>4, <4>5
      <3> QED
        BY <3>6, <3>7
    <2> QED
      BY <2>5, <2>6
  <1> QED
    BY <1>3, <1>6, <1>7

\* Every R vector comes back from the table it is written to, element for element
\* but for what Lost names, for all numbers, widths, fetch sizes and capacities.
THEOREM RoundTripCorrect == Spec => []RoundTrip
  <1>1. Init => BackInv
    BY DEF Init, BackInv
  <1>2. CInv /\ BackInv => RoundTrip
    <2> SUFFICES ASSUME CInv, BackInv, pc # "idle", NEW col \in Columns, ReadsBack(col)
                 PROVE  LET dt == ColumnType(storage) IN
                        /\ Conflicts(dt) = {} /\ ~noted
                        /\ \A j \in 1 .. Len(storage) : \A k \in 1 .. Len(storage[j].vals) :
                             \A f \in col.from : f.x = storage[j].vals[k] =>
                               \A bigint \in Bigints :
                                 LET cell == convert_bigint(bigint, dt,
                                                 Reads(dt, copy_to(storage[j], dt, k)))
                                 IN  Shows(f.e, cell) \/ Lost(col, f.e, dt, bigint)
      BY DEF RoundTrip
    <2>1. Back(col)
      BY DEF BackInv
    <2>2. ~noted
      BY <2>1 DEF Back
    <2> QED
      BY <2>1, <2>2, BackType, BackElement
  <1> QED
    BY <1>1, <1>2, BackStep, ColumnInvariance, PTL DEF Spec
=============================================================================
