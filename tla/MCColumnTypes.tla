--------------------------- MODULE MCColumnTypes ---------------------------
(***************************************************************************)
(* Four-bit and two-bit integers stand for the 64-bit and 32-bit ones, and *)
(* doubles have two bits of precision, so that 5 is none; the values are   *)
(* one of each kind, and the edges of the integer types.                   *)
(* Declarations are up to three pieces of the words that count, so that    *)
(* words follow, overlap and miss each other.                              *)
(***************************************************************************)
EXTENDS Binding

X(t, v) == [t |-> t, v |-> v]

MCValues ==
    {X("null", 0), X("int", 1), X("int", -2), X("int", 2), X("int", 5), X("int", -8),
     X("real", 1), X("text", 0), X("text", 1), X("blob", 0)}

MCFetchSizes == {-1, 1, 2, 4}

Pieces ==
    {CHAR, TEXT, BLOB, REAL, DOUB, INT, <<"c", "l", "o">>, <<"b">>, <<"i">>,
     <<"n", "t">>, <<"c", "h">>, <<"a", "r">>, <<"f", "l", "o", "a", "t">>, <<"(">>}

MCDeclarations ==
    {NoDeclaration, <<"date">>, <<"time">>, <<"datetime">>, <<"timestamp">>, <<>>}
    \cup Pieces \cup {p \o q : p, q \in Pieces} \cup {p \o q \o r : p, q, r \in Pieces}

MCNumbers == {-2, 0, 1, 2, 5}

MCMin32 == -2
MCMin64 == -8

MCDoubles == {-8, -6} \cup (-4 .. 4) \cup {6}

\* The types of ColumnTypes are the ones that declarations have.
ASSUME DeclTypesAssumption ==
    DeclTypes = {datatype_from_decltype(d, a) : d \in Declarations, a \in BOOLEAN}
=============================================================================
