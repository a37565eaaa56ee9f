---------------------------- MODULE MCImportFile ----------------------------
(***************************************************************************)
(* Files of up to three lines, of one to three cells: empty ones, NA, ones *)
(* that hold a part of a separator or a part of an end of line.            *)
(***************************************************************************)
EXTENDS ImportFile

A     == <<"a">>
NA    == <<"\\", "N">>
Half  == <<"a", ",">>
Break == <<"a", "\n">>
None  == <<>>

MCRows ==
    {<<None>>, <<A>>, <<NA>>, <<A, None>>, <<None, A>>, <<Half, NA>>,
     <<A, Break>>, <<Break, A>>, <<A, A, A>>}

MCTables == UNION {[1 .. n -> MCRows] : n \in 0 .. 3}

MCSeps == {<<>>, <<";">>, <<",", ";">>, <<",", ",">>}

MCEols == {<<"\n">>, <<"\r", "\n">>}

MCLeftovers == {<<>>, A, <<";">>, <<",", ";", "a">>}
=============================================================================
