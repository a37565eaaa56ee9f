---------------------------- MODULE MCResultSet ----------------------------
(* Small instances of ResultSet for TLC. *)
EXTENDS ResultSetRefinement

Select(n)    == [rows |-> n, changes |-> 0, ok |-> TRUE]
Insert       == [rows |-> 0, changes |-> 1, ok |-> TRUE]
Returning(n) == [rows |-> n, changes |-> 1, ok |-> TRUE]
BadElement   == [rows |-> 1, changes |-> 0, ok |-> FALSE]

MCGroups == {Select(0), Select(2), Insert, Returning(1), BadElement}

\* Lists of one vector with up to two elements, two of three elements (the
\* last empty or failing), and lists of two vectors, one of them ragged.
MCParamLists ==
    {[lens |-> <<0>>, groups |-> <<>>]}
    \cup {[lens |-> <<1>>, groups |-> <<g>>] : g \in MCGroups}
    \cup {[lens |-> <<2>>, groups |-> <<g, h>>] :
              g \in MCGroups, h \in MCGroups}
    \cup {[lens |-> <<3>>, groups |-> <<Select(2), Select(0), g>>] :
                                          g \in {Select(0), Select(2)}}
    \cup {[lens |-> <<2, 2>>, groups |-> <<Select(2), Insert>>],
          [lens |-> <<2, 1>>, groups |-> <<Select(0), Insert>>]}

MCFetchSizes == {-1, 0, 1, 2}
=============================================================================
