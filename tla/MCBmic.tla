------------------------------- MODULE MCBmic -------------------------------
(* Bmic for TLC.  Any free node may be taken for a new element: they are    *)
(* interchangeable.                                                         *)
EXTENDS Bmic

MCValues == [sym : {1}, px : {0, 1, 2}, ts : {1, 2, 3}]
                \cup [sym : {0}, px : {2}, ts : {1, 2}]
MCHashedMembers == {"sym", "px"}
MCOrderedMembers == <<"ts", "sym">>
Symmetry == Permutations(Nodes)
============================================================================
