------------------------------ MODULE MCMemory ------------------------------
(***************************************************************************)
(* Two tasks and four pages of RAM in two words of the map, with a hole    *)
(* before the second page: a run of two fits in three ways, one of them    *)
(* across the words.                                                       *)
(***************************************************************************)
EXTENDS Memory

MCUsable == {1, 3, 4, 5}
MCSizes  == {1, 2}

=============================================================================
