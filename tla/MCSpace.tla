------------------------------ MODULE MCSpace -------------------------------
(***************************************************************************)
(* Two levels of tables with four entries each: programs with two pages of *)
(* heap in the first, then the stack, the library and the context stack.   *)
(***************************************************************************)
EXTENDS Space

MCFrame     == 1 .. 28
MCRam       == 1 .. 27
MCRedundant == {1, 3}
MCSizes     == {1}
MCLibrary   == {"libc", "libm"}
MCFlows     == {"out_to_parent_in", "out_to_parent_out"}
=============================================================================
