------------------------------ MODULE MCStream ------------------------------
(***************************************************************************)
(* A stream of three bytes, shared by a program and a console.  The        *)
(* strings have every length the stream takes, and differ in their bytes.  *)
(***************************************************************************)
EXTENDS Stream

CONSTANTS a, b

MCStrings == {<<>>, <<a>>, <<b, a>>, <<a, b, b>>}
=============================================================================
