------------------------------- MODULE MCIpc --------------------------------
(***************************************************************************)
(* The message table with two entries, two processes and two types, and    *)
(* messages that live for two ticks of the clock.  The manager of windows  *)
(* sends input of two types to a program, which answers.                   *)
(***************************************************************************)
EXTENDS Ipc

CONSTANTS program, manager, keyboard, mouse

MCTraffic ==
  {[source |-> manager, target |-> program, type |-> t] : t \in Type}
    \union {[source |-> program, target |-> manager, type |-> mouse]}
=============================================================================
