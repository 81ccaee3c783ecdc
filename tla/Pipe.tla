-------------------------------- MODULE Pipe --------------------------------
(***************************************************************************)
(* What a stream of the kernel promises: a pipe of bytes.  What is written *)
(* is read once, whole and in order; a write that does not fit is ignored. *)
(* With one reservation: the content of a full stream may be forgotten.    *)
(***************************************************************************)
EXTENDS Naturals, Sequences

CONSTANTS Byte, Size, Task

VARIABLES
  content,   \* the bytes in the stream
  string,    \* what each task is writing
  cache      \* what each task received with its last read

PipeInit ==
  /\ content = <<>>
  /\ string = [t \in Task |-> <<>>]
  /\ cache = [t \in Task |-> <<>>]

(* A task hands over the bytes it writes, *)
Offer(t) ==
  /\ string'[t] \in Seq(Byte)
  /\ string' = [string EXCEPT ![t] = string'[t]]
  /\ UNCHANGED <<content, cache>>

(* which become part of the stream *)
Accept(t) ==
  /\ Len(content) + Len(string[t]) <= Size
  /\ content' = content \o string[t]
  /\ string' = [string EXCEPT ![t] = <<>>]
  /\ UNCHANGED cache

(* or, if they do not fit, do not. *)
Refuse(t) ==
  /\ Len(content) + Len(string[t]) > Size
  /\ string' = [string EXCEPT ![t] = <<>>]
  /\ UNCHANGED <<content, cache>>

Read(t) ==
  /\ content' = <<>>
  /\ cache' = [cache EXCEPT ![t] = content]
  /\ UNCHANGED string

Forget(t) ==
  /\ Len(content) = Size
  /\ content' = <<>>
  /\ cache' = [cache EXCEPT ![t] = <<>>]
  /\ UNCHANGED string

(* The last user of the stream is gone. *)
Discard ==
  /\ content' = <<>>
  /\ UNCHANGED <<string, cache>>

PipeNext ==
  \/ Discard
  \/ \E t \in Task : Offer(t) \/ Accept(t) \/ Refuse(t) \/ Read(t) \/ Forget(t)

PipeSpec == PipeInit /\ [][PipeNext]_<<content, string, cache>>
=============================================================================
