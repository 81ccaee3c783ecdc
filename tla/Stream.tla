------------------------------- MODULE Stream -------------------------------
(***************************************************************************)
(* A stream of the kernel, kernel/stream.c: a ring of bytes that tasks     *)
(* write to and read from, and the metadata by which a console tells the   *)
(* programs that write to it where its cursor is.                          *)
(*                                                                         *)
(* The body of every call runs under the lock of the stream and changes    *)
(* `free' once: what the calls read before they lock, or after they        *)
(* unlock, sees the state before or after a whole body.  A body is one     *)
(* step; the reads outside the lock are steps of their own.                *)
(***************************************************************************)
EXTENDS Naturals, Sequences, SequencesExt

CONSTANTS
  Task,       \* the tasks that share the stream
  Byte,
  Size,       \* LIB_SYS_STREAM_SIZE_byte
  Strings,    \* what the tasks write, at most Size bytes each
  MetaData,   \* values of the metadata
  None

ASSUME StreamAssumption ==
  /\ Size \in Nat \ {0}
  /\ Strings \subseteq {s \in Seq(Byte) : Len(s) <= Size}
  /\ <<>> \in Strings
  /\ None \notin Byte

Place == 0 .. Size - 1

VARIABLES
  base_address,   \* the bytes
  start, end, free,
  undefined,      \* the flag LIB_SYS_STREAM_FLAG_undefinied
  null,           \* the flag LIB_SYS_STREAM_FLAG_null
  meta,
  pc,
  string,         \* the bytes a task is writing
  cache,          \* the bytes a task received with its last read
  seen            \* the metadata a task got

ringVars == <<base_address, start, end, free>>
metaVars == <<undefined, meta>>
vars     == <<ringVars, metaVars, null, pc, string, cache, seen>>

TypeOK ==
  /\ base_address \in [Place -> Byte \union {None}]
  /\ start \in 0 .. Size
  /\ end \in 0 .. Size
  /\ free \in 0 .. Size
  /\ undefined \in BOOLEAN
  /\ null \in BOOLEAN
  /\ meta \in MetaData
  /\ pc \in [Task -> {"user", "out", "in", "get"}]
  /\ string \in [Task -> Strings]
  /\ cache \in [Task -> Seq(Byte)]
  /\ seen \in [Task -> MetaData]

Init ==
  /\ base_address = [i \in Place |-> None]
  /\ start = 0
  /\ end = 0
  /\ free = Size
  /\ undefined = FALSE
  /\ null \in BOOLEAN
  /\ meta \in MetaData
  /\ pc = [t \in Task |-> "user"]
  /\ string = [t \in Task |-> <<>>]
  /\ cache = [t \in Task |-> <<>>]
  /\ seen = [t \in Task |-> meta]

Goto(t, from, to) ==
  /\ pc[t] = from
  /\ pc' = [pc EXCEPT ![t] = to]

-----------------------------------------------------------------------------
(* kernel_stream_out *)

(* Where the first run of n bytes ends and where the second one begins:    *)
(* one that meets the end of the space goes on at its beginning, unless    *)
(* the free space is before the start marker anyway.                       *)
FirstRun(n) == IF end < start THEN n
               ELSE IF n < Size - end THEN n ELSE Size - end

Resume(n) == IF FirstRun(n) < n THEN 0 ELSE end + FirstRun(n)

(* Mutant: the bytes left over are written from the first again. *)
WrittenTwice(bytes, i) ==
  LET n == FirstRun(Len(bytes)) IN
    IF i \in end .. end + n - 1 THEN bytes[i - end + 1]
    ELSE IF n < Len(bytes) /\ i < Len(bytes) - n THEN bytes[i + 1]
    ELSE base_address[i]

Written(bytes, i) ==
  LET n == FirstRun(Len(bytes)) IN
    IF i \in end .. end + n - 1 THEN bytes[i - end + 1]
    ELSE IF n < Len(bytes) /\ i < Len(bytes) - n THEN bytes[n + i + 1]
    ELSE base_address[i]

(* A string that is too long is refused; the flags are looked at before    *)
(* the lock is taken.                                                      *)
OutCheck(t) ==
  \E bytes \in Strings :
    /\ Goto(t, "user", "out")
    /\ ~ null
    /\ string' = [string EXCEPT ![t] = bytes]
    /\ UNCHANGED <<ringVars, metaVars, null, cache, seen>>

Out(t) ==
  LET n == Len(string[t]) IN
    /\ Goto(t, "out", "user")
    /\ n <= free
    /\ base_address' = [i \in Place |-> Written(string[t], i)]
    /\ end' = Resume(n) + n - FirstRun(n)
    /\ free' = free - n
    /\ undefined' = TRUE
    /\ string' = [string EXCEPT ![t] = <<>>]
    /\ UNCHANGED <<start, null, meta, cache, seen>>

(* Not enough space in the stream. *)
OutRefused(t) ==
  /\ Goto(t, "out", "user")
  /\ Len(string[t]) > free
  /\ string' = [string EXCEPT ![t] = <<>>]
  /\ UNCHANGED <<ringVars, metaVars, null, cache, seen>>

-----------------------------------------------------------------------------
(* kernel_stream_in *)

(* The bytes from the start marker to the end of the space, if the markers *)
(* are crossed, and those from there to the end marker.                    *)
Received ==
  LET From(a) == [k \in 1 .. end - a |-> base_address[a + k - 1]] IN
    IF start > end
      THEN [k \in 1 .. Size - start |-> base_address[start + k - 1]] \o From(0)
      ELSE From(start)

InEmpty(t) ==
  /\ pc[t] = "user"
  /\ free = Size
  /\ cache' = [cache EXCEPT ![t] = <<>>]
  /\ UNCHANGED <<ringVars, metaVars, null, pc, string, seen>>

InCheck(t) ==
  /\ Goto(t, "user", "in")
  /\ free # Size
  /\ UNCHANGED <<ringVars, metaVars, null, string, cache, seen>>

(* Mutant: the start marker stays where it was. *)
InKeepsStart(t) ==
  /\ Goto(t, "in", "user")
  /\ cache' = [cache EXCEPT ![t] = Received]
  /\ free' = Size
  /\ UNCHANGED <<base_address, start, end, metaVars, null, string, seen>>

In(t) ==
  /\ Goto(t, "in", "user")
  /\ cache' = [cache EXCEPT ![t] = Received]
  /\ start' = end
  /\ free' = Size
  /\ UNCHANGED <<base_address, end, metaVars, null, string, seen>>

-----------------------------------------------------------------------------
(* kernel_stream_get: the metadata under the lock, the flags after it. *)
GetMeta(t) ==
  /\ Goto(t, "user", "get")
  /\ seen' = [seen EXCEPT ![t] = meta]
  /\ UNCHANGED <<ringVars, metaVars, null, string, cache>>

GetFlags(t) ==
  /\ Goto(t, "get", "user")
  /\ UNCHANGED <<ringVars, metaVars, null, string, cache, seen>>

(* Mutant: the metadata is set at any time. *)
SetAnyTime(t) ==
  \E m \in MetaData :
    /\ pc[t] = "user"
    /\ meta' = m
    /\ undefined' = FALSE
    /\ UNCHANGED <<ringVars, null, pc, string, cache, seen>>

(* kernel_stream_set: ignored, unless the stream looks empty. *)
Set(t) ==
  \E m \in MetaData :
    /\ pc[t] = "user"
    /\ start = end
    /\ meta' = m
    /\ undefined' = FALSE
    /\ UNCHANGED <<ringVars, null, pc, string, cache, seen>>

(* kernel_stream_release by the last user, and kernel_stream for the next: *)
(* the flags and the metadata stay.                                        *)
Recycle ==
  /\ \A t \in Task : pc[t] = "user"
  /\ ~ null
  /\ base_address' = [i \in Place |-> None]
  /\ start' = 0
  /\ end' = 0
  /\ free' = Size
  /\ UNCHANGED <<metaVars, null, pc, string, cache, seen>>

-----------------------------------------------------------------------------
Next ==
  \/ Recycle
  \/ \E t \in Task :
       \/ OutCheck(t) \/ Out(t) \/ OutRefused(t)
       \/ InEmpty(t) \/ InCheck(t) \/ In(t)
       \/ GetMeta(t) \/ GetFlags(t) \/ Set(t)

Spec == Init /\ [][Next]_vars
-----------------------------------------------------------------------------
(***************************************************************************)
(* Properties.                                                             *)
(***************************************************************************)

Load == Size - free

(* The three ways a stream keeps account of its bytes agree: the markers   *)
(* are as far apart as there are bytes, round the end of the space.        *)
MarkersAgree == (start + Load) % Size = end % Size

(* Without the flag `undefined', whose absence a program takes for "all I  *)
(* wrote has been shown" (software/shell.c:41), the stream is empty; or it *)
(* is full, and looks empty to kernel_stream_set.                          *)
DefinedMeansShown == ~ undefined => Load \in {0, Size}

(* Metadata only changes while no bytes wait (stream.c:208, "ignore        *)
(* metadata modification if stream is not empty").                         *)
MetaOnlyWhenEmpty == [][meta' # meta => Load = 0]_vars

(* The ring of bytes implements the pipe. *)
ThePipe == INSTANCE Pipe WITH
  content <- [k \in 1 .. Load |-> base_address[(start + k - 1) % Size]]

BytesFlow == ThePipe!PipeSpec
=============================================================================
