------------------------------- MODULE MCTask -------------------------------
(***************************************************************************)
(* The scheduler with two processors, and four or five entries: the        *)
(* kernel, the collector daemon, the first program and the ones it starts. *)
(* With four entries one program can be added; with five, two programs may *)
(* be adding a third at the same time.                                     *)
(***************************************************************************)
EXTENDS Task

(* What the locals of a processor still matter for: each is written before *)
(* it is read again at the other labels.                                   *)
EntryLive == {"select", "scan", "mark", "marked", "switch", "secure",
              "identify", "adopt", "count", "build", "activate"}
WordLive  == {"release", "marked", "started", "close", "retired", "activate"}
TallyLive == {"identify", "count"}

LiveState ==
  <<queueVars, lockVars, task_cpu_address, pc,
    [c \in CPU |-> IF pc[c] \in EntryLive THEN entry[c] ELSE 0],
    [c \in CPU |-> IF pc[c] \in WordLive THEN word[c] ELSE {}],
    [c \in CPU |-> IF pc[c] \in TallyLive THEN tally[c] ELSE 0]>>
=============================================================================
