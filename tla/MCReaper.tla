------------------------------ MODULE MCReaper ------------------------------
(***************************************************************************)
(* The collector on one processor, with up to three programs at a time,    *)
(* and on two processors.                                                  *)
(***************************************************************************)
EXTENDS Reaper

CONSTANT TaskMax   \* bound on task_id, which counts every program started

BoundedNext ==
  /\ ReaperNext
  /\ \A c \in CPU : Exec(c) => task_id < TaskMax

BoundedSpec == ReaperInit /\ [][BoundedNext]_rvars

BoundedFairSpec == BoundedSpec /\ ReaperFairness

(* What the locals of a processor, and of the daemon, still matter for:    *)
(* each is written before it is read again at the other labels.            *)
EntryLive == {"select", "scan", "mark", "marked", "switch", "secure",
              "identify", "adopt", "count", "build", "activate"}
WordLive  == {"release", "marked", "started", "close", "retired", "activate"}
TallyLive == {"identify", "count"}

LiveState ==
  <<queueVars, lockVars, task_cpu_address, pc,
    [c \in CPU |-> IF pc[c] \in EntryLive THEN entry[c] ELSE 0],
    [c \in CPU |-> IF pc[c] \in WordLive THEN word[c] ELSE {}],
    [c \in CPU |-> IF pc[c] \in TallyLive THEN tally[c] ELSE 0],
    gc, slot, frames,
    IF gc \in {"retired", "closed"} THEN gcWord ELSE {},
    IF gc = "discounted" THEN gcTally ELSE 0>>
=============================================================================
