------------------------------- MODULE Reaper -------------------------------
(***************************************************************************)
(* The collector daemon, daemon/gc.d.c, on top of the scheduler: it frees  *)
(* the entries of the tasks that exited, after closing their children.     *)
(*                                                                         *)
(* The daemon is the task of GcEntry.  It runs in ring 0 with interrupts   *)
(* enabled and takes no lock: its steps interleave with those of every     *)
(* other processor, and with the timer of its own.  They happen only while *)
(* a processor runs its entry.                                             *)
(*                                                                         *)
(* An exited task frees its entry nowhere else, so that `flags' of an      *)
(* entry in use stays non-empty whatever the others do: reading flags,     *)
(* pid_parent and pid of an entry is one step.                             *)
(***************************************************************************)
EXTENDS Task, Sequences, SequencesExt

VARIABLES
  gc,       \* what the daemon does next
  slot,     \* `i' of entry()
  frames,   \* the calls of child(): parent and `i' of each, innermost last
  gcWord,   \* what the daemon loaded of a flags word it is to store back
  gcTally   \* what it loaded of task_count

gcVars == <<gc, slot, frames, gcWord, gcTally>>

GcLabel == {"look", "child", "retire", "retired", "wait", "close", "closed",
            "release", "free", "discount", "discounted"}

ReaperTypeOK ==
  /\ TypeOK
  /\ gc \in GcLabel
  /\ slot \in Entry
  /\ frames \in Seq([parent : Nat, at : 0 .. TaskLimit])
  /\ gcWord \in SUBSET Flag
  /\ gcTally \in 0 .. CountLimit - 1

ReaperInit ==
  /\ Init
  /\ gc = "look"
  /\ slot = 0
  /\ frames = <<>>
  /\ gcWord = {}
  /\ gcTally = 0

-----------------------------------------------------------------------------
(* The daemon has a processor. *)
Collecting == \E c \in CPU : task_cpu_address[c] = GcEntry /\ pc[c] = "run"

GcGoto(from, to) ==
  /\ Collecting
  /\ gc = from
  /\ gc' = to
  /\ UNCHANGED <<pid, pid_parent, asleep, saved, task_id, lockVars, cpuVars>>

(* The entry the innermost call of child() is at. *)
At == Last(frames).at

Advance == frames' = [frames EXCEPT ![Len(frames)].at = @ + 1]

Following(t) == (t + 1) % TaskLimit

(* Mutant: the search through the queue ends with its last entry. *)
GcSkipOnce ==
  /\ GcGoto("look", "look")
  /\ "close" \notin flags[slot]
  /\ slot + 1 < TaskLimit
  /\ slot' = slot + 1
  /\ UNCHANGED <<flags, task_count, frames, gcWord, gcTally>>

(* entry(): an entry that is not closed. *)
GcSkip ==
  /\ GcGoto("look", "look")
  /\ "close" \notin flags[slot]
  /\ slot' = Following(slot)
  /\ UNCHANGED <<flags, task_count, frames, gcWord, gcTally>>

(* Mutant: the children of the closed task are not looked for. *)
GcFoundNoChild ==
  /\ GcGoto("look", "release")
  /\ "close" \in flags[slot]
  /\ UNCHANGED <<flags, task_count, slot, frames, gcWord, gcTally>>

GcFound ==
  /\ GcGoto("look", "child")
  /\ "close" \in flags[slot]
  /\ frames' = <<[parent |-> pid[slot], at |-> 0]>>
  /\ UNCHANGED <<flags, task_count, slot, gcWord, gcTally>>

-----------------------------------------------------------------------------
(* child(): close every task whose parent is the given one, its children   *)
(* first.                                                                  *)
IsChild(t) == flags[t] # {} /\ pid_parent[t] = Last(frames).parent

ChildSkip ==
  /\ GcGoto("child", "child")
  /\ At < TaskLimit
  /\ ~ IsChild(At)
  /\ Advance
  /\ UNCHANGED <<flags, task_count, slot, gcWord, gcTally>>

ChildFound ==
  /\ GcGoto("child", "child")
  /\ At < TaskLimit
  /\ IsChild(At)
  /\ frames' = Append(frames, [parent |-> pid[At], at |-> 0])
  /\ UNCHANGED <<flags, task_count, slot, gcWord, gcTally>>

ChildReturn ==
  /\ GcGoto("child", IF Len(frames) = 1 THEN "release" ELSE "retire")
  /\ At = TaskLimit
  /\ frames' = Front(frames)
  /\ UNCHANGED <<flags, task_count, slot, gcWord, gcTally>>

ChildLoad ==
  /\ GcGoto("retire", "retired")
  /\ gcWord' = flags[At]
  /\ UNCHANGED <<flags, task_count, slot, frames, gcTally>>

(* Mutant: the child stays selectable. *)
ChildStillActive ==
  /\ GcGoto("retired", "wait")
  /\ UNCHANGED <<flags, task_count, slot, frames, gcWord, gcTally>>

ChildRetire ==
  /\ GcGoto("retired", "wait")
  /\ Store(At, gcWord \ {"active"})
  /\ UNCHANGED <<task_count, slot, frames, gcWord, gcTally>>

ChildReleased ==
  /\ GcGoto("wait", "close")
  /\ "exec" \notin flags[At]
  /\ UNCHANGED <<flags, task_count, slot, frames, gcWord, gcTally>>

ChildReload ==
  /\ GcGoto("close", "closed")
  /\ gcWord' = flags[At]
  /\ UNCHANGED <<flags, task_count, slot, frames, gcTally>>

ChildClose ==
  /\ GcGoto("closed", "child")
  /\ Store(At, gcWord \union {"close"})
  /\ Advance
  /\ UNCHANGED <<task_count, slot, gcWord, gcTally>>

-----------------------------------------------------------------------------
(* Back in entry(): the streams, the memory map and the paging structures  *)
(* of the task are released, then its entry.                               *)
GcRelease ==
  /\ GcGoto("release", "free")
  /\ UNCHANGED <<flags, task_count, slot, frames, gcWord, gcTally>>

GcFree ==
  /\ GcGoto("free", "discount")
  /\ Store(slot, {})
  /\ UNCHANGED <<task_count, slot, frames, gcWord, gcTally>>

GcCountLoad ==
  /\ GcGoto("discount", "discounted")
  /\ gcTally' = task_count
  /\ UNCHANGED <<flags, task_count, slot, frames, gcWord>>

GcCountStore ==
  /\ GcGoto("discounted", "look")
  /\ task_count' = IF gcTally = 0 THEN CountLimit - 1 ELSE gcTally - 1
  /\ slot' = Following(slot)
  /\ UNCHANGED <<flags, frames, gcWord, gcTally>>

Collect ==
  \/ GcSkip \/ GcFound
  \/ ChildSkip \/ ChildFound \/ ChildReturn \/ ChildLoad \/ ChildRetire
  \/ ChildReleased \/ ChildReload \/ ChildClose
  \/ GcRelease \/ GcFree \/ GcCountLoad \/ GcCountStore

ReaperNext == Collect \/ (Next /\ UNCHANGED gcVars)

rvars == <<vars, gcVars>>

ReaperSpec == ReaperInit /\ [][ReaperNext]_rvars

(* As in Task; and a daemon that gets a processor again and again executes *)
(* some of its instructions, hence strong fairness.                        *)
ReaperFairness ==
  /\ \A c \in CPU : /\ WF_rvars(InKernel(c) /\ UNCHANGED gcVars)
                     /\ SF_rvars(Timer(c) /\ UNCHANGED gcVars)
  /\ SF_rvars(Collect)

-----------------------------------------------------------------------------
(***************************************************************************)
(* Properties.                                                             *)
(***************************************************************************)

(* The paging structures of a task are not released while a processor      *)
(* executes in them (it does until Switch, task.c:26).  The collector      *)
(* waits for the tasks it closes itself (gc.d.c:31 "wait for release"),    *)
(* but not for the ones that close themselves (service.c:19).              *)
SpaceNotInUse ==
  gc = "free" => \A c \in CPU : task_cpu_address[c] # slot

(* When the entry of a task is about to be emptied, none of its children   *)
(* can run any more, the ones included that it started while its own       *)
(* parent was being closed (gc.d.c:47).                                    *)
NoOrphans ==
  gc = "free" =>
    \A t \in Entry : pid_parent[t] = pid[slot] => "active" \notin flags[t]

(* A closed task never executes its program again.                         *)
ClosedStaysOut ==
  \A c \in CPU : pc[c] = "run" => "close" \notin flags[Active(c)]

(* Every closed task gives its entry back, and unless programs are started *)
(* for ever the collector catches up with them all (gc.d.c:42-75).         *)
CollectorCatchesUp ==
  (\E t \in Entry : "close" \in flags[t])
    ~> (\A t \in Entry : "close" \notin flags[t])
=============================================================================
