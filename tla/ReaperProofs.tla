---------------------------- MODULE ReaperProofs ----------------------------
(***************************************************************************)
(* Theorems about the collector daemon on one processor, with a queue of   *)
(* any length: what it empties has no children left that could run, and a  *)
(* closed task never executes its program again.  With more processors     *)
(* neither holds: the daemon stores back flags words that others changed.  *)
(*                                                                         *)
(* The steps of the daemon fall between whole system calls of the other    *)
(* tasks, which run while the daemon is suspended between any two steps.   *)
(* The invariant therefore has a part about the tasks, LifeInv, that does  *)
(* not mention the daemon, and a part about what the daemon has read and   *)
(* not yet used, DaemonInv, that says which entries stay as they were.     *)
(***************************************************************************)
EXTENDS Reaper, TaskProofs, SequenceTheorems

OneProcessor == CPU = {BSP}

(* In a system call; executing a program, or a call that it made.          *)
Calling(c) == pc[c] \in {"close", "retire", "retired", "add", "claim", "secure",
                         "identify", "adopt", "count", "build", "activate"}
Running(c) == Calling(c) \/ pc[c] \in {"run", "first", "started"}

(* The kernel and the collector make no system calls.                      *)
ProgramsCall == \A c \in CPU : Calling(c) => Program(c)

(* What runs, or is about to, is active.                                   *)
RunsActive ==
  \A c \in CPU :
    /\ Running(c) /\ Active(c) # KernelEntry => "active" \in flags[Active(c)]
    /\ pc[c] = "switch" => "active" \in flags[entry[c]]

(* The collector is never closed, and nobody's child.                      *)
DaemonLives ==
  /\ "active" \in flags[GcEntry]
  /\ "close" \notin flags[GcEntry]
  /\ pid_parent[GcEntry] = 0 /\ pid_parent[KernelEntry] = 0

(* A closed task is inactive, but while it retires itself.                 *)
ClosedInactive ==
  \A t \in Entry : {"close", "active"} \subseteq flags[t] =>
    \E c \in CPU : Active(c) = t /\ pc[c] \in {"retire", "retired"}

(* An entry in use has an identifier, but while it is given one.           *)
HavePid ==
  \A t \in Entry \ {KernelEntry} : flags[t] # {} =>
    pid[t] # 0 \/ \E c \in CPU : pc[c] = "identify" /\ entry[c] = t

(* The parent of a new task is the one that starts it.                     *)
Adopted ==
  \A c \in CPU : pc[c] \in {"count", "build", "activate"} =>
    pid_parent[entry[c]] = pid[Active(c)]

LifeInv ==
  /\ SchedInv /\ UsedSecured /\ Numbered
  /\ ProgramsCall /\ RunsActive /\ DaemonLives /\ ClosedInactive
  /\ HavePid /\ Adopted

-----------------------------------------------------------------------------
(* The daemon deals with a child it found; has made it inactive; is in     *)
(* child() at all.                                                         *)
Closing    == gc \in {"wait", "close", "closed"}
Handling   == gc \in {"retire", "retired"} \/ Closing
Descending == gc = "child" \/ Handling

(* An entry that nobody takes or builds while the daemon holds on to it.   *)
Held(t) ==
  /\ t \in Entry \ {KernelEntry, GcEntry}
  /\ flags[t] # {}
  /\ \A c \in CPU : Claiming(c) \/ Building(c) => entry[c] # t

DaemonTypes ==
  /\ gc \in GcLabel
  /\ slot \in Entry
  /\ frames \in Seq([parent : Nat, at : 0 .. TaskLimit])
  /\ gcWord \in SUBSET Flag
  /\ gcTally \in 0 .. CountLimit - 1

(* Every call of child() but the innermost stands at a child.              *)
FramesHeld ==
  /\ Descending <=> frames # <<>>
  /\ \A i \in 1 .. Len(frames) : frames[i].parent # 0
  /\ \A i \in 1 .. Len(frames) :
       i < Len(frames) \/ Handling => Held(frames[i].at)

(* What was loaded can be stored: it marks nothing as running.             *)
WordSafe ==
  /\ gc \in {"retired", "closed"} => "secured" \in gcWord /\ "exec" \notin gcWord
  /\ gc = "closed" => "active" \notin gcWord
  /\ Closing => "active" \notin flags[At]

SlotHeld ==
  /\ gc \notin {"look", "discount", "discounted"} =>
       Held(slot) /\ "active" \notin flags[slot]
  /\ Descending => frames[1].parent = pid[slot]

(* What the outermost call of child() has been past.                       *)
Passed(t) ==
  \/ t < frames[1].at
  \/ t = frames[1].at /\ Len(frames) = 1 /\ Closing

(* The children of the closed task that it has been past cannot run.       *)
PassedInactive ==
  /\ Descending =>
       \A t \in Entry : Passed(t) /\ pid_parent[t] = pid[slot] => "active" \notin flags[t]
  /\ gc \in {"release", "free"} =>
       \A t \in Entry : pid_parent[t] = pid[slot] => "active" \notin flags[t]

DaemonInv ==
  DaemonTypes /\ FramesHeld /\ WordSafe /\ SlotHeld /\ PassedInactive

ReaperInv == LifeInv /\ DaemonInv
-----------------------------------------------------------------------------
(* The tasks.                                                              *)
LEMMA LifeInit == Init => LifeInv
<1> SUFFICES ASSUME Init PROVE LifeInv
  OBVIOUS
<1>1. SchedInv /\ UsedSecured /\ Numbered
  BY SchedInit, QueueInit DEF QueueInv
<1>2. /\ GcEntry \in Entry /\ KernelEntry \in Entry
      /\ \A c \in CPU : pc[c] = "run" /\ Active(c) = KernelEntry
      /\ pid = [t \in Entry |-> IF t \in Booted THEN t ELSE 0]
      /\ pid_parent = [t \in Entry |-> 0]
  BY LimitAssumption DEF Init, Active, GcEntry, KernelEntry, Entry
<1>3. \A t \in Entry : /\ "close" \notin flags[t]
                       /\ flags[t] # {} => t \in Booted
  BY DEF Init, Booted
<1>4. "active" \in flags[GcEntry]
  BY <1>2 DEF Init, Flag
<1>5. ProgramsCall /\ RunsActive /\ DaemonLives /\ ClosedInactive /\ Adopted
  BY <1>2, <1>3, <1>4
     DEF ProgramsCall, Calling, RunsActive, DaemonLives, ClosedInactive, Adopted
<1>6. HavePid
  BY <1>2, <1>3 DEF HavePid, Booted, KernelEntry, GcEntry, ShellEntry
<1>7. QED
  BY <1>1, <1>5, <1>6 DEF LifeInv

(* Only programs make system calls.                                        *)
LEMMA ProgramsCallStep ==
  ASSUME OneProcessor, LifeInv, [Next]_vars
  PROVE  ProgramsCall'
<1> USE LimitAssumption
    DEF OneProcessor, LifeInv, SchedInv, TypeOK, WordFresh, ProgramsCall,
         Goto, Load,
        Store, Active, queueVars, lockVars, cpuVars
<1>1. ASSUME NEW c \in CPU, KernelTask(c) PROVE ProgramsCall'
  BY <1>1
     DEF KernelTask, SaveContext, Release, SelectLock, ScanFound, ScanNext,
          MarkLoad,
         MarkStore, Switch, FirstLoad, FirstStore,
         Calling, Program
<1>2. ASSUME NEW c \in CPU, ExitSteps(c) \/ Timer(c) \/ Call(c) PROVE
     ProgramsCall'
  BY <1>2
     DEF ExitSteps, ExitClose, ExitLoad, ExitRetire, Timer, Call, Exit,
         Sleep, Exec,
         Calling, Program
<1>3. ASSUME NEW c \in CPU, TaskAdd(c) PROVE ProgramsCall'
  BY <1>3
     DEF TaskAdd, AddLock, AddClaim, AddFull, AddSecure, AddPid, AddParent,
          AddCount,
         BuildFails, Build, Activate,
         Calling, Program
<1>4. ASSUME Tick \/ UNCHANGED vars PROVE ProgramsCall'
  BY <1>4
     DEF Tick, vars,
         Calling, Program
<1>5. QED
  BY <1>1, <1>2, <1>3, <1>4 DEF Next, InKernel

(* What is marked is active, and what runs stays so until it retires.      *)
LEMMA RunsActiveStep ==
  ASSUME OneProcessor, LifeInv, [Next]_vars
  PROVE  RunsActive'
<1> USE LimitAssumption
    DEF OneProcessor, LifeInv, SchedInv, TypeOK, WordFresh, RunsActive, Goto,
         Load,
        Store, Active, queueVars, lockVars, cpuVars
<1>1. ASSUME NEW c \in CPU, KernelTask(c) PROVE RunsActive'
  BY <1>1
     DEF KernelTask, SaveContext, Release, SelectLock, ScanFound, ScanNext,
          MarkLoad,
         MarkStore, Switch, FirstLoad, FirstStore,
         Running, Calling, MarkedReady, Marking, KernelApart,
         BuildersApart, Building, Claiming
<1>2. ASSUME NEW c \in CPU, ExitSteps(c) \/ Timer(c) \/ Call(c) PROVE
     RunsActive'
  BY <1>2
     DEF ExitSteps, ExitClose, ExitLoad, ExitRetire, Timer, Call, Exit,
         Sleep, Exec,
         Running, Calling, MarkedReady, Marking, KernelApart,
         BuildersApart, Building, Claiming
<1>3. ASSUME NEW c \in CPU, TaskAdd(c) PROVE RunsActive'
  <2>1. CASE Activate(c)
    BY <2>1 DEF Activate, Running, Calling, MarkedReady, Marking, KernelApart,
         BuildersApart, Building, Claiming
  <2>2. CASE AddSecure(c)
    BY <2>2 DEF AddSecure, Running, Calling, MarkedReady, Marking, KernelApart,
         BuildersApart, Building, Claiming
  <2>3. CASE AddLock(c) \/ AddClaim(c) \/ AddFull(c) \/ AddPid(c) \/
             AddParent(c) \/ AddCount(c) \/ BuildFails(c) \/ Build(c)
    BY <2>3 DEF AddLock, AddClaim, AddFull, AddPid, AddParent, AddCount,
         BuildFails, Build, Running, Calling, MarkedReady, Marking, KernelApart,
         BuildersApart, Building, Claiming
  <2>4. QED
    BY <1>3, <2>1, <2>2, <2>3 DEF TaskAdd
<1>4. ASSUME Tick \/ UNCHANGED vars PROVE RunsActive'
  BY <1>4
     DEF Tick, vars,
         Running, Calling, MarkedReady, Marking, KernelApart,
         BuildersApart, Building, Claiming
<1>5. QED
  BY <1>1, <1>2, <1>3, <1>4 DEF Next, InKernel

(* Nothing closes the collector or takes its entry.                        *)
LEMMA DaemonLivesStep ==
  ASSUME OneProcessor, LifeInv, [Next]_vars
  PROVE  DaemonLives'
<1> USE LimitAssumption
    DEF OneProcessor, LifeInv, SchedInv, TypeOK, WordFresh, DaemonLives,
         Goto, Load,
        Store, Active, queueVars, lockVars, cpuVars
<1>1. ASSUME NEW c \in CPU, KernelTask(c) PROVE DaemonLives'
  <2>1. CASE Release(c)
    BY <2>1 DEF Release, ProgramsCall, Calling, Program, BuildersApart,
         Building,
         Claiming, GcEntry, KernelEntry, Entry, KernelApart
  <2>2. CASE MarkStore(c)
    BY <2>2 DEF MarkStore, ProgramsCall, Calling, Program, BuildersApart,
         Building,
         Claiming, GcEntry, KernelEntry, Entry, KernelApart
  <2>3. CASE FirstStore(c)
    BY <2>3 DEF FirstStore, ProgramsCall, Calling, Program, BuildersApart,
         Building,
         Claiming, GcEntry, KernelEntry, Entry, KernelApart
  <2>4. CASE SaveContext(c) \/ SelectLock(c) \/ ScanFound(c) \/ ScanNext(c) \/
             MarkLoad(c) \/ Switch(c) \/ FirstLoad(c)
    BY <2>4 DEF SaveContext, SelectLock, ScanFound, ScanNext, MarkLoad,
         Switch, FirstLoad, ProgramsCall, Calling, Program, BuildersApart,
         Building,
         Claiming, GcEntry, KernelEntry, Entry, KernelApart
  <2>5. QED
    BY <1>1, <2>1, <2>2, <2>3, <2>4 DEF KernelTask
<1>2. ASSUME NEW c \in CPU, ExitSteps(c) \/ Timer(c) \/ Call(c) PROVE
     DaemonLives'
  BY <1>2
     DEF ExitSteps, ExitClose, ExitLoad, ExitRetire, Timer, Call, Exit,
         Sleep, Exec,
         ProgramsCall, Calling, Program, BuildersApart, Building,
         Claiming, GcEntry, KernelEntry, Entry, KernelApart
<1>3. ASSUME NEW c \in CPU, TaskAdd(c) PROVE DaemonLives'
  <2>1. CASE AddSecure(c)
    BY <2>1 DEF AddSecure, ProgramsCall, Calling, Program, BuildersApart,
         Building,
         Claiming, GcEntry, KernelEntry, Entry, KernelApart
  <2>2. CASE AddParent(c)
    BY <2>2 DEF AddParent, ProgramsCall, Calling, Program, BuildersApart,
         Building,
         Claiming, GcEntry, KernelEntry, Entry, KernelApart
  <2>3. CASE Activate(c)
    BY <2>3 DEF Activate, ProgramsCall, Calling, Program, BuildersApart,
         Building,
         Claiming, GcEntry, KernelEntry, Entry, KernelApart
  <2>4. CASE AddLock(c) \/ AddClaim(c) \/ AddFull(c) \/ AddPid(c) \/
             AddCount(c) \/ BuildFails(c) \/ Build(c)
    BY <2>4 DEF AddLock, AddClaim, AddFull, AddPid, AddCount, BuildFails,
         Build, ProgramsCall, Calling, Program, BuildersApart, Building,
         Claiming, GcEntry, KernelEntry, Entry, KernelApart
  <2>5. QED
    BY <1>3, <2>1, <2>2, <2>3, <2>4 DEF TaskAdd
<1>4. ASSUME Tick \/ UNCHANGED vars PROVE DaemonLives'
  BY <1>4
     DEF Tick, vars,
         ProgramsCall, Calling, Program, BuildersApart, Building,
         Claiming, GcEntry, KernelEntry, Entry, KernelApart
<1>5. QED
  BY <1>1, <1>2, <1>3, <1>4 DEF Next, InKernel

(* A task that closes itself retires next.                                 *)
LEMMA ClosedInactiveStep ==
  ASSUME OneProcessor, LifeInv, [Next]_vars
  PROVE  ClosedInactive'
<1> USE LimitAssumption
    DEF OneProcessor, LifeInv, SchedInv, TypeOK, WordFresh, ClosedInactive,
         Goto, Load,
        Store, Active, queueVars, lockVars, cpuVars
<1>1. ASSUME NEW c \in CPU, KernelTask(c) PROVE ClosedInactive'
  BY <1>1
     DEF KernelTask, SaveContext, Release, SelectLock, ScanFound, ScanNext,
          MarkLoad,
         MarkStore, Switch, FirstLoad, FirstStore,
         RunsActive, Running, Calling, BuildersApart, Building,
         Claiming
<1>2. ASSUME NEW c \in CPU, ExitSteps(c) \/ Timer(c) \/ Call(c) PROVE
     ClosedInactive'
  BY <1>2
     DEF ExitSteps, ExitClose, ExitLoad, ExitRetire, Timer, Call, Exit,
         Sleep, Exec,
         RunsActive, Running, Calling, BuildersApart, Building,
         Claiming
<1>3. ASSUME NEW c \in CPU, TaskAdd(c) PROVE ClosedInactive'
  BY <1>3
     DEF TaskAdd, AddLock, AddClaim, AddFull, AddSecure, AddPid, AddParent,
          AddCount,
         BuildFails, Build, Activate,
         RunsActive, Running, Calling, BuildersApart, Building,
         Claiming
<1>4. ASSUME Tick \/ UNCHANGED vars PROVE ClosedInactive'
  BY <1>4
     DEF Tick, vars,
         RunsActive, Running, Calling, BuildersApart, Building,
         Claiming
<1>5. QED
  BY <1>1, <1>2, <1>3, <1>4 DEF Next, InKernel

(* An entry that is taken into use is given an identifier next.            *)
LEMMA HavePidStep ==
  ASSUME OneProcessor, LifeInv, [Next]_vars
  PROVE  HavePid'
<1> USE LimitAssumption
    DEF OneProcessor, LifeInv, SchedInv, TypeOK, WordFresh, HavePid, Goto, Load,
        Store, Active, queueVars, lockVars, cpuVars
<1>1. ASSUME NEW c \in CPU, KernelTask(c) PROVE HavePid'
  BY <1>1
     DEF KernelTask, SaveContext, Release, SelectLock, ScanFound, ScanNext,
          MarkLoad,
         MarkStore, Switch, FirstLoad, FirstStore,
         BuildersApart, Building, Claiming, Numbered, UsedSecured,
         MarkedReady, Marking, RunsActive, Running, Calling, KernelApart, Inside
<1>2. ASSUME NEW c \in CPU, ExitSteps(c) \/ Timer(c) \/ Call(c) PROVE HavePid'
  BY <1>2
     DEF ExitSteps, ExitClose, ExitLoad, ExitRetire, Timer, Call, Exit,
         Sleep, Exec,
         BuildersApart, Building, Claiming, Numbered, UsedSecured,
         MarkedReady, Marking, RunsActive, Running, Calling, KernelApart, Inside
<1>3. ASSUME NEW c \in CPU, TaskAdd(c) PROVE HavePid'
  BY <1>3
     DEF TaskAdd, AddLock, AddClaim, AddFull, AddSecure, AddPid, AddParent,
          AddCount,
         BuildFails, Build, Activate,
         BuildersApart, Building, Claiming, Numbered, UsedSecured,
         MarkedReady, Marking, RunsActive, Running, Calling, KernelApart, Inside
<1>4. ASSUME Tick \/ UNCHANGED vars PROVE HavePid'
  BY <1>4
     DEF Tick, vars,
         BuildersApart, Building, Claiming, Numbered, UsedSecured,
         MarkedReady, Marking, RunsActive, Running, Calling, KernelApart, Inside
<1>5. QED
  BY <1>1, <1>2, <1>3, <1>4 DEF Next, InKernel

(* While a program starts another, its own entry is not given away.        *)
LEMMA AdoptedStep ==
  ASSUME OneProcessor, LifeInv, [Next]_vars
  PROVE  Adopted'
<1> USE LimitAssumption
    DEF OneProcessor, LifeInv, SchedInv, TypeOK, WordFresh, Adopted, Goto, Load,
        Store, Active, queueVars, lockVars, cpuVars
<1>1. ASSUME NEW c \in CPU, KernelTask(c) PROVE Adopted'
  BY <1>1
     DEF KernelTask, SaveContext, Release, SelectLock, ScanFound, ScanNext,
          MarkLoad,
         MarkStore, Switch, FirstLoad, FirstStore,
         BuildersApart, Building, Claiming, ExecMeansOwned, Owns,
         KernelApart, Inside
<1>2. ASSUME NEW c \in CPU, ExitSteps(c) \/ Timer(c) \/ Call(c) PROVE Adopted'
  BY <1>2
     DEF ExitSteps, ExitClose, ExitLoad, ExitRetire, Timer, Call, Exit,
         Sleep, Exec,
         BuildersApart, Building, Claiming, ExecMeansOwned, Owns,
         KernelApart, Inside
<1>3. ASSUME NEW c \in CPU, TaskAdd(c) PROVE Adopted'
  BY <1>3
     DEF TaskAdd, AddLock, AddClaim, AddFull, AddSecure, AddPid, AddParent,
          AddCount,
         BuildFails, Build, Activate,
         BuildersApart, Building, Claiming, ExecMeansOwned, Owns,
         KernelApart, Inside
<1>4. ASSUME Tick \/ UNCHANGED vars PROVE Adopted'
  BY <1>4
     DEF Tick, vars,
         BuildersApart, Building, Claiming, ExecMeansOwned, Owns,
         KernelApart, Inside
<1>5. QED
  BY <1>1, <1>2, <1>3, <1>4 DEF Next, InKernel

LEMMA LifeStep ==
  ASSUME OneProcessor, LifeInv, [Next]_vars
  PROVE  LifeInv'
<1>1. SchedInv' /\ UsedSecured' /\ Numbered'
  BY SchedStep, SecuredStep, NumberedStep DEF LifeInv
<1>2. QED
  BY <1>1, ProgramsCallStep, RunsActiveStep, DaemonLivesStep, ClosedInactiveStep,
     HavePidStep, AdoptedStep DEF LifeInv

(* Steps of the daemon: it writes flags of inactive entries only, and the  *)
(* count.                                                                  *)
LEMMA CollectorStores ==
  ASSUME OneProcessor, LifeInv, Collecting,
         NEW t \in Entry \ {KernelEntry, GcEntry}, NEW f \in SUBSET Flag,
         "exec" \notin f, "active" \notin f,
         f # {} => "secured" \in f /\ flags[t] # {},
         Store(t, f),
         UNCHANGED <<pid, pid_parent, asleep, saved, task_id, task_count,
                     lockVars, cpuVars>>
  PROVE  LifeInv'
<1> USE DEF LifeInv, SchedInv, TypeOK, OneProcessor, Store, lockVars, cpuVars
<1>1. pc[BSP] = "run" /\ task_cpu_address[BSP] = GcEntry
  BY DEF Collecting
<1>2. TypeOK' /\ Locks' /\ WordFresh' /\ MarkedReady' /\ BuildersApart' /\ KernelApart'
  BY <1>1 DEF Locks, Scanning, Adding, WordFresh, MarkedReady, Marking, BuildersApart,
              Claiming, Building, KernelApart, Inside
<1>3. OneCpuPerTask' /\ ContextKept'
  BY <1>1 DEF OneCpuPerTask, Owns, ContextKept, ResumesSavedContext
<1>4. ExecMeansOwned'
  BY <1>1 DEF ExecMeansOwned, Owns
<1>5. UsedSecured' /\ Numbered'
  BY <1>1 DEF UsedSecured, Numbered, PidsUnique
<1>6. ProgramsCall' /\ RunsActive' /\ Adopted'
  BY <1>1 DEF ProgramsCall, Program, Active, RunsActive, Running, Calling, Adopted
<1>7. DaemonLives' /\ ClosedInactive' /\ HavePid'
  BY <1>1 DEF DaemonLives, ClosedInactive, HavePid, Active, KernelEntry, GcEntry
<1>8. QED
  BY <1>2, <1>3, <1>4, <1>5, <1>6, <1>7

LEMMA CollectorCounts ==
  ASSUME LifeInv, task_count' \in 0 .. CountLimit - 1,
         UNCHANGED <<flags, pid, pid_parent, asleep, saved, task_id, lockVars, cpuVars>>
  PROVE  LifeInv'
<1> USE DEF LifeInv, SchedInv, lockVars, cpuVars
<1>1. TypeOK'
  BY DEF TypeOK
<1>2. Locks' /\ WordFresh' /\ MarkedReady' /\ BuildersApart' /\ KernelApart'
  BY DEF Locks, Scanning, Adding, WordFresh, MarkedReady, Marking, BuildersApart,
         Claiming, Building, KernelApart, Inside
<1>3. OneCpuPerTask' /\ ExecMeansOwned' /\ ContextKept'
  BY DEF OneCpuPerTask, Owns, ExecMeansOwned, ContextKept, ResumesSavedContext
<1>4. UsedSecured' /\ Numbered' /\ ProgramsCall' /\ RunsActive' /\ Adopted'
  BY DEF UsedSecured, Numbered, PidsUnique, ProgramsCall, Program, Active, RunsActive,
         Running, Calling, Adopted
<1>5. DaemonLives' /\ ClosedInactive' /\ HavePid'
  BY DEF DaemonLives, ClosedInactive, HavePid, Active
<1>6. QED
  BY <1>1, <1>2, <1>3, <1>4, <1>5

-----------------------------------------------------------------------------
(* The calls of child().                                                   *)
Frame == [parent : Nat, at : 0 .. TaskLimit]

LEMMA LastCall ==
  ASSUME DaemonTypes, frames # <<>>
  PROVE  /\ Len(frames) \in Nat \ {0} /\ frames[Len(frames)] \in Frame
         /\ At = frames[Len(frames)].at /\ At \in 0 .. TaskLimit
<1>1. frames \in Seq(Frame)
  BY DEF DaemonTypes, Frame
<1>2. Len(frames) \in Nat \ {0} /\ frames[Len(frames)] \in Frame
  BY <1>1
<1>3. QED
  BY <1>2 DEF Last, At, Frame

LEMMA AdvanceIs ==
  ASSUME DaemonTypes, frames # <<>>, At < TaskLimit, Advance
  PROVE  /\ frames' \in Seq(Frame) /\ Len(frames') = Len(frames)
         /\ \A i \in 1 .. Len(frames) : frames'[i].parent = frames[i].parent
         /\ \A i \in 1 .. Len(frames) - 1 : frames'[i] = frames[i]
         /\ frames'[Len(frames)].at = At + 1
<1> DEFINE n == Len(frames)
<1>1. frames \in Seq(Frame) /\ n \in Nat \ {0} /\ frames[n] \in Frame
      /\ At = frames[n].at /\ At \in 0 .. TaskLimit
  BY LastCall DEF DaemonTypes, Frame
<1>2. frames' = [frames EXCEPT ![n] = [frames[n] EXCEPT !.at = At + 1]]
  BY <1>1 DEF Advance
<1>3. ASSUME NEW f \in Frame, NEW k \in 0 .. TaskLimit
      PROVE  /\ [f EXCEPT !.at = k] \in Frame
             /\ [f EXCEPT !.at = k].at = k /\ [f EXCEPT !.at = k].parent = f.parent
  BY DEF Frame
<1>4. frames' \in Seq(Frame) /\ Len(frames') = n
  <2>1. At + 1 \in 0 .. TaskLimit
    BY <1>1, LimitAssumption
  <2>2. [frames[n] EXCEPT !.at = At + 1] \in Frame
    BY <1>1, <1>3, <2>1
  <2>3. QED
    BY <1>1, <1>2, <2>2
<1>5. \A i \in 1 .. n :
        frames'[i] = IF i = n THEN [frames[n] EXCEPT !.at = At + 1] ELSE frames[i]
  BY <1>1, <1>2
<1>6. frames'[n].at = At + 1 /\ frames'[n].parent = frames[n].parent
  <2>1. frames'[n] = [frames[n] EXCEPT !.at = At + 1]
    BY <1>1, <1>5
  <2>2. At + 1 \in 0 .. TaskLimit
    BY <1>1, LimitAssumption
  <2>3. QED
    BY <1>1, <1>3, <2>1, <2>2
<1>7. QED
  BY <1>1, <1>4, <1>5, <1>6

LEMMA AppendIs ==
  ASSUME DaemonTypes, NEW f \in Frame, frames' = Append(frames, f)
  PROVE  /\ frames' \in Seq(Frame) /\ Len(frames') = Len(frames) + 1
         /\ \A i \in 1 .. Len(frames) : frames'[i] = frames[i]
         /\ frames'[Len(frames) + 1] = f
BY DEF DaemonTypes, Frame

LEMMA FrontIs ==
  ASSUME DaemonTypes, frames # <<>>, frames' = Front(frames)
  PROVE  /\ frames' \in Seq(Frame) /\ Len(frames') = Len(frames) - 1
         /\ \A i \in 1 .. Len(frames) - 1 : frames'[i] = frames[i]
         /\ frames' = <<>> <=> Len(frames) = 1
<1>1. frames \in Seq(Frame) /\ Len(frames) \in Nat \ {0}
  BY LastCall DEF DaemonTypes, Frame
<1>2. frames' = SubSeq(frames, 1, Len(frames) - 1)
  BY DEF Front
<1> DEFINE n == Len(frames) - 1
<1>3. n \in Nat /\ frames' = SubSeq(frames, 1, n) /\ \A i \in 1 .. n : frames[i] \in Frame
  BY <1>1, <1>2
<1>4. Len(frames) = 1 <=> n = 0
  BY <1>1
<1> HIDE DEF n
<1>5. /\ frames' \in Seq(Frame)
      /\ Len(frames') = IF 1 <= n THEN n - 1 + 1 ELSE 0
      /\ \A i \in 1 .. n - 1 + 1 : frames'[i] = frames[1 + i - 1]
  BY <1>3, SubSeqProperties
<1>6. Len(frames') = n /\ \A i \in 1 .. n : frames'[i] = frames[i]
  BY <1>3, <1>5
<1>7. frames' = <<>> <=> n = 0
  <2>1. frames' # <<>> => Len(frames') \in Nat \ {0}
    BY <1>5, EmptySeq
  <2>2. frames' = <<>> => Len(frames') = 0
    BY EmptySeq
  <2>3. QED
    BY <1>3, <1>6, <2>1, <2>2
<1>8. QED
  BY <1>4, <1>5, <1>6, <1>7 DEF n

(* The steps of tasks, while the daemon holds on to entries: those stay in *)
(* use, keep their identifier, and are not made active.                    *)
LEMMA HeldKept ==
  ASSUME OneProcessor, LifeInv, [Next]_vars, NEW t, Held(t)
  PROVE  /\ Held(t)' /\ pid'[t] = pid[t]
         /\ "active" \notin flags[t] => "active" \notin flags'[t]
<1> USE LimitAssumption
    DEF OneProcessor, LifeInv, SchedInv, TypeOK, WordFresh, Goto, Load, Store,
        Active, queueVars, lockVars, cpuVars, Held
<1> DEFINE Goal == /\ Held(t)' /\ pid'[t] = pid[t]
                   /\ "active" \notin flags[t] => "active" \notin flags'[t]
<1> SUFFICES Goal
  OBVIOUS
<1>1. ASSUME NEW c \in CPU, KernelTask(c) PROVE Goal
  BY <1>1
     DEF KernelTask, SaveContext, Release, SelectLock, ScanFound, ScanNext,
         MarkLoad, MarkStore, Switch, FirstLoad, FirstStore,
         UsedSecured, BuildersApart, Building, Claiming, MarkedReady, Marking
<1>2. ASSUME NEW c \in CPU, ExitSteps(c) \/ Timer(c) \/ Call(c) PROVE Goal
  BY <1>2
     DEF ExitSteps, ExitClose, ExitLoad, ExitRetire, Timer, Call, Exit,
         Sleep, Exec,
         UsedSecured, BuildersApart, Building, Claiming, MarkedReady, Marking
<1>3. ASSUME NEW c \in CPU, TaskAdd(c) PROVE Goal
  BY <1>3
     DEF TaskAdd, AddLock, AddClaim, AddFull, AddSecure, AddPid, AddParent,
         AddCount, BuildFails, Build, Activate,
         UsedSecured, BuildersApart, Building, Claiming, MarkedReady, Marking
<1>4. ASSUME Tick \/ UNCHANGED vars PROVE Goal
  BY <1>4
     DEF Tick, vars,
         UsedSecured, BuildersApart, Building, Claiming, MarkedReady, Marking
<1>5. QED
  BY <1>1, <1>2, <1>3, <1>4 DEF Next, InKernel

(* An entry that becomes active is the child of the active task that       *)
(* started it.                                                             *)
LEMMA Activation ==
  ASSUME OneProcessor, LifeInv, [Next]_vars,
         NEW t \in Entry, "active" \in flags'[t]
  PROVE  /\ pid_parent'[t] = pid_parent[t]
         /\ \/ "active" \in flags[t]
            \/ /\ pid_parent[t] = pid[Active(BSP)]
               /\ "active" \in flags[Active(BSP)]
<1> USE LimitAssumption
    DEF OneProcessor, LifeInv, SchedInv, TypeOK, WordFresh, Goto, Load, Store,
        Active, queueVars, lockVars, cpuVars
<1> DEFINE Goal == /\ pid_parent'[t] = pid_parent[t]
                   /\ \/ "active" \in flags[t]
                      \/ /\ pid_parent[t] = pid[Active(BSP)]
                         /\ "active" \in flags[Active(BSP)]
<1> SUFFICES Goal
  OBVIOUS
<1>1. ASSUME NEW c \in CPU, KernelTask(c) PROVE Goal
  BY <1>1
     DEF KernelTask, SaveContext, Release, SelectLock, ScanFound, ScanNext,
         MarkLoad, MarkStore, Switch, FirstLoad, FirstStore,
         BuildersApart, Building, Claiming, MarkedReady, Marking,
         RunsActive, Running, Calling, Adopted, ProgramsCall, Program
<1>2. ASSUME NEW c \in CPU, ExitSteps(c) \/ Timer(c) \/ Call(c) PROVE Goal
  BY <1>2
     DEF ExitSteps, ExitClose, ExitLoad, ExitRetire, Timer, Call, Exit,
         Sleep, Exec,
         BuildersApart, Building, Claiming, MarkedReady, Marking,
         RunsActive, Running, Calling, Adopted, ProgramsCall, Program
<1>3. ASSUME NEW c \in CPU, TaskAdd(c) PROVE Goal
  BY <1>3
     DEF TaskAdd, AddLock, AddClaim, AddFull, AddSecure, AddPid, AddParent,
         AddCount, BuildFails, Build, Activate,
         BuildersApart, Building, Claiming, MarkedReady, Marking,
         RunsActive, Running, Calling, Adopted, ProgramsCall, Program
<1>4. ASSUME Tick \/ UNCHANGED vars PROVE Goal
  BY <1>4
     DEF Tick, vars,
         BuildersApart, Building, Claiming, MarkedReady, Marking,
         RunsActive, Running, Calling, Adopted, ProgramsCall, Program
<1>5. QED
  BY <1>1, <1>2, <1>3, <1>4 DEF Next, InKernel

(* The calls of child() while tasks run: nothing of what the daemon found  *)
(* is undone.                                                              *)
LEMMA DaemonSuspended ==
  ASSUME OneProcessor, ReaperInv, [Next]_vars, UNCHANGED gcVars
  PROVE  DaemonInv'
<1>1. LifeInv /\ DaemonInv
  BY DEF ReaperInv
<1>2. UNCHANGED <<gc, slot, frames, gcWord, gcTally>>
  BY DEF gcVars
<1>3. ASSUME NEW t, Held(t)
      PROVE  /\ Held(t)' /\ pid'[t] = pid[t]
             /\ "active" \notin flags[t] => "active" \notin flags'[t]
  BY <1>1, <1>3, HeldKept
<1>4. DaemonTypes'
  BY <1>1, <1>2 DEF DaemonInv, DaemonTypes
<1>5. FramesHeld'
  <2>1. \A i \in 1 .. Len(frames) : i < Len(frames) \/ Handling => Held(frames[i].at)'
    BY <1>1, <1>2, <1>3 DEF DaemonInv, FramesHeld
  <2>2. QED
    BY <1>1, <1>2, <2>1 DEF DaemonInv, FramesHeld, Descending, Handling, Closing
<1>6. Closing => Held(At)
  BY <1>1, LastCall DEF DaemonInv, FramesHeld, Descending, Handling
<1>7. WordSafe'
  BY <1>1, <1>2, <1>3, <1>6 DEF DaemonInv, WordSafe, Closing, At
<1>8. SlotHeld'
  <2>1. Descending => gc \notin {"look", "discount", "discounted"}
    BY DEF Descending, Handling, Closing
  <2>2. QED
    BY <1>1, <1>2, <1>3, <2>1
       DEF DaemonInv, SlotHeld, Descending, Handling, Closing
<1>9. PassedInactive'
  <2>1. ASSUME NEW t \in Entry, pid_parent'[t] = pid'[slot],
               Descending \/ gc \in {"release", "free"},
               pid_parent[t] = pid[slot] => "active" \notin flags[t]
        PROVE  "active" \notin flags'[t]
    <3> SUFFICES ASSUME "active" \in flags'[t] PROVE FALSE
      OBVIOUS
    <3>1. Held(slot) /\ "active" \notin flags[slot]
      BY <1>1, <2>1 DEF DaemonInv, SlotHeld, Descending, Handling, Closing
    <3>2. pid_parent[t] = pid[slot]
      BY <1>1, <1>3, <2>1, <3>1, Activation
    <3>3. /\ pid_parent[t] = pid[Active(BSP)]
          /\ "active" \in flags[Active(BSP)]
      BY <1>1, <2>1, <3>2, Activation
    <3>4. pid[slot] # 0
      <4>1. \A c \in CPU : pc[c] = "identify" => entry[c] # slot
        BY <3>1 DEF Held, Building
      <4>2. QED
        BY <1>1, <3>1, <4>1 DEF Held, LifeInv, HavePid
    <3>5. Active(BSP) = slot
      <4>1. Active(BSP) \in Entry /\ slot \in Entry
        BY <1>1, <3>1, CpuAssumption DEF Held, LifeInv, SchedInv, TypeOK, Active
      <4>2. QED
        BY <1>1, <3>2, <3>3, <3>4, <4>1 DEF LifeInv, Numbered, PidsUnique
    <3>6. QED
      BY <3>1, <3>3, <3>5
  <2>2. Descending' = Descending /\ gc' = gc /\ slot' = slot
        /\ \A t : Passed(t)' = Passed(t)
    BY <1>2 DEF Descending, Handling, Closing, Passed
  <2>3. QED
    BY <1>1, <2>1, <2>2 DEF DaemonInv, PassedInactive
<1>10. QED
  BY <1>4, <1>5, <1>7, <1>8, <1>9 DEF DaemonInv

-----------------------------------------------------------------------------
(* A step of the daemon: no task is in a call meanwhile.                   *)
LEMMA InDaemon ==
  ASSUME OneProcessor, ReaperInv, Collecting
  PROVE  /\ pc[BSP] = "run" /\ Active(BSP) = GcEntry
         /\ \A t \in Entry \ {KernelEntry} : flags[t] # {} => pid[t] # 0
         /\ \A t \in Entry : "close" \in flags[t] =>
              t \notin {KernelEntry, GcEntry} /\ "active" \notin flags[t]
         /\ \A t \in Entry \ {GcEntry} : "exec" \notin flags[t]
         /\ \A t \in Entry : flags[t] # {} => "secured" \in flags[t]
<1> USE DEF OneProcessor, ReaperInv, LifeInv
<1>1. pc[BSP] = "run" /\ Active(BSP) = GcEntry
  BY DEF Collecting, Active
<1>2. \A t \in Entry \ {KernelEntry} : flags[t] # {} => pid[t] # 0
  BY <1>1 DEF HavePid
<1>3. \A t \in Entry : "close" \in flags[t] =>
        t \notin {KernelEntry, GcEntry} /\ "active" \notin flags[t]
  BY <1>1 DEF ClosedInactive, DaemonLives, SchedInv, KernelApart
<1>4. \A t \in Entry \ {GcEntry} : "exec" \notin flags[t]
  BY <1>1 DEF SchedInv, ExecMeansOwned, Owns, Active
<1>5. QED
  BY <1>1, <1>2, <1>3, <1>4 DEF UsedSecured

(* A step that leaves the entries alone leaves the tasks alone.            *)
LEMMA LooksOnly ==
  ASSUME ReaperInv, NEW from, NEW to, GcGoto(from, to), UNCHANGED <<flags, task_count>>
  PROVE  LifeInv' /\ \A t : Held(t)' <=> Held(t)
<1>1. LifeInv'
  BY CollectorCounts DEF ReaperInv, GcGoto, LifeInv, SchedInv, TypeOK
<1>2. \A t : Held(t)' <=> Held(t)
  BY DEF GcGoto, cpuVars, Held, Claiming, Building
<1>3. QED
  BY <1>1, <1>2

(* Nor does one that changes the flags of one entry, which stays in use.   *)
LEMMA StoreHolds ==
  ASSUME OneProcessor, ReaperInv, NEW from, NEW to, GcGoto(from, to),
         NEW t, Held(t), NEW f \in SUBSET Flag,
         "exec" \notin f, "active" \notin f, "secured" \in f,
         Store(t, f), UNCHANGED task_count
  PROVE  /\ LifeInv'
         /\ \A u : Held(u) => Held(u)'
         /\ \A u \in Entry : "active" \notin flags[u] => "active" \notin flags'[u]
         /\ "active" \notin flags'[t]
<1>1. t \in Entry \ {KernelEntry, GcEntry} /\ flags[t] # {}
  BY DEF Held
<1>2. \A u \in Entry : flags'[u] = IF u = t THEN f ELSE flags[u]
  BY <1>1 DEF Store, ReaperInv, LifeInv, SchedInv, TypeOK
<1>3. LifeInv'
  BY <1>1, CollectorStores DEF ReaperInv, GcGoto
<1>4. \A u : Held(u) => Held(u)'
  BY <1>2 DEF GcGoto, cpuVars, Held, Claiming, Building
<1>5. QED
  BY <1>1, <1>2, <1>3, <1>4

(* The search goes past an entry that is not closed.                       *)
LEMMA GcSkipStep ==
  ASSUME OneProcessor, ReaperInv, GcSkip PROVE ReaperInv'
<1>1. LifeInv' /\ \A t : Held(t)' <=> Held(t)
  BY LooksOnly DEF GcSkip
<1>2. slot' \in Entry
  BY LimitAssumption DEF ReaperInv, DaemonInv, DaemonTypes, GcSkip, Following, Entry
<1>3. DaemonInv'
  BY <1>1, <1>2
     DEF ReaperInv, DaemonInv, DaemonTypes, FramesHeld, WordSafe, SlotHeld,
         PassedInactive, Descending, Handling, Closing, GcSkip, GcGoto
<1>4. QED
  BY <1>1, <1>3 DEF ReaperInv

(* A closed entry: it is a task that is inactive and has an identifier.    *)
LEMMA GcFoundStep ==
  ASSUME OneProcessor, ReaperInv, GcFound PROVE ReaperInv'
<1>1. LifeInv' /\ \A t : Held(t)' <=> Held(t)
  BY LooksOnly DEF GcFound
<1>2. /\ gc = "look" /\ gc' = "child" /\ slot' = slot /\ slot \in Entry
      /\ "close" \in flags[slot] /\ flags' = flags /\ pid' = pid
      /\ gcWord' = gcWord /\ gcTally' = gcTally /\ Collecting
      /\ frames' = <<[parent |-> pid[slot], at |-> 0]>>
  BY DEF ReaperInv, DaemonInv, DaemonTypes, GcFound, GcGoto
<1>3. pid[slot] \in Nat /\ pid[slot] # 0 /\ Held(slot) /\ "active" \notin flags[slot]
  BY <1>2, InDaemon
     DEF Held, Claiming, Building, OneProcessor, ReaperInv, LifeInv, SchedInv, TypeOK
<1>4. frames' \in Seq(Frame) /\ Len(frames') = 1 /\ frames'[1].parent = pid[slot]
      /\ frames'[1].at = 0
  BY <1>2, <1>3, LimitAssumption DEF Frame
<1>5. DaemonTypes'
  BY <1>2, <1>4 DEF ReaperInv, DaemonInv, DaemonTypes, GcLabel, Frame
<1>6. FramesHeld' /\ WordSafe'
  BY <1>2, <1>3, <1>4 DEF FramesHeld, WordSafe, Descending, Handling, Closing
<1>7. SlotHeld' /\ PassedInactive'
  BY <1>1, <1>2, <1>3, <1>4
     DEF SlotHeld, PassedInactive, Passed, Descending, Handling, Closing, Entry
<1>8. QED
  BY <1>1, <1>5, <1>6, <1>7 DEF ReaperInv, DaemonInv

(* An entry that is not a child is passed.                                 *)
LEMMA ChildSkipStep ==
  ASSUME OneProcessor, ReaperInv, ChildSkip PROVE ReaperInv'
<1>1. LifeInv' /\ \A t : Held(t)' <=> Held(t)
  BY LooksOnly DEF ChildSkip
<1>2. /\ gc = "child" /\ gc' = "child" /\ Advance /\ At < TaskLimit /\ ~ IsChild(At)
      /\ UNCHANGED <<slot, flags, pid, pid_parent, gcWord, gcTally>>
      /\ LifeInv /\ DaemonInv /\ frames # <<>>
  BY DEF ReaperInv, DaemonInv, FramesHeld, Descending, ChildSkip, GcGoto
<1>3. /\ Len(frames) \in Nat \ {0} /\ frames' \in Seq(Frame) /\ Len(frames') = Len(frames)
      /\ \A i \in 1 .. Len(frames) : frames'[i].parent = frames[i].parent
      /\ \A i \in 1 .. Len(frames) - 1 : frames'[i] = frames[i]
      /\ frames'[Len(frames)].at = At + 1
      /\ At = frames[Len(frames)].at /\ At \in 0 .. TaskLimit
  BY <1>2, AdvanceIs, LastCall DEF DaemonInv
<1>4. DaemonTypes'
  BY <1>2, <1>3 DEF DaemonInv, DaemonTypes, Frame
<1>5. FramesHeld' /\ WordSafe' /\ SlotHeld'
  BY <1>1, <1>2, <1>3
     DEF DaemonInv, FramesHeld, WordSafe, SlotHeld, Descending, Handling, Closing
<1>6. PassedInactive'
  <2> SUFFICES ASSUME NEW t \in Entry, Passed(t)', pid_parent[t] = pid[slot]
               PROVE  "active" \notin flags[t]
    BY <1>2 DEF PassedInactive, Descending, Handling, Closing
  <2>1. CASE Passed(t)
    BY <1>2, <2>1 DEF DaemonInv, PassedInactive, Descending
  <2>2. CASE ~ Passed(t)
    <3>1. Len(frames) = 1 /\ t = At
      BY <1>2, <1>3, <2>2 DEF Passed, Closing, Entry
    <3>2. frames[1].parent = pid[slot] /\ Last(frames) = frames[1]
      BY <1>2, <3>1 DEF DaemonInv, SlotHeld, Descending, Last
    <3>3. QED
      BY <1>2, <3>1, <3>2 DEF IsChild
  <2>3. QED
    BY <2>1, <2>2
<1>7. QED
  BY <1>1, <1>4, <1>5, <1>6 DEF ReaperInv, DaemonInv

(* A child whose own children are to be closed first: an entry in use that *)
(* belongs to neither the kernel nor the collector, which have no parent.  *)
LEMMA ChildFoundStep ==
  ASSUME OneProcessor, ReaperInv, ChildFound PROVE ReaperInv'
<1>1. LifeInv' /\ \A t : Held(t)' <=> Held(t)
  BY LooksOnly DEF ChildFound
<1>2. /\ gc = "child" /\ gc' = "child" /\ At < TaskLimit /\ IsChild(At) /\ Collecting
      /\ frames' = Append(frames, [parent |-> pid[At], at |-> 0])
      /\ UNCHANGED <<slot, flags, pid, pid_parent, gcWord, gcTally>>
      /\ LifeInv /\ DaemonInv /\ frames # <<>>
  BY DEF ReaperInv, DaemonInv, FramesHeld, Descending, ChildFound, GcGoto
<1> DEFINE n == Len(frames)
<1>3. n \in Nat \ {0} /\ At = frames[n].at /\ At \in Entry /\ Last(frames) = frames[n]
  BY <1>2, LastCall, LimitAssumption DEF DaemonInv, Entry, Last
<1>4. At \notin {KernelEntry, GcEntry}
  BY <1>2, <1>3 DEF IsChild, DaemonInv, FramesHeld, LifeInv, DaemonLives
<1>5. Held(At) /\ pid[At] # 0 /\ pid[At] \in Nat
  BY <1>2, <1>3, <1>4, InDaemon
     DEF IsChild, Held, Claiming, Building, OneProcessor, LifeInv, SchedInv, TypeOK
<1>6. /\ frames' \in Seq(Frame) /\ Len(frames') = n + 1
      /\ \A i \in 1 .. n : frames'[i] = frames[i]
      /\ frames'[n + 1].parent = pid[At]
  <2>1. [parent |-> pid[At], at |-> 0] \in Frame
    BY <1>5, LimitAssumption DEF Frame
  <2>2. QED
    BY <1>2, <2>1, AppendIs DEF DaemonInv
<1> HIDE DEF n
<1>7. DaemonTypes'
  BY <1>2, <1>6 DEF DaemonInv, DaemonTypes, Frame
<1>8. FramesHeld'
  <2>1. \A i \in 1 .. n : i < n => Held(frames[i].at)
    BY <1>2 DEF n, DaemonInv, FramesHeld
  <2>2. \A i \in 1 .. n : Held(frames'[i].at)
    BY <1>3, <1>5, <1>6, <2>1
  <2>3. \A i \in 1 .. n + 1 : frames'[i].parent # 0
    BY <1>2, <1>3, <1>5, <1>6 DEF n, DaemonInv, FramesHeld
  <2>4. frames' # <<>>
    BY <1>3, <1>6, EmptySeq
  <2>5. QED
    BY <1>1, <1>2, <1>3, <1>6, <2>2, <2>3, <2>4
       DEF FramesHeld, Descending, Handling, Closing
<1>9. WordSafe' /\ SlotHeld' /\ PassedInactive'
  <2>1. frames'[1] = frames[1] /\ 1 \in 1 .. n
    BY <1>3, <1>6
  <2>2. \A t : Passed(t)' => Passed(t)
    BY <1>2, <2>1 DEF Passed, Closing
  <2>3. QED
    BY <1>1, <1>2, <2>1, <2>2
       DEF DaemonInv, WordSafe, SlotHeld, PassedInactive, Descending, Handling, Closing
<1>10. QED
  BY <1>1, <1>7, <1>8, <1>9 DEF ReaperInv, DaemonInv

(* The end of the queue: the outermost call has been past every entry.     *)
LEMMA ChildReturnStep ==
  ASSUME OneProcessor, ReaperInv, ChildReturn PROVE ReaperInv'
<1>1. LifeInv' /\ \A t : Held(t)' <=> Held(t)
  BY LooksOnly DEF ChildReturn
<1>2. /\ gc = "child" /\ gc' = (IF Len(frames) = 1 THEN "release" ELSE "retire")
      /\ At = TaskLimit /\ frames' = Front(frames)
      /\ UNCHANGED <<slot, flags, pid, pid_parent, gcWord, gcTally>>
      /\ LifeInv /\ DaemonInv /\ frames # <<>>
  BY DEF ReaperInv, DaemonInv, FramesHeld, Descending, ChildReturn, GcGoto
<1> DEFINE n == Len(frames)
<1>3. n \in Nat \ {0} /\ At = frames[n].at
  BY <1>2, LastCall DEF DaemonInv
<1>4. /\ frames' \in Seq(Frame) /\ Len(frames') = n - 1
      /\ \A i \in 1 .. n - 1 : frames'[i] = frames[i]
      /\ frames' = <<>> <=> n = 1
  BY <1>2, FrontIs DEF DaemonInv
<1> HIDE DEF n
<1>5. DaemonTypes'
  BY <1>2, <1>4 DEF DaemonInv, DaemonTypes, Frame, GcLabel
<1>6. FramesHeld'
  <2>1. \A i \in 1 .. n - 1 : Held(frames'[i].at) /\ frames'[i].parent # 0
    <3>1. /\ \A i \in 1 .. n : frames[i].parent # 0
          /\ \A i \in 1 .. n : i < n \/ Handling => Held(frames[i].at)
      BY <1>2 DEF n, DaemonInv, FramesHeld
    <3> TAKE i \in 1 .. n - 1
    <3>2. i \in 1 .. n /\ i < n /\ frames'[i] = frames[i]
      BY <1>3, <1>4
    <3>3. QED
      BY <3>1, <3>2
  <2>2. QED
    BY <1>1, <1>2, <1>4, <2>1 DEF n, FramesHeld, Descending, Handling, Closing
<1>7. WordSafe'
  BY <1>2 DEF WordSafe, Closing
<1>8. SlotHeld'
  <2>1. CASE n = 1
    BY <1>1, <1>2, <2>1 DEF n, DaemonInv, SlotHeld, Descending, Handling, Closing
  <2>2. CASE n # 1
    <3>1. frames'[1] = frames[1]
      BY <1>3, <1>4, <2>2
    <3>2. QED
      BY <1>1, <1>2, <2>2, <3>1 DEF n, DaemonInv, SlotHeld, Descending
  <2>3. QED
    BY <2>1, <2>2
<1>9. PassedInactive'
  <2>1. CASE n = 1
    <3>1. \A t \in Entry : Passed(t)
      BY <1>2, <1>3, <2>1, LimitAssumption DEF Passed, Entry
    <3>2. gc' = "release"
      BY <1>2, <2>1 DEF n
    <3>3. QED
      BY <1>2, <3>1, <3>2
         DEF DaemonInv, PassedInactive, Descending, Handling, Closing
  <2>2. CASE n # 1
    <3>1. frames'[1] = frames[1] /\ gc' = "retire"
      BY <1>2, <1>3, <1>4, <2>2 DEF n
    <3>2. \A t : Passed(t)' => Passed(t)
      BY <3>1 DEF Passed, Closing
    <3>3. QED
      BY <1>2, <3>1, <3>2 DEF DaemonInv, PassedInactive, Descending
  <2>3. QED
    BY <2>1, <2>2
<1>10. QED
  BY <1>1, <1>5, <1>6, <1>7, <1>8, <1>9 DEF ReaperInv, DaemonInv

(* The steps that load the flags of the child, or wait: the child, which   *)
(* no processor runs, is not marked.                                       *)
LEMMA ChildLoadsStep ==
  ASSUME OneProcessor, ReaperInv, ChildLoad \/ ChildReleased \/ ChildReload
  PROVE  ReaperInv'
<1>1. LifeInv' /\ \A t : Held(t)' <=> Held(t)
  BY LooksOnly DEF ChildLoad, ChildReleased, ChildReload
<1>2. /\ Handling /\ Handling' /\ (Closing' <=> Closing) /\ Collecting
      /\ UNCHANGED <<slot, frames, flags, pid, pid_parent, gcTally>>
      /\ gc' \in GcLabel \ {"look", "release", "free", "discount", "discounted"}
      /\ LifeInv /\ DaemonInv
  BY DEF ReaperInv, ChildLoad, ChildReleased, ChildReload, GcGoto, Handling, Closing,
         GcLabel
<1>3. Held(At) /\ At' = At
  BY <1>2, LastCall DEF DaemonInv, FramesHeld, Descending, At
<1>4. "secured" \in flags[At] /\ "exec" \notin flags[At] /\ flags[At] \in SUBSET Flag
  BY <1>2, <1>3, InDaemon DEF Held, LifeInv, SchedInv, TypeOK
<1>5. gcWord' \in SUBSET Flag
  BY <1>2, <1>4 DEF DaemonInv, DaemonTypes, ChildLoad, ChildReleased, ChildReload
<1>6. DaemonTypes'
  BY <1>2, <1>5 DEF DaemonInv, DaemonTypes
<1>7. FramesHeld' /\ SlotHeld' /\ PassedInactive'
  BY <1>1, <1>2
     DEF DaemonInv, FramesHeld, SlotHeld, PassedInactive, Passed, Descending, Handling,
         Closing
<1>8. WordSafe'
  BY <1>2, <1>3, <1>4
     DEF DaemonInv, WordSafe, Closing, ChildLoad, ChildReleased, ChildReload, GcGoto
<1>9. QED
  BY <1>1, <1>6, <1>7, <1>8 DEF ReaperInv, DaemonInv

(* The child can no longer be selected; "close" may be lost, and is set    *)
(* again.                                                                  *)
LEMMA ChildRetireStep ==
  ASSUME OneProcessor, ReaperInv, ChildRetire PROVE ReaperInv'
<1>1. /\ gc = "retired" /\ gc' = "wait" /\ GcGoto("retired", "wait")
      /\ Store(At, gcWord \ {"active"})
      /\ UNCHANGED <<slot, frames, pid, pid_parent, gcWord, gcTally, task_count>>
      /\ LifeInv /\ DaemonInv
  BY DEF ReaperInv, ChildRetire, GcGoto
<1>2. Held(At) /\ At' = At /\ At = frames[Len(frames)].at
  BY <1>1, LastCall DEF DaemonInv, FramesHeld, Descending, Handling, At
<1>3. /\ LifeInv'
      /\ \A u : Held(u) => Held(u)'
      /\ \A u \in Entry : "active" \notin flags[u] => "active" \notin flags'[u]
      /\ "active" \notin flags'[At]
  BY <1>1, <1>2, StoreHolds DEF DaemonInv, DaemonTypes, WordSafe
<1>4. DaemonTypes' /\ FramesHeld' /\ WordSafe'
  BY <1>1, <1>2, <1>3
     DEF DaemonInv, DaemonTypes, GcLabel, FramesHeld, WordSafe, Descending, Handling,
         Closing
<1>5. SlotHeld'
  BY <1>1, <1>3
     DEF DaemonInv, SlotHeld, Held, Descending, Handling, Closing
<1>6. PassedInactive'
  <2> SUFFICES ASSUME NEW t \in Entry, Passed(t)', pid_parent[t] = pid[slot]
               PROVE  "active" \notin flags'[t]
    BY <1>1 DEF PassedInactive
  <2>1. CASE Passed(t)
    BY <1>1, <1>3, <2>1 DEF DaemonInv, PassedInactive, Descending, Handling
  <2>2. CASE ~ Passed(t)
    BY <1>1, <1>2, <1>3, <2>2 DEF Passed
  <2>3. QED
    BY <2>1, <2>2
<1>7. QED
  BY <1>3, <1>4, <1>5, <1>6 DEF ReaperInv, DaemonInv

(* The child is closed; the search goes on behind it.                      *)
LEMMA ChildCloseStep ==
  ASSUME OneProcessor, ReaperInv, ChildClose PROVE ReaperInv'
<1>1. /\ gc = "closed" /\ gc' = "child" /\ GcGoto("closed", "child")
      /\ Store(At, gcWord \union {"close"}) /\ Advance
      /\ UNCHANGED <<slot, pid, pid_parent, gcWord, gcTally, task_count>>
      /\ LifeInv /\ DaemonInv /\ frames # <<>>
  BY DEF ReaperInv, DaemonInv, FramesHeld, Descending, Handling, Closing, ChildClose,
         GcGoto
<1> DEFINE n == Len(frames)
<1>2. Held(At) /\ n \in Nat \ {0} /\ At = frames[n].at /\ "active" \notin flags[At]
  BY <1>1, LastCall DEF DaemonInv, FramesHeld, WordSafe, Handling, Closing
<1>3. At < TaskLimit
  BY <1>2, LimitAssumption DEF Held, Entry
<1>4. /\ LifeInv'
      /\ \A u : Held(u) => Held(u)'
      /\ \A u \in Entry : "active" \notin flags[u] => "active" \notin flags'[u]
  <2>1. gcWord \union {"close"} \in SUBSET Flag
    BY <1>1 DEF DaemonInv, DaemonTypes, Flag
  <2>2. QED
    BY <1>1, <1>2, <2>1, StoreHolds DEF DaemonInv, WordSafe
<1>5. /\ frames' \in Seq(Frame) /\ Len(frames') = n
      /\ \A i \in 1 .. n : frames'[i].parent = frames[i].parent
      /\ \A i \in 1 .. n - 1 : frames'[i] = frames[i]
      /\ frames'[n].at = At + 1
  BY <1>1, <1>3, AdvanceIs DEF DaemonInv
<1> HIDE DEF n
<1>6. DaemonTypes' /\ WordSafe'
  BY <1>1, <1>5
     DEF DaemonInv, DaemonTypes, WordSafe, GcLabel, Frame, Closing
<1>7. FramesHeld'
  <2>1. \A i \in 1 .. n - 1 : Held(frames[i].at)'
    <3> SUFFICES ASSUME NEW i \in 1 .. n - 1 PROVE Held(frames[i].at)'
      OBVIOUS
    <3>1. Held(frames[i].at) /\ frames'[i] = frames[i]
      BY <1>1, <1>2, <1>5 DEF n, DaemonInv, FramesHeld
    <3>2. \A u : Held(u) => Held(u)'
      BY <1>4
    <3>3. \A u : frames'[i].at = u /\ Held(u)' => Held(frames[i].at)'
      BY DEF Held, Claiming, Building
    <3>4. QED
      BY <3>1, <3>2, <3>3
  <2>2. \A i \in 1 .. n : frames'[i].parent # 0
    BY <1>1, <1>5 DEF n, DaemonInv, FramesHeld
  <2>3. frames' # <<>>
    BY <1>2, <1>5, EmptySeq
  <2>4. QED
    BY <1>1, <1>2, <1>5, <2>1, <2>2, <2>3
       DEF FramesHeld, Descending, Handling, Closing
<1>8. SlotHeld'
  <2>1. frames'[1].parent = frames[1].parent
    BY <1>2, <1>5
  <2>2. QED
    BY <1>1, <1>4, <2>1
       DEF DaemonInv, SlotHeld, Held, Descending, Handling, Closing
<1>9. PassedInactive'
  <2> SUFFICES ASSUME NEW t \in Entry, Passed(t)', pid_parent[t] = pid[slot]
               PROVE  "active" \notin flags[t]
    BY <1>1, <1>4 DEF PassedInactive, Descending
  <2>1. CASE Passed(t)
    BY <1>1, <2>1 DEF DaemonInv, PassedInactive, Descending, Handling, Closing
  <2>2. CASE ~ Passed(t)
    <3>1. n = 1 /\ t = At
      BY <1>1, <1>2, <1>3, <1>5, <2>2 DEF Passed, Closing, Held, Entry
    <3>2. QED
      BY <1>2, <3>1
  <2>3. QED
    BY <2>1, <2>2
<1>10. QED
  BY <1>4, <1>6, <1>7, <1>8, <1>9 DEF ReaperInv, DaemonInv

(* The entry is emptied: no call of child() is left that could need it.    *)
LEMMA GcFreeStep ==
  ASSUME OneProcessor, ReaperInv, GcFree PROVE ReaperInv'
<1>1. /\ gc = "free" /\ gc' = "discount" /\ Store(slot, {}) /\ Collecting
      /\ UNCHANGED <<slot, frames, gcWord, gcTally, task_count>>
      /\ UNCHANGED <<pid, pid_parent, asleep, saved, task_id, lockVars, cpuVars>>
      /\ LifeInv /\ DaemonInv /\ Held(slot)
  BY DEF ReaperInv, DaemonInv, SlotHeld, GcFree, GcGoto
<1>2. LifeInv'
  <2>1. slot \in Entry \ {KernelEntry, GcEntry} /\ {} \in SUBSET Flag
    BY <1>1 DEF Held
  <2>2. QED
    BY <1>1, <2>1, CollectorStores
<1>3. frames = <<>>
  BY <1>1 DEF DaemonInv, FramesHeld, Descending, Handling, Closing
<1>4. DaemonTypes' /\ FramesHeld' /\ WordSafe' /\ SlotHeld' /\ PassedInactive'
  BY <1>1, <1>3
     DEF DaemonInv, DaemonTypes, GcLabel, FramesHeld, WordSafe, SlotHeld,
         PassedInactive, Descending, Handling, Closing
<1>5. QED
  BY <1>2, <1>4 DEF ReaperInv, DaemonInv

(* The other steps of entry().                                             *)
LEMMA GcRestStep ==
  ASSUME OneProcessor, ReaperInv, GcRelease \/ GcCountLoad \/ GcCountStore
  PROVE  ReaperInv'
<1>1. /\ UNCHANGED <<frames, flags, gcWord>>
      /\ UNCHANGED <<pid, pid_parent, asleep, saved, task_id, lockVars, cpuVars>>
      /\ LifeInv /\ DaemonInv
  BY DEF ReaperInv, GcRelease, GcCountLoad, GcCountStore, GcGoto
<1>2. /\ task_count' \in 0 .. CountLimit - 1 /\ gcTally' \in 0 .. CountLimit - 1
      /\ slot' \in Entry
  <2>1. task_count \in 0 .. CountLimit - 1 /\ gcTally \in 0 .. CountLimit - 1
        /\ slot \in Entry /\ (slot + 1) % TaskLimit \in Entry
    <3>1. task_count \in 0 .. CountLimit - 1 /\ gcTally \in 0 .. CountLimit - 1 /\ slot \in Entry
      BY <1>1 DEF DaemonInv, DaemonTypes, LifeInv, SchedInv, TypeOK
    <3>2. \A t \in Entry : (t + 1) % TaskLimit \in Entry
      BY LimitAssumption DEF Entry
    <3>3. QED
      BY <3>1, <3>2
  <2>2. CASE GcRelease \/ GcCountLoad
    BY <2>1, <2>2 DEF GcRelease, GcCountLoad
  <2>3. CASE GcCountStore
    <3>1. task_count' = (IF gcTally = 0 THEN CountLimit - 1 ELSE gcTally - 1)
          /\ slot' = (slot + 1) % TaskLimit /\ gcTally' = gcTally
      BY <2>3 DEF GcCountStore, Following
    <3>2. QED
      BY <2>1, <3>1, LimitAssumption, CountAssumption
  <2>4. QED
    BY <2>2, <2>3
<1>3. LifeInv'
  BY <1>1, <1>2, CollectorCounts
<1>4. \A t : Held(t)' <=> Held(t)
  BY <1>1 DEF cpuVars, Held, Claiming, Building
<1>5. DaemonInv'
  BY <1>1, <1>2, <1>4
     DEF DaemonInv, DaemonTypes, GcLabel, FramesHeld, WordSafe, SlotHeld,
         PassedInactive, Descending, Handling, Closing, GcRelease, GcCountLoad,
         GcCountStore, GcGoto
<1>6. QED
  BY <1>3, <1>5 DEF ReaperInv

-----------------------------------------------------------------------------
LEMMA ReaperInitial == ReaperInit => ReaperInv
<1> SUFFICES ASSUME ReaperInit PROVE ReaperInv
  OBVIOUS
<1>1. LifeInv
  BY LifeInit DEF ReaperInit
<1>2. gc = "look" /\ slot = 0 /\ frames = <<>> /\ gcWord = {} /\ gcTally = 0
  BY DEF ReaperInit
<1>3. 0 \in Entry /\ 0 \in 0 .. CountLimit - 1 /\ Len(frames) = 0
      /\ frames \in Seq([parent : Nat, at : 0 .. TaskLimit])
  BY <1>2, LimitAssumption, CountAssumption DEF Entry
<1>4. DaemonInv
  BY <1>2, <1>3
     DEF DaemonInv, DaemonTypes, GcLabel, FramesHeld, WordSafe, SlotHeld,
         PassedInactive, Descending, Handling, Closing
<1>5. QED
  BY <1>1, <1>4 DEF ReaperInv

LEMMA ReaperStep ==
  ASSUME OneProcessor PROVE ReaperInv /\ [ReaperNext]_rvars => ReaperInv'
<1> SUFFICES ASSUME ReaperInv, [ReaperNext]_rvars PROVE ReaperInv'
  OBVIOUS
<1>1. CASE Collect
  BY <1>1, GcSkipStep, GcFoundStep, ChildSkipStep, ChildFoundStep, ChildReturnStep,
     ChildLoadsStep, ChildRetireStep, ChildCloseStep, GcFreeStep, GcRestStep
     DEF Collect
<1>2. CASE [Next]_vars /\ UNCHANGED gcVars
  BY <1>2, LifeStep, DaemonSuspended DEF ReaperInv
<1>3. QED
  BY <1>1, <1>2 DEF ReaperNext, rvars

(* On one processor, and with a queue of any length, the collector and the *)
(* tasks it interleaves with keep the invariant.                           *)
THEOREM ReaperInvariant ==
  ASSUME OneProcessor PROVE ReaperSpec => []ReaperInv
  BY ReaperInitial, ReaperStep, PTL DEF ReaperSpec

(* Every variable of the collector and of the queue keeps its type.        *)
THEOREM ReaperTypes ==
  ASSUME OneProcessor PROVE ReaperSpec => []ReaperTypeOK
<1>1. ReaperInv => ReaperTypeOK
  BY DEF ReaperInv, LifeInv, SchedInv, DaemonInv, DaemonTypes, ReaperTypeOK
<1>2. QED
  BY <1>1, ReaperInvariant, PTL

(* When the entry of a task is emptied, none of its children can run, the  *)
(* ones included that it or they started while the collector was at work   *)
(* (gc.d.c:10-39, gc.d.c:47).                                              *)
THEOREM NoOrphansLeft ==
  ASSUME OneProcessor PROVE ReaperSpec => []NoOrphans
<1>1. ReaperInv => NoOrphans
  BY DEF ReaperInv, DaemonInv, PassedInactive, NoOrphans
<1>2. QED
  BY <1>1, ReaperInvariant, PTL

(* A closed task never executes its program again, whoever closed it       *)
(* (service.c:19-26, gc.d.c:29-35).                                        *)
THEOREM ClosedNeverRuns ==
  ASSUME OneProcessor PROVE ReaperSpec => []ClosedStaysOut
<1>1. ReaperInv => ClosedStaysOut
  <2> SUFFICES ASSUME ReaperInv, NEW c \in CPU, pc[c] = "run"
               PROVE  "close" \notin flags[Active(c)]
    BY DEF ClosedStaysOut
  <2>1. Active(c) \in Entry /\ c = BSP
    BY DEF ReaperInv, LifeInv, SchedInv, TypeOK, Active, OneProcessor
  <2>2. CASE Active(c) = KernelEntry
    BY <2>2 DEF ReaperInv, LifeInv, SchedInv, KernelApart
  <2>3. CASE Active(c) # KernelEntry
    BY <2>1, <2>3
       DEF ReaperInv, LifeInv, RunsActive, Running, ClosedInactive, OneProcessor
  <2>4. QED
    BY <2>2, <2>3
<1>2. QED
  BY <1>1, ReaperInvariant, PTL

(* The collector, which writes the flags of other tasks, neither loses the *)
(* mark of one that runs nor leaves one behind (gc.d.c:28-35).             *)
THEOREM CollectorKeepsMarks ==
  ASSUME OneProcessor PROVE ReaperSpec => []ExecMeansOwned
  BY ReaperInvariant, PTL DEF ReaperInv, LifeInv, SchedInv
=============================================================================
