-------------------------------- MODULE Task --------------------------------
(***************************************************************************)
(* The task queue of the kernel and its scheduler: kernel/task.c, and the  *)
(* services of kernel/service.c that change the queue (exit, sleep, exec   *)
(* and thread).                                                            *)
(*                                                                         *)
(* Each logical processor runs one entry of the queue.  A timer interrupt  *)
(* enters kernel_task with interrupts masked; system calls run with        *)
(* interrupts masked too, so a processor in the kernel is never preempted, *)
(* but all processors interleave.  A processor's position is pc[c]; a step *)
(* makes at most one access to memory that another processor writes.       *)
(* `flags |= f' and `flags &= ~f' carry no lock prefix, so each is a load  *)
(* (into word[c]) and a later store.                                       *)
(*                                                                         *)
(* kernel_service_sleep sets sleep to time_rtc + 1, so `sleep > time_rtc'  *)
(* is all there is to know of both: asleep[t].  The registers and stack of *)
(* a task are abstracted to saved[t]: whether its entry (rsp and context   *)
(* stack) holds the point at which the task is to be resumed.              *)
(***************************************************************************)
EXTENDS Naturals, FiniteSets

CONSTANTS
  CPU,        \* logical processors
  BSP,        \* the one the I/O APIC sends the clock interrupt to
  TaskLimit,  \* KERNEL_TASK_limit
  CountLimit, \* 2^64: task_count is a uint64_t
  None        \* no processor holds the lock

ASSUME CpuAssumption == BSP \in CPU /\ None \notin CPU
ASSUME LimitAssumption == TaskLimit \in Nat /\ TaskLimit >= 3
ASSUME CountAssumption == CountLimit \in Nat /\ CountLimit > TaskLimit

Entry == 0 .. TaskLimit - 1

(* The entries kernel_init fills: the kernel itself (what a processor runs *)
(* until its first task switch), the collector daemon, the first program.  *)
KernelEntry == 0
GcEntry     == 1
ShellEntry  == 2

Flag == {"active", "exec", "close", "module", "thread", "init", "secured"}

Label == {"run",                                     \* the task's own code
          "save", "release", "select", "scan", "mark", "marked", "switch",
          "first", "started",                                 \* kernel_task
          "close", "retire", "retired",               \* kernel_service_exit
          "add", "claim", "secure", "identify", "adopt", "count",
                                                          \* kernel_task_add
          "build", "activate"}          \* kernel_exec, kernel_service_thread

VARIABLES
  flags, pid, pid_parent, asleep, saved,         \* the entries
  task_id, task_count,
  task_semaphore, task_cpu_semaphore,            \* who holds each spin lock
  task_cpu_address,                              \* entry each processor runs
  pc,
  entry,    \* the entry a processor scans (`entry', `t') or builds (`child')
  word,     \* what the processor loaded of a flags word it is to store back
  tally     \* what it loaded of task_id or task_count

queueVars == <<flags, pid, pid_parent, asleep, saved, task_id, task_count>>
lockVars  == <<task_semaphore, task_cpu_semaphore>>
cpuVars   == <<task_cpu_address, pc, entry, word, tally>>
vars      == <<queueVars, lockVars, cpuVars>>

TypeOK ==
  /\ flags \in [Entry -> SUBSET Flag]
  /\ pid \in [Entry -> Nat]
  /\ pid_parent \in [Entry -> Nat]
  /\ asleep \in [Entry -> BOOLEAN]
  /\ saved \in [Entry -> BOOLEAN]
  /\ task_id \in Nat
  /\ task_count \in 0 .. CountLimit - 1
  /\ task_semaphore \in CPU \union {None}
  /\ task_cpu_semaphore \in CPU \union {None}
  /\ task_cpu_address \in [CPU -> Entry]
  /\ pc \in [CPU -> Label]
  /\ entry \in [CPU -> 0 .. TaskLimit]
  /\ word \in [CPU -> SUBSET Flag]
  /\ tally \in [CPU -> Nat]

Booted == {KernelEntry, GcEntry, ShellEntry}

Init ==
  /\ flags = [t \in Entry |-> {f \in Flag :
       \/ f = "secured" /\ t \in Booted
       \/ f \in {"active", "init"} /\ t \in {GcEntry, ShellEntry}
       \/ f = "module" /\ t = GcEntry}]
  /\ pid = [t \in Entry |-> IF t \in Booted THEN t ELSE 0]
  /\ pid_parent = [t \in Entry |-> 0]
  /\ asleep = [t \in Entry |-> FALSE]
  /\ saved = [t \in Entry |-> t \in Booted]
  /\ task_id = 2
  /\ task_count = 3
  /\ task_semaphore = None
  /\ task_cpu_semaphore = None
  /\ task_cpu_address = [c \in CPU |-> KernelEntry]
  /\ pc = [c \in CPU |-> "run"]
  /\ entry = [c \in CPU |-> 0]
  /\ word = [c \in CPU |-> {}]
  /\ tally = [c \in CPU |-> 0]

-----------------------------------------------------------------------------
Goto(c, from, to) ==
  /\ pc[c] = from
  /\ pc' = [pc EXCEPT ![c] = to]

(* kernel_task_active: the entry this processor runs. *)
Active(c) == task_cpu_address[c]

(* The two halves of an update of the flags of entry t. *)
Load(c, t)  == word' = [word EXCEPT ![c] = flags[t]]
Store(t, f) == flags' = [flags EXCEPT ![t] = f]

-----------------------------------------------------------------------------
(* kernel_task: from the timer interrupt, or `int 0x20' at the end of exit *)
(* and sleep.                                                              *)

Timer(c) ==
  /\ Goto(c, "run", "save")
  /\ UNCHANGED <<queueVars, lockVars, task_cpu_address, entry, word, tally>>

(* Mutant: the stack pointer is not kept. *)
SaveContextLost(c) ==
  /\ Goto(c, "save", "release")
  /\ Load(c, Active(c))
  /\ UNCHANGED <<queueVars, lockVars, task_cpu_address, entry, tally>>

(* The stack pointer is private until "exec" is clear: saving it and       *)
(* loading the flags word are one step.                                    *)
SaveContext(c) ==
  /\ Goto(c, "save", "release")
  /\ saved' = [saved EXCEPT ![Active(c)] = TRUE]
  /\ Load(c, Active(c))
  /\ UNCHANGED <<flags, pid, pid_parent, asleep, task_id, task_count,
                 lockVars, task_cpu_address, entry, tally>>

(* Mutant: every scan starts at the beginning of the queue. *)
ReleaseFromStart(c) ==
  /\ Goto(c, "release", "select")
  /\ Store(Active(c), word[c] \ {"exec"})
  /\ entry' = [entry EXCEPT ![c] = 0]
  /\ UNCHANGED <<pid, pid_parent, asleep, saved, task_id, task_count,
                 lockVars, task_cpu_address, word, tally>>

(* Mutant: the mark is not taken back. *)
ReleaseKeepsExec(c) ==
  /\ Goto(c, "release", "select")
  /\ entry' = [entry EXCEPT ![c] = Active(c) + 1]
  /\ UNCHANGED <<queueVars, lockVars, task_cpu_address, word, tally>>

(* From here any processor may take the task, though this one goes on      *)
(* using the task's context stack until Switch.                            *)
Release(c) ==
  /\ Goto(c, "release", "select")
  /\ Store(Active(c), word[c] \ {"exec"})
  /\ entry' = [entry EXCEPT ![c] = Active(c) + 1]
  /\ UNCHANGED <<pid, pid_parent, asleep, saved, task_id, task_count,
                 lockVars, task_cpu_address, word, tally>>

(* kernel_task_select. *)
SelectLock(c) ==
  /\ Goto(c, "select", "scan")
  /\ task_cpu_semaphore = None
  /\ task_cpu_semaphore' = c
  /\ UNCHANGED <<queueVars, task_semaphore, task_cpu_address, entry, word, tally>>

(* Mutant: the scan forgets that a task may be running elsewhere. *)
ReadyEvenIfRunning(t) == "active" \in flags[t] /\ ~asleep[t]

Ready(t) ==
  /\ "active" \in flags[t]
  /\ "exec" \notin flags[t]
  /\ ~asleep[t]

ScanFound(c) ==
  /\ Goto(c, "scan", "mark")
  /\ entry[c] < TaskLimit
  /\ Ready(entry[c])
  /\ UNCHANGED <<queueVars, lockVars, task_cpu_address, entry, word, tally>>

ScanNext(c) ==
  /\ pc[c] = "scan"
  /\ entry[c] < TaskLimit => ~Ready(entry[c])
  /\ entry' = [entry EXCEPT ![c] = IF entry[c] < TaskLimit THEN @ + 1 ELSE 0]
  /\ UNCHANGED <<queueVars, lockVars, task_cpu_address, pc, word, tally>>

MarkLoad(c) ==
  /\ Goto(c, "mark", "marked")
  /\ Load(c, entry[c])
  /\ UNCHANGED <<queueVars, lockVars, task_cpu_address, entry, tally>>

MarkStore(c) ==
  /\ Goto(c, "marked", "switch")
  /\ Store(entry[c], word[c] \union {"exec"})
  /\ task_cpu_semaphore' = None
  /\ UNCHANGED <<pid, pid_parent, asleep, saved, task_id, task_count,
                 task_semaphore, task_cpu_address, entry, word, tally>>

(* Back in kernel_task: the stack, paging and interrupts of the new task. *)
Switch(c) ==
  /\ Goto(c, "switch", IF "init" \in flags[entry[c]] THEN "first" ELSE "run")
  /\ task_cpu_address' = [task_cpu_address EXCEPT ![c] = entry[c]]
  /\ saved' = [saved EXCEPT ![entry[c]] = FALSE]
  /\ UNCHANGED <<flags, pid, pid_parent, asleep, task_id, task_count,
                 lockVars, entry, word, tally>>

FirstLoad(c) ==
  /\ Goto(c, "first", "started")
  /\ Load(c, Active(c))
  /\ UNCHANGED <<queueVars, lockVars, task_cpu_address, entry, tally>>

FirstStore(c) ==
  /\ Goto(c, "started", "run")
  /\ Store(Active(c), word[c] \ {"init"})
  /\ UNCHANGED <<pid, pid_parent, asleep, saved, task_id, task_count,
                 lockVars, task_cpu_address, entry, word, tally>>

-----------------------------------------------------------------------------
(* System calls: any program may make them, the daemon makes none. *)
Program(c) == Active(c) \notin {KernelEntry, GcEntry}

(* kernel_service_exit: two updates of the flags, then `int 0x20'. *)
Exit(c) ==
  /\ Program(c)
  /\ Goto(c, "run", "close")
  /\ Load(c, Active(c))
  /\ UNCHANGED <<queueVars, lockVars, task_cpu_address, entry, tally>>

ExitClose(c) ==
  /\ Goto(c, "close", "retire")
  /\ Store(Active(c), word[c] \union {"close"})
  /\ UNCHANGED <<pid, pid_parent, asleep, saved, task_id, task_count,
                 lockVars, task_cpu_address, entry, word, tally>>

ExitLoad(c) ==
  /\ Goto(c, "retire", "retired")
  /\ Load(c, Active(c))
  /\ UNCHANGED <<queueVars, lockVars, task_cpu_address, entry, tally>>

ExitRetire(c) ==
  /\ Goto(c, "retired", "save")
  /\ Store(Active(c), word[c] \ {"active"})
  /\ UNCHANGED <<pid, pid_parent, asleep, saved, task_id, task_count,
                 lockVars, task_cpu_address, entry, word, tally>>

(* kernel_service_sleep *)
Sleep(c) ==
  /\ Program(c)
  /\ Goto(c, "run", "save")
  /\ asleep' = [asleep EXCEPT ![Active(c)] = TRUE]
  /\ UNCHANGED <<flags, pid, pid_parent, saved, task_id, task_count,
                 lockVars, task_cpu_address, entry, word, tally>>

(* driver_rtc: time_rtc++, on the BSP, when its interrupts are enabled. *)
Tick ==
  /\ pc[BSP] = "run"
  /\ \E t \in Entry : asleep[t]
  /\ asleep' = [t \in Entry |-> FALSE]
  /\ UNCHANGED <<flags, pid, pid_parent, saved, task_id, task_count,
                 lockVars, cpuVars>>

-----------------------------------------------------------------------------
(* kernel_exec and kernel_service_thread: kernel_task_add, then the address *)
(* space, then the entry becomes active.                                    *)

Exec(c) ==
  /\ Program(c)
  /\ Goto(c, "run", "add")
  /\ UNCHANGED <<queueVars, lockVars, task_cpu_address, entry, word, tally>>

(* Mutant: the queue is changed without its lock. *)
AddUnlocked(c) ==
  /\ Goto(c, "add", "claim")
  /\ UNCHANGED <<queueVars, lockVars, task_cpu_address, entry, word, tally>>

AddLock(c) ==
  /\ Goto(c, "add", "claim")
  /\ task_semaphore = None
  /\ task_semaphore' = c
  /\ UNCHANGED <<queueVars, task_cpu_semaphore, task_cpu_address, entry, word, tally>>

(* The scan reads one entry after another while others are released: it    *)
(* stops at an entry that is empty when it is read.                        *)
AddClaim(c) ==
  \E t \in Entry :
    /\ Goto(c, "claim", "secure")
    /\ flags[t] = {}
    /\ entry' = [entry EXCEPT ![c] = t]
    /\ UNCHANGED <<queueVars, lockVars, task_cpu_address, word, tally>>

AddSecure(c) ==
  /\ Goto(c, "secure", "identify")
  /\ Store(entry[c], {"secured"})
  /\ tally' = [tally EXCEPT ![c] = task_id]
  /\ UNCHANGED <<pid, pid_parent, asleep, saved, task_id, task_count,
                 lockVars, task_cpu_address, entry, word>>

AddFull(c) ==
  /\ Goto(c, "claim", "run")
  /\ \A t \in Entry : flags[t] # {}
  /\ task_semaphore' = None
  /\ UNCHANGED <<queueVars, task_cpu_semaphore, task_cpu_address, entry, word, tally>>

(* Mutant: task_id++ for ++task_id. *)
AddPidPostIncrement(c) ==
  /\ Goto(c, "identify", "adopt")
  /\ task_id' = tally[c] + 1
  /\ pid' = [pid EXCEPT ![entry[c]] = tally[c]]
  /\ UNCHANGED <<flags, pid_parent, asleep, saved, task_count,
                 lockVars, task_cpu_address, entry, word, tally>>

AddPid(c) ==
  /\ Goto(c, "identify", "adopt")
  /\ task_id' = tally[c] + 1
  /\ pid' = [pid EXCEPT ![entry[c]] = tally[c] + 1]
  /\ UNCHANGED <<flags, pid_parent, asleep, saved, task_count,
                 lockVars, task_cpu_address, entry, word, tally>>

AddParent(c) ==
  /\ Goto(c, "adopt", "count")
  /\ pid_parent' = [pid_parent EXCEPT ![entry[c]] = pid[Active(c)]]
  /\ tally' = [tally EXCEPT ![c] = task_count]
  /\ UNCHANGED <<flags, pid, asleep, saved, task_id, task_count,
                 lockVars, task_cpu_address, entry, word>>

AddCount(c) ==
  /\ Goto(c, "count", "build")
  /\ task_count' = (tally[c] + 1) % CountLimit
  /\ task_semaphore' = None
  /\ UNCHANGED <<flags, pid, pid_parent, asleep, saved, task_id,
                 task_cpu_semaphore, task_cpu_address, entry, word, tally>>

(* Out of memory after kernel_task_add: the entry stays "secured". *)
BuildFails(c) ==
  /\ Goto(c, "build", "run")
  /\ UNCHANGED <<queueVars, lockVars, task_cpu_address, entry, word, tally>>

Build(c) ==
  /\ Goto(c, "build", "activate")
  /\ saved' = [saved EXCEPT ![entry[c]] = TRUE]
  /\ Load(c, entry[c])
  /\ UNCHANGED <<flags, pid, pid_parent, asleep, task_id, task_count,
                 lockVars, task_cpu_address, entry, tally>>

Activate(c) ==
  \E kind \in {{}, {"thread"}} :
    /\ Goto(c, "activate", "run")
    /\ Store(entry[c], word[c] \union {"active", "init"} \union kind)
    /\ UNCHANGED <<pid, pid_parent, asleep, saved, task_id, task_count,
                   lockVars, task_cpu_address, entry, word, tally>>

-----------------------------------------------------------------------------
KernelTask(c) ==
  \/ SaveContext(c) \/ Release(c) \/ SelectLock(c)
  \/ ScanFound(c) \/ ScanNext(c) \/ MarkLoad(c) \/ MarkStore(c)
  \/ Switch(c) \/ FirstLoad(c) \/ FirstStore(c)

ExitSteps(c) == ExitClose(c) \/ ExitLoad(c) \/ ExitRetire(c)

TaskAdd(c) ==
  \/ AddLock(c) \/ AddClaim(c) \/ AddFull(c) \/ AddSecure(c)
  \/ AddPid(c) \/ AddParent(c) \/ AddCount(c) \/ BuildFails(c) \/ Build(c) \/ Activate(c)

(* What a processor in the kernel does next, and the calls of programs. *)
InKernel(c) == KernelTask(c) \/ ExitSteps(c) \/ TaskAdd(c)
Call(c)     == Exit(c) \/ Sleep(c) \/ Exec(c)

Next == Tick \/ \E c \in CPU : Timer(c) \/ InKernel(c) \/ Call(c)

Spec == Init /\ [][Next]_vars

(* A processor in the kernel keeps executing.  Its timer, reloaded by      *)
(* every switch, fires; an interrupt that comes while the processor is in  *)
(* a system call stays pending in the local APIC until the call returns,   *)
(* hence strong fairness.  Nothing is assumed of the spin locks: a         *)
(* processor may lose the race for one for ever.                           *)
Fairness == \A c \in CPU : WF_vars(InKernel(c)) /\ SF_vars(Timer(c))

FairSpec == Spec /\ Fairness
-----------------------------------------------------------------------------
(***************************************************************************)
(* Properties.                                                             *)
(***************************************************************************)

(* Processor c is the one the "exec" flag of entry t stands for: it has    *)
(* marked t and not yet stored the flags word that clears the mark.        *)
Owns(c, t) ==
  IF pc[c] \in {"select", "scan", "mark", "marked"} THEN FALSE
  ELSE IF pc[c] = "switch" THEN entry[c] = t
  ELSE task_cpu_address[c] = t /\ t # KernelEntry

(* kernel_task_select never gives a task to a second processor before the  *)
(* first has given it up (task.c:134-164 against task.c:14).               *)
OneCpuPerTask ==
  \A c, d \in CPU : \A t \in Entry : Owns(c, t) /\ Owns(d, t) => c = d

(* "exec" is set on exactly the entries a processor owns: no task is left  *)
(* marked, which would make it unselectable for ever and make the          *)
(* collector wait for it for ever (gc.d.c:32), and none runs unmarked.     *)
ExecMeansOwned ==
  \A t \in Entry : "exec" \in flags[t] <=> \E c \in CPU : Owns(c, t)

(* A processor only resumes a context that was saved completely: neither   *)
(* one that is still running elsewhere nor one never prepared              *)
(* (task.c:11 before task.c:14, exec.c:62 before exec.c:183).              *)
ResumesSavedContext ==
  \A c \in CPU : pc[c] = "switch" => saved[entry[c]]

(* Process identifiers name one entry: kernel_task_by_id (task.c:115-123)  *)
(* searches every entry, used or not, and takes the first that matches.    *)
PidsUnique ==
  \A t, u \in Entry : pid[t] = pid[u] /\ pid[t] # 0 => t = u

(* Whoever holds task_semaphore finds as many used entries as task_count   *)
(* says: kernel_service_task sizes its list by the count and fills it by   *)
(* the entries (service.c:258, service.c:265-285).                         *)
CountIsExact ==
  task_semaphore = None =>
    Cardinality({t \in Entry : flags[t] # {}}) = task_count

(* Two processors are never on the context stack of one task.  The comment *)
(* of task.c:13 has it that the task is free once "exec" is clear, but     *)
(* until Switch loads another stack pointer (task.c:23) the processor that *)
(* cleared it calls kernel_task_select on that stack.  The boot stacks of  *)
(* the kernel's own entry are not meant.                                   *)
StackExclusive ==
  \A c, d \in CPU :
    c # d /\ task_cpu_address[c] = task_cpu_address[d]
      => task_cpu_address[c] = KernelEntry

(* No task that can run waits for ever: the scan goes on from the entry    *)
(* after the one given up (task.c:17), so it passes every entry.           *)
ReadyTaskRuns ==
  \A t \in Entry :
    Ready(t) ~> \E c \in CPU : task_cpu_address[c] = t /\ pc[c] = "run"
=============================================================================
