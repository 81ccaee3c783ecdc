----------------------------- MODULE TaskProofs -----------------------------
(***************************************************************************)
(* Proofs about the scheduler, for any number of processors and entries.   *)
(* The inductive invariant is SchedInv: a loaded flags word is still the   *)
(* word in memory when it is stored back, because at every moment only one *)
(* processor may write an entry -- its owner, the holder of                *)
(* task_cpu_semaphore that is marking it, or the one that builds it.       *)
(***************************************************************************)
EXTENDS Task, FiniteSetTheorems, TLAPS

Scanning(c) == pc[c] \in {"scan", "mark", "marked"}
Marking(c)  == pc[c] \in {"mark", "marked"}
Adding(c)   == pc[c] \in {"claim", "secure", "identify", "adopt", "count"}
Claiming(c) == pc[c] = "secure"
Building(c) == pc[c] \in {"identify", "adopt", "count", "build", "activate"}

(* Labels a processor is at only while it runs a task of its own. *)
Inside(c) == pc[c] \in {"first", "started", "close", "retire", "retired",
                        "add", "claim", "secure", "identify", "adopt",
                        "count", "build", "activate"}

Locks ==
  /\ \A c \in CPU : Scanning(c) => task_cpu_semaphore = c
  /\ \A c \in CPU : Adding(c) => task_semaphore = c

(* No lost update: what was loaded is what the entry still holds. *)
WordFresh ==
  \A c \in CPU :
    /\ pc[c] \in {"release", "close", "retired", "started"}
         => word[c] = flags[task_cpu_address[c]]
    /\ pc[c] \in {"marked", "activate"} => word[c] = flags[entry[c]]

MarkedReady ==
  \A c \in CPU : Marking(c) =>
    /\ entry[c] \in Entry
    /\ "active" \in flags[entry[c]]
    /\ "exec" \notin flags[entry[c]]

BuildersApart ==
  /\ \A c \in CPU : Claiming(c) => entry[c] \in Entry /\ flags[entry[c]] = {}
  /\ \A c \in CPU : Building(c) =>
       /\ entry[c] \in Entry
       /\ flags[entry[c]] = {"secured"}
       /\ entry[c] # KernelEntry
  /\ \A c, d \in CPU :
       Building(c) /\ Building(d) /\ entry[c] = entry[d] => c = d

KernelApart ==
  /\ flags[KernelEntry] = {"secured"}
  /\ \A c \in CPU : Inside(c) => task_cpu_address[c] # KernelEntry
  /\ \A c \in CPU : pc[c] = "switch" =>
       entry[c] \in Entry /\ entry[c] # KernelEntry

ContextKept ==
  /\ \A t \in Entry :
       "active" \in flags[t] /\ "exec" \notin flags[t] => saved[t]
  /\ \A c \in CPU : pc[c] = "release" => saved[task_cpu_address[c]]
  /\ \A c \in CPU : pc[c] = "activate" => saved[entry[c]]
  /\ ResumesSavedContext

SchedInv ==
  /\ TypeOK /\ Locks /\ WordFresh /\ MarkedReady /\ BuildersApart
  /\ KernelApart /\ OneCpuPerTask /\ ExecMeansOwned /\ ContextKept

(* Init establishes the inductive invariant. *)
LEMMA SchedInit == Init => SchedInv
  <1> SUFFICES ASSUME Init PROVE SchedInv
    OBVIOUS
  <1> USE CpuAssumption, LimitAssumption, CountAssumption DEF Init
  <1>0. /\ KernelEntry \in Entry /\ GcEntry \in Entry /\ ShellEntry \in Entry
        /\ flags[KernelEntry] = {"secured"}
        /\ \A t \in Entry : "exec" \notin flags[t]
        /\ \A t \in Entry : "active" \in flags[t] => t \in Booted
    <2>1. KernelEntry \in Entry /\ GcEntry \in Entry /\ ShellEntry \in Entry
      BY DEF KernelEntry, GcEntry, ShellEntry, Entry
    <2>2. flags[KernelEntry] = {"secured"}
      BY <2>1 DEF KernelEntry, GcEntry, ShellEntry, Booted, Flag
    <2>3. \A t \in Entry : "exec" \notin flags[t]
      BY DEF Flag
    <2>4. \A t \in Entry : "active" \in flags[t] => t \in Booted
      BY DEF Booted
    <2>5. QED BY <2>1, <2>2, <2>3, <2>4
  <1>1. TypeOK
    <2>1. flags \in [Entry -> SUBSET Flag]
      OBVIOUS
    <2>2. pid \in [Entry -> Nat] /\ pid_parent \in [Entry -> Nat]
      BY DEF Booted, KernelEntry, GcEntry, ShellEntry
    <2>3. asleep \in [Entry -> BOOLEAN] /\ saved \in [Entry -> BOOLEAN]
      OBVIOUS
    <2>4. task_cpu_address \in [CPU -> Entry] /\ entry \in [CPU -> 0 .. TaskLimit]
      BY <1>0
    <2>5. pc \in [CPU -> Label]
      BY DEF Label
    <2>6. task_count \in 0 .. CountLimit - 1
      OBVIOUS
    <2>7. QED BY <2>1, <2>2, <2>3, <2>4, <2>5, <2>6 DEF TypeOK
  <1>2. Locks /\ WordFresh /\ MarkedReady /\ BuildersApart
    BY DEF Locks, WordFresh, MarkedReady, BuildersApart, Scanning, Marking,
           Adding, Building, Claiming
  <1>3. KernelApart
    BY <1>0 DEF KernelApart, Inside
  <1>4. \A c \in CPU, t \in Entry : ~ Owns(c, t)
    BY DEF Owns
  <1>5. OneCpuPerTask /\ ExecMeansOwned
    BY <1>0, <1>4 DEF OneCpuPerTask, ExecMeansOwned
  <1>6. ContextKept
    BY <1>0 DEF ContextKept, ResumesSavedContext
  <1>7. QED BY <1>1, <1>2, <1>3, <1>5, <1>6 DEF SchedInv

(* The entry after one of the queue is one more or the end of the queue.   *)
LEMMA EntryNext == \A t \in Entry : t \in 0 .. TaskLimit /\ t + 1 \in 0 .. TaskLimit
  BY LimitAssumption DEF Entry

(* A processor that owns an entry is alone with it: no other processor     *)
(* owns it, and none marks it or builds it.                                *)
LEMMA OwnerAlone ==
  ASSUME SchedInv, NEW c \in CPU, NEW t \in Entry, Owns(c, t)
  PROVE  /\ "exec" \in flags[t]
         /\ \A d \in CPU \ {c} : ~ Owns(d, t)
         /\ \A d \in CPU : Marking(d) => entry[d] \in Entry \ {t}
         /\ \A d \in CPU :
              Claiming(d) \/ Building(d) => entry[d] \in Entry \ {t}
  <1>1. "exec" \in flags[t]
    BY DEF SchedInv, ExecMeansOwned
  <1>2. \A d \in CPU \ {c} : ~ Owns(d, t)
    BY DEF SchedInv, OneCpuPerTask
  <1>3. \A d \in CPU : Marking(d) => entry[d] \in Entry \ {t}
    BY <1>1 DEF SchedInv, MarkedReady
  <1>4. \A d \in CPU : Claiming(d) \/ Building(d) => entry[d] \in Entry \ {t}
    BY <1>1 DEF SchedInv, BuildersApart
  <1>5. QED BY <1>1, <1>2, <1>3, <1>4

(* The processor that marks an entry is alone with it. *)
LEMMA MarkerAlone ==
  ASSUME SchedInv, NEW c \in CPU, Marking(c)
  PROVE  /\ entry[c] # KernelEntry
         /\ \A d \in CPU : ~ Owns(d, entry[c])
         /\ \A d \in CPU \ {c} : ~ Marking(d)
         /\ \A d \in CPU : Claiming(d) \/ Building(d) => entry[d] # entry[c]
  <1>1. entry[c] \in Entry /\ "active" \in flags[entry[c]] /\ "exec" \notin flags[entry[c]]
    BY DEF SchedInv, MarkedReady
  <1>2. entry[c] # KernelEntry
    BY <1>1 DEF SchedInv, KernelApart
  <1>3. \A d \in CPU : ~ Owns(d, entry[c])
    BY <1>1 DEF SchedInv, ExecMeansOwned
  <1>4. \A d \in CPU \ {c} : ~ Marking(d)
    BY DEF SchedInv, Locks, Scanning, Marking
  <1>5. \A d \in CPU : Claiming(d) \/ Building(d) => entry[d] # entry[c]
    BY <1>1 DEF SchedInv, BuildersApart
  <1>6. QED BY <1>2, <1>3, <1>4, <1>5

(* The processor that builds an entry is alone with it. *)
LEMMA BuilderAlone ==
  ASSUME SchedInv, NEW c \in CPU, Building(c)
  PROVE  /\ \A d \in CPU : ~ Owns(d, entry[c])
         /\ \A d \in CPU : Marking(d) => entry[d] # entry[c]
         /\ \A d \in CPU \ {c} :
              Claiming(d) \/ Building(d) => entry[d] # entry[c]
  <1>1. entry[c] \in Entry /\ flags[entry[c]] = {"secured"}
    BY DEF SchedInv, BuildersApart
  <1>2. \A d \in CPU : ~ Owns(d, entry[c])
    BY <1>1 DEF SchedInv, ExecMeansOwned
  <1>3. \A d \in CPU : Marking(d) => entry[d] # entry[c]
    BY <1>1 DEF SchedInv, MarkedReady
  <1>4. \A d \in CPU \ {c} : Claiming(d) \/ Building(d) => entry[d] # entry[c]
    BY <1>1 DEF SchedInv, BuildersApart
  <1>5. QED BY <1>2, <1>3, <1>4

-----------------------------------------------------------------------------
(* One lemma for each action: it keeps the inductive invariant. *)
USE CpuAssumption, LimitAssumption, CountAssumption
    DEF TypeOK, Goto, Active, Load, Store, queueVars, lockVars, KernelEntry,
        GcEntry, Program

(* The timer interrupt changes the position of the processor only.         *)
LEMMA TimerStep ==
  ASSUME SchedInv, NEW c \in CPU, Timer(c)
  PROVE  SchedInv'
  <1> USE DEF SchedInv, Timer
  <1>1. TypeOK'
    BY DEF Label, Flag, Entry, KernelApart
  <1>2. Locks'
    BY DEF Locks, Scanning, Adding
  <1>3. WordFresh'
    BY DEF WordFresh, MarkedReady, BuildersApart, ExecMeansOwned, Building,
           Marking, Locks, Scanning, KernelApart
  <1>4. MarkedReady'
    BY DEF MarkedReady, Marking, Ready, Entry
  <1>5. BuildersApart'
    BY DEF BuildersApart, Claiming, Building
  <1>6. KernelApart'
    BY DEF KernelApart, Inside
  <1>7. OneCpuPerTask'
    BY DEF OneCpuPerTask, Owns
  <1>8. ExecMeansOwned'
    BY DEF ExecMeansOwned, Owns
  <1>9. ContextKept'
    BY DEF ContextKept, ResumesSavedContext
  <1>10. QED
    BY <1>1, <1>2, <1>3, <1>4, <1>5, <1>6, <1>7, <1>8, <1>9

(* Saving the context makes the entry resumable; its owner is alone with   *)
(* it.                                                                     *)
LEMMA SaveContextStep ==
  ASSUME SchedInv, NEW c \in CPU, SaveContext(c)
  PROVE  SchedInv'
  <1> USE DEF SchedInv, SaveContext
  <1>1. TypeOK'
    BY DEF Label, Flag, Entry, KernelApart
  <1>2. Locks'
    BY DEF Locks, Scanning, Adding
  <1>3. WordFresh'
    BY DEF WordFresh, MarkedReady, BuildersApart, ExecMeansOwned, Building,
           Marking, Locks, Scanning, KernelApart
  <1>4. MarkedReady'
    BY DEF MarkedReady, Marking, Ready, Entry
  <1>5. BuildersApart'
    BY DEF BuildersApart, Claiming, Building
  <1>6. KernelApart'
    BY DEF KernelApart, Inside
  <1>7. OneCpuPerTask'
    BY DEF OneCpuPerTask, Owns
  <1>8. ExecMeansOwned'
    BY DEF ExecMeansOwned, Owns
  <1>9. ContextKept'
    BY DEF ContextKept, ResumesSavedContext
  <1>10. QED
    BY <1>1, <1>2, <1>3, <1>4, <1>5, <1>6, <1>7, <1>8, <1>9

(* Clearing "exec" gives the entry up: the word stored is the word in      *)
(* memory but for the mark.                                                *)
LEMMA ReleaseStep ==
  ASSUME SchedInv, NEW c \in CPU, Release(c)
  PROVE  SchedInv'
  <1> DEFINE t == task_cpu_address[c]
  <1> USE DEF SchedInv
  <1>1. /\ t \in Entry
        /\ pc[c] = "release" /\ pc' = [pc EXCEPT ![c] = "select"]
        /\ flags' = [flags EXCEPT ![t] = flags[t] \ {"exec"}]
        /\ entry' = [entry EXCEPT ![c] = t + 1]
        /\ UNCHANGED <<pid, pid_parent, asleep, saved, task_id, task_count,
                       task_semaphore, task_cpu_semaphore, task_cpu_address,
                       word, tally>>
    BY DEF WordFresh, Release, Goto, Store, Active, lockVars
  <1>2. t = KernelEntry => flags' = flags
    BY <1>1 DEF KernelApart
  <1>3. t # KernelEntry =>
          /\ \A d \in CPU \ {c} : ~ Owns(d, t)
          /\ \A d \in CPU : Marking(d) => entry[d] \in Entry \ {t}
          /\ \A d \in CPU : Claiming(d) \/ Building(d) => entry[d] \in Entry \ {t}
    BY <1>1, OwnerAlone DEF Owns
  <1>4. TypeOK'
    <2>1. flags' \in [Entry -> SUBSET Flag]
      BY <1>1
    <2>2. entry' \in [CPU -> 0 .. TaskLimit]
      BY <1>1, EntryNext
    <2>3. pc' \in [CPU -> Label]
      BY <1>1 DEF Label
    <2>4. QED BY <1>1, <2>1, <2>2, <2>3
  <1>5. Locks'
    BY <1>1 DEF Locks, Scanning, Adding
  <1>6. WordFresh'
    BY <1>1, <1>2, <1>3 DEF WordFresh, Marking, Building, Owns
  <1>7. MarkedReady'
    BY <1>1, <1>2, <1>3 DEF MarkedReady, Marking
  <1>8. BuildersApart'
    BY <1>1, <1>2, <1>3 DEF BuildersApart, Claiming, Building
  <1>9. KernelApart'
    BY <1>1, <1>2 DEF KernelApart, Inside
  <1>10. OneCpuPerTask'
    BY <1>1 DEF OneCpuPerTask, Owns
  <1>11. ExecMeansOwned'
    BY <1>1, <1>2, <1>3 DEF ExecMeansOwned, Owns
  <1>12. ContextKept'
    BY <1>1 DEF ContextKept, ResumesSavedContext
  <1>13. QED
    BY <1>4, <1>5, <1>6, <1>7, <1>8, <1>9, <1>10, <1>11, <1>12

(* Whoever takes the scheduler lock is alone in the scan.                  *)
LEMMA SelectLockStep ==
  ASSUME SchedInv, NEW c \in CPU, SelectLock(c)
  PROVE  SchedInv'
  <1> USE DEF SchedInv, SelectLock
  <1>1. TypeOK'
    BY DEF Label, Flag, Entry, KernelApart
  <1>2. Locks'
    BY DEF Locks, Scanning, Adding
  <1>3. WordFresh'
    BY DEF WordFresh, MarkedReady, BuildersApart, ExecMeansOwned, Building,
           Marking, Locks, Scanning, KernelApart
  <1>4. MarkedReady'
    BY DEF MarkedReady, Marking, Ready, Entry
  <1>5. BuildersApart'
    BY DEF BuildersApart, Claiming, Building
  <1>6. KernelApart'
    BY DEF KernelApart, Inside
  <1>7. OneCpuPerTask'
    BY DEF OneCpuPerTask, Owns
  <1>8. ExecMeansOwned'
    BY DEF ExecMeansOwned, Owns
  <1>9. ContextKept'
    BY DEF ContextKept, ResumesSavedContext
  <1>10. QED
    BY <1>1, <1>2, <1>3, <1>4, <1>5, <1>6, <1>7, <1>8, <1>9

(* An entry found ready is unmarked and, under the lock, stays so.         *)
LEMMA ScanFoundStep ==
  ASSUME SchedInv, NEW c \in CPU, ScanFound(c)
  PROVE  SchedInv'
  <1> USE DEF SchedInv, ScanFound
  <1>1. TypeOK'
    BY DEF Label, Flag, Entry, KernelApart
  <1>2. Locks'
    BY DEF Locks, Scanning, Adding
  <1>3. WordFresh'
    BY DEF WordFresh, MarkedReady, BuildersApart, ExecMeansOwned, Building,
           Marking, Locks, Scanning, KernelApart
  <1>4. MarkedReady'
    <2>1. entry[c] \in Entry
      BY DEF TypeOK, Entry, KernelApart
    <2>2. ASSUME NEW d \in CPU, Marking(d)'
          PROVE  /\ entry[d] \in Entry
                 /\ "active" \in flags[entry[d]] /\ "exec" \notin flags[entry[d]]
      <3>1. CASE d = c
        BY <2>1, <3>1 DEF Ready
      <3>2. CASE d # c
        BY <2>2, <3>2 DEF TypeOK, Marking, MarkedReady
      <3>3. QED
        BY <3>1, <3>2
    <2>3. QED
      BY <2>2 DEF MarkedReady
  <1>5. BuildersApart'
    BY DEF BuildersApart, Claiming, Building
  <1>6. KernelApart'
    BY DEF KernelApart, Inside
  <1>7. OneCpuPerTask'
    BY DEF OneCpuPerTask, Owns
  <1>8. ExecMeansOwned'
    BY DEF ExecMeansOwned, Owns
  <1>9. ContextKept'
    BY DEF ContextKept, ResumesSavedContext
  <1>10. QED
    BY <1>1, <1>2, <1>3, <1>4, <1>5, <1>6, <1>7, <1>8, <1>9

(* The scan moves within the queue.                                        *)
LEMMA ScanNextStep ==
  ASSUME SchedInv, NEW c \in CPU, ScanNext(c)
  PROVE  SchedInv'
  <1> USE DEF SchedInv, ScanNext
  <1>1. TypeOK'
    <2>1. entry' \in [CPU -> 0 .. TaskLimit]
      OBVIOUS
    <2>2. QED BY <2>1
  <1>2. Locks'
    BY DEF Locks, Scanning, Adding
  <1>3. WordFresh'
    BY DEF WordFresh, MarkedReady, BuildersApart, ExecMeansOwned, Building,
           Marking, Locks, Scanning, KernelApart
  <1>4. MarkedReady'
    BY DEF MarkedReady, Marking, Ready, Entry
  <1>5. BuildersApart'
    BY DEF BuildersApart, Claiming, Building
  <1>6. KernelApart'
    BY DEF KernelApart, Inside
  <1>7. OneCpuPerTask'
    BY DEF OneCpuPerTask, Owns
  <1>8. ExecMeansOwned'
    BY DEF ExecMeansOwned, Owns
  <1>9. ContextKept'
    BY DEF ContextKept, ResumesSavedContext
  <1>10. QED
    BY <1>1, <1>2, <1>3, <1>4, <1>5, <1>6, <1>7, <1>8, <1>9

(* The word is loaded under the lock.                                      *)
LEMMA MarkLoadStep ==
  ASSUME SchedInv, NEW c \in CPU, MarkLoad(c)
  PROVE  SchedInv'
  <1> USE DEF SchedInv, MarkLoad
  <1>1. TypeOK'
    BY DEF MarkedReady, Marking, Label, Flag
  <1>2. Locks'
    BY DEF Locks, Scanning, Adding
  <1>3. WordFresh'
    BY DEF WordFresh, MarkedReady, BuildersApart, ExecMeansOwned, Building,
           Marking, Locks, Scanning, KernelApart
  <1>4. MarkedReady'
    BY DEF MarkedReady, Marking, Ready, Entry
  <1>5. BuildersApart'
    BY DEF BuildersApart, Claiming, Building
  <1>6. KernelApart'
    BY DEF KernelApart, Inside
  <1>7. OneCpuPerTask'
    BY DEF OneCpuPerTask, Owns
  <1>8. ExecMeansOwned'
    BY DEF ExecMeansOwned, Owns
  <1>9. ContextKept'
    BY DEF ContextKept, ResumesSavedContext
  <1>10. QED
    BY <1>1, <1>2, <1>3, <1>4, <1>5, <1>6, <1>7, <1>8, <1>9

(* Marking makes the scanner the owner of an entry nobody owns.            *)
LEMMA MarkStoreStep ==
  ASSUME SchedInv, NEW c \in CPU, MarkStore(c)
  PROVE  SchedInv'
  <1> USE DEF SchedInv, MarkStore
  <1>0. /\ Marking(c) /\ entry[c] # KernelEntry
        /\ \A d \in CPU : ~ Owns(d, entry[c])
        /\ \A d \in CPU \ {c} : ~ Marking(d)
        /\ \A d \in CPU : Claiming(d) \/ Building(d) => entry[d] # entry[c]
    BY MarkerAlone DEF Marking
  <1>1. TypeOK'
    BY DEF Label, Flag, Entry, KernelApart
  <1>2. Locks'
    BY DEF Locks, Scanning, Adding
  <1>3. WordFresh'
    BY <1>0 DEF WordFresh, Marking, Building, Owns, MarkedReady
  <1>4. MarkedReady'
    BY <1>0 DEF MarkedReady, Marking
  <1>5. BuildersApart'
    BY <1>0 DEF BuildersApart, Claiming, Building, WordFresh, MarkedReady
  <1>6. KernelApart'
    BY <1>0 DEF KernelApart, Inside, MarkedReady, Marking
  <1>7. OneCpuPerTask'
    BY <1>0 DEF OneCpuPerTask, Owns
  <1>8. ExecMeansOwned'
    BY <1>0 DEF ExecMeansOwned, Owns
  <1>9. ContextKept'
    BY <1>0 DEF ContextKept, ResumesSavedContext, MarkedReady, Marking
  <1>10. QED
    BY <1>1, <1>2, <1>3, <1>4, <1>5, <1>6, <1>7, <1>8, <1>9

(* The owner resumes a saved context; the context is spent.                *)
LEMMA SwitchStep ==
  ASSUME SchedInv, NEW c \in CPU, Switch(c)
  PROVE  SchedInv'
  <1> USE DEF SchedInv, Switch
  <1> DEFINE t == entry[c]
  <1>0. /\ t \in Entry /\ t # KernelEntry
        /\ "exec" \in flags[t]
        /\ \A d \in CPU \ {c} : ~ Owns(d, t)
        /\ \A d \in CPU : Claiming(d) \/ Building(d) => entry[d] \in Entry \ {t}
    BY OwnerAlone DEF KernelApart, Owns
  <1>1. TypeOK'
    BY DEF Label, Flag, Entry, KernelApart
  <1>2. Locks'
    BY DEF Locks, Scanning, Adding
  <1>3. WordFresh'
    BY DEF WordFresh, MarkedReady, BuildersApart, ExecMeansOwned, Building,
           Marking, Locks, Scanning, KernelApart
  <1>4. MarkedReady'
    BY DEF MarkedReady, Marking, Ready, Entry
  <1>5. BuildersApart'
    BY DEF BuildersApart, Claiming, Building
  <1>6. KernelApart'
    BY DEF KernelApart, Inside
  <1>7. OneCpuPerTask'
    BY DEF OneCpuPerTask, Owns
  <1>8. ExecMeansOwned'
    BY <1>0 DEF ExecMeansOwned, Owns, KernelApart, Inside
  <1>9. ContextKept'
    BY <1>0 DEF ContextKept, ResumesSavedContext, Owns, Building
  <1>10. QED
    BY <1>1, <1>2, <1>3, <1>4, <1>5, <1>6, <1>7, <1>8, <1>9

(* The owner loads the word of its own entry.                              *)
LEMMA FirstLoadStep ==
  ASSUME SchedInv, NEW c \in CPU, FirstLoad(c)
  PROVE  SchedInv'
  <1> USE DEF SchedInv, FirstLoad
  <1>1. TypeOK'
    BY DEF Label, Flag, Entry, KernelApart
  <1>2. Locks'
    BY DEF Locks, Scanning, Adding
  <1>3. WordFresh'
    BY DEF WordFresh, MarkedReady, BuildersApart, ExecMeansOwned, Building,
           Marking, Locks, Scanning, KernelApart
  <1>4. MarkedReady'
    BY DEF MarkedReady, Marking, Ready, Entry
  <1>5. BuildersApart'
    BY DEF BuildersApart, Claiming, Building
  <1>6. KernelApart'
    BY DEF KernelApart, Inside
  <1>7. OneCpuPerTask'
    BY DEF OneCpuPerTask, Owns
  <1>8. ExecMeansOwned'
    BY DEF ExecMeansOwned, Owns
  <1>9. ContextKept'
    BY DEF ContextKept, ResumesSavedContext
  <1>10. QED
    BY <1>1, <1>2, <1>3, <1>4, <1>5, <1>6, <1>7, <1>8, <1>9

(* Clearing "init" leaves the mark alone.                                  *)
LEMMA FirstStoreStep ==
  ASSUME SchedInv, NEW c \in CPU, FirstStore(c)
  PROVE  SchedInv'
  <1> USE DEF SchedInv, FirstStore
  <1> DEFINE t == task_cpu_address[c]
  <1>0. /\ t # KernelEntry
        /\ "exec" \in flags[t]
        /\ \A d \in CPU \ {c} : ~ Owns(d, t)
        /\ \A d \in CPU : Marking(d) => entry[d] \in Entry \ {t}
        /\ \A d \in CPU : Claiming(d) \/ Building(d) => entry[d] \in Entry \ {t}
    BY OwnerAlone, t \in Entry DEF KernelApart, Inside, Owns
  <1>1. TypeOK'
    BY DEF Label, Flag, Entry, KernelApart
  <1>2. Locks'
    BY DEF Locks, Scanning, Adding
  <1>3. WordFresh'
    BY <1>0 DEF WordFresh, Marking, Building, Owns
  <1>4. MarkedReady'
    BY <1>0 DEF MarkedReady, Marking, Ready, Entry, WordFresh
  <1>5. BuildersApart'
    BY <1>0 DEF BuildersApart, Claiming, Building, WordFresh
  <1>6. KernelApart'
    BY DEF KernelApart, Inside
  <1>7. OneCpuPerTask'
    BY DEF OneCpuPerTask, Owns
  <1>8. ExecMeansOwned'
    BY <1>0 DEF ExecMeansOwned, Owns, WordFresh
  <1>9. ContextKept'
    BY <1>0 DEF ContextKept, ResumesSavedContext, WordFresh
  <1>10. QED
    BY <1>1, <1>2, <1>3, <1>4, <1>5, <1>6, <1>7, <1>8, <1>9

(* The owner loads the word of its own entry.                              *)
LEMMA ExitStep ==
  ASSUME SchedInv, NEW c \in CPU, Exit(c)
  PROVE  SchedInv'
  <1> USE DEF SchedInv, Exit
  <1>1. TypeOK'
    BY DEF Label, Flag, Entry, KernelApart
  <1>2. Locks'
    BY DEF Locks, Scanning, Adding
  <1>3. WordFresh'
    BY DEF WordFresh, MarkedReady, BuildersApart, ExecMeansOwned, Building,
           Marking, Locks, Scanning, KernelApart
  <1>4. MarkedReady'
    BY DEF MarkedReady, Marking, Ready, Entry
  <1>5. BuildersApart'
    BY DEF BuildersApart, Claiming, Building
  <1>6. KernelApart'
    BY DEF KernelApart, Inside
  <1>7. OneCpuPerTask'
    BY DEF OneCpuPerTask, Owns
  <1>8. ExecMeansOwned'
    BY DEF ExecMeansOwned, Owns
  <1>9. ContextKept'
    BY DEF ContextKept, ResumesSavedContext
  <1>10. QED
    BY <1>1, <1>2, <1>3, <1>4, <1>5, <1>6, <1>7, <1>8, <1>9

(* Setting "close" leaves the mark alone.                                  *)
LEMMA ExitCloseStep ==
  ASSUME SchedInv, NEW c \in CPU, ExitClose(c)
  PROVE  SchedInv'
  <1> USE DEF SchedInv, ExitClose
  <1> DEFINE t == task_cpu_address[c]
  <1>0. /\ t # KernelEntry
        /\ "exec" \in flags[t]
        /\ \A d \in CPU \ {c} : ~ Owns(d, t)
        /\ \A d \in CPU : Marking(d) => entry[d] \in Entry \ {t}
        /\ \A d \in CPU : Claiming(d) \/ Building(d) => entry[d] \in Entry \ {t}
    BY OwnerAlone, t \in Entry DEF KernelApart, Inside, Owns
  <1>1. TypeOK'
    BY DEF Label, Flag, Entry, KernelApart
  <1>2. Locks'
    BY DEF Locks, Scanning, Adding
  <1>3. WordFresh'
    BY <1>0 DEF WordFresh, Marking, Building, Owns
  <1>4. MarkedReady'
    BY <1>0 DEF MarkedReady, Marking, Ready, Entry, WordFresh
  <1>5. BuildersApart'
    BY <1>0 DEF BuildersApart, Claiming, Building, WordFresh
  <1>6. KernelApart'
    BY DEF KernelApart, Inside
  <1>7. OneCpuPerTask'
    BY DEF OneCpuPerTask, Owns
  <1>8. ExecMeansOwned'
    BY <1>0 DEF ExecMeansOwned, Owns, WordFresh
  <1>9. ContextKept'
    BY <1>0 DEF ContextKept, ResumesSavedContext, WordFresh
  <1>10. QED
    BY <1>1, <1>2, <1>3, <1>4, <1>5, <1>6, <1>7, <1>8, <1>9

(* The owner loads the word of its own entry.                              *)
LEMMA ExitLoadStep ==
  ASSUME SchedInv, NEW c \in CPU, ExitLoad(c)
  PROVE  SchedInv'
  <1> USE DEF SchedInv, ExitLoad
  <1>1. TypeOK'
    BY DEF Label, Flag, Entry, KernelApart
  <1>2. Locks'
    BY DEF Locks, Scanning, Adding
  <1>3. WordFresh'
    BY DEF WordFresh, MarkedReady, BuildersApart, ExecMeansOwned, Building,
           Marking, Locks, Scanning, KernelApart
  <1>4. MarkedReady'
    BY DEF MarkedReady, Marking, Ready, Entry
  <1>5. BuildersApart'
    BY DEF BuildersApart, Claiming, Building
  <1>6. KernelApart'
    BY DEF KernelApart, Inside
  <1>7. OneCpuPerTask'
    BY DEF OneCpuPerTask, Owns
  <1>8. ExecMeansOwned'
    BY DEF ExecMeansOwned, Owns
  <1>9. ContextKept'
    BY DEF ContextKept, ResumesSavedContext
  <1>10. QED
    BY <1>1, <1>2, <1>3, <1>4, <1>5, <1>6, <1>7, <1>8, <1>9

(* Clearing "active" leaves the mark alone.                                *)
LEMMA ExitRetireStep ==
  ASSUME SchedInv, NEW c \in CPU, ExitRetire(c)
  PROVE  SchedInv'
  <1> USE DEF SchedInv, ExitRetire
  <1> DEFINE t == task_cpu_address[c]
  <1>0. /\ t # KernelEntry
        /\ "exec" \in flags[t]
        /\ \A d \in CPU \ {c} : ~ Owns(d, t)
        /\ \A d \in CPU : Marking(d) => entry[d] \in Entry \ {t}
        /\ \A d \in CPU : Claiming(d) \/ Building(d) => entry[d] \in Entry \ {t}
    BY OwnerAlone, t \in Entry DEF KernelApart, Inside, Owns
  <1>1. TypeOK'
    BY DEF Label, Flag, Entry, KernelApart
  <1>2. Locks'
    BY DEF Locks, Scanning, Adding
  <1>3. WordFresh'
    BY <1>0 DEF WordFresh, Marking, Building, Owns
  <1>4. MarkedReady'
    BY <1>0 DEF MarkedReady, Marking, Ready, Entry, WordFresh
  <1>5. BuildersApart'
    BY <1>0 DEF BuildersApart, Claiming, Building, WordFresh
  <1>6. KernelApart'
    BY DEF KernelApart, Inside
  <1>7. OneCpuPerTask'
    BY DEF OneCpuPerTask, Owns
  <1>8. ExecMeansOwned'
    BY <1>0 DEF ExecMeansOwned, Owns, WordFresh
  <1>9. ContextKept'
    BY <1>0 DEF ContextKept, ResumesSavedContext, WordFresh
  <1>10. QED
    BY <1>1, <1>2, <1>3, <1>4, <1>5, <1>6, <1>7, <1>8, <1>9

(* Going to sleep does not touch the flags.                                *)
LEMMA SleepStep ==
  ASSUME SchedInv, NEW c \in CPU, Sleep(c)
  PROVE  SchedInv'
  <1> USE DEF SchedInv, Sleep
  <1>1. TypeOK'
    BY DEF Label, Flag, Entry, KernelApart
  <1>2. Locks'
    BY DEF Locks, Scanning, Adding
  <1>3. WordFresh'
    BY DEF WordFresh, MarkedReady, BuildersApart, ExecMeansOwned, Building,
           Marking, Locks, Scanning, KernelApart
  <1>4. MarkedReady'
    BY DEF MarkedReady, Marking, Ready, Entry
  <1>5. BuildersApart'
    BY DEF BuildersApart, Claiming, Building
  <1>6. KernelApart'
    BY DEF KernelApart, Inside
  <1>7. OneCpuPerTask'
    BY DEF OneCpuPerTask, Owns
  <1>8. ExecMeansOwned'
    BY DEF ExecMeansOwned, Owns
  <1>9. ContextKept'
    BY DEF ContextKept, ResumesSavedContext
  <1>10. QED
    BY <1>1, <1>2, <1>3, <1>4, <1>5, <1>6, <1>7, <1>8, <1>9

(* A program enters kernel_task_add.                                       *)
LEMMA ExecStep ==
  ASSUME SchedInv, NEW c \in CPU, Exec(c)
  PROVE  SchedInv'
  <1> USE DEF SchedInv, Exec
  <1>1. TypeOK'
    BY DEF Label, Flag, Entry, KernelApart
  <1>2. Locks'
    BY DEF Locks, Scanning, Adding
  <1>3. WordFresh'
    BY DEF WordFresh, MarkedReady, BuildersApart, ExecMeansOwned, Building,
           Marking, Locks, Scanning, KernelApart
  <1>4. MarkedReady'
    BY DEF MarkedReady, Marking, Ready, Entry
  <1>5. BuildersApart'
    BY DEF BuildersApart, Claiming, Building
  <1>6. KernelApart'
    BY DEF KernelApart, Inside
  <1>7. OneCpuPerTask'
    BY DEF OneCpuPerTask, Owns
  <1>8. ExecMeansOwned'
    BY DEF ExecMeansOwned, Owns
  <1>9. ContextKept'
    BY DEF ContextKept, ResumesSavedContext
  <1>10. QED
    BY <1>1, <1>2, <1>3, <1>4, <1>5, <1>6, <1>7, <1>8, <1>9

(* Whoever takes the queue lock is alone in kernel_task_add.               *)
LEMMA AddLockStep ==
  ASSUME SchedInv, NEW c \in CPU, AddLock(c)
  PROVE  SchedInv'
  <1> USE DEF SchedInv, AddLock
  <1>1. TypeOK'
    BY DEF Label, Flag, Entry, KernelApart
  <1>2. Locks'
    BY DEF Locks, Scanning, Adding
  <1>3. WordFresh'
    BY DEF WordFresh, MarkedReady, BuildersApart, ExecMeansOwned, Building,
           Marking, Locks, Scanning, KernelApart
  <1>4. MarkedReady'
    BY DEF MarkedReady, Marking, Ready, Entry
  <1>5. BuildersApart'
    BY DEF BuildersApart, Claiming, Building
  <1>6. KernelApart'
    BY DEF KernelApart, Inside
  <1>7. OneCpuPerTask'
    BY DEF OneCpuPerTask, Owns
  <1>8. ExecMeansOwned'
    BY DEF ExecMeansOwned, Owns
  <1>9. ContextKept'
    BY DEF ContextKept, ResumesSavedContext
  <1>10. QED
    BY <1>1, <1>2, <1>3, <1>4, <1>5, <1>6, <1>7, <1>8, <1>9

(* The entry found empty is nobody's.                                      *)
LEMMA AddClaimStep ==
  ASSUME SchedInv, NEW c \in CPU, AddClaim(c)
  PROVE  SchedInv'
  <1> USE DEF SchedInv, AddClaim
  <1>1. TypeOK'
    BY EntryNext DEF Label
  <1>2. Locks'
    BY DEF Locks, Scanning, Adding
  <1>3. WordFresh'
    BY DEF WordFresh, MarkedReady, BuildersApart, ExecMeansOwned, Building,
           Marking, Locks, Scanning, KernelApart
  <1>4. MarkedReady'
    BY DEF MarkedReady, Marking, Ready, Entry
  <1>5. BuildersApart'
    BY DEF BuildersApart, Claiming, Building
  <1>6. KernelApart'
    BY DEF KernelApart, Inside
  <1>7. OneCpuPerTask'
    BY DEF OneCpuPerTask, Owns
  <1>8. ExecMeansOwned'
    BY DEF ExecMeansOwned, Owns
  <1>9. ContextKept'
    BY DEF ContextKept, ResumesSavedContext
  <1>10. QED
    BY <1>1, <1>2, <1>3, <1>4, <1>5, <1>6, <1>7, <1>8, <1>9

(* The empty entry becomes secured: nobody owns, marks or builds it.       *)
LEMMA AddSecureStep ==
  ASSUME SchedInv, NEW c \in CPU, AddSecure(c)
  PROVE  SchedInv'
  <1> USE DEF SchedInv
  <1> DEFINE t == entry[c]
  <1>1. /\ t \in Entry /\ flags[t] = {}
        /\ pc[c] = "secure" /\ pc' = [pc EXCEPT ![c] = "identify"]
        /\ flags' = [flags EXCEPT ![t] = {"secured"}]
        /\ tally' = [tally EXCEPT ![c] = task_id]
        /\ UNCHANGED <<pid, pid_parent, asleep, saved, task_id, task_count,
                       task_semaphore, task_cpu_semaphore, task_cpu_address,
                       entry, word>>
    BY DEF AddSecure, BuildersApart, Claiming
  <1>2. /\ t # KernelEntry
        /\ \A d \in CPU : ~ Owns(d, t)
        /\ \A d \in CPU : Marking(d) => entry[d] \in Entry \ {t}
        /\ \A d \in CPU : Building(d) => entry[d] \in Entry \ {t}
        /\ \A d \in CPU \ {c} : ~ Claiming(d)
    BY <1>1 DEF KernelApart, Locks, Adding, Claiming,
           ExecMeansOwned, MarkedReady, BuildersApart
  <1>3. TypeOK'
    BY <1>1 DEF Label, Flag, Entry
  <1>4. Locks'
    BY <1>1 DEF Locks, Scanning, Adding
  <1>5. WordFresh'
    <2>1. \A d \in CPU : pc[d] \in {"release", "close", "retired", "started"}
            => flags'[task_cpu_address[d]] = flags[task_cpu_address[d]]
      BY <1>1, <1>2 DEF Owns
    <2>2. QED BY <1>1, <1>2, <2>1 DEF WordFresh, Marking, Building
  <1>6. MarkedReady'
    BY <1>1, <1>2 DEF MarkedReady, Marking
  <1>7. BuildersApart'
    BY <1>1, <1>2 DEF BuildersApart, Claiming, Building
  <1>8. KernelApart'
    BY <1>1, <1>2 DEF KernelApart, Inside
  <1>9. OneCpuPerTask'
    BY <1>1 DEF OneCpuPerTask, Owns
  <1>10. ExecMeansOwned'
    BY <1>1, <1>2 DEF ExecMeansOwned, Owns
  <1>11. ContextKept'
    BY <1>1, <1>2 DEF ContextKept, ResumesSavedContext, KernelApart
  <1>12. QED
    BY <1>3, <1>4, <1>5, <1>6, <1>7, <1>8, <1>9, <1>10, <1>11

(* No empty entry: the lock is given back.                                 *)
LEMMA AddFullStep ==
  ASSUME SchedInv, NEW c \in CPU, AddFull(c)
  PROVE  SchedInv'
  <1> USE DEF SchedInv, AddFull
  <1>1. TypeOK'
    BY DEF Label, Flag, Entry, KernelApart
  <1>2. Locks'
    BY DEF Locks, Scanning, Adding
  <1>3. WordFresh'
    BY DEF WordFresh, MarkedReady, BuildersApart, ExecMeansOwned, Building,
           Marking, Locks, Scanning, KernelApart
  <1>4. MarkedReady'
    BY DEF MarkedReady, Marking, Ready, Entry
  <1>5. BuildersApart'
    BY DEF BuildersApart, Claiming, Building
  <1>6. KernelApart'
    BY DEF KernelApart, Inside
  <1>7. OneCpuPerTask'
    BY DEF OneCpuPerTask, Owns
  <1>8. ExecMeansOwned'
    BY DEF ExecMeansOwned, Owns
  <1>9. ContextKept'
    BY DEF ContextKept, ResumesSavedContext
  <1>10. QED
    BY <1>1, <1>2, <1>3, <1>4, <1>5, <1>6, <1>7, <1>8, <1>9

(* The new entry is numbered.                                              *)
LEMMA AddPidStep ==
  ASSUME SchedInv, NEW c \in CPU, AddPid(c)
  PROVE  SchedInv'
  <1> USE DEF SchedInv, AddPid
  <1>1. TypeOK'
    <2>1. task_id' \in Nat /\ tally[c] + 1 \in Nat
      OBVIOUS
    <2>2. pid' \in [Entry -> Nat]
      BY <2>1
    <2>3. QED BY <2>1, <2>2 DEF Label
  <1>2. Locks'
    BY DEF Locks, Scanning, Adding
  <1>3. WordFresh'
    BY DEF WordFresh, MarkedReady, BuildersApart, ExecMeansOwned, Building,
           Marking, Locks, Scanning, KernelApart
  <1>4. MarkedReady'
    BY DEF MarkedReady, Marking, Ready, Entry
  <1>5. BuildersApart'
    BY DEF BuildersApart, Claiming, Building
  <1>6. KernelApart'
    BY DEF KernelApart, Inside
  <1>7. OneCpuPerTask'
    BY DEF OneCpuPerTask, Owns
  <1>8. ExecMeansOwned'
    BY DEF ExecMeansOwned, Owns
  <1>9. ContextKept'
    BY DEF ContextKept, ResumesSavedContext
  <1>10. QED
    BY <1>1, <1>2, <1>3, <1>4, <1>5, <1>6, <1>7, <1>8, <1>9

(* The new entry is adopted.                                               *)
LEMMA AddParentStep ==
  ASSUME SchedInv, NEW c \in CPU, AddParent(c)
  PROVE  SchedInv'
  <1> USE DEF SchedInv, AddParent
  <1>1. TypeOK'
    <2>1. task_count \in Nat
      OBVIOUS
    <2>2. pid_parent' \in [Entry -> Nat] /\ tally' \in [CPU -> Nat]
      BY <2>1
    <2>3. pc' \in [CPU -> Label]
      BY DEF Label
    <2>4. QED BY <2>2, <2>3
  <1>2. Locks'
    BY DEF Locks, Scanning, Adding
  <1>3. WordFresh'
    BY DEF WordFresh, MarkedReady, BuildersApart, ExecMeansOwned, Building,
           Marking, Locks, Scanning, KernelApart
  <1>4. MarkedReady'
    BY DEF MarkedReady, Marking, Ready, Entry
  <1>5. BuildersApart'
    BY DEF BuildersApart, Claiming, Building
  <1>6. KernelApart'
    BY DEF KernelApart, Inside
  <1>7. OneCpuPerTask'
    BY DEF OneCpuPerTask, Owns
  <1>8. ExecMeansOwned'
    BY DEF ExecMeansOwned, Owns
  <1>9. ContextKept'
    BY DEF ContextKept, ResumesSavedContext
  <1>10. QED
    BY <1>1, <1>2, <1>3, <1>4, <1>5, <1>6, <1>7, <1>8, <1>9

(* The new entry is counted and the lock given back.                       *)
LEMMA AddCountStep ==
  ASSUME SchedInv, NEW c \in CPU, AddCount(c)
  PROVE  SchedInv'
  <1> USE DEF SchedInv, AddCount
  <1>1. TypeOK'
    <2>1. task_count' \in 0 .. CountLimit - 1
      BY CountAssumption
    <2>2. QED BY <2>1 DEF Label
  <1>2. Locks'
    BY DEF Locks, Scanning, Adding
  <1>3. WordFresh'
    BY DEF WordFresh, MarkedReady, BuildersApart, ExecMeansOwned, Building,
           Marking, Locks, Scanning, KernelApart
  <1>4. MarkedReady'
    BY DEF MarkedReady, Marking, Ready, Entry
  <1>5. BuildersApart'
    BY DEF BuildersApart, Claiming, Building
  <1>6. KernelApart'
    BY DEF KernelApart, Inside
  <1>7. OneCpuPerTask'
    BY DEF OneCpuPerTask, Owns
  <1>8. ExecMeansOwned'
    BY DEF ExecMeansOwned, Owns
  <1>9. ContextKept'
    BY DEF ContextKept, ResumesSavedContext
  <1>10. QED
    BY <1>1, <1>2, <1>3, <1>4, <1>5, <1>6, <1>7, <1>8, <1>9

(* The builder gives up; the entry stays "secured".                        *)
LEMMA BuildFailsStep ==
  ASSUME SchedInv, NEW c \in CPU, BuildFails(c)
  PROVE  SchedInv'
  <1> USE DEF SchedInv, BuildFails
  <1>1. TypeOK'
    BY DEF Label, Flag, Entry, KernelApart
  <1>2. Locks'
    BY DEF Locks, Scanning, Adding
  <1>3. WordFresh'
    BY DEF WordFresh, MarkedReady, BuildersApart, ExecMeansOwned, Building,
           Marking, Locks, Scanning, KernelApart
  <1>4. MarkedReady'
    BY DEF MarkedReady, Marking, Ready, Entry
  <1>5. BuildersApart'
    BY DEF BuildersApart, Claiming, Building
  <1>6. KernelApart'
    BY DEF KernelApart, Inside
  <1>7. OneCpuPerTask'
    BY DEF OneCpuPerTask, Owns
  <1>8. ExecMeansOwned'
    BY DEF ExecMeansOwned, Owns
  <1>9. ContextKept'
    BY DEF ContextKept, ResumesSavedContext
  <1>10. QED
    BY <1>1, <1>2, <1>3, <1>4, <1>5, <1>6, <1>7, <1>8, <1>9

(* The context of the new entry is prepared.                               *)
LEMMA BuildStep ==
  ASSUME SchedInv, NEW c \in CPU, Build(c)
  PROVE  SchedInv'
  <1> USE DEF SchedInv, Build
  <1>1. TypeOK'
    BY DEF BuildersApart, Claiming, Building, Label
  <1>2. Locks'
    BY DEF Locks, Scanning, Adding
  <1>3. WordFresh'
    BY DEF WordFresh, MarkedReady, BuildersApart, ExecMeansOwned, Building,
           Marking, Locks, Scanning, KernelApart
  <1>4. MarkedReady'
    BY DEF MarkedReady, Marking, Ready, Entry
  <1>5. BuildersApart'
    BY DEF BuildersApart, Claiming, Building
  <1>6. KernelApart'
    BY DEF KernelApart, Inside
  <1>7. OneCpuPerTask'
    BY DEF OneCpuPerTask, Owns
  <1>8. ExecMeansOwned'
    BY DEF ExecMeansOwned, Owns
  <1>9. ContextKept'
    BY DEF ContextKept, ResumesSavedContext, BuildersApart, Building,
           KernelApart, Entry
  <1>10. QED
    BY <1>1, <1>2, <1>3, <1>4, <1>5, <1>6, <1>7, <1>8, <1>9

(* The builder hands the entry to the scheduler.                           *)
LEMMA ActivateStep ==
  ASSUME SchedInv, NEW c \in CPU, Activate(c)
  PROVE  SchedInv'
  <1> USE DEF SchedInv, Activate
  <1>0. /\ Building(c)
        /\ \A d \in CPU : ~ Owns(d, entry[c])
        /\ \A d \in CPU : Marking(d) => entry[d] # entry[c]
        /\ \A d \in CPU \ {c} :
             Claiming(d) \/ Building(d) => entry[d] # entry[c]
    BY BuilderAlone DEF Building
  <1>1. TypeOK'
    BY DEF BuildersApart, Claiming, Building, Label, Flag
  <1>2. Locks'
    BY DEF Locks, Scanning, Adding
  <1>3. WordFresh'
    BY <1>0 DEF WordFresh, Marking, Building, Owns, KernelApart, KernelEntry,
                BuildersApart
  <1>4. MarkedReady'
    <2>1. /\ pc' = [pc EXCEPT ![c] = "run"] /\ entry' = entry
          /\ \A t : t # entry[c] => flags'[t] = flags[t]
      BY DEF Goto, Store, TypeOK
    <2>2. MarkedReady /\ pc \in [CPU -> Label]
      BY DEF TypeOK
    <2>3. \A d \in CPU : Marking(d)' => Marking(d) /\ entry[d] # entry[c]
      BY <1>0, <2>1, <2>2 DEF Marking
    <2>4. QED
      BY <2>1, <2>2, <2>3 DEF MarkedReady
  <1>5. BuildersApart'
    BY <1>0 DEF BuildersApart, Claiming, Building, WordFresh
  <1>6. KernelApart'
    BY <1>0 DEF KernelApart, Inside, BuildersApart, Building, WordFresh
  <1>7. OneCpuPerTask'
    BY DEF OneCpuPerTask, Owns
  <1>8. ExecMeansOwned'
    BY <1>0 DEF ExecMeansOwned, Owns, BuildersApart, Building, WordFresh
  <1>9. ContextKept'
    BY DEF ContextKept, ResumesSavedContext
  <1>10. QED
    BY <1>1, <1>2, <1>3, <1>4, <1>5, <1>6, <1>7, <1>8, <1>9

(* The clock wakes the sleepers; nothing else changes.                     *)
LEMMA TickStep ==
  ASSUME SchedInv, Tick
  PROVE  SchedInv'
  <1> USE DEF SchedInv, Tick, cpuVars
  <1>1. TypeOK'
    OBVIOUS
  <1>2. Locks' /\ WordFresh' /\ MarkedReady' /\ BuildersApart' /\ KernelApart'
    BY DEF Locks, Scanning, Adding, WordFresh, MarkedReady, Marking,
           BuildersApart, Claiming, Building, KernelApart, Inside
  <1>3. OneCpuPerTask' /\ ExecMeansOwned' /\ ContextKept'
    BY DEF OneCpuPerTask, ExecMeansOwned, Owns, ContextKept,
           ResumesSavedContext
  <1>4. QED BY <1>1, <1>2, <1>3

(* The inductive invariant is kept by every step. *)
LEMMA SchedStep == SchedInv /\ [Next]_vars => SchedInv'
  <1> SUFFICES ASSUME SchedInv, [Next]_vars PROVE SchedInv'
    OBVIOUS
  <1>1. CASE UNCHANGED vars
    <2> USE <1>1 DEF SchedInv, vars, cpuVars
    <2>1. TypeOK'
      OBVIOUS
    <2>2. Locks' /\ WordFresh' /\ MarkedReady' /\ BuildersApart' /\ KernelApart'
      BY DEF Locks, Scanning, Adding, WordFresh, MarkedReady, Marking,
             BuildersApart, Claiming, Building, KernelApart, Inside
    <2>3. OneCpuPerTask' /\ ExecMeansOwned' /\ ContextKept'
      BY DEF OneCpuPerTask, ExecMeansOwned, Owns, ContextKept,
             ResumesSavedContext
    <2>4. QED BY <2>1, <2>2, <2>3
  <1>2. CASE Tick
    BY <1>2, TickStep
  <1>3. ASSUME NEW c \in CPU, Timer(c) \/ Call(c) PROVE SchedInv'
    BY <1>3, TimerStep, ExitStep, SleepStep, ExecStep DEF Call
  <1>4. ASSUME NEW c \in CPU, InKernel(c) PROVE SchedInv'
    <2>1. CASE KernelTask(c)
      BY <2>1, SaveContextStep, ReleaseStep, SelectLockStep,
         ScanFoundStep, ScanNextStep, MarkLoadStep, MarkStoreStep,
         SwitchStep, FirstLoadStep, FirstStoreStep DEF KernelTask
    <2>2. CASE ExitSteps(c)
      BY <2>2, ExitCloseStep, ExitLoadStep, ExitRetireStep DEF ExitSteps
    <2>3. CASE TaskAdd(c)
      BY <2>3, AddLockStep, AddClaimStep, AddFullStep, AddSecureStep,
         AddPidStep, AddParentStep, AddCountStep, BuildFailsStep,
         BuildStep, ActivateStep DEF TaskAdd
    <2>4. QED BY <1>4, <2>1, <2>2, <2>3 DEF InKernel
  <1>5. QED BY <1>1, <1>2, <1>3, <1>4 DEF Next

-----------------------------------------------------------------------------
(* Every reachable state of the scheduler satisfies the inductive          *)
(* invariant, for every number of processors and size of the queue.        *)
THEOREM SchedulerInvariant == Spec => []SchedInv
  BY SchedInit, SchedStep, PTL DEF Spec

(* Every variable keeps its type (the types of kernel/task.h). *)
THEOREM TypeCorrect == Spec => []TypeOK
  BY SchedulerInvariant, PTL DEF SchedInv

(* kernel_task_select never gives a task to a second processor before the  *)
(* first has given it up.                                                  *)
THEOREM TasksRunOnOneCpu == Spec => []OneCpuPerTask
  BY SchedulerInvariant, PTL DEF SchedInv

(* "exec" is set on exactly the entries some processor owns: flags updated *)
(* with no lock prefix lose no mark.                                       *)
THEOREM ExecFlagIsExact == Spec => []ExecMeansOwned
  BY SchedulerInvariant, PTL DEF SchedInv

(* A processor only resumes a context that was saved completely.           *)
THEOREM ResumesOnlySaved == Spec => []ResumesSavedContext
  <1>1. SchedInv => ResumesSavedContext
    BY DEF SchedInv, ContextKept
  <1>2. QED BY <1>1, SchedulerInvariant, PTL

-----------------------------------------------------------------------------
(***************************************************************************)
(* The bookkeeping of the task queue: identifiers name one entry and       *)
(* task_count counts the entries in use, whenever the queue is not locked. *)
(* The inductive invariant QueueInv says what is true while an entry is    *)
(* claimed but not yet numbered or counted.                                *)
(***************************************************************************)
Used == {t \in Entry : flags[t] # {}}

(* An entry in use is "secured": clearing another flag never frees it. *)
UsedSecured == \A t \in Entry : flags[t] # {} => "secured" \in flags[t]

Uncounted(c) == pc[c] \in {"identify", "adopt", "count"}

Counted ==
  /\ Cardinality(Used) =
       IF \E c \in CPU : Uncounted(c) THEN task_count + 1 ELSE task_count
  /\ \A c \in CPU : pc[c] = "count" => tally[c] = task_count

Numbered ==
  /\ \A t \in Entry : pid[t] <= task_id
  /\ \A c \in CPU : pc[c] = "identify" => tally[c] = task_id
  /\ PidsUnique

QueueInv == SchedInv /\ UsedSecured /\ Counted /\ Numbered

USE DEF Goto, Active, Store, Load, queueVars, lockVars, cpuVars

(* The actions of kernel_task_add that write what the bookkeeping is about. *)
Bookkeeping(c) == AddSecure(c) \/ AddPid(c) \/ AddParent(c) \/ AddCount(c)

(* Init establishes the inductive invariant: three entries, three tasks. *)
LEMMA QueueInit == Init => QueueInv
  <1> SUFFICES ASSUME Init PROVE QueueInv
    OBVIOUS
  <1>1. SchedInv
    BY SchedInit
  <1>2. Booted = {0, 1, 2} /\ Booted \subseteq Entry
    BY LimitAssumption
       DEF Booted, Entry, KernelEntry, GcEntry, ShellEntry
  <1>3. \A t \in Entry : /\ flags[t] # {} => "secured" \in flags[t]
                         /\ "secured" \in flags[t] <=> t \in Booted
    BY <1>2 DEF Init, Flag, KernelEntry, GcEntry, ShellEntry
  <1>4. Used = {0, 1} \cup {2}
    BY <1>2, <1>3 DEF Used
  <1>5. Cardinality(Used) = 3
    <2>1. IsFiniteSet({0}) /\ Cardinality({0}) = 1
      BY FS_Singleton
    <2>2. IsFiniteSet({0} \cup {1}) /\ Cardinality({0} \cup {1}) = 2
      BY <2>1, FS_AddElement, ~ 1 \in {0}
    <2>3. {0} \cup {1} = {0, 1}
      OBVIOUS
    <2>4. IsFiniteSet({0, 1}) /\ Cardinality({0, 1}) = 2
      BY <2>2, <2>3, Zenon
    <2>5. 2 \notin {0, 1}
      OBVIOUS
    <2>6. Cardinality({0, 1} \cup {2}) = Cardinality({0, 1}) + 1
      BY <2>4, <2>5, FS_AddElement, Zenon
    <2>7. Cardinality({0, 1} \cup {2}) = 3
      BY <2>4, <2>6
    <2>8. QED BY <2>7, <1>4
  <1>6. Counted
    BY <1>5 DEF Init, Counted, Uncounted
  <1>7. Numbered
    <2>1. \A t \in Entry : pid[t] = IF t \in {0, 1, 2} THEN t ELSE 0
      BY <1>2 DEF Init
    <2>2. task_id = 2 /\ \A c \in CPU : pc[c] = "run"
      BY DEF Init
    <2>3. \A t \in Entry : pid[t] <= task_id
      BY <2>1, <2>2
    <2>4. PidsUnique
      BY <2>1 DEF PidsUnique
    <2>5. QED BY <2>2, <2>3, <2>4 DEF Numbered
  <1>8. QED BY <1>1, <1>3, <1>6, <1>7 DEF QueueInv, UsedSecured

(* No step but AddSecure begins or ends the use of an entry.  A word that  *)
(* is stored is the word in memory (WordFresh) but for one other flag.     *)
LEMMA UseKept ==
  ASSUME SchedInv, UsedSecured, [Next]_vars, \A c \in CPU : ~ AddSecure(c)
  PROVE  Used' = Used /\ UsedSecured'
  <1> SUFFICES \A t \in Entry : /\ flags'[t] = {} <=> flags[t] = {}
                                /\ "secured" \in flags[t] => "secured" \in flags'[t]
    BY DEF Used, UsedSecured
  <1>1. ASSUME NEW c \in CPU, InKernel(c)
        PROVE  \A t \in Entry : /\ flags'[t] = {} <=> flags[t] = {}
                                /\ "secured" \in flags[t] => "secured" \in flags'[t]
    <2>1. CASE Release(c)
      BY <2>1 DEF Release, SchedInv, TypeOK, WordFresh, UsedSecured
    <2>2. CASE MarkStore(c)
      BY <2>2 DEF MarkStore, SchedInv, TypeOK, WordFresh, MarkedReady, Marking
    <2>3. CASE FirstStore(c)
      BY <2>3 DEF FirstStore, SchedInv, TypeOK, WordFresh, UsedSecured
    <2>4. CASE ExitClose(c)
      <3>1. flags[task_cpu_address[c]] # {}
        BY <2>4 DEF ExitClose, SchedInv, TypeOK, ExecMeansOwned, Owns,
                    KernelApart, Inside
      <3>2. QED BY <3>1, <2>4 DEF ExitClose, SchedInv, TypeOK, WordFresh
    <2>5. CASE ExitRetire(c)
      BY <2>5 DEF ExitRetire, SchedInv, TypeOK, WordFresh, UsedSecured
    <2>6. CASE Activate(c)
      <3>1. entry[c] \in Entry /\ flags[entry[c]] = {"secured"}
        BY <2>6 DEF Activate, SchedInv, BuildersApart, Building
      <3>2. word[c] = {"secured"}
        BY <3>1, <2>6 DEF Activate, SchedInv, WordFresh
      <3>3. PICK f : /\ flags' = [flags EXCEPT ![entry[c]] = f]
                     /\ "secured" \in f
        BY <3>2, <2>6 DEF Activate
      <3>4. QED BY <3>1, <3>3 DEF SchedInv, TypeOK
    <2>7. CASE UNCHANGED flags
      BY <2>7
    <2>8. QED
      BY <1>1, <2>1, <2>2, <2>3, <2>4, <2>5, <2>6, <2>7
         DEF InKernel, KernelTask, ExitSteps, TaskAdd, SaveContext, SelectLock,
             ScanFound, ScanNext, MarkLoad, Switch, FirstLoad, ExitLoad,
             AddLock, AddClaim, AddFull, AddPid, AddParent, AddCount,
             BuildFails, Build
  <1>2. CASE UNCHANGED flags
    BY <1>2
  <1>3. QED
    BY <1>1, <1>2 DEF Next, vars, Tick, Timer, Call, Exit, Sleep, Exec

(* Every other step leaves identifiers, counters and the positions within  *)
(* the bookkeeping alone.                                                  *)
LEMMA BooksKept ==
  ASSUME SchedInv, [Next]_vars, \A c \in CPU : ~ Bookkeeping(c)
  PROVE  /\ UNCHANGED <<pid, task_id, task_count, tally>>
         /\ \A d \in CPU : \A l \in {"identify", "adopt", "count"} :
              pc'[d] = l <=> pc[d] = l
  <1> USE DEF SchedInv, TypeOK
  <1>1. ASSUME NEW c \in CPU, KernelTask(c)
        PROVE  /\ UNCHANGED <<pid, task_id, task_count, tally>>
               /\ \A d \in CPU : \A l \in {"identify", "adopt", "count"} :
                    pc'[d] = l <=> pc[d] = l
    BY <1>1 DEF KernelTask, SaveContext, Release, SelectLock, ScanFound,
                ScanNext, MarkLoad, MarkStore, Switch, FirstLoad, FirstStore
  <1>2. ASSUME NEW c \in CPU, ExitSteps(c) \/ Timer(c) \/ Call(c)
        PROVE  /\ UNCHANGED <<pid, task_id, task_count, tally>>
               /\ \A d \in CPU : \A l \in {"identify", "adopt", "count"} :
                    pc'[d] = l <=> pc[d] = l
    BY <1>2 DEF ExitSteps, ExitClose, ExitLoad, ExitRetire, Timer, Call,
                Exit, Sleep, Exec
  <1>3. ASSUME NEW c \in CPU, TaskAdd(c)
        PROVE  /\ UNCHANGED <<pid, task_id, task_count, tally>>
               /\ \A d \in CPU : \A l \in {"identify", "adopt", "count"} :
                    pc'[d] = l <=> pc[d] = l
    BY <1>3 DEF TaskAdd, Bookkeeping, AddLock, AddClaim, AddFull, BuildFails,
                Build, Activate
  <1>4. QED
    BY <1>1, <1>2, <1>3 DEF Next, InKernel, Tick, vars

(* While one processor is at its books, no other is. *)
LEMMA BooksAlone ==
  ASSUME SchedInv, NEW c \in CPU, Adding(c)
  PROVE  \A d \in CPU \ {c} : ~ Adding(d)
  BY DEF SchedInv, Locks

(* What the steps of kernel_task_add that write the books do to them.      *)
LEMMA SecureBooks ==
  ASSUME SchedInv, NEW c \in CPU, AddSecure(c)
  PROVE  /\ pc[c] = "secure" /\ pc' = [pc EXCEPT ![c] = "identify"]
         /\ flags' = [flags EXCEPT ![entry[c]] = {"secured"}]
         /\ tally' = [tally EXCEPT ![c] = task_id]
         /\ UNCHANGED <<pid, task_id, task_count>>
         /\ entry[c] \in Entry /\ flags[entry[c]] = {}
         /\ \A d \in CPU \ {c} : ~ Adding(d)
  <1>1. Adding(c) /\ Claiming(c)
    BY DEF AddSecure, Adding, Claiming
  <1>2. QED BY <1>1, BooksAlone DEF AddSecure, SchedInv, BuildersApart

LEMMA PidBooks ==
  ASSUME SchedInv, NEW c \in CPU, AddPid(c)
  PROVE  /\ pc[c] = "identify" /\ pc' = [pc EXCEPT ![c] = "adopt"]
         /\ task_id' = tally[c] + 1
         /\ pid' = [pid EXCEPT ![entry[c]] = tally[c] + 1]
         /\ UNCHANGED <<flags, task_count, tally>>
         /\ entry[c] \in Entry
         /\ \A d \in CPU \ {c} : ~ Adding(d)
  <1>1. Adding(c) /\ Building(c)
    BY DEF AddPid, Adding, Building
  <1>2. QED BY <1>1, BooksAlone DEF AddPid, SchedInv, BuildersApart

LEMMA ParentBooks ==
  ASSUME SchedInv, NEW c \in CPU, AddParent(c)
  PROVE  /\ pc[c] = "adopt" /\ pc' = [pc EXCEPT ![c] = "count"]
         /\ tally' = [tally EXCEPT ![c] = task_count]
         /\ UNCHANGED <<flags, pid, task_id, task_count>>
         /\ \A d \in CPU \ {c} : ~ Adding(d)
  <1>1. Adding(c)
    BY DEF AddParent, Adding
  <1>2. QED BY <1>1, BooksAlone DEF AddParent

LEMMA CountBooks ==
  ASSUME SchedInv, NEW c \in CPU, AddCount(c)
  PROVE  /\ pc[c] = "count" /\ pc' = [pc EXCEPT ![c] = "build"]
         /\ task_count' = (tally[c] + 1) % CountLimit
         /\ UNCHANGED <<flags, pid, task_id, tally>>
         /\ \A d \in CPU \ {c} : ~ Adding(d)
  <1>1. Adding(c)
    BY DEF AddCount, Adding
  <1>2. QED BY <1>1, BooksAlone DEF AddCount

(* An entry in use stays "secured" in every step.                          *)
LEMMA SecuredStep ==
  ASSUME SchedInv, UsedSecured, [Next]_vars
  PROVE  UsedSecured'
  <1>1. CASE \A c \in CPU : ~ AddSecure(c)
    BY <1>1, UseKept
  <1>2. ASSUME NEW c \in CPU, AddSecure(c) PROVE UsedSecured'
    BY <1>2, SecureBooks DEF UsedSecured, SchedInv, TypeOK
  <1>3. QED BY <1>1, <1>2

(* Identifiers stay distinct in every step.                                *)
LEMMA NumberedStep ==
  ASSUME SchedInv, Numbered, [Next]_vars
  PROVE  Numbered'
  <1>1. CASE \A c \in CPU : ~ Bookkeeping(c)
    BY <1>1, BooksKept DEF Numbered, PidsUnique
  <1>2. ASSUME NEW c \in CPU, AddSecure(c) PROVE Numbered'
    BY <1>2, SecureBooks DEF Numbered, PidsUnique, Adding, SchedInv, TypeOK
  <1>3. ASSUME NEW c \in CPU, AddPid(c) PROVE Numbered'
    <2>1. /\ task_id' = task_id + 1 /\ tally[c] = task_id
          /\ pid' = [pid EXCEPT ![entry[c]] = task_id + 1]
      BY <1>3, PidBooks DEF Numbered
    <2>2. \A t \in Entry : pid'[t] = IF t = entry[c] THEN task_id + 1 ELSE pid[t]
      BY <1>3, <2>1, PidBooks DEF SchedInv, TypeOK
    <2>3. task_id \in Nat /\ \A t \in Entry : pid[t] \in Nat /\ pid[t] <= task_id
      BY DEF Numbered, SchedInv, TypeOK
    <2>4. \A t \in Entry : pid'[t] <= task_id'
      BY <2>1, <2>2, <2>3
    <2>5. PidsUnique'
      BY <2>2, <2>3 DEF Numbered, PidsUnique
    <2>6. \A d \in CPU : pc'[d] # "identify"
      BY <1>3, PidBooks DEF Adding, SchedInv, TypeOK
    <2>7. QED BY <2>4, <2>5, <2>6 DEF Numbered
  <1>4. ASSUME NEW c \in CPU, AddParent(c) PROVE Numbered'
    BY <1>4, ParentBooks DEF Numbered, PidsUnique, Adding, SchedInv, TypeOK
  <1>5. ASSUME NEW c \in CPU, AddCount(c) PROVE Numbered'
    <2>1. \A d \in CPU : pc'[d] # "identify"
      BY <1>5, CountBooks DEF Adding, SchedInv, TypeOK
    <2>2. QED BY <1>5, <2>1, CountBooks DEF Numbered, PidsUnique
  <1>6. QED BY <1>1, <1>2, <1>3, <1>4, <1>5 DEF Bookkeeping

(* The queue is finite: the count of its entries in use has room.          *)
LEMMA UsedFits ==
  ASSUME SchedInv
  PROVE  IsFiniteSet(Used) /\ Cardinality(Used) \in 0 .. TaskLimit
  <1>1. IsFiniteSet(Entry) /\ Cardinality(Entry) = TaskLimit
    BY FS_Interval, LimitAssumption DEF Entry
  <1>2. Used \subseteq Entry
    BY DEF Used
  <1>3. IsFiniteSet(Used) /\ Cardinality(Used) <= TaskLimit
    BY <1>1, <1>2, FS_Subset
  <1>4. QED BY <1>3, FS_CardinalityType, LimitAssumption

(* The count is kept by every step.                                        *)
LEMMA CountedStep ==
  ASSUME SchedInv, UsedSecured, Counted, [Next]_vars
  PROVE  Counted'
  <1>1. CASE \A c \in CPU : ~ Bookkeeping(c)
    BY <1>1, UseKept, BooksKept DEF Bookkeeping, Counted, Uncounted
  <1>2. ASSUME NEW c \in CPU, AddSecure(c) PROVE Counted'
    <2>1. Used' = Used \cup {entry[c]} /\ ~ entry[c] \in Used
      <3>1. /\ flags' = [flags EXCEPT ![entry[c]] = {"secured"}]
            /\ entry[c] \in Entry /\ flags[entry[c]] = {}
        BY <1>2, SecureBooks
      <3>2. \A t \in Entry : flags'[t] = IF t = entry[c] THEN {"secured"} ELSE flags[t]
        BY <3>1 DEF SchedInv, TypeOK
      <3>3. QED BY <3>1, <3>2 DEF Used
    <2>2. Cardinality(Used') = Cardinality(Used) + 1
      BY <2>1, UsedFits, FS_AddElement
    <2>3. Cardinality(Used) = task_count
      BY <1>2, SecureBooks DEF Counted, Uncounted, Adding
    <2>4. Uncounted(c)'
      BY <1>2, SecureBooks DEF Uncounted, SchedInv, TypeOK
    <2>5. \A d \in CPU : pc'[d] # "count"
      BY <1>2, SecureBooks DEF Adding, SchedInv, TypeOK
    <2>6. QED BY <1>2, SecureBooks, <2>2, <2>3, <2>4, <2>5 DEF Counted
  <1>3. ASSUME NEW c \in CPU, AddPid(c) PROVE Counted'
    <2>1. \A d \in CPU : Uncounted(d)' <=> Uncounted(d)
      BY <1>3, PidBooks DEF Uncounted, SchedInv, TypeOK
    <2>2. \A d \in CPU : pc'[d] # "count"
      BY <1>3, PidBooks DEF Adding, SchedInv, TypeOK
    <2>3. QED BY <1>3, PidBooks, <2>1, <2>2 DEF Counted, Used
  <1>4. ASSUME NEW c \in CPU, AddParent(c) PROVE Counted'
    <2>1. \A d \in CPU : Uncounted(d)' <=> Uncounted(d)
      BY <1>4, ParentBooks DEF Uncounted, SchedInv, TypeOK
    <2>2. \A d \in CPU : pc'[d] = "count" => tally'[d] = task_count'
      BY <1>4, ParentBooks DEF Adding, SchedInv, TypeOK
    <2>3. Used' = Used /\ task_count' = task_count
      BY <1>4, ParentBooks DEF Used
    <2>4. QED BY <2>1, <2>2, <2>3 DEF Counted
  <1>5. ASSUME NEW c \in CPU, AddCount(c) PROVE Counted'
    <2>1. Cardinality(Used) = task_count + 1 /\ tally[c] = task_count
      BY <1>5, CountBooks DEF Counted, Uncounted
    <2>2. task_count' = task_count + 1
      <3>1. task_count + 1 \in 0 .. TaskLimit
        BY <2>1, UsedFits
      <3>2. (task_count + 1) % CountLimit = task_count + 1
        BY <3>1, LimitAssumption, CountAssumption
      <3>3. QED BY <1>5, <2>1, <3>2, CountBooks
    <2>3. \A d \in CPU : ~ Uncounted(d)'
      BY <1>5, CountBooks DEF Uncounted, Adding, SchedInv, TypeOK
    <2>4. QED BY <1>5, CountBooks, <2>1, <2>2, <2>3 DEF Counted, Used, Uncounted
  <1>6. QED BY <1>1, <1>2, <1>3, <1>4, <1>5 DEF Bookkeeping

(* The bookkeeping is kept by every step. *)
LEMMA QueueStep == QueueInv /\ [Next]_vars => QueueInv'
  <1>1. SchedInv /\ [Next]_vars => SchedInv'
    BY SchedStep
  <1>2. QED BY <1>1, SecuredStep, NumberedStep, CountedStep DEF QueueInv

(* The bookkeeping is right in every reachable state. *)
THEOREM QueueInvariant == Spec => []QueueInv
  BY QueueInit, QueueStep, PTL DEF Spec

(* No two entries have the same identifier, so kernel_task_by_id finds the *)
(* one that is meant.                                                      *)
THEOREM IdentifiersAreUnique == Spec => []PidsUnique
  BY QueueInvariant, PTL DEF QueueInv, Numbered

(* Whenever the queue is unlocked, task_count counts the entries in use.   *)
THEOREM TaskCountIsExact == Spec => []CountIsExact
  <1>1. QueueInv => CountIsExact
    <2> SUFFICES ASSUME QueueInv, task_semaphore = None
                 PROVE  Cardinality(Used) = task_count
      BY DEF CountIsExact, Used
    <2>1. \A c \in CPU : ~ Uncounted(c)
      BY CpuAssumption DEF QueueInv, SchedInv, Locks, Adding, Uncounted
    <2>2. QED BY <2>1 DEF QueueInv, Counted
  <1>2. QED BY <1>1, QueueInvariant, PTL
=============================================================================
