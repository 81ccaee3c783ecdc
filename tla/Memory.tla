------------------------------- MODULE Memory -------------------------------
(***************************************************************************)
(* The allocator of physical pages, kernel/memory.c: a bit for every page, *)
(* in words, and the count of the pages that are available.  Allocation is *)
(* done under a lock.  Release is not: it updates the words of the map and *)
(* the count next to whoever holds the lock.                               *)
(*                                                                         *)
(* An update of a word, or of the count, reads it and writes it.  The two  *)
(* are separate steps, unless Indivisible: there is one processor and the  *)
(* compiler made one instruction of the update.                            *)
(***************************************************************************)
EXTENDS Naturals, FiniteSets

CONSTANTS
  Task,
  PageLimit,    \* kernel -> page_limit
  WordSize,     \* STATIC_DWORD_SIZE_bit
  Usable,       \* the pages of RAM the boot loader left to the kernel
  Sizes,        \* how many pages are asked for at once
  CountLimit,   \* 2^64: the count of pages is modulo this
  Indivisible

(* The boot loader never reports page 0 as usable.                         *)
ASSUME MemoryAssumption ==
  /\ PageLimit \in Nat
  /\ WordSize \in Nat \ {0}
  /\ Usable \subseteq 1 .. PageLimit - 1
  /\ Sizes \subseteq 1 .. CountLimit - 1
  /\ CountLimit \in Nat
  /\ PageLimit < CountLimit
  /\ Indivisible \in BOOLEAN

Page == 0 .. PageLimit - 1

VARIABLES
  memory_map,             \* the pages whose bit is set: they are available
  page_available,
  memory_page_semaphore,
  pc,
  N,                      \* the number of pages of a call
  p,                      \* the first of them
  c,                      \* the page the call is looking at
  word,                   \* what it read of the word it updates
  count,                  \* what it read of the count
  owned,                  \* the runs of pages handed out to a task
  dirty,                  \* the pages that may hold something else than zero
  before                  \* the map when the lock was taken (history)

mapVars  == <<memory_map, page_available>>
callVars == <<N, p, c, word, count>>
vars     == <<mapVars, memory_page_semaphore, pc, callVars, owned, dirty, before>>

Run(first, n) == first .. first + n - 1

WordOf(page) == {q \in Page : q \div WordSize = page \div WordSize}

TypeOK ==
  /\ memory_map \subseteq Page
  /\ page_available \in 0 .. CountLimit - 1
  /\ memory_page_semaphore \in BOOLEAN
  /\ pc \in [Task -> {"user", "lock", "search", "mark", "markStore",
                      "takeStore", "unlock", "clean", "dispose",
                      "disposeStore", "giveStore"}]
  /\ N \in [Task -> Nat]
  /\ p \in [Task -> 0 .. PageLimit]
  /\ c \in [Task -> 0 .. PageLimit]
  /\ word \in [Task -> SUBSET Page]
  /\ count \in [Task -> 0 .. CountLimit - 1]
  /\ owned \in [Task -> SUBSET SUBSET Page]
  /\ dirty \subseteq Usable
  /\ before \subseteq Page

(* After kernel_init_memory and kernel_init_free: all that is left is      *)
(* available, and clean.                                                   *)
Init ==
  /\ memory_map = Usable
  /\ page_available = Cardinality(Usable)
  /\ memory_page_semaphore = FALSE
  /\ pc = [t \in Task |-> "user"]
  /\ N = [t \in Task |-> 0]
  /\ p = [t \in Task |-> 0]
  /\ c = [t \in Task |-> 0]
  /\ word = [t \in Task |-> {}]
  /\ count = [t \in Task |-> 0]
  /\ owned = [t \in Task |-> {}]
  /\ dirty = {}
  /\ before = {}

Goto(t, from, to) ==
  /\ pc[t] = from
  /\ pc' = [pc EXCEPT ![t] = to]

(* The registers of a call are of no use when it has returned. *)
Forget(t) ==
  /\ N' = [N EXCEPT ![t] = 0]
  /\ p' = [p EXCEPT ![t] = 0]
  /\ c' = [c EXCEPT ![t] = 0]

(* The update of a word, in two steps that other processors may come       *)
(* between.                                                                *)
ReadWord(t) == word' = [word EXCEPT ![t] = memory_map \intersect WordOf(c[t])]

WriteWord(t, bits) ==
  /\ memory_map' = (memory_map \ WordOf(c[t])) \union bits
  /\ word' = [word EXCEPT ![t] = {}]

-----------------------------------------------------------------------------
(* kernel_memory_alloc *)

AllocCall(t) ==
  \E n \in Sizes :
    /\ Goto(t, "user", "lock")
    /\ N' = [N EXCEPT ![t] = n]
    /\ UNCHANGED <<mapVars, memory_page_semaphore, p, c, word, count, owned,
                   dirty, before>>

(* Mutant: the lock is not looked at. *)
AllocUnlocked(t) ==
  /\ Goto(t, "lock", "search")
  /\ memory_page_semaphore' = TRUE
  /\ before' = memory_map
  /\ UNCHANGED <<mapVars, callVars, owned, dirty>>

AllocLock(t) ==
  /\ ~ memory_page_semaphore
  /\ Goto(t, "lock", "search")
  /\ memory_page_semaphore' = TRUE
  /\ before' = memory_map
  /\ UNCHANGED <<mapVars, callVars, owned, dirty>>

(* kernel_memory_acquire: the pages from p on are looked at one by one. *)
SearchOn(t) ==
  /\ pc[t] = "search"
  /\ p[t] < PageLimit
  /\ c[t] < p[t] + N[t]
  /\ c[t] \in memory_map
  /\ c' = [c EXCEPT ![t] = @ + 1]
  /\ UNCHANGED <<mapVars, memory_page_semaphore, pc, N, p, word, count, owned,
                 dirty, before>>

(* Mutant: the search goes on after the N pages, not after the one that    *)
(* is not available.                                                       *)
SearchSkips(t) ==
  /\ pc[t] = "search"
  /\ p[t] < PageLimit
  /\ c[t] < p[t] + N[t]
  /\ c[t] \notin memory_map
  /\ LET next == IF p[t] + N[t] > PageLimit THEN PageLimit ELSE p[t] + N[t] IN
       /\ p' = [p EXCEPT ![t] = next]
       /\ c' = [c EXCEPT ![t] = next]
  /\ UNCHANGED <<mapVars, memory_page_semaphore, pc, N, word, count, owned,
                 dirty, before>>

(* Mutant: the search goes on at the page that is not available. *)
SearchStays(t) ==
  /\ pc[t] = "search"
  /\ p[t] < PageLimit
  /\ c[t] < p[t] + N[t]
  /\ c[t] \notin memory_map
  /\ p' = [p EXCEPT ![t] = c[t]]
  /\ UNCHANGED <<mapVars, memory_page_semaphore, pc, N, c, word, count, owned,
                 dirty, before>>

(* One is not available: p = c, and p++. *)
SearchAgain(t) ==
  /\ pc[t] = "search"
  /\ p[t] < PageLimit
  /\ c[t] < p[t] + N[t]
  /\ c[t] \notin memory_map
  /\ LET next == IF c[t] < PageLimit THEN c[t] + 1 ELSE PageLimit IN
       /\ p' = [p EXCEPT ![t] = next]
       /\ c' = [c EXCEPT ![t] = next]
  /\ UNCHANGED <<mapVars, memory_page_semaphore, pc, N, word, count, owned,
                 dirty, before>>

SearchFound(t) ==
  /\ p[t] < PageLimit
  /\ c[t] = p[t] + N[t]
  /\ Goto(t, "search", "mark")
  /\ c' = [c EXCEPT ![t] = p[t]]
  /\ UNCHANGED <<mapVars, memory_page_semaphore, N, p, word, count, owned,
                 dirty, before>>

SearchFailed(t) ==
  /\ p[t] = PageLimit
  /\ Goto(t, "search", "user")
  /\ memory_page_semaphore' = FALSE
  /\ Forget(t)
  /\ before' = {}
  /\ UNCHANGED <<mapVars, word, count, owned, dirty>>

Mark(t) ==
  /\ c[t] < p[t] + N[t]
  /\ Goto(t, "mark", "markStore")
  /\ ReadWord(t)
  /\ UNCHANGED <<mapVars, memory_page_semaphore, N, p, c, count, owned, dirty,
                 before>>

MarkStore(t) ==
  /\ Goto(t, "markStore", "mark")
  /\ WriteWord(t, word[t] \ {c[t]})
  /\ c' = [c EXCEPT ![t] = @ + 1]
  /\ UNCHANGED <<page_available, memory_page_semaphore, N, p, count, owned,
                 dirty, before>>

(* less available pages: the pages may have been released while their      *)
(* number is still to be added, and the count be less than N.              *)
Take(t) ==
  /\ c[t] = p[t] + N[t]
  /\ Goto(t, "mark", "takeStore")
  /\ count' = [count EXCEPT ![t] = page_available]
  /\ UNCHANGED <<mapVars, memory_page_semaphore, N, p, c, word, owned, dirty,
                 before>>

TakeStore(t) ==
  /\ Goto(t, "takeStore", "unlock")
  /\ page_available' = (count[t] + CountLimit - N[t]) % CountLimit
  /\ count' = [count EXCEPT ![t] = 0]
  /\ UNCHANGED <<memory_map, memory_page_semaphore, N, p, c, word, owned,
                 dirty, before>>

(* The caller uses what it got. *)
Unlock(t) ==
  LET run == Run(p[t], N[t]) IN
    /\ Goto(t, "unlock", "user")
    /\ memory_page_semaphore' = FALSE
    /\ Forget(t)
    /\ owned' = [owned EXCEPT ![t] = @ \union {run}]
    /\ dirty' = dirty \union run
    /\ before' = {}
    /\ UNCHANGED <<mapVars, word, count>>

-----------------------------------------------------------------------------
(* kernel_memory_release *)

ReleaseCall(t) ==
  \E run \in owned[t] :
    LET first == CHOOSE q \in run : \A r \in run : q <= r IN
      /\ Goto(t, "user", "clean")
      /\ N' = [N EXCEPT ![t] = Cardinality(run)]
      /\ p' = [p EXCEPT ![t] = first]
      /\ c' = [c EXCEPT ![t] = first]
      /\ owned' = [owned EXCEPT ![t] = @ \ {run}]
      /\ UNCHANGED <<mapVars, memory_page_semaphore, word, count, dirty, before>>

(* Mutant: the pages are released as they are. *)
NoClean(t) ==
  /\ Goto(t, "clean", "dispose")
  /\ UNCHANGED <<mapVars, memory_page_semaphore, callVars, owned, dirty, before>>

Clean(t) ==
  /\ Goto(t, "clean", "dispose")
  /\ dirty' = dirty \ Run(p[t], N[t])
  /\ UNCHANGED <<mapVars, memory_page_semaphore, callVars, owned, before>>

(* kernel_memory_dispose *)
Dispose(t) ==
  /\ c[t] < p[t] + N[t]
  /\ Goto(t, "dispose", "disposeStore")
  /\ ReadWord(t)
  /\ UNCHANGED <<mapVars, memory_page_semaphore, N, p, c, count, owned, dirty,
                 before>>

DisposeStore(t) ==
  /\ Goto(t, "disposeStore", "dispose")
  /\ WriteWord(t, word[t] \union {c[t]})
  /\ c' = [c EXCEPT ![t] = @ + 1]
  /\ UNCHANGED <<page_available, memory_page_semaphore, N, p, count, owned,
                 dirty, before>>

(* more available pages *)
Give(t) ==
  /\ c[t] = p[t] + N[t]
  /\ Goto(t, "dispose", "giveStore")
  /\ count' = [count EXCEPT ![t] = page_available]
  /\ UNCHANGED <<mapVars, memory_page_semaphore, N, p, c, word, owned, dirty,
                 before>>

(* Mutant: one page more, whatever the number of pages. *)
GiveOne(t) ==
  /\ Goto(t, "giveStore", "user")
  /\ page_available' = (count[t] + 1) % CountLimit
  /\ count' = [count EXCEPT ![t] = 0]
  /\ Forget(t)
  /\ UNCHANGED <<memory_map, memory_page_semaphore, word, owned, dirty, before>>

GiveStore(t) ==
  /\ Goto(t, "giveStore", "user")
  /\ page_available' = (count[t] + N[t]) % CountLimit
  /\ count' = [count EXCEPT ![t] = 0]
  /\ Forget(t)
  /\ UNCHANGED <<memory_map, memory_page_semaphore, word, owned, dirty, before>>

-----------------------------------------------------------------------------
Updating == {"markStore", "takeStore", "disposeStore", "giveStore"}

(* A task that is interrupted is not in the middle of an instruction. *)
Turn(t) == Indivisible => \A u \in Task \ {t} : pc[u] \notin Updating

Step(t) ==
  \/ SearchOn(t) \/ SearchAgain(t) \/ SearchFound(t) \/ SearchFailed(t)
  \/ Mark(t) \/ MarkStore(t) \/ Take(t) \/ TakeStore(t) \/ Unlock(t)
  \/ Clean(t) \/ Dispose(t) \/ DisposeStore(t) \/ Give(t) \/ GiveStore(t)

Call(t) == AllocCall(t) \/ AllocLock(t) \/ ReleaseCall(t)

Next == \E t \in Task : Turn(t) /\ (Step(t) \/ Call(t))

Spec == Init /\ [][Next]_vars

(* The scheduler comes back to every task that is ready.  Nothing makes    *)
(* sure that a task that waits for the lock ever finds it free.            *)
FairSpec == Spec /\ \A t \in Task : SF_vars(Turn(t) /\ Step(t))

-----------------------------------------------------------------------------
(***************************************************************************)
(* Properties.                                                             *)
(***************************************************************************)

(* The pages a call has taken from the map and not handed out yet, and     *)
(* those it has got back and not put into the map yet.                     *)
Taken(t) ==
  CASE pc[t] \in {"mark", "markStore"}   -> p[t] .. c[t] - 1
    [] pc[t] \in {"takeStore", "unlock"} -> Run(p[t], N[t])
    [] pc[t] \in {"clean", "dispose", "disposeStore"} -> c[t] .. p[t] + N[t] - 1
    [] OTHER -> {}

Holds(t) == Taken(t) \union UNION owned[t]

(* Every page the kernel manages is available, or with the one task it was *)
(* handed out to: none is handed out twice, and none is lost               *)
(* (memory.c:45-55, 62-81).                                                *)
EveryPageHasOnePlace ==
  /\ memory_map \union UNION {Holds(t) : t \in Task} = Usable
  /\ \A t \in Task :
       /\ Holds(t) \intersect memory_map = {}
       /\ \A r \in owned[t] :
            /\ r \intersect Taken(t) = {}
            /\ \A s \in owned[t] \ {r} : r \intersect s = {}
       /\ \A u \in Task \ {t} : Holds(t) \intersect Holds(u) = {}

(* "kernel guarantees clean pages on allocation" (memory.c:47).            *)
AvailableIsClean == memory_map \intersect dirty = {}

(* The search passes over no run of N pages that were available when it    *)
(* began, though it starts again after the first gap (memory.c:96-100): it *)
(* finds the first one, and fails when there is none.                      *)
FirstFit ==
  \A t \in Task :
    pc[t] \in {"search", "mark", "markStore"} =>
      \A q \in Page : q < p[t] => ~ Run(q, N[t]) \subseteq before

(* When no call is under way the count is the number of available pages.   *)
CountIsExact ==
  (\A t \in Task : pc[t] = "user") => page_available = Cardinality(memory_map)

(* Access to the map is for "only one at a time" (memory.c:63), so that no *)
(* page is handed out to two tasks.                                        *)
NoPageTwice ==
  \A t, u \in Task : t # u => (UNION owned[t]) \intersect (UNION owned[u]) = {}

(* A call that has the lock, or needs none, returns, with pages or without *)
(* (the search of memory.c:83-117 ends): the lock is free again.           *)
CallsReturn == \A t \in Task : pc[t] \notin {"user", "lock"} ~> pc[t] = "user"
=============================================================================
