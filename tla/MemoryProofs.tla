---------------------------- MODULE MemoryProofs ----------------------------
(***************************************************************************)
(* Theorems about the allocator of pages, for indivisible updates: every   *)
(* page has one place, what is available is clean, the search passes over  *)
(* nothing, and the count is right.                                        *)
(*                                                                         *)
(* The invariant is MemInv.  The holder of the lock is alone in clearing   *)
(* bits, and nobody is interrupted between the two halves of an update;    *)
(* so what a call has read of a word is what the word holds, and what the  *)
(* holder has found available stays so.                                    *)
(***************************************************************************)
EXTENDS Memory, FiniteSetTheorems, TLAPS

Locked == {"search", "mark", "markStore", "takeStore", "unlock"}

Alone ==
  /\ \A t \in Task : pc[t] \in Locked => memory_page_semaphore
  /\ \A t, u \in Task : pc[t] \in Locked /\ pc[u] \in Locked => t = u
  /\ \A t, u \in Task : pc[t] \in Updating /\ pc[u] \in Updating => t = u

(* What a call knows at each of its positions.                             *)
Knows(t) ==
  /\ pc[t] \in {"user", "lock"} => p[t] = 0 /\ c[t] = 0
  /\ pc[t] # "user" => N[t] \in Nat \ {0}
  /\ pc[t] \in Locked \ {"unlock", "takeStore"} => p[t] <= c[t] /\ c[t] <= p[t] + N[t]
  /\ pc[t] = "search" => p[t] .. c[t] - 1 \subseteq memory_map
  /\ pc[t] \in {"mark", "markStore"} => c[t] .. p[t] + N[t] - 1 \subseteq memory_map
  /\ pc[t] = "clean" => c[t] = p[t]
  /\ pc[t] \in {"dispose", "disposeStore"} => p[t] <= c[t] /\ c[t] <= p[t] + N[t]
  /\ pc[t] \in {"markStore", "disposeStore"} =>
       /\ c[t] < p[t] + N[t]
       /\ word[t] = memory_map \intersect WordOf(c[t])

RunsOf(t) ==
  \A r \in owned[t] : \E first \in Nat, n \in Nat \ {0} : r = Run(first, n)

Cleaned ==
  /\ AvailableIsClean
  /\ \A t \in Task :
       pc[t] \in {"dispose", "disposeStore"} => Taken(t) \intersect dirty = {}

(* The map only grows while a search goes on.                              *)
Searched ==
  /\ FirstFit
  /\ \A t \in Task : pc[t] = "search" => before \subseteq memory_map

MemInv ==
  /\ TypeOK
  /\ Alone
  /\ \A t \in Task : Knows(t) /\ RunsOf(t)
  /\ EveryPageHasOnePlace
  /\ Cleaned
  /\ Searched

-----------------------------------------------------------------------------
(* Initially every page is available.                                      *)
LEMMA MemInit == Init => MemInv
<1> SUFFICES ASSUME Init PROVE MemInv
  OBVIOUS
<1> USE MemoryAssumption DEF Init
<1>1. IsFiniteSet(Usable) /\ Cardinality(Usable) \in 0 .. PageLimit
  <2>1. IsFiniteSet(Page) /\ Cardinality(Page) = PageLimit
    BY FS_Interval DEF Page
  <2>2. Usable \subseteq Page
    BY DEF Page
  <2>3. Cardinality(Usable) \in Nat /\ Cardinality(Usable) <= PageLimit /\ IsFiniteSet(Usable)
    BY <2>1, <2>2, FS_Subset, FS_CardinalityType
  <2>4. QED
    BY <2>3
<1>2. TypeOK
  <2>1. page_available \in 0 .. CountLimit - 1
    BY <1>1
  <2>2. 0 \in 0 .. PageLimit /\ 0 \in 0 .. CountLimit - 1
    OBVIOUS
  <2>3. memory_map \subseteq Page
    BY DEF Page
  <2>4. QED
    BY <2>1, <2>2, <2>3 DEF TypeOK
<1>3. Alone
  BY DEF Alone, Locked, Updating
<1>4. \A t \in Task : Knows(t) /\ RunsOf(t)
  BY DEF Knows, RunsOf, Locked
<1>5. \A t \in Task : Taken(t) = {} /\ Holds(t) = {}
  BY DEF Taken, Holds
<1>6. EveryPageHasOnePlace
  BY <1>5 DEF EveryPageHasOnePlace
<1>7. Cleaned /\ Searched
  BY DEF Cleaned, AvailableIsClean, Searched, FirstFit
<1>8. QED
  BY <1>2, <1>3, <1>4, <1>6, <1>7 DEF MemInv

-----------------------------------------------------------------------------
(* A step that moves no page leaves every page in its place.               *)
LEMMA PlacesKept ==
  ASSUME EveryPageHasOnePlace,
         memory_map' = memory_map,
         owned' = owned,
         \A t \in Task : Taken(t)' = Taken(t)
  PROVE  EveryPageHasOnePlace'
BY DEF EveryPageHasOnePlace, Holds

(* Taken depends on the registers of the call only.                        *)
LEMMA TakenKept ==
  ASSUME NEW t \in Task,
         pc'[t] = pc[t], N'[t] = N[t], p'[t] = p[t], c'[t] = c[t]
  PROVE  Taken(t)' = Taken(t)
BY DEF Taken, Run

(* A call keeps what it knows while another takes no page from the map.    *)
LEMMA KnowsKept ==
  ASSUME NEW u \in Task, Knows(u), TypeOK,
         pc'[u] = pc[u], N'[u] = N[u], p'[u] = p[u], c'[u] = c[u],
         word'[u] = word[u],
         memory_map \subseteq memory_map',
         pc[u] \in Updating => memory_map' = memory_map
  PROVE  Knows(u)'
BY DEF Knows, Locked, Updating, TypeOK, WordOf, Page

-----------------------------------------------------------------------------
(* A step of a task changes nothing of the calls of the others.            *)
LEMMA OthersKept ==
  ASSUME TypeOK, NEW t \in Task, Step(t) \/ Call(t), NEW u \in Task \ {t}
  PROVE  /\ pc'[u] = pc[u] /\ N'[u] = N[u] /\ p'[u] = p[u] /\ c'[u] = c[u]
         /\ word'[u] = word[u] /\ owned'[u] = owned[u]
         /\ Taken(u)' = Taken(u)
<1>1. pc'[u] = pc[u] /\ N'[u] = N[u] /\ p'[u] = p[u] /\ c'[u] = c[u]
  BY DEF TypeOK, Step, Call, SearchOn, SearchAgain, SearchFound, SearchFailed,
         Mark, MarkStore, Take, TakeStore, Unlock, Clean, Dispose, DisposeStore,
         Give, GiveStore, AllocCall, AllocLock, ReleaseCall, Goto, Forget,
         callVars
<1>2. word'[u] = word[u] /\ owned'[u] = owned[u]
  BY DEF TypeOK, Step, Call, SearchOn, SearchAgain, SearchFound, SearchFailed,
         Mark, MarkStore, Take, TakeStore, Unlock, Clean, Dispose, DisposeStore,
         Give, GiveStore, AllocCall, AllocLock, ReleaseCall, callVars, ReadWord,
         WriteWord
<1>3. QED
  BY <1>1, <1>2, TakenKept

(* Putting a page into the map, and taking one from it, are the only steps *)
(* that change the map, and they change that page alone.                   *)
LEMMA MapMoves ==
  ASSUME Indivisible, MemInv, NEW t \in Task, Step(t) \/ Call(t)
  PROVE  \/ memory_map' = memory_map /\ ~ MarkStore(t) /\ ~ DisposeStore(t)
         \/ /\ MarkStore(t)
            /\ c[t] \in memory_map
            /\ memory_map' = memory_map \ {c[t]}
         \/ /\ DisposeStore(t)
            /\ c[t] \in Taken(t)
            /\ memory_map' = memory_map \union {c[t]}
<1> USE DEF MemInv
<1>1. CASE MarkStore(t)
  <2>1. /\ word[t] = memory_map \intersect WordOf(c[t])
        /\ c[t] \in c[t] .. p[t] + N[t] - 1
        /\ c[t] .. p[t] + N[t] - 1 \subseteq memory_map
    BY <1>1 DEF MarkStore, Goto, Knows, TypeOK
  <2>2. c[t] \in WordOf(c[t])
    BY <2>1 DEF WordOf, TypeOK
  <2>3. memory_map' = memory_map \ {c[t]}
    BY <1>1, <2>1, <2>2 DEF MarkStore, WriteWord
  <2>4. QED
    BY <1>1, <2>1, <2>3
<1>2. CASE DisposeStore(t)
  <2>1. /\ word[t] = memory_map \intersect WordOf(c[t])
        /\ c[t] \in Taken(t)
    BY <1>2 DEF DisposeStore, Goto, Knows, TypeOK, Taken
  <2>2. memory_map' = memory_map \union {c[t]}
    BY <1>2, <2>1 DEF DisposeStore, WriteWord
  <2>3. QED
    BY <1>2, <2>1, <2>2
<1>3. CASE ~ MarkStore(t) /\ ~ DisposeStore(t)
  BY <1>3 DEF Step, Call, SearchOn, SearchAgain, SearchFound, SearchFailed,
         Mark, Take, TakeStore, Unlock, Clean, Dispose, Give, GiveStore,
         AllocCall, AllocLock, ReleaseCall, mapVars
<1>4. QED
  BY <1>1, <1>2, <1>3

(* What the lock, and the turns, give.                                     *)
LEMMA AloneKept ==
  ASSUME Indivisible, MemInv, NEW t \in Task, Turn(t), Step(t) \/ Call(t)
  PROVE  Alone'
<1>1. \A u \in Task \ {t} : pc[u] \notin Updating /\ pc'[u] = pc[u]
  BY OthersKept DEF Turn, MemInv
<1>2. \A u \in Task : pc'[u] \in Updating => u = t
  BY <1>1
<1>3. CASE AllocLock(t)
  BY <1>1, <1>2, <1>3 DEF MemInv, Alone, AllocLock, Goto
<1>4. CASE SearchFailed(t) \/ Unlock(t)
  BY <1>1, <1>2, <1>4 DEF MemInv, Alone, SearchFailed, Unlock, Goto, Locked, TypeOK
<1>5. CASE ~ AllocLock(t) /\ ~ SearchFailed(t) /\ ~ Unlock(t)
  <2>1. memory_page_semaphore' = memory_page_semaphore
    BY <1>5 DEF Step, Call, SearchOn, SearchAgain, SearchFound, Mark, MarkStore,
           Take, TakeStore, Clean, Dispose, DisposeStore, Give, GiveStore,
           AllocCall, ReleaseCall
  <2>2. pc'[t] \in Locked => pc[t] \in Locked
    BY <1>5 DEF MemInv, TypeOK, Step, Call, SearchOn, SearchAgain, SearchFound,
           Mark, MarkStore, Take, TakeStore, Clean, Dispose, DisposeStore, Give,
           GiveStore, AllocCall, ReleaseCall, Goto, Locked
  <2>3. QED
    BY <1>1, <1>2, <2>1, <2>2 DEF MemInv, Alone
<1>6. QED
  BY <1>3, <1>4, <1>5

(* What is left of the count is a number of pages again.                   *)
LEMMA CountWraps ==
  ASSUME NEW a \in Int, NEW b \in Nat \ {0}
  PROVE  a % b \in 0 .. b - 1
OBVIOUS

-----------------------------------------------------------------------------
(* The run of a task is known by its first page and its length.            *)
LEMMA RunIsKnown ==
  ASSUME NEW first \in Nat, NEW n \in Nat \ {0}
  PROVE  /\ (CHOOSE q \in Run(first, n) : \A r \in Run(first, n) : q <= r) = first
         /\ Cardinality(Run(first, n)) = n
<1>1. first \in Run(first, n) /\ \A r \in Run(first, n) : first <= r
  BY DEF Run
<1>2. \A q \in Run(first, n) : (\A r \in Run(first, n) : q <= r) => q = first
  BY <1>1 DEF Run
<1>3. Cardinality(Run(first, n)) = n
  BY FS_Interval DEF Run
<1>4. QED
  BY <1>1, <1>2, <1>3

(* So a release gets back what was handed out.                             *)
LEMMA ReleaseGetsRun ==
  ASSUME MemInv, NEW t \in Task, ReleaseCall(t)
  PROVE  \E run \in owned[t] :
           /\ owned' = [owned EXCEPT ![t] = @ \ {run}]
           /\ pc[t] = "user" /\ pc' = [pc EXCEPT ![t] = "clean"]
           /\ p'[t] \in Nat /\ N'[t] \in Nat \ {0} /\ c'[t] = p'[t]
           /\ p' = [p EXCEPT ![t] = p'[t]] /\ c' = [c EXCEPT ![t] = p'[t]]
           /\ N' = [N EXCEPT ![t] = N'[t]]
           /\ run = Run(p'[t], N'[t])
           /\ Taken(t) = {} /\ Taken(t)' = run
<1>1. PICK run \in owned[t] :
        LET first == CHOOSE q \in run : \A r \in run : q <= r IN
          /\ Goto(t, "user", "clean")
          /\ N' = [N EXCEPT ![t] = Cardinality(run)]
          /\ p' = [p EXCEPT ![t] = first]
          /\ c' = [c EXCEPT ![t] = first]
          /\ owned' = [owned EXCEPT ![t] = @ \ {run}]
  BY DEF ReleaseCall
<1>2. PICK first \in Nat, n \in Nat \ {0} : run = Run(first, n)
  BY DEF MemInv, RunsOf
<1>3. p'[t] = first /\ c'[t] = first /\ N'[t] = n
  BY <1>1, <1>2, RunIsKnown DEF MemInv, TypeOK
<1>4. pc[t] = "user" /\ pc' = [pc EXCEPT ![t] = "clean"] /\ pc'[t] = "clean"
  BY <1>1 DEF Goto, MemInv, TypeOK
<1>5. Taken(t) = {} /\ Taken(t)' = run
  BY <1>2, <1>3, <1>4 DEF Taken, Run
<1>6. QED
  BY <1>1, <1>2, <1>3, <1>4, <1>5

-----------------------------------------------------------------------------
(* Each step leaves the pages a call holds as they are, but for one page   *)
(* that moves between the map and the call.                                *)
LEMMA TakenMoves ==
  ASSUME Indivisible, MemInv, NEW t \in Task, Step(t)
  PROVE  /\ ~ Unlock(t) => owned' = owned
         /\ MarkStore(t) => Taken(t)' = Taken(t) \union {c[t]}
         /\ DisposeStore(t) => Taken(t)' = Taken(t) \ {c[t]}
         /\ \/ MarkStore(t) \/ DisposeStore(t) \/ Unlock(t)
            \/ Taken(t)' = Taken(t)
<1> USE DEF Goto
<1>1. ~ Unlock(t) => owned' = owned
  BY DEF Step, SearchOn, SearchAgain, SearchFound, SearchFailed, Mark, MarkStore,
         Take, TakeStore, Clean, Dispose, DisposeStore, Give, GiveStore
<1>2. /\ DOMAIN pc = Task /\ DOMAIN p = Task /\ DOMAIN c = Task
      /\ DOMAIN N = Task
      /\ p[t] \in Nat /\ c[t] \in Nat /\ N[t] \in Nat
      /\ pc[t] \in {"mark", "markStore"} => p[t] <= c[t]
  BY DEF MemInv, TypeOK, Knows, Locked
<1>3. MarkStore(t) => Taken(t)' = Taken(t) \union {c[t]}
  BY <1>2 DEF MarkStore, Taken
<1>4. DisposeStore(t) => Taken(t)' = Taken(t) \ {c[t]}
  BY <1>2 DEF DisposeStore, Taken, Run
<1>5. SearchOn(t) \/ SearchAgain(t) \/ SearchFailed(t) => Taken(t)' = Taken(t)
  BY <1>2 DEF SearchOn, SearchAgain, SearchFailed, Taken
<1>6. SearchFound(t) => Taken(t)' = Taken(t)
  BY <1>2 DEF SearchFound, Taken
<1>7. Mark(t) \/ Take(t) \/ TakeStore(t) => Taken(t)' = Taken(t)
  BY <1>2 DEF Mark, Take, TakeStore, Taken, Run
<1>8. Clean(t) \/ Dispose(t) => Taken(t)' = Taken(t)
  BY <1>2 DEF Clean, Dispose, Taken, callVars
<1>9. Give(t) \/ GiveStore(t) => Taken(t)' = Taken(t)
  BY <1>2 DEF Give, GiveStore, Taken
<1>10. QED
  BY <1>1, <1>3, <1>4, <1>5, <1>6, <1>7, <1>8, <1>9 DEF Step

-----------------------------------------------------------------------------
(* A page that goes from the map to a call, or back, has one place again.  *)
LEMMA PageMoves ==
  ASSUME EveryPageHasOnePlace, NEW t \in Task, NEW page,
         owned' = owned,
         \A u \in Task \ {t} : Taken(u)' = Taken(u),
         \/ /\ page \in memory_map
            /\ memory_map' = memory_map \ {page}
            /\ Taken(t)' = Taken(t) \union {page}
         \/ /\ page \in Taken(t)
            /\ memory_map' = memory_map \union {page}
            /\ Taken(t)' = Taken(t) \ {page}
  PROVE  EveryPageHasOnePlace'
<1>1. \A u \in Task \ {t} : Holds(u)' = Holds(u)
  BY DEF Holds
<1>2. /\ page \in memory_map => page \notin UNION {Holds(u) : u \in Task}
      /\ page \in Taken(t) => /\ page \notin memory_map
                             /\ \A r \in owned[t] : page \notin r
                             /\ \A u \in Task \ {t} : page \notin Holds(u)
  BY DEF EveryPageHasOnePlace, Holds
<1>3. \/ /\ page \in memory_map
         /\ memory_map' = memory_map \ {page}
         /\ Holds(t)' = Holds(t) \union {page}
      \/ /\ page \in Holds(t) /\ page \notin memory_map
         /\ memory_map' = memory_map \union {page}
         /\ Holds(t)' = Holds(t) \ {page}
  BY <1>2 DEF Holds
<1>4. memory_map' \union UNION {Holds(u)' : u \in Task}
        = memory_map \union UNION {Holds(u) : u \in Task}
  <2>1. \A x : (\E u \in Task : x \in Holds(u)') \/ x \in memory_map'
             <=> (\E u \in Task : x \in Holds(u)) \/ x \in memory_map
    BY <1>1, <1>3
  <2>2. QED
    BY <2>1
<1>5. \A u \in Task : Holds(u)' \intersect memory_map' = {}
  BY <1>1, <1>2, <1>3 DEF EveryPageHasOnePlace
<1>6. \A u \in Task : \A r \in owned'[u] :
        /\ r \intersect Taken(u)' = {}
        /\ \A s \in owned'[u] \ {r} : r \intersect s = {}
  BY <1>2 DEF EveryPageHasOnePlace, Holds
<1>7. \A u \in Task : \A v \in Task \ {u} : Holds(u)' \intersect Holds(v)' = {}
  BY <1>1, <1>2, <1>3 DEF EveryPageHasOnePlace
<1>8. QED
  BY <1>4, <1>5, <1>6, <1>7 DEF EveryPageHasOnePlace

(* A run that goes from a call to the task, or back, has one place again.  *)
LEMMA RunMoves ==
  ASSUME EveryPageHasOnePlace, NEW t \in Task, NEW run, TypeOK,
         memory_map' = memory_map,
         \A u \in Task \ {t} : Taken(u)' = Taken(u) /\ owned'[u] = owned[u],
         \/ /\ owned'[t] = owned[t] \union {run}
            /\ Taken(t) = run
            /\ Taken(t)' = {}
         \/ /\ run \in owned[t]
            /\ owned'[t] = owned[t] \ {run}
            /\ Taken(t) = {}
            /\ Taken(t)' = run
  PROVE  EveryPageHasOnePlace'
<1>1. \A u \in Task : Holds(u)' = Holds(u)
  <2>1. Holds(t)' = Holds(t)
    BY DEF Holds
  <2>2. QED
    BY <2>1 DEF Holds
<1>2. \A r \in owned'[t] :
        /\ r \intersect Taken(t)' = {}
        /\ \A s \in owned'[t] \ {r} : r \intersect s = {}
  BY DEF EveryPageHasOnePlace
<1>3. QED
  BY <1>1, <1>2 DEF EveryPageHasOnePlace

(* Every step leaves every page in one place.                              *)
LEMMA PlacesStep ==
  ASSUME Indivisible, MemInv, NEW t \in Task, Step(t) \/ Call(t)
  PROVE  EveryPageHasOnePlace'
<1>1. \A u \in Task \ {t} : Taken(u)' = Taken(u) /\ owned'[u] = owned[u]
  BY OthersKept DEF MemInv
<1>2. CASE Unlock(t)
  <2>1. /\ memory_map' = memory_map
        /\ owned'[t] = owned[t] \union {Run(p[t], N[t])}
        /\ Taken(t) = Run(p[t], N[t])
        /\ Taken(t)' = {}
    BY <1>2 DEF Unlock, Goto, Taken, MemInv, TypeOK, mapVars
  <2>2. QED
    BY <1>1, <2>1, RunMoves DEF MemInv
<1>3. CASE ReleaseCall(t)
  <2>1. PICK run \in owned[t] : /\ owned' = [owned EXCEPT ![t] = @ \ {run}]
                                /\ Taken(t) = {} /\ Taken(t)' = run
    BY <1>3, ReleaseGetsRun
  <2>2. memory_map' = memory_map /\ owned'[t] = owned[t] \ {run}
    BY <1>3, <2>1 DEF ReleaseCall, mapVars, MemInv, TypeOK
  <2>3. QED
    BY <1>1, <2>1, <2>2, RunMoves DEF MemInv
<1>4. CASE MarkStore(t)
  <2>1. ~ DisposeStore(t) /\ ~ Unlock(t)
    BY <1>4 DEF MarkStore, DisposeStore, Unlock, Goto
  <2>2. c[t] \in memory_map /\ memory_map' = memory_map \ {c[t]}
    BY <1>4, <2>1, MapMoves
  <2>3. owned' = owned /\ Taken(t)' = Taken(t) \union {c[t]}
    BY <1>4, <2>1, TakenMoves DEF Step
  <2>4. QED
    BY <1>1, <2>2, <2>3, PageMoves DEF MemInv
<1>5. CASE DisposeStore(t)
  <2>1. ~ MarkStore(t) /\ ~ Unlock(t)
    BY <1>5 DEF MarkStore, DisposeStore, Unlock, Goto
  <2>2. c[t] \in Taken(t) /\ memory_map' = memory_map \union {c[t]}
    BY <1>5, <2>1, MapMoves
  <2>3. owned' = owned /\ Taken(t)' = Taken(t) \ {c[t]}
    BY <1>5, <2>1, TakenMoves DEF Step
  <2>4. QED
    BY <1>1, <2>2, <2>3, PageMoves DEF MemInv
<1>6. CASE ~ Unlock(t) /\ ~ MarkStore(t) /\ ~ DisposeStore(t) /\ Step(t)
  BY <1>1, <1>6, MapMoves, TakenMoves, PlacesKept DEF MemInv
<1>7. CASE AllocCall(t) \/ AllocLock(t)
  <2>1. memory_map' = memory_map /\ owned' = owned /\ Taken(t)' = Taken(t)
    BY <1>7 DEF AllocCall, AllocLock, Goto, Taken, mapVars, MemInv, TypeOK
  <2>2. QED
    BY <1>1, <2>1, PlacesKept DEF MemInv
<1>8. QED
  BY <1>2, <1>3, <1>4, <1>5, <1>6, <1>7 DEF Call

-----------------------------------------------------------------------------
(* The positions of a search and of an update are pages, and the counts    *)
(* stay in their width.                                                    *)
LEMMA TypeStep ==
  ASSUME Indivisible, MemInv, NEW t \in Task, Step(t) \/ Call(t)
  PROVE  TypeOK'
<1> USE MemoryAssumption DEF Goto
<1>1. /\ TypeOK
      /\ PageLimit \in Nat /\ CountLimit \in Nat /\ CountLimit # 0
      /\ Usable \subseteq Page
  BY DEF MemInv, Page
<1>2. \A u \in Task : Holds(u) \subseteq Usable
  BY DEF MemInv, EveryPageHasOnePlace
<1>3. memory_map' \subseteq Page
  <2>1. Taken(t) \subseteq Page
    BY <1>1, <1>2 DEF Holds
  <2>2. \/ memory_map' = memory_map
        \/ memory_map' = memory_map \ {c[t]}
        \/ c[t] \in Taken(t) /\ memory_map' = memory_map \union {c[t]}
    BY MapMoves
  <2>3. memory_map \subseteq Page
    BY <1>1 DEF TypeOK
  <2>4. QED
    BY <2>1, <2>2, <2>3
<1>4. 0 \in 0 .. PageLimit /\ 0 \in 0 .. CountLimit - 1
  BY <1>1
<1>5. CASE AllocCall(t)
  <2>1. PICK n \in Sizes : N' = [N EXCEPT ![t] = n]
    BY <1>5 DEF AllocCall
  <2>2. n \in Nat
    OBVIOUS
  <2>3. QED
    BY <1>1, <1>5, <2>1, <2>2 DEF TypeOK, AllocCall, mapVars
<1>5a. CASE AllocLock(t)
  BY <1>1, <1>5a DEF TypeOK, AllocLock, mapVars, callVars
<1>6. CASE SearchOn(t)
  <2>1. c[t] + 1 \in 0 .. PageLimit
    BY <1>1, <1>6 DEF SearchOn, TypeOK, Page
  <2>2. QED
    BY <1>1, <1>6, <2>1 DEF TypeOK, SearchOn, mapVars
<1>7. CASE SearchAgain(t)
  <2>1. (IF c[t] < PageLimit THEN c[t] + 1 ELSE PageLimit) \in 0 .. PageLimit
    BY <1>1, <1>7 DEF SearchAgain, TypeOK
  <2>2. QED
    BY <1>1, <1>7, <2>1 DEF TypeOK, SearchAgain, mapVars
<1>8. CASE SearchFound(t)
  BY <1>1, <1>8 DEF TypeOK, SearchFound, mapVars
<1>9. CASE SearchFailed(t)
  BY <1>1, <1>4, <1>9 DEF TypeOK, SearchFailed, mapVars, Forget
<1>10. CASE Mark(t) \/ Dispose(t)
  <2>1. ReadWord(t) /\ (Goto(t, "mark", "markStore") \/ Goto(t, "dispose", "disposeStore"))
        /\ UNCHANGED <<mapVars, memory_page_semaphore, N, p, c, count, owned, dirty, before>>
    BY <1>10 DEF Mark, Dispose
  <2>2. word' \in [Task -> SUBSET Page]
    BY <1>1, <2>1 DEF TypeOK, ReadWord
  <2>3. QED
    BY <1>1, <2>1, <2>2 DEF TypeOK, mapVars
<1>11. CASE MarkStore(t)
  <2>1. ~ DisposeStore(t)
    BY <1>11 DEF MarkStore, DisposeStore
  <2>2. c[t] \in memory_map
    BY <1>11, <2>1, MapMoves
  <2>3. c[t] + 1 \in 0 .. PageLimit
    BY <1>1, <2>2 DEF TypeOK, Page
  <2>4. QED
    BY <1>1, <1>3, <1>11, <2>3 DEF TypeOK, MarkStore, WriteWord
<1>12. CASE Take(t) \/ Give(t)
  BY <1>1, <1>12 DEF TypeOK, Take, Give, mapVars
<1>13. CASE TakeStore(t)
  <2>1. (count[t] + CountLimit - N[t]) % CountLimit \in 0 .. CountLimit - 1
    <3>1. count[t] + CountLimit - N[t] \in Int
      BY <1>1 DEF TypeOK
    <3>2. QED
      BY <1>1, <3>1, CountWraps
  <2>2. QED
    BY <1>1, <1>4, <1>13, <2>1 DEF TypeOK, TakeStore
<1>14. CASE Unlock(t)
  <2>1. Run(p[t], N[t]) \subseteq Usable
    BY <1>2, <1>14 DEF Unlock, Holds, Taken
  <2>2. owned[t] \union {Run(p[t], N[t])} \in SUBSET SUBSET Page
    BY <1>1, <2>1 DEF TypeOK
  <2>3. owned' \in [Task -> SUBSET SUBSET Page] /\ dirty' \subseteq Usable
    BY <1>1, <1>14, <2>1, <2>2 DEF Unlock, TypeOK
  <2>4. QED
    BY <1>1, <1>4, <1>14, <2>3 DEF TypeOK, Unlock, mapVars, Forget
<1>15. CASE ReleaseCall(t)
  <2>1. PICK run \in owned[t] :
          /\ owned' = [owned EXCEPT ![t] = @ \ {run}]
          /\ pc' = [pc EXCEPT ![t] = "clean"]
          /\ p'[t] \in Nat /\ N'[t] \in Nat \ {0}
          /\ p' = [p EXCEPT ![t] = p'[t]] /\ c' = [c EXCEPT ![t] = p'[t]]
          /\ N' = [N EXCEPT ![t] = N'[t]]
          /\ run = Run(p'[t], N'[t])
    BY <1>15, ReleaseGetsRun
  <2>2. p'[t] \in 0 .. PageLimit
    <3>1. p'[t] \in run
      BY <2>1 DEF Run
    <3>2. run \subseteq Page
      BY <1>1 DEF TypeOK
    <3>3. p'[t] \in Page
      BY <3>1, <3>2
    <3>4. QED
      BY <1>1, <3>3 DEF Page
  <2>3. owned' \in [Task -> SUBSET SUBSET Page]
    BY <1>1, <2>1 DEF TypeOK
  <2>4. QED
    BY <1>1, <1>15, <2>1, <2>2, <2>3 DEF TypeOK, ReleaseCall, mapVars
<1>16. CASE Clean(t)
  BY <1>1, <1>16 DEF TypeOK, Clean, mapVars, callVars
<1>17. CASE DisposeStore(t)
  <2>1. c[t] \in Page
    BY <1>1, <1>2, <1>17, MapMoves DEF Holds, MarkStore, DisposeStore
  <2>2. c[t] + 1 \in 0 .. PageLimit
    BY <1>1, <2>1 DEF Page
  <2>3. QED
    BY <1>1, <1>3, <1>17, <2>2 DEF TypeOK, DisposeStore, WriteWord
<1>18. CASE GiveStore(t)
  <2>1. (count[t] + N[t]) % CountLimit \in 0 .. CountLimit - 1
    <3>1. count[t] + N[t] \in Int
      BY <1>1 DEF TypeOK
    <3>2. QED
      BY <1>1, <3>1, CountWraps
  <2>2. QED
    BY <1>1, <1>4, <1>18, <2>1 DEF TypeOK, GiveStore, Forget
<1>19. QED
  BY <1>5, <1>6, <1>7, <1>8, <1>9, <1>10, <1>11, <1>12, <1>13, <1>14, <1>15,
     <1>16, <1>17, <1>18, <1>5a DEF Step, Call

-----------------------------------------------------------------------------
(* What the others know stays true: only the holder of the lock takes      *)
(* pages from the map, and nobody is in the middle of an update.           *)
LEMMA OthersKnow ==
  ASSUME Indivisible, MemInv, NEW t \in Task, Turn(t), Step(t) \/ Call(t),
         NEW u \in Task \ {t}
  PROVE  Knows(u)' /\ RunsOf(u)'
<1>1. /\ pc'[u] = pc[u] /\ N'[u] = N[u] /\ p'[u] = p[u] /\ c'[u] = c[u]
      /\ word'[u] = word[u] /\ owned'[u] = owned[u]
  BY OthersKept DEF MemInv
<1>2. pc[u] \notin Updating
  BY DEF Turn
<1>3. RunsOf(u)'
  BY <1>1 DEF MemInv, RunsOf
<1>4. CASE MarkStore(t)
  <2>1. pc[u] \notin Locked
    BY <1>4 DEF MarkStore, Goto, MemInv, Alone, Locked
  <2>2. Knows(u)'
    BY <1>1, <1>2, <2>1 DEF MemInv, Knows, Locked, Updating
  <2>3. QED
    BY <1>3, <2>2
<1>5. CASE ~ MarkStore(t)
  <2>1. memory_map \subseteq memory_map'
    BY <1>5, MapMoves
  <2>2. QED
    BY <1>1, <1>2, <1>3, <2>1, KnowsKept DEF MemInv
<1>6. QED
  BY <1>4, <1>5

(* What the one that moves knows.                                          *)
LEMMA MoverKnows ==
  ASSUME Indivisible, MemInv, NEW t \in Task, Turn(t), Step(t) \/ Call(t)
  PROVE  Knows(t)' /\ RunsOf(t)'
<1> USE DEF Goto
<1>1. /\ DOMAIN pc = Task /\ DOMAIN p = Task /\ DOMAIN c = Task
      /\ DOMAIN N = Task /\ DOMAIN word = Task /\ DOMAIN owned = Task
      /\ p[t] \in Nat /\ c[t] \in Nat /\ N[t] \in Nat
      /\ PageLimit \in Nat
      /\ Knows(t) /\ RunsOf(t)
  BY MemoryAssumption DEF MemInv, TypeOK
<1> USE <1>1
<1>2. CASE AllocCall(t)
  <2>1. PICK n \in Sizes : N' = [N EXCEPT ![t] = n]
    BY <1>2 DEF AllocCall
  <2>2. n \in Nat \ {0}
    BY MemoryAssumption
  <2>3. QED
    BY <1>2, <2>1, <2>2 DEF AllocCall, Knows, RunsOf, Locked, mapVars
<1>3. CASE AllocLock(t)
  BY <1>3 DEF AllocLock, Knows, RunsOf, Locked, mapVars, callVars
<1>4. CASE SearchOn(t)
  BY <1>4 DEF SearchOn, Knows, RunsOf, Locked, mapVars
<1>5. CASE SearchAgain(t)
  <2>1. /\ pc'[t] = "search" /\ N'[t] = N[t] /\ p'[t] \in Nat
        /\ c'[t] = p'[t] /\ owned' = owned
    BY <1>5 DEF SearchAgain
  <2>2. QED
    BY <1>5, <2>1 DEF SearchAgain, Knows, RunsOf, Locked
<1>6. CASE SearchFound(t)
  BY <1>6 DEF SearchFound, Knows, RunsOf, Locked, mapVars
<1>7. CASE SearchFailed(t)
  BY <1>7 DEF SearchFailed, Knows, RunsOf, Locked, Forget
<1>8. CASE Mark(t)
  BY <1>8 DEF Mark, Knows, RunsOf, Locked, mapVars, ReadWord, WordOf
<1>9. CASE MarkStore(t)
  <2>1. ~ DisposeStore(t)
    BY <1>9 DEF MarkStore, DisposeStore
  <2>2. memory_map' = memory_map \ {c[t]}
    BY <1>9, <2>1, MapMoves
  <2>3. /\ pc[t] = "markStore" /\ pc'[t] = "mark"
        /\ N'[t] = N[t] /\ p'[t] = p[t] /\ c'[t] = c[t] + 1 /\ owned' = owned
    BY <1>9 DEF MarkStore
  <2>4. RunsOf(t)'
    BY <2>3 DEF RunsOf
  <2>5. /\ N[t] \in Nat \ {0} /\ p[t] <= c[t] /\ c[t] < p[t] + N[t]
        /\ c[t] .. p[t] + N[t] - 1 \subseteq memory_map
    BY <2>3 DEF Knows, Locked
  <2>6. Knows(t)'
    BY <2>2, <2>3, <2>5 DEF Knows, Locked
  <2>7. QED
    BY <2>4, <2>6
<1>10. CASE Take(t)
  BY <1>10 DEF Take, Knows, RunsOf, Locked
<1>11. CASE TakeStore(t)
  BY <1>11 DEF TakeStore, Knows, RunsOf, Locked
<1>12. CASE Unlock(t)
  <2>1. N[t] \in Nat \ {0}
    BY <1>12 DEF Unlock, Knows
  <2>2. RunsOf(t)'
    BY <1>12, <2>1 DEF Unlock, RunsOf
  <2>3. Knows(t)'
    BY <1>12 DEF Unlock, Knows, Locked, Forget
  <2>4. QED
    BY <2>2, <2>3
<1>13. CASE ReleaseCall(t)
  <2>1. /\ pc'[t] = "clean" /\ c'[t] = p'[t]
        /\ N'[t] \in Nat \ {0} /\ owned'[t] \subseteq owned[t]
    BY <1>13, ReleaseGetsRun
  <2>2. QED
    BY <2>1 DEF Knows, RunsOf, Locked
<1>14. CASE Clean(t)
  BY <1>14 DEF Clean, Knows, RunsOf, Locked, callVars
<1>15. CASE Dispose(t)
  BY <1>15 DEF Dispose, Knows, RunsOf, Locked, mapVars, ReadWord, WordOf
<1>16. CASE DisposeStore(t)
  BY <1>16 DEF DisposeStore, Knows, RunsOf, Locked
<1>17. CASE Give(t)
  BY <1>17 DEF Give, Knows, RunsOf, Locked
<1>18. CASE GiveStore(t)
  BY <1>18 DEF GiveStore, Knows, RunsOf, Locked, Forget
<1>19. QED
  BY <1>2, <1>3, <1>4, <1>5, <1>6, <1>7, <1>8, <1>9, <1>10, <1>11, <1>12, <1>13,
     <1>14, <1>15, <1>16, <1>17, <1>18 DEF Step, Call

-----------------------------------------------------------------------------
(* What is put into the map has been cleaned.                              *)
LEMMA CleanedStep ==
  ASSUME Indivisible, MemInv, NEW t \in Task, Step(t) \/ Call(t)
  PROVE  Cleaned'
<1> USE DEF Goto
<1>1. \A u \in Task \ {t} : pc'[u] = pc[u] /\ Taken(u)' = Taken(u)
  BY OthersKept DEF MemInv
<1>2. /\ Cleaned
      /\ \A u \in Task \ {t} : Taken(u) \intersect Taken(t) = {}
      /\ Taken(t) \intersect memory_map = {}
      /\ DOMAIN pc = Task
  BY DEF MemInv, EveryPageHasOnePlace, Holds, TypeOK
<1>3. CASE Unlock(t)
  <2>1. /\ memory_map' = memory_map /\ pc'[t] = "user"
        /\ dirty' = dirty \union Taken(t)
    BY <1>2, <1>3 DEF Unlock, Taken, mapVars
  <2>2. QED
    BY <1>1, <1>2, <2>1 DEF Cleaned, AvailableIsClean
<1>4. CASE Clean(t)
  <2>1. pc[t] = "clean" /\ pc'[t] = "dispose" /\ c[t] = p[t]
    BY <1>2, <1>4 DEF Clean, MemInv, Knows
  <2>2. Taken(t)' \subseteq Run(p[t], N[t])
    BY <1>4, <2>1 DEF Clean, callVars, Taken, Run
  <2>3. memory_map' = memory_map /\ dirty' = dirty \ Run(p[t], N[t])
    BY <1>4 DEF Clean, mapVars
  <2>4. QED
    BY <1>1, <1>2, <2>1, <2>2, <2>3 DEF Cleaned, AvailableIsClean
<1>5. CASE DisposeStore(t)
  <2>1. ~ MarkStore(t) /\ ~ Unlock(t)
    BY <1>5 DEF MarkStore, DisposeStore, Unlock
  <2>2. c[t] \in Taken(t) /\ memory_map' = memory_map \union {c[t]}
    BY <1>5, <2>1, MapMoves
  <2>3. Taken(t)' = Taken(t) \ {c[t]} /\ dirty' = dirty /\ pc[t] = "disposeStore"
    BY <1>5, TakenMoves DEF DisposeStore, Step
  <2>4. QED
    BY <1>1, <1>2, <2>2, <2>3 DEF Cleaned, AvailableIsClean
<1>6. CASE Step(t) /\ ~ Unlock(t) /\ ~ Clean(t) /\ ~ DisposeStore(t)
  <2>1. memory_map' \subseteq memory_map
    BY <1>6, MapMoves
  <2>2. dirty' = dirty
    BY <1>6 DEF Step, SearchOn, SearchAgain, SearchFound, SearchFailed, Mark,
           MarkStore, Take, TakeStore, Dispose, Give, GiveStore
  <2>3. pc'[t] \in {"dispose", "disposeStore"} =>
          pc[t] \in {"dispose", "disposeStore"} /\ Taken(t)' = Taken(t)
    BY <1>2, <1>6, TakenMoves DEF Step, SearchOn, SearchAgain, SearchFound,
       SearchFailed, Mark, MarkStore, Take, TakeStore, Dispose, Give, GiveStore
  <2>4. QED
    BY <1>1, <1>2, <2>1, <2>2, <2>3 DEF Cleaned, AvailableIsClean
<1>7. CASE Call(t)
  <2>1. memory_map' = memory_map /\ dirty' = dirty
    BY <1>7 DEF Call, AllocCall, AllocLock, ReleaseCall, mapVars
  <2>2. pc'[t] \notin {"dispose", "disposeStore"}
    BY <1>2, <1>7 DEF Call, AllocCall, AllocLock, ReleaseCall
  <2>3. QED
    BY <1>1, <1>2, <2>1, <2>2 DEF Cleaned, AvailableIsClean
<1>8. QED
  BY <1>3, <1>4, <1>5, <1>6, <1>7

(* The page at which a search stops is in each of the runs it passes over. *)
LEMMA SearchedStep ==
  ASSUME Indivisible, MemInv, NEW t \in Task, Step(t) \/ Call(t)
  PROVE  Searched'
<1> USE DEF Goto
<1> DEFINE Passed(u) == \A q \in Page : q < p[u] => ~ Run(q, N[u]) \subseteq before
           Looking   == {"search", "mark", "markStore"}
<1>1. /\ DOMAIN pc = Task /\ DOMAIN p = Task /\ DOMAIN c = Task
      /\ DOMAIN N = Task
      /\ p[t] \in Nat /\ c[t] \in Nat /\ N[t] \in Nat
      /\ PageLimit \in Nat
  BY MemoryAssumption DEF MemInv, TypeOK
<1>2. \A u \in Task \ {t} : pc'[u] = pc[u] /\ p'[u] = p[u] /\ N'[u] = N[u]
  BY OthersKept DEF MemInv
<1>3. \A u \in Task : pc[u] \in Looking =>
        Passed(u) /\ (pc[u] = "search" => before \subseteq memory_map)
  BY DEF MemInv, Searched, FirstFit
<1>4. SUFFICES \A u \in Task : pc'[u] \in Looking =>
        Passed(u)' /\ (pc'[u] = "search" => before' \subseteq memory_map')
  BY DEF Searched, FirstFit, Page
<1>5. CASE pc[t] \in Locked
  <2>1. \A u \in Task \ {t} : pc'[u] \notin Looking
    BY <1>2, <1>5 DEF MemInv, Alone, Locked
  <2>2. CASE SearchAgain(t)
    <3>1. /\ before' = before /\ memory_map' = memory_map /\ N'[t] = N[t]
          /\ pc[t] = "search" /\ p[t] <= c[t] /\ c[t] < p[t] + N[t]
          /\ c[t] \notin before
      BY <1>1, <1>3, <2>2 DEF SearchAgain, mapVars, MemInv, Knows, Locked
    <3>2. \A q \in Page : q < p'[t] => q <= c[t]
      BY <1>1, <2>2 DEF SearchAgain, Page
    <3>3. \A q \in Page : q < p'[t] => q < p[t] \/ c[t] \in Run(q, N[t])
      BY <1>1, <3>1, <3>2 DEF Page, Run
    <3>4. Passed(t)'
      BY <1>3, <3>1, <3>3 DEF Page
    <3>5. QED
      BY <1>3, <2>1, <3>1, <3>4
  <2>3. CASE ~ SearchAgain(t)
    <3>1. pc'[t] \in Looking =>
            /\ pc[t] \in Looking
            /\ p'[t] = p[t] /\ N'[t] = N[t] /\ before' = before
            /\ pc'[t] = "search" => pc[t] = "search" /\ memory_map' = memory_map
      BY <1>1, <1>5, <2>3 DEF Locked, Step, Call, SearchOn, SearchFound,
         SearchFailed, Mark, MarkStore, Take, TakeStore, Unlock, Clean, Dispose,
         DisposeStore, Give, GiveStore, AllocCall, AllocLock, ReleaseCall,
         mapVars
    <3>2. QED
      BY <1>3, <2>1, <3>1 DEF Page
  <2>4. QED
    BY <2>2, <2>3
<1>6. CASE AllocLock(t)
  <2>1. /\ \A u \in Task : pc[u] \notin Locked
        /\ p'[t] = 0 /\ before' = memory_map /\ memory_map' = memory_map
    BY <1>6 DEF AllocLock, MemInv, Alone, Knows, callVars, mapVars
  <2>2. \A u \in Task \ {t} : pc'[u] \notin Looking
    BY <1>2, <2>1 DEF Locked
  <2>3. Passed(t)'
    BY <2>1 DEF Page
  <2>4. QED
    BY <2>1, <2>2, <2>3
<1>7. CASE pc[t] \notin Locked /\ ~ AllocLock(t)
  <2>1. pc'[t] \notin Looking /\ before' = before /\ memory_map \subseteq memory_map'
    <3>1. pc'[t] \notin Looking /\ before' = before /\ ~ MarkStore(t)
      BY <1>1, <1>7 DEF Locked, Step, Call, SearchOn, SearchAgain, SearchFound,
         SearchFailed, Mark, MarkStore, Take, TakeStore, Unlock, Clean, Dispose,
         DisposeStore, Give, GiveStore, AllocCall, ReleaseCall
    <3>2. QED
      BY <3>1, MapMoves
  <2>2. QED
    BY <1>2, <1>3, <2>1 DEF Page
<1>8. QED
  BY <1>5, <1>6, <1>7

-----------------------------------------------------------------------------
(* Every step keeps the invariant.                                         *)
LEMMA MemStep == Indivisible /\ MemInv /\ [Next]_vars => MemInv'
<1> SUFFICES ASSUME Indivisible, MemInv, [Next]_vars PROVE MemInv'
  OBVIOUS
<1>1. CASE Next
  <2>1. PICK t \in Task : Turn(t) /\ (Step(t) \/ Call(t))
    BY <1>1 DEF Next
  <2>2. \A u \in Task : Knows(u)' /\ RunsOf(u)'
    BY <2>1, OthersKnow, MoverKnows
  <2>3. QED
    BY <2>1, <2>2, TypeStep, AloneKept, PlacesStep, CleanedStep, SearchedStep
    DEF MemInv
<1>2. CASE UNCHANGED vars
  <2>1. \A t \in Task : Taken(t)' = Taken(t) /\ Holds(t)' = Holds(t)
    BY <1>2 DEF vars, mapVars, callVars, Taken, Holds, Run
  <2>2. EveryPageHasOnePlace'
    BY <1>2, <2>1, PlacesKept DEF MemInv, vars, mapVars
  <2>3. Cleaned' /\ Searched'
    BY <1>2, <2>1 DEF MemInv, vars, mapVars, callVars, Cleaned, Searched,
       AvailableIsClean, FirstFit, Page, Run
  <2>4. TypeOK' /\ Alone' /\ \A t \in Task : Knows(t)' /\ RunsOf(t)'
    BY <1>2 DEF MemInv, vars, mapVars, callVars, TypeOK, Alone, Knows, RunsOf
  <2>5. QED
    BY <2>2, <2>3, <2>4 DEF MemInv
<1>3. QED
  BY <1>1, <1>2

(* The invariant holds of every behaviour with indivisible updates.        *)
LEMMA MemInvariant == Indivisible /\ Spec => []MemInv
<1>1. SUFFICES ASSUME Indivisible PROVE Spec => []MemInv
  OBVIOUS
<1>2. MemInv /\ [Next]_vars => MemInv'
  BY <1>1, MemStep
<1>3. QED
  BY <1>2, MemInit, PTL DEF Spec

-----------------------------------------------------------------------------
(* Type correctness of the allocator (memory.c:5-117).                     *)
THEOREM MemTypes == Indivisible /\ Spec => []TypeOK
<1>1. MemInv => TypeOK
  BY DEF MemInv
<1>2. QED
  BY <1>1, MemInvariant, PTL

(* For any number of tasks, of pages and of words: no page is handed out   *)
(* twice, and none is lost (memory.c:45-55, 62-81), though a release does  *)
(* not take the lock and changes the words that an allocation changes.     *)
THEOREM PagesHaveOnePlace == Indivisible /\ Spec => []EveryPageHasOnePlace
<1>1. MemInv => EveryPageHasOnePlace
  BY DEF MemInv
<1>2. QED
  BY <1>1, MemInvariant, PTL

(* So two tasks never hold the same page, which is what the lock of        *)
(* kernel_memory_alloc is for (memory.c:63).                               *)
THEOREM PagesAreExclusive == Indivisible /\ Spec => []NoPageTwice
<1>1. MemInv => NoPageTwice
  <2> SUFFICES ASSUME MemInv, NEW t \in Task, NEW u \in Task, t # u
               PROVE  (UNION owned[t]) \intersect (UNION owned[u]) = {}
    BY DEF NoPageTwice
  <2>1. Holds(t) \intersect Holds(u) = {}
    BY DEF MemInv, EveryPageHasOnePlace
  <2>2. UNION owned[t] \subseteq Holds(t) /\ UNION owned[u] \subseteq Holds(u)
    BY Zenon DEF Holds
  <2>3. QED
    BY <2>1, <2>2
<1>2. QED
  BY <1>1, MemInvariant, PTL

(* What a task may be handed out holds nothing of what another wrote       *)
(* (memory.c:47).                                                          *)
THEOREM PagesAreClean == Indivisible /\ Spec => []AvailableIsClean
<1>1. MemInv => AvailableIsClean
  BY DEF MemInv, Cleaned
<1>2. QED
  BY <1>1, MemInvariant, PTL

(* The search finds the first run that is long enough, and fails only when *)
(* there is none (memory.c:83-117), though pages come back while it goes   *)
(* on.                                                                     *)
THEOREM SearchIsFirstFit == Indivisible /\ Spec => []FirstFit
<1>1. MemInv => FirstFit
  BY DEF MemInv, Searched
<1>2. QED
  BY <1>1, MemInvariant, PTL

-----------------------------------------------------------------------------
(* The pages a call has cleared in the map and not subtracted yet, and     *)
(* those it has set and not added yet, each with the task that is to count *)
(* them: a page that has been put back may be handed out again before it   *)
(* is counted.                                                             *)
ToTake(t) ==
  CASE pc[t] \in {"mark", "markStore"} -> p[t] .. c[t] - 1
    [] pc[t] = "takeStore"             -> Run(p[t], N[t])
    [] OTHER -> {}

ToGive(t) ==
  CASE pc[t] \in {"dispose", "disposeStore"} -> p[t] .. c[t] - 1
    [] pc[t] = "giveStore"                   -> Run(p[t], N[t])
    [] OTHER -> {}

Taking == {x \in Task \X Nat : x[2] \in ToTake(x[1])}
Giving == {x \in Task \X Nat : x[2] \in ToGive(x[1])}

(* The count is the number of available pages, but for those.              *)
Balance ==
  \E k \in Int : page_available + Cardinality(Giving)
                   = Cardinality(memory_map) + Cardinality(Taking) + k * CountLimit

Counted ==
  /\ IsFiniteSet(Taking) /\ IsFiniteSet(Giving)
  /\ Balance
  /\ \A t \in Task : pc[t] \in {"takeStore", "giveStore"} => count[t] = page_available

(* What a modulo leaves out is a multiple.                                 *)
LEMMA ModuloLeaves ==
  ASSUME NEW a \in Int, NEW b \in Nat \ {0}
  PROVE  \E k \in Int : a = (a % b) + k * b
<1>1. a = (a % b) + (a \div b) * b
  OBVIOUS
<1>2. a \div b \in Int
  OBVIOUS
<1>3. QED
  BY <1>1, <1>2

(* What is left of a finite set without n of its elements.                 *)
LEMMA FewerAreLeft ==
  ASSUME NEW S, NEW T \in SUBSET S, IsFiniteSet(S)
  PROVE  /\ IsFiniteSet(S \ T)
         /\ Cardinality(S \ T) = Cardinality(S) - Cardinality(T)
<1>1. S \intersect T = T
  OBVIOUS
<1>2. QED
  BY <1>1, FS_Difference

(* The pages of a call are as many as it is long.                          *)
PagesOf(t, first, n) == {t} \X Run(first, n)

LEMMA RunIsLong ==
  ASSUME NEW t, NEW first \in Nat, NEW n \in Nat \ {0}
  PROVE  Cardinality(PagesOf(t, first, n)) = n
<1>1. IsFiniteSet(Run(first, n)) /\ Cardinality(Run(first, n)) = n
  BY RunIsKnown, FS_Interval DEF Run
<1>2. IsFiniteSet({t}) /\ Cardinality({t}) = 1
  BY FS_Singleton
<1>3. Cardinality({t} \X Run(first, n)) = Cardinality({t}) * Cardinality(Run(first, n))
  BY <1>1, <1>2, FS_Product, Zenon
<1>4. QED
  BY <1>1, <1>2, <1>3 DEF PagesOf

(* There are finitely many pages.                                          *)
LEMMA MapIsFinite ==
  ASSUME NEW S \in SUBSET Page
  PROVE  /\ IsFiniteSet(S)
         /\ Cardinality(S) \in 0 .. CountLimit - 1
<1>1. IsFiniteSet(Page) /\ Cardinality(Page) = PageLimit
  BY MemoryAssumption, FS_Interval DEF Page
<1>2. IsFiniteSet(S) /\ Cardinality(S) <= PageLimit /\ Cardinality(S) \in Nat
  BY <1>1, FS_Subset, FS_CardinalityType
<1>3. QED
  BY <1>2, MemoryAssumption

(* Pages to be counted change with the registers of the call that moves.   *)
LEMMA PendingMoves ==
  ASSUME TypeOK, NEW t \in Task, Step(t) \/ Call(t)
  PROVE  \A u \in Task \ {t} : ToTake(u)' = ToTake(u) /\ ToGive(u)' = ToGive(u)
BY OthersKept DEF ToTake, ToGive, Run

(* A page is marked: it is no longer available, and is to be subtracted.   *)
LEMMA MarkCounts ==
  ASSUME Indivisible, MemInv, Counted, NEW t \in Task, MarkStore(t)
  PROVE  Counted'
<1>1. \A u \in Task \ {t} : ToTake(u)' = ToTake(u) /\ ToGive(u)' = ToGive(u)
  BY PendingMoves DEF MemInv, Step
<1>2. /\ c[t] \in memory_map /\ memory_map' = memory_map \ {c[t]}
      /\ memory_map \subseteq Page
  <2>1. ~ DisposeStore(t)
    BY DEF MarkStore, DisposeStore, Goto
  <2>2. QED
    BY <2>1, MapMoves DEF Step, MemInv, TypeOK
<1>3. /\ pc[t] = "markStore" /\ pc'[t] = "mark"
      /\ c'[t] = c[t] + 1 /\ p'[t] = p[t] /\ N'[t] = N[t]
      /\ p[t] \in Nat /\ c[t] \in Nat /\ p[t] <= c[t]
      /\ page_available' = page_available /\ count' = count
      /\ \A u \in Task \ {t} : pc'[u] = pc[u]
  BY DEF MarkStore, Goto, MemInv, TypeOK, Knows, Locked
<1>4. /\ ToTake(t)' = ToTake(t) \union {c[t]} /\ c[t] \notin ToTake(t)
      /\ ToGive(t)' = ToGive(t)
  BY <1>3 DEF ToTake, ToGive
<1>5. /\ Taking' = Taking \union {<<t, c[t]>>} /\ <<t, c[t]>> \notin Taking
      /\ Giving' = Giving
  BY <1>1, <1>3, <1>4 DEF Taking, Giving
<1>6. /\ IsFiniteSet(Taking') /\ Cardinality(Taking') = Cardinality(Taking) + 1
      /\ Cardinality(Taking) \in Nat
  BY <1>5, FS_AddElement, FS_CardinalityType DEF Counted
<1>7. Cardinality(memory_map') = Cardinality(memory_map) - 1 /\ Cardinality(memory_map) \in Int
  BY <1>2, MapIsFinite, FS_RemoveElement
<1>8. Balance'
  <2>1. PICK k \in Int : page_available + Cardinality(Giving)
                           = Cardinality(memory_map) + Cardinality(Taking) + k * CountLimit
    BY DEF Counted, Balance
  <2>2. k * CountLimit \in Int
    BY MemoryAssumption
  <2>3. page_available' + Cardinality(Giving')
           = Cardinality(memory_map') + Cardinality(Taking') + k * CountLimit
    BY <1>3, <1>5, <1>6, <1>7, <2>1, <2>2
  <2>4. QED
    BY <2>3 DEF Balance
<1>9. QED
  BY <1>3, <1>5, <1>6, <1>8 DEF Counted

(* A page is put back: it is available again, and is to be added.          *)
LEMMA DisposeCounts ==
  ASSUME Indivisible, MemInv, Counted, NEW t \in Task, DisposeStore(t)
  PROVE  Counted'
<1>1. \A u \in Task \ {t} : ToTake(u)' = ToTake(u) /\ ToGive(u)' = ToGive(u)
  BY PendingMoves DEF MemInv, Step
<1>2. /\ c[t] \notin memory_map /\ memory_map' = memory_map \union {c[t]}
      /\ memory_map \subseteq Page
  <2>1. ~ MarkStore(t)
    BY DEF MarkStore, DisposeStore, Goto
  <2>2. QED
    BY <2>1, MapMoves DEF Step, MemInv, TypeOK, EveryPageHasOnePlace, Holds
<1>3. /\ pc[t] = "disposeStore" /\ pc'[t] = "dispose"
      /\ c'[t] = c[t] + 1 /\ p'[t] = p[t] /\ N'[t] = N[t]
      /\ p[t] \in Nat /\ c[t] \in Nat /\ p[t] <= c[t]
      /\ page_available' = page_available /\ count' = count
      /\ page_available \in Nat
      /\ \A u \in Task \ {t} : pc'[u] = pc[u]
  BY DEF DisposeStore, Goto, MemInv, TypeOK, Knows, Locked
<1>4. /\ ToGive(t)' = ToGive(t) \union {c[t]} /\ c[t] \notin ToGive(t)
      /\ ToTake(t)' = ToTake(t)
  BY <1>3 DEF ToTake, ToGive
<1>5. /\ Giving' = Giving \union {<<t, c[t]>>} /\ <<t, c[t]>> \notin Giving
      /\ Taking' = Taking
  BY <1>1, <1>3, <1>4 DEF Taking, Giving
<1>6. /\ IsFiniteSet(Giving') /\ Cardinality(Giving') = Cardinality(Giving) + 1
      /\ Cardinality(Giving) \in Nat /\ Cardinality(Taking) \in Nat
  BY <1>5, FS_AddElement, FS_CardinalityType DEF Counted
<1>7. Cardinality(memory_map') = Cardinality(memory_map) + 1 /\ Cardinality(memory_map) \in Int
  BY <1>2, MapIsFinite, FS_AddElement
<1>8. Balance'
  <2>1. PICK k \in Int : page_available + Cardinality(Giving)
                           = Cardinality(memory_map) + Cardinality(Taking) + k * CountLimit
    BY DEF Counted, Balance
  <2>2. k * CountLimit \in Int
    BY MemoryAssumption
  <2>3. page_available' + Cardinality(Giving')
           = Cardinality(memory_map') + Cardinality(Taking') + k * CountLimit
    BY <1>3, <1>5, <1>6, <1>7, <2>1, <2>2
  <2>4. QED
    BY <2>3 DEF Balance
<1>9. QED
  BY <1>3, <1>5, <1>6, <1>8 DEF Counted

(* The pages that were taken are subtracted.                               *)
LEMMA TakeCounts ==
  ASSUME Indivisible, MemInv, Counted, NEW t \in Task, Turn(t), TakeStore(t)
  PROVE  Counted'
<1>1. \A u \in Task \ {t} : ToTake(u)' = ToTake(u) /\ ToGive(u)' = ToGive(u)
  BY PendingMoves DEF MemInv, Step
<1>2. /\ pc[t] = "takeStore" /\ pc'[t] = "unlock"
      /\ p[t] \in Nat /\ N[t] \in Nat \ {0}
      /\ page_available' = (count[t] + CountLimit - N[t]) % CountLimit
      /\ count[t] = page_available /\ page_available \in Nat
      /\ memory_map' = memory_map /\ memory_map \subseteq Page
      /\ CountLimit \in Nat \ {0}
      /\ \A u \in Task \ {t} : pc'[u] \notin Updating
  BY MemoryAssumption DEF TakeStore, Goto, MemInv, TypeOK, Knows, Counted, Turn, Updating
<1>3. /\ ToTake(t) = Run(p[t], N[t]) /\ ToTake(t)' = {}
      /\ ToGive(t) = {} /\ ToGive(t)' = {}
      /\ Run(p[t], N[t]) \subseteq Nat
  BY <1>2 DEF ToTake, ToGive, Run
<1>4. /\ PagesOf(t, p[t], N[t]) \subseteq Taking
      /\ Taking' = Taking \ PagesOf(t, p[t], N[t])
      /\ Giving' = Giving
  BY <1>1, <1>3 DEF Taking, Giving, PagesOf
<1>5. /\ IsFiniteSet(Taking') /\ Cardinality(Taking') = Cardinality(Taking) - N[t]
      /\ Cardinality(Taking) \in Nat /\ Cardinality(Giving) \in Nat
      /\ Cardinality(memory_map) \in Int
  <2>1. IsFiniteSet(Taking) /\ IsFiniteSet(Giving)
    BY DEF Counted
  <2>2. /\ IsFiniteSet(Taking \ PagesOf(t, p[t], N[t]))
        /\ Cardinality(Taking \ PagesOf(t, p[t], N[t])) = Cardinality(Taking) - N[t]
    <3> DEFINE T == PagesOf(t, p[t], N[t])
    <3>1. Cardinality(T) = N[t]
      BY <1>2, RunIsLong
    <3>2. T \subseteq Taking
      BY <1>4
    <3> HIDE DEF T
    <3>3. IsFiniteSet(Taking \ T) /\ Cardinality(Taking \ T) = Cardinality(Taking) - N[t]
      BY <2>1, <3>1, <3>2, FewerAreLeft
    <3>4. QED
      BY <3>3 DEF T
  <2>3. Cardinality(memory_map) \in Int
    BY <1>2, MapIsFinite
  <2>4. QED
    BY <1>4, <2>1, <2>2, <2>3, FS_CardinalityType
<1>6. Balance'
  <2>1. PICK k \in Int : page_available + Cardinality(Giving)
                           = Cardinality(memory_map) + Cardinality(Taking) + k * CountLimit
    BY DEF Counted, Balance
  <2>2. PICK m \in Int : page_available + CountLimit - N[t] = page_available' + m * CountLimit
    <3> DEFINE a == page_available + CountLimit - N[t]
    <3>1. a \in Int /\ page_available' = a % CountLimit
      BY <1>2
    <3> HIDE DEF a
    <3>2. CountLimit \in Nat \ {0}
      BY <1>2
    <3>3. \E m \in Int : a = (a % CountLimit) + m * CountLimit
      BY <3>1, <3>2, ModuloLeaves
    <3>4. QED
      BY <3>1, <3>3 DEF a
  <2>3. page_available' \in Int
    BY <1>2, CountWraps
  <2>4. /\ k * CountLimit \in Int /\ m * CountLimit \in Int
        /\ (k - m + 1) * CountLimit = k * CountLimit - m * CountLimit + CountLimit
    BY <1>2
  <2>5. page_available' + Cardinality(Giving')
           = Cardinality(memory_map') + Cardinality(Taking') + (k - m + 1) * CountLimit
    BY <1>2, <1>4, <1>5, <2>1, <2>2, <2>3, <2>4
  <2>6. k - m + 1 \in Int
    OBVIOUS
  <2>7. QED
    BY <2>5, <2>6 DEF Balance
<1>7. QED
  BY <1>2, <1>4, <1>5, <1>6 DEF Counted, Updating

(* The pages that were put back are added.                                 *)
LEMMA GiveCounts ==
  ASSUME Indivisible, MemInv, Counted, NEW t \in Task, Turn(t), GiveStore(t)
  PROVE  Counted'
<1>1. \A u \in Task \ {t} : ToTake(u)' = ToTake(u) /\ ToGive(u)' = ToGive(u)
  BY PendingMoves DEF MemInv, Step
<1>2. /\ pc[t] = "giveStore" /\ pc'[t] = "user"
      /\ p[t] \in Nat /\ N[t] \in Nat \ {0}
      /\ page_available' = (count[t] + N[t]) % CountLimit
      /\ count[t] = page_available /\ page_available \in Nat
      /\ memory_map' = memory_map /\ memory_map \subseteq Page
      /\ CountLimit \in Nat \ {0}
      /\ \A u \in Task \ {t} : pc'[u] \notin Updating
  BY MemoryAssumption DEF GiveStore, Goto, MemInv, TypeOK, Knows, Counted, Turn, Updating
<1>3. /\ ToGive(t) = Run(p[t], N[t]) /\ ToGive(t)' = {}
      /\ ToTake(t) = {} /\ ToTake(t)' = {}
      /\ Run(p[t], N[t]) \subseteq Nat
  BY <1>2 DEF ToTake, ToGive, Run
<1>4. /\ PagesOf(t, p[t], N[t]) \subseteq Giving
      /\ Giving' = Giving \ PagesOf(t, p[t], N[t])
      /\ Taking' = Taking
  BY <1>1, <1>3 DEF Taking, Giving, PagesOf
<1>5. /\ IsFiniteSet(Giving') /\ Cardinality(Giving') = Cardinality(Giving) - N[t]
      /\ Cardinality(Giving) \in Nat /\ Cardinality(Taking) \in Nat
      /\ Cardinality(memory_map) \in Int
  <2>1. IsFiniteSet(Giving) /\ IsFiniteSet(Taking)
    BY DEF Counted
  <2>2. /\ IsFiniteSet(Giving \ PagesOf(t, p[t], N[t]))
        /\ Cardinality(Giving \ PagesOf(t, p[t], N[t])) = Cardinality(Giving) - N[t]
    <3> DEFINE T == PagesOf(t, p[t], N[t])
    <3>1. Cardinality(T) = N[t]
      BY <1>2, RunIsLong
    <3>2. T \subseteq Giving
      BY <1>4
    <3> HIDE DEF T
    <3>3. IsFiniteSet(Giving \ T) /\ Cardinality(Giving \ T) = Cardinality(Giving) - N[t]
      BY <2>1, <3>1, <3>2, FewerAreLeft
    <3>4. QED
      BY <3>3 DEF T
  <2>3. Cardinality(memory_map) \in Int
    BY <1>2, MapIsFinite
  <2>4. QED
    BY <1>4, <2>1, <2>2, <2>3, FS_CardinalityType
<1>6. Balance'
  <2>1. PICK k \in Int : page_available + Cardinality(Giving)
                           = Cardinality(memory_map) + Cardinality(Taking) + k * CountLimit
    BY DEF Counted, Balance
  <2>2. PICK m \in Int : page_available + N[t] = page_available' + m * CountLimit
    <3> DEFINE a == page_available + N[t]
    <3>1. a \in Int /\ page_available' = a % CountLimit
      BY <1>2
    <3> HIDE DEF a
    <3>2. CountLimit \in Nat \ {0}
      BY <1>2
    <3>3. \E m \in Int : a = (a % CountLimit) + m * CountLimit
      BY <3>1, <3>2, ModuloLeaves
    <3>4. QED
      BY <3>1, <3>3 DEF a
  <2>3. page_available' \in Int
    BY <1>2, CountWraps
  <2>4. /\ k * CountLimit \in Int /\ m * CountLimit \in Int
        /\ (k - m) * CountLimit = k * CountLimit - m * CountLimit
    BY <1>2
  <2>5. page_available' + Cardinality(Giving')
           = Cardinality(memory_map') + Cardinality(Taking') + (k - m) * CountLimit
    <3>1. page_available' = page_available + N[t] - m * CountLimit
      BY <1>2, <2>2, <2>3, <2>4
    <3>2. /\ Cardinality(Giving') = Cardinality(Giving) - N[t]
          /\ Cardinality(Taking') = Cardinality(Taking)
          /\ Cardinality(memory_map') = Cardinality(memory_map)
      BY <1>2, <1>4, <1>5
    <3>3. page_available \in Int /\ N[t] \in Int
      BY <1>2
    <3>4. QED
      BY <1>5, <2>1, <2>4, <3>1, <3>2, <3>3
  <2>6. k - m \in Int
    OBVIOUS
  <2>7. QED
    BY <2>5, <2>6 DEF Balance
<1>7. QED
  BY <1>2, <1>4, <1>5, <1>6 DEF Counted, Updating

(* No other step changes the map, the count, or what is to be counted.     *)
LEMMA CountsKept ==
  ASSUME Indivisible, MemInv, Counted, NEW t \in Task, Turn(t),
         Step(t) \/ Call(t),
         ~ MarkStore(t), ~ DisposeStore(t), ~ TakeStore(t), ~ GiveStore(t)
  PROVE  Counted'
<1> USE DEF Goto
<1>1. \A u \in Task \ {t} : ToTake(u)' = ToTake(u) /\ ToGive(u)' = ToGive(u)
  BY PendingMoves DEF MemInv
<1>2. /\ DOMAIN pc = Task /\ DOMAIN p = Task /\ DOMAIN c = Task
      /\ DOMAIN N = Task /\ DOMAIN count = Task
      /\ p[t] \in Nat /\ c[t] \in Nat /\ N[t] \in Nat
      /\ Knows(t) /\ count \in [Task -> Nat]
  BY MemoryAssumption DEF MemInv, TypeOK
<1>3. memory_map' = memory_map /\ page_available' = page_available
  BY MapMoves DEF Step, Call, SearchOn, SearchAgain, SearchFound, SearchFailed,
     Mark, Take, Unlock, Clean, Dispose, Give, AllocCall, AllocLock, ReleaseCall,
     mapVars
<1>4. /\ \A u \in Task \ {t} : pc'[u] \notin Updating
      /\ pc'[t] \in {"takeStore", "giveStore"} => count'[t] = page_available
  <2>1. \A u \in Task \ {t} : pc'[u] = pc[u] /\ pc[u] \notin Updating
    BY OthersKept DEF MemInv, Turn
  <2>2. pc'[t] \in {"takeStore", "giveStore"} => Take(t) \/ Give(t)
    BY <1>2 DEF Step, Call, SearchOn, SearchAgain, SearchFound, SearchFailed,
       Mark, Unlock, Clean, Dispose, AllocCall, AllocLock, ReleaseCall, Knows
  <2>3. Take(t) \/ Give(t) => count'[t] = page_available
    BY <1>2 DEF Take, Give
  <2>4. QED
    BY <2>1, <2>2, <2>3
<1>5. ToTake(t)' = ToTake(t) /\ ToGive(t)' = ToGive(t)
  <2>1. CASE SearchOn(t) \/ SearchAgain(t) \/ SearchFound(t) \/ SearchFailed(t)
    BY <1>2, <2>1 DEF SearchOn, SearchAgain, SearchFound, SearchFailed, ToTake, ToGive
  <2>2. CASE Mark(t) \/ Take(t) \/ Unlock(t)
    BY <1>2, <2>2 DEF Mark, Take, Unlock, ToTake, ToGive, Run
  <2>3. CASE Clean(t) \/ Dispose(t) \/ Give(t)
    BY <1>2, <2>3 DEF Clean, Dispose, Give, ToTake, ToGive, Run, callVars, Knows
  <2>4. CASE Call(t)
    BY <1>2, <2>4 DEF Call, AllocCall, AllocLock, ReleaseCall, ToTake, ToGive
  <2>5. QED
    BY <2>1, <2>2, <2>3, <2>4 DEF Step
<1>6. Taking' = Taking /\ Giving' = Giving
  BY <1>1, <1>5 DEF Taking, Giving
<1>7. Balance'
  BY <1>3, <1>6 DEF Counted, Balance
<1>8. QED
  BY <1>3, <1>4, <1>6, <1>7 DEF Counted, Updating

(* Every step keeps the account.                                           *)
LEMMA CountedStep == Indivisible /\ MemInv /\ Counted /\ [Next]_vars => Counted'
<1> SUFFICES ASSUME Indivisible, MemInv, Counted, [Next]_vars PROVE Counted'
  OBVIOUS
<1>1. CASE Next
  <2>1. PICK t \in Task : Turn(t) /\ (Step(t) \/ Call(t))
    BY <1>1 DEF Next
  <2>2. QED
    BY <2>1, MarkCounts, DisposeCounts, TakeCounts, GiveCounts, CountsKept
<1>2. CASE UNCHANGED vars
  <2>1. \A t \in Task : ToTake(t)' = ToTake(t) /\ ToGive(t)' = ToGive(t)
    BY <1>2 DEF vars, callVars, ToTake, ToGive, Run
  <2>2. Taking' = Taking /\ Giving' = Giving
    BY <2>1 DEF Taking, Giving
  <2>3. QED
    BY <1>2, <2>2 DEF Counted, Balance, vars, callVars, mapVars
<1>3. QED
  BY <1>1, <1>2

(* Initially there is nothing to be counted.                               *)
LEMMA CountedInit == Init => Counted
<1> SUFFICES ASSUME Init PROVE Counted
  OBVIOUS
<1>1. Taking = {} /\ Giving = {}
  BY DEF Init, Taking, Giving, ToTake, ToGive
<1>2. /\ IsFiniteSet(Taking) /\ Cardinality(Taking) = 0
      /\ IsFiniteSet(Giving) /\ Cardinality(Giving) = 0
  BY <1>1, FS_EmptySet
<1>3. Cardinality(Usable) \in Int /\ CountLimit \in Int
  BY MemoryAssumption, MapIsFinite DEF Page
<1>4. Balance
  <2>1. page_available + Cardinality(Giving)
          = Cardinality(memory_map) + Cardinality(Taking) + 0 * CountLimit
    BY <1>2, <1>3 DEF Init
  <2>2. QED
    BY <2>1 DEF Balance
<1>5. QED
  BY <1>2, <1>4 DEF Counted, Init

(* Though releases count next to whoever holds the lock, and the count may *)
(* fall below zero on the way, it is the number of available pages         *)
(* whenever no call is under way (memory.c:54, 70).                *)
THEOREM CountIsRight == Indivisible /\ Spec => []CountIsExact
<1>1. ASSUME MemInv, Counted PROVE CountIsExact
  <2> SUFFICES ASSUME \A t \in Task : pc[t] = "user"
               PROVE  page_available = Cardinality(memory_map)
    BY DEF CountIsExact
  <2>1. Taking = {} /\ Giving = {}
    BY DEF Taking, Giving, ToTake, ToGive
  <2>2. Cardinality(Taking) = 0 /\ Cardinality(Giving) = 0
    BY <2>1, FS_EmptySet
  <2>3. PICK k \in Int : page_available + Cardinality(Giving)
                           = Cardinality(memory_map) + Cardinality(Taking) + k * CountLimit
    BY <1>1 DEF Counted, Balance
  <2>4. /\ page_available \in 0 .. CountLimit - 1
        /\ Cardinality(memory_map) \in 0 .. CountLimit - 1
        /\ CountLimit \in Nat
    BY <1>1, MapIsFinite, MemoryAssumption DEF MemInv, TypeOK
  <2>5. page_available = Cardinality(memory_map) + k * CountLimit
    BY <2>2, <2>3, <2>4
  <2>6. CASE k >= 1
    <3>1. k * CountLimit >= CountLimit /\ k * CountLimit \in Int
      BY <2>4, <2>6
    <3>2. QED
      BY <2>4, <2>5, <3>1
  <2>7. CASE k <= -1
    <3>1. k * CountLimit <= - CountLimit /\ k * CountLimit \in Int
      BY <2>4, <2>7
    <3>2. QED
      BY <2>4, <2>5, <3>1
  <2>8. QED
    BY <2>4, <2>5, <2>6, <2>7
<1>2. Indivisible /\ MemInv /\ Counted /\ [Next]_vars => Counted'
  BY CountedStep
<1>3. SUFFICES ASSUME Indivisible PROVE Spec => []CountIsExact
  OBVIOUS
<1>4. MemInv /\ Counted /\ [Next]_vars => Counted'
  BY <1>2, <1>3
<1>5. QED
  BY <1>1, <1>3, <1>4, CountedInit, MemInvariant, PTL DEF Spec
=============================================================================
