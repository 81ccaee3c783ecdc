------------------------------ MODULE SpaceProofs ------------------------------
(***************************************************************************)
(* Theorems about address spaces: the users of the streams are counted.    *)
(* What paging does to the memory does not matter here; it changes nothing *)
(* else.                                                                   *)
(***************************************************************************)
EXTENDS Space, FiniteSetTheorems, WellFoundedInduction, TLAPS

(* The fields there are.                                                   *)
TaskShape(x) ==
  x = [state |-> x.state, pid |-> x.pid, parent |-> x.parent, thread |-> x.thread,
       cr3 |-> x.cr3, map |-> x.map, in |-> x.in, out |-> x.out, stack |-> x.stack]

QueueShape(task) ==
  /\ task = [e \in Entry \union {Kernel} |-> task[e]]
  /\ \A e \in Entry \union {Kernel} : TaskShape(task[e])

StreamShape(stream) ==
  stream = [s \in Stream |-> [base |-> stream[s].base, count |-> stream[s].count]]

Shape(k) ==
  /\ k = [memory |-> k.memory, task |-> k.task, task_id |-> k.task_id, stream |-> k.stream,
          library |-> k.library, library_map |-> k.library_map,
          framebuffer_pid |-> k.framebuffer_pid, uses |-> k.uses, calls |-> k.calls,
          kept |-> k.kept, failed |-> k.failed, halted |-> k.halted]
  /\ k.failed \in BOOLEAN
  /\ QueueShape(k.task) /\ StreamShape(k.stream)

(* The ends that tasks have of a stream, but for those the collector has   *)
(* released.                                                               *)
Gone(g, t, part) ==
  g.e = t /\ \/ part = "in" /\ g.pc \in {"out", "map", "strip"}
             \/ part = "out" /\ g.pc \in {"map", "strip"}

EndsOf(task, g, s) ==
  {e \in Entry \X {"in", "out"} :
     /\ task[e[1]].state \in {"active", "close"} /\ ~ Gone(g, e[1], e[2])
     /\ s = IF e[2] = "in" THEN task[e[1]].in ELSE task[e[1]].out}

Others(s) == IF s = Null THEN 2 ELSE 0

(* One more user of a, and one of b, is about to be.                       *)
Is(s, a) == IF s = a THEN 1 ELSE 0

Counted(stream, task, g, a, b) ==
  \A s \in Stream :
    /\ stream[s].count = Cardinality(EndsOf(task, g, s)) + Others(s) + Is(s, a) + Is(s, b)
    /\ stream[s].base = 0 <=> stream[s].count = 0

Held(k, g) ==
  /\ Shape(k)
  /\ g = [pc |-> g.pc, e |-> g.e, slot |-> g.slot]
  /\ g.pc # "scan" => g.e \in Entry /\ k.task[g.e].state = "close"
  /\ \A e \in Entry \union {Kernel} : k.task[e].in \in Stream \union {0}
                                      /\ k.task[e].out \in Stream \union {0}
  /\ k.task[Kernel].in \in {0, Null} /\ k.task[Kernel].out \in {0, Null}
  /\ ~ k.failed =>
       /\ \A e \in Entry : k.task[e].state \in {"free", "active", "close"}
       /\ Counted(k.stream, k.task, g, 0, 0)

SpaceInv == kernel.halted \/ Held(kernel, gc)

-----------------------------------------------------------------------------
(* What changes neither tasks nor streams, or only one task.               *)
Kept(k, j) ==
  Shape(j) /\ j.task = k.task /\ j.stream = k.stream /\ (k.failed => j.failed)

Built(k, j, e) ==
  /\ Shape(j) /\ j.stream = k.stream /\ (k.failed => j.failed)
  /\ \A x \in Entry \union {Kernel} : x # e => j.task[x] = k.task[x]
  /\ j.task[e].in = k.task[e].in /\ j.task[e].out = k.task[e].out

LEMMA KeptItself ==
  ASSUME NEW k, Shape(k)
  PROVE  Kept(k, k)
BY DEF Kept

LEMMA KeptTwice ==
  ASSUME NEW k, NEW j, NEW i, Kept(k, j), Kept(j, i)
  PROVE  Kept(k, i)
BY DEF Kept

LEMMA WithKept ==
  ASSUME NEW k, NEW m, Shape(k)
  PROVE  Kept(k, With(k, m)) /\ With(k, m).halted = k.halted
BY DEF With, Shape, Kept

LEMMA FreeKept ==
  ASSUME NEW k, NEW frame, Shape(k)
  PROVE  Kept(k, Free(k, frame))
BY WithKept DEF Free

LEMMA KeepKept ==
  ASSUME NEW k, NEW f, Shape(k)
  PROVE  Kept(k, Keep(k, f))
BY DEF Keep, Shape, Kept

LEMMA CalledKept ==
  ASSUME NEW k, Shape(k)
  PROVE  Kept(k, Called(k))
BY DEF Called, Shape, Kept

LEMMA UsesKept ==
  ASSUME NEW k, NEW u, Shape(k)
  PROVE  Kept(k, [k EXCEPT !.uses = u])
BY DEF Shape, Kept

LEMMA LibraryKept ==
  ASSUME NEW k, NEW u, NEW v, Shape(k)
  PROVE  Kept(k, [k EXCEPT !.library = u, !.library_map = v])
<1>1. Kept(k, [k EXCEPT !.library = u])
  BY DEF Shape, Kept
<1> DEFINE j == [k EXCEPT !.library = u]
<1> HIDE DEF j
<1>2. ASSUME Shape(j) PROVE Kept(j, [j EXCEPT !.library_map = v])
  BY <1>2 DEF Shape, Kept
<1>3. [k EXCEPT !.library = u, !.library_map = v] = [j EXCEPT !.library_map = v]
  BY DEF j
<1>4. QED
  BY <1>1, <1>2, <1>3, KeptTwice DEF j, Kept

LEMMA FailedSet ==
  ASSUME NEW k, Shape(k), NEW v \in BOOLEAN
  PROVE  LET j == [k EXCEPT !.failed = v] IN
         Shape(j) /\ j.task = k.task /\ j.stream = k.stream /\ j.failed = v
BY DEF Shape

LEMMA FailKept ==
  ASSUME NEW k, Shape(k)
  PROVE  Kept(k, Fail(k)) /\ Fail(k).failed
<1> DEFINE j == [k EXCEPT !.failed = TRUE]
<1>1. Shape(j) /\ j.task = k.task /\ j.stream = k.stream /\ j.failed = TRUE
  BY FailedSet
<1> HIDE DEF j
<1>2. j.failed
  BY <1>1
<1>3. Kept(k, j)
  BY <1>1, <1>2 DEF Kept
<1>4. QED
  BY <1>2, <1>3 DEF j, Fail

LEMMA Halts == \A k : Halt(k).halted
BY DEF Halt, Start

LEMMA PutIs ==
  ASSUME NEW k, Shape(k), NEW e \in Entry \union {Kernel}, NEW r, TaskShape(r)
  PROVE  LET j == Put(k, e, r) IN
         /\ Shape(j) /\ j.stream = k.stream /\ j.failed = k.failed /\ j.halted = k.halted
         /\ j.task[e] = r
         /\ \A x \in Entry \union {Kernel} : x # e => j.task[x] = k.task[x]
<1> DEFINE j == Put(k, e, r)
           task == [k.task EXCEPT ![e] = r]
<1>1. /\ task = [x \in Entry \union {Kernel} |-> task[x]]
      /\ task[e] = r
      /\ \A x \in Entry \union {Kernel} : x # e => task[x] = k.task[x]
  BY DEF Shape, QueueShape
<1>2. j = [k EXCEPT !.task = task]
  BY DEF Put
<1> HIDE DEF j, task
<1>3. \A x \in Entry \union {Kernel} : TaskShape(task[x])
  BY <1>1 DEF Shape, QueueShape
<1>4. QueueShape(task)
  BY <1>1, <1>3 DEF QueueShape
<1>5. /\ j.stream = k.stream /\ j.failed = k.failed /\ j.halted = k.halted
      /\ j.task = task
  BY <1>2 DEF Shape
<1>6. Shape(j)
  BY <1>2, <1>4 DEF Shape
<1>7. QED
  BY <1>1, <1>5, <1>6 DEF j

LEMMA BuiltPut ==
  ASSUME NEW k, NEW j, NEW e \in Entry, NEW r, Built(k, j, e), TaskShape(r),
         r.in = j.task[e].in, r.out = j.task[e].out
  PROVE  Built(k, Put(j, e, r), e)
<1> DEFINE i == Put(j, e, r)
<1>1. /\ Shape(i) /\ i.stream = j.stream /\ i.failed = j.failed /\ i.task[e] = r
      /\ \A x \in Entry \union {Kernel} : x # e => i.task[x] = j.task[x]
  BY PutIs DEF Built
<1> HIDE DEF i
<1>2. Built(k, i, e)
  BY <1>1 DEF Built
<1>3. QED
  BY <1>2 DEF i

LEMMA BuiltKept ==
  ASSUME NEW k, NEW j, NEW i, NEW e, Built(k, j, e), Kept(j, i)
  PROVE  Built(k, i, e)
BY DEF Built, Kept

LEMMA KeptBuilt ==
  ASSUME NEW k, NEW j, NEW e, Kept(k, j)
  PROVE  Built(k, j, e)
BY DEF Built, Kept

(* The fields of a task.                                                   *)
LEMMA TaskOf ==
  ASSUME NEW k, Shape(k), NEW e \in Entry \union {Kernel}
  PROVE  TaskShape(k.task[e])
BY DEF Shape, QueueShape

LEMMA StateSet ==
  ASSUME NEW x, TaskShape(x), NEW u, NEW r, r = [x EXCEPT !.state = u]
  PROVE  TaskShape(r) /\ r.in = x.in /\ r.out = x.out /\ r.state = u
BY DEF TaskShape

LEMMA SpaceSet ==
  ASSUME NEW x, TaskShape(x), NEW u, NEW r, r = [x EXCEPT !.cr3 = u] \/ r = [x EXCEPT !.map = u]
  PROVE  TaskShape(r) /\ r.in = x.in /\ r.out = x.out
BY DEF TaskShape

LEMMA StackSet ==
  ASSUME NEW x, TaskShape(x), NEW u, NEW r, r = [x EXCEPT !.stack = u]
  PROVE  TaskShape(r) /\ r.in = x.in /\ r.out = x.out /\ r.state = x.state
BY DEF TaskShape

LEMMA Least ==
  ASSUME NEW S \in SUBSET Nat, S # {}
  PROVE  (CHOOSE x \in S : \A y \in S : x <= y) \in S
<1>1. PICK x \in S : \A y \in S : ~ (<<y, x>> \in OpToRel(<, Nat))
  BY WFMin, NatLessThanWellFounded
<1>2. \A y \in S : ~ (y < x)
  BY <1>1 DEF OpToRel
<1>3. \E z \in S : \A y \in S : z <= y
  BY <1>2
<1>4. QED
  BY <1>3

-----------------------------------------------------------------------------
(* Libraries.                                                              *)
LEMMA LoadKept ==
  ASSUME NEW k, NEW t, NEW l, Shape(k)
  PROVE  Load(k, t, l).halted \/ Kept(k, Load(k, t, l))
<1> DEFINE p      == FirstFit(k.library_map, One)
           file   == Take(k.memory, One)
           mapped == PageAlloc(file.m, Root, p, One, {"write", "user", "library"})
           shown  == PageFlags(mapped.m, Root, p, One, {"user", "library"})
           j      == [With(k, shown) EXCEPT !.library[l] = p, !.library_map = @ \ {p}]
           loads  == /\ ~ k.halted /\ k.library[l] = 0 /\ file.ok /\ p # 0 /\ mapped.ok
                     /\ Address(mapped.m, k.task[t].cr3, p) # 0
<1>1. Load(k, t, l) = CASE k.halted \/ k.library[l] # 0 -> k
                        [] loads -> Keep(j, file.frame)
                        [] OTHER -> Halt(k)
  BY DEF Load
<1>2. Kept(k, With(k, shown))
  BY WithKept
<1> HIDE DEF p, file, mapped, shown, loads
<1>3. Kept(With(k, shown), j)
  <2> DEFINE i == With(k, shown)
  <2>1. Shape(i)
    BY <1>2 DEF Kept
  <2> HIDE DEF i
  <2>2. \A u, v : Kept(i, [i EXCEPT !.library = u, !.library_map = v])
    BY <2>1, LibraryKept
  <2>3. Kept(i, [i EXCEPT !.library = [@ EXCEPT ![l] = p], !.library_map = @ \ {p}])
    BY <2>2
  <2>4. QED
    BY <2>3 DEF i
<1>4. Kept(k, j)
  BY <1>2, <1>3, KeptTwice
<1> HIDE DEF j
<1>5. Kept(k, Keep(j, file.frame))
  BY <1>4, KeepKept, KeptTwice DEF Kept
<1>6. Load(k, t, l) \in {k, Keep(j, file.frame), Halt(k)}
  BY <1>1
<1>7. QED
  BY <1>5, <1>6, KeptItself, Halts

LEMMA ImportIs ==
  ASSUME NEW k, NEW t, NEW l
  PROVE  Import(k, t, <<l>>) = Load(k, t, l)
<1> DEFINE f == [n \in 0 .. 1 |-> IF n = 0 THEN k ELSE Load(k, t, l)]
           Loads(g) == g = [n \in 0 .. 1 |-> IF n = 0 THEN k ELSE Load(g[n - 1], t, <<l>>[n])]
<1>1. Loads(f)
  <2>1. ASSUME NEW n \in 0 .. 1
        PROVE  f[n] = IF n = 0 THEN k ELSE Load(f[n - 1], t, <<l>>[n])
    <3>1. CASE n = 0
      BY <3>1
    <3>2. CASE n = 1
      <4>1. <<l>>[n] = l /\ f[n - 1] = k
        BY <3>2
      <4>2. QED
        BY <3>2, <4>1
    <3>3. QED
      BY <3>1, <3>2
  <2>2. QED
    BY <2>1
<1> DEFINE h == CHOOSE g : Loads(g)
<1>2. Import(k, t, <<l>>) = h[1]
  <2>1. Len(<<l>>) = 1
    OBVIOUS
  <2>2. QED
    BY <2>1 DEF Import
<1>3. Loads(h)
  BY <1>1
<1> HIDE DEF h
<1>4. h[1] = Load(h[0], t, <<l>>[1]) /\ h[0] = k
  <2>1. 0 \in 0 .. 1 /\ 1 \in 0 .. 1 /\ 1 - 1 = 0
    OBVIOUS
  <2>2. QED
    BY <1>3, <2>1
<1>5. <<l>>[1] = l
  OBVIOUS
<1>6. QED
  BY <1>2, <1>4, <1>5

-----------------------------------------------------------------------------
(* A task that is built, until its streams are there.                      *)
LEMMA FreeEntryIs ==
  ASSUME NEW k
  PROVE  \/ FreeEntry(k) = 0
         \/ FreeEntry(k) \in Entry /\ k.task[FreeEntry(k)].state = "free"
<1> DEFINE idle == {e \in Entry : k.task[e].state = "free"}
<1>1. idle \in SUBSET Nat
  BY DEF Entry
<1>2. CASE idle = {}
  BY <1>2 DEF FreeEntry
<1>3. CASE idle # {}
  <2>1. (CHOOSE e \in idle : \A x \in idle : e <= x) \in idle
    BY <1>1, <1>3, Least
  <2>2. QED
    BY <1>3, <2>1 DEF FreeEntry
<1>4. QED
  BY <1>2, <1>3

LEMMA SecureIs ==
  ASSUME NEW k, NEW e \in Entry, NEW t, Shape(k)
  PROVE  Built(k, Secure(k, e, t), e)
<1> DEFINE j  == [k EXCEPT !.task_id = @ + 1]
           x  == k.task[e]
           id == k.task_id + 1
           p  == k.task[t].pid
           r  == [x EXCEPT !.state = "secured", !.pid = id, !.parent = p]
<1>1. Kept(k, j)
  BY DEF Kept, Shape
<1>2. TaskShape(x)
  BY TaskOf
<1>3. Secure(k, e, t) = Put(j, e, r)
  BY DEF Secure
<1>4. j.task[e] = x
  BY <1>1 DEF Kept
<1>5. Built(k, j, e)
  BY <1>1, KeptBuilt
<1> HIDE DEF j, x, id, p
<1>6. r = [x EXCEPT !.state = "secured", !.pid = id, !.parent = p]
  OBVIOUS
<1> HIDE DEF r
<1>7. TaskShape(r) /\ r.in = x.in /\ r.out = x.out
  BY <1>2, <1>6 DEF TaskShape
<1>8. QED
  BY <1>3, <1>4, <1>5, <1>7, BuiltPut

LEMMA FramesetIs ==
  ASSUME NEW k, NEW t, Shape(k)
  PROVE  LET made == Frameset(k, t) IN
         \/ made.at = "none" /\ (made.k = k \/ made.k.halted)
         \/ /\ made.e \in Entry /\ k.task[made.e].state = "free" /\ Built(k, made.k, made.e)
            /\ \/ made.at = "built"
               \/ made.at = "secured" /\ made.k.failed
<1> DEFINE e       == FreeEntry(k)
           root    == Take(k.memory, 1)
           with    == With(k, root.m)
           secured == Secure(with, e, t)
           r       == [secured.task[e] EXCEPT !.cr3 = root.frame]
           rooted  == Put(secured, e, r)
           context == PageAlloc(root.m, root.frame, ContextAt, One, Context)
           last    == With(rooted, context.m)
           Made(at, j) == [at |-> at, e |-> e, root |-> root.frame, k |-> j]
<1>1. Frameset(k, t) =
        CASE e = 0 -> Made("none", k)
          [] e # 0 /\ ~ root.ok -> Made("none", Halt(k))
          [] e # 0 /\ root.ok /\ ~ context.ok -> Made("secured", Fail(last))
          [] e # 0 /\ root.ok /\ context.ok -> Made("built", last)
  BY DEF Frameset
<1>2. CASE e = 0
  <2>1. Frameset(k, t) = Made("none", k)
    BY <1>1, <1>2
  <2>2. QED
    BY <2>1
<1>3. CASE e # 0 /\ ~ root.ok
  <2>1. Frameset(k, t) = Made("none", Halt(k))
    BY <1>1, <1>3
  <2>2. QED
    BY <2>1, Halts
<1>4. CASE e # 0 /\ root.ok
  <2>1. e \in Entry /\ k.task[e].state = "free"
    BY <1>4, FreeEntryIs
  <2> HIDE DEF e, root
  <2>2. Kept(k, with)
    BY WithKept
  <2> HIDE DEF with
  <2>3. Built(k, secured, e)
    <3>1. Built(with, secured, e)
      BY <2>1, <2>2, SecureIs DEF Kept
    <3>2. QED
      BY <2>2, <3>1 DEF Built, Kept
  <2> HIDE DEF secured
  <2>4. TaskShape(r) /\ r.in = secured.task[e].in /\ r.out = secured.task[e].out
    <3>1. TaskShape(secured.task[e])
      BY <2>1, <2>3, TaskOf DEF Built
    <3>2. QED
      BY <3>1, SpaceSet
  <2> HIDE DEF r
  <2>5. Built(k, rooted, e)
    BY <2>1, <2>3, <2>4, BuiltPut
  <2> HIDE DEF rooted
  <2>6. Built(k, last, e)
    BY <2>5, WithKept, BuiltKept DEF Built
  <2> HIDE DEF context, last
  <2>7. Built(k, Fail(last), e) /\ Fail(last).failed
    BY <2>6, FailKept, BuiltKept DEF Built
  <2>8. CASE context.ok
    <3>1. Frameset(k, t) = Made("built", last)
      BY <1>1, <1>4, <2>8
    <3>2. Made("built", last).at = "built" /\ Made("built", last).e = e
          /\ Made("built", last).k = last
      OBVIOUS
    <3> HIDE DEF Made
    <3>3. QED
      BY <2>1, <2>6, <3>1, <3>2
  <2>9. CASE ~ context.ok
    <3>1. Frameset(k, t) = Made("secured", Fail(last))
      BY <1>1, <1>4, <2>9
    <3>2. QED
      BY <2>1, <2>7, <3>1
  <2>10. QED
    BY <2>8, <2>9
<1>5. QED
  BY <1>2, <1>3, <1>4

LEMMA MappedIs ==
  ASSUME NEW k, NEW root, NEW target, Shape(k)
  PROVE  Mapped(k, root, target).halted \/ Kept(k, Mapped(k, root, target))
<1> DEFINE run    == Take(k.memory, One)
           mapped == PageMap(run.m, root, run.frame, target, One, User)
           after  == With(k, mapped.m)
<1>1. Mapped(k, root, target) = CASE ~ run.ok -> Halt(k)
                                  [] run.ok /\ mapped.ok -> after
                                  [] run.ok /\ ~ mapped.ok -> Fail(Keep(after, run.frame))
  BY DEF Mapped
<1>2. Kept(k, after)
  BY WithKept
<1> HIDE DEF run, mapped, after
<1>3. Kept(k, Keep(after, run.frame))
  BY <1>2, KeepKept, KeptTwice DEF Kept
<1>4. Kept(k, Fail(Keep(after, run.frame)))
  BY <1>3, FailKept, KeptTwice DEF Kept
<1>5. Mapped(k, root, target) \in {Halt(k), after, Fail(Keep(after, run.frame))}
  BY <1>1
<1>6. QED
  BY <1>2, <1>4, <1>5, Halts

LEMMA PutHalted ==
  ASSUME NEW k, NEW e, NEW r, k.halted
  PROVE  Put(k, e, r).halted
<1>1. CASE "halted" \in DOMAIN k
  BY DEF Put
<1>2. QED
  BY <1>1 DEF Put

-----------------------------------------------------------------------------
(* Streams.                                                                *)
LEMMA EndsFinite ==
  ASSUME NEW task, NEW g, NEW s
  PROVE  /\ IsFiniteSet(EndsOf(task, g, s)) /\ Cardinality(EndsOf(task, g, s)) \in Nat
         /\ EndsOf(task, g, s) # {} => Cardinality(EndsOf(task, g, s)) >= 1
         /\ Others(s) \in Nat
<1>1. IsFiniteSet(Entry) /\ IsFiniteSet({"in", "out"})
  <2>1. IsFiniteSet(Entry)
    BY SpaceAssumption, FS_Interval DEF Entry
  <2>2. IsFiniteSet({"in"}) /\ IsFiniteSet({"out"})
    BY FS_Singleton
  <2>3. {"in", "out"} = {"in"} \union {"out"}
    OBVIOUS
  <2>4. QED
    BY <2>1, <2>2, <2>3, FS_Union
<1>2. IsFiniteSet(Entry \X {"in", "out"})
  BY <1>1, FS_Product
<1>3. EndsOf(task, g, s) \subseteq Entry \X {"in", "out"}
  BY DEF EndsOf
<1>4. IsFiniteSet(EndsOf(task, g, s))
  BY <1>2, <1>3, FS_Subset
<1>5. Cardinality(EndsOf(task, g, s)) \in Nat
  BY <1>4, FS_CardinalityType
<1>6. EndsOf(task, g, s) # {} => Cardinality(EndsOf(task, g, s)) >= 1
  BY <1>4, <1>5, FS_EmptySet
<1>7. QED
  BY <1>4, <1>5, <1>6 DEF Others

(* A stream is set in the table. *)
SetStream(k, j, s, base, count) ==
  /\ Shape(j) /\ j.task = k.task /\ (k.failed => j.failed)
  /\ \A x \in Stream : IF x = s THEN j.stream[x].base = base /\ j.stream[x].count = count
                       ELSE j.stream[x] = k.stream[x]

LEMMA StreamSet ==
  ASSUME NEW k, Shape(k), NEW s, NEW r, NEW base, NEW count,
         s \in Stream => r = [base |-> base, count |-> count]
  PROVE  SetStream(k, [k EXCEPT !.stream[s] = r], s, base, count)
<1> DEFINE stream == [k.stream EXCEPT ![s] = r]
           j == [k EXCEPT !.stream = stream]
<1>1. k.stream = [x \in Stream |-> [base |-> k.stream[x].base, count |-> k.stream[x].count]]
  BY DEF Shape, StreamShape
<1>2. \A x \in Stream : stream[x] = IF x = s THEN r ELSE k.stream[x]
  BY <1>1
<1>3. stream = [x \in Stream |-> stream[x]]
  BY <1>1
<1> HIDE DEF stream
<1>4. ASSUME NEW x \in Stream
      PROVE  stream[x] = [base |-> stream[x].base, count |-> stream[x].count]
  <2>1. k.stream[x] = [base |-> k.stream[x].base, count |-> k.stream[x].count]
    BY <1>1
  <2>2. CASE x = s
    BY <1>2, <2>2
  <2>3. CASE x # s
    BY <1>2, <2>1, <2>3
  <2>4. QED
    BY <2>2, <2>3
<1>5. StreamShape(stream)
  BY <1>3, <1>4 DEF StreamShape
<1>6. j.stream = stream /\ j.task = k.task /\ j.failed = k.failed
  BY DEF Shape
<1>7. Shape(j)
  BY <1>5 DEF Shape
<1> HIDE DEF j
<1>8. SetStream(k, j, s, base, count)
  BY <1>2, <1>6, <1>7 DEF SetStream
<1>9. QED
  BY <1>8 DEF j, stream

LEMMA SetStreamKept ==
  ASSUME NEW k, NEW j, NEW i, NEW s, NEW base, NEW count,
         Kept(k, j), SetStream(j, i, s, base, count)
  PROVE  SetStream(k, i, s, base, count)
BY DEF Kept, SetStream

LEMMA TakeIs ==
  ASSUME NEW m, NEW n
  PROVE  Take(m, n).ok \in BOOLEAN /\ (Take(m, n).ok => Take(m, n).frame # 0)
BY DEF Take

LEMMA NewStreamSets ==
  ASSUME NEW k, Shape(k)
  PROVE  LET new == NewStream(k) IN
         \/ new.id = 0 /\ new.k = k
         \/ /\ new.id \in Stream /\ k.stream[new.id].base = 0
            /\ \E base : /\ SetStream(k, new.k, new.id, base, 1)
                         /\ new.k.failed \/ base # 0
<1> DEFINE idle == {s \in Stream : k.stream[s].base = 0}
           id   == CHOOSE s \in idle : \A x \in idle : s <= x
           page == Take(k.memory, One)
           base == page.frame
           with == With(k, page.m)
           failed == k.failed \/ ~ page.ok
           set  == [with EXCEPT !.stream[id] = [base |-> page.frame, count |-> 1]]
           j    == [set EXCEPT !.failed = failed]
<1>1. CASE idle = {}
  BY <1>1 DEF NewStream
<1>2. CASE idle # {}
  <2>1. NewStream(k) = [id |-> id, k |-> [with EXCEPT !.stream[id] = [base |-> base, count |-> 1],
                                                      !.failed = @ \/ ~ page.ok]]
    BY <1>2 DEF NewStream
  <2>2. id \in idle
    <3>1. idle \in SUBSET Nat
      BY DEF Stream
    <3> HIDE DEF idle
    <3>2. QED
      BY <1>2, <3>1, Least
  <2>3. id \in Stream /\ k.stream[id].base = 0
    BY <2>2
  <2>4. page.ok \in BOOLEAN /\ (page.ok => base # 0)
    BY TakeIs
  <2>5. Kept(k, with) /\ with.failed = k.failed
    BY WithKept DEF With, Shape
  <2>6. failed \in BOOLEAN
    BY DEF Shape
  <2> HIDE DEF id, idle, page, base, with
  <2>7. SetStream(with, set, id, base, 1)
    BY <2>5, StreamSet DEF Kept, base
  <2>8. SetStream(k, set, id, base, 1)
    BY <2>5, <2>7, SetStreamKept
  <2>9. j = [with EXCEPT !.stream[id] = [base |-> base, count |-> 1], !.failed = failed]
    BY DEF base
  <2> HIDE DEF set, failed
  <2>10. Shape(j) /\ j.task = set.task /\ j.stream = set.stream /\ j.failed = failed
    BY <2>6, <2>8, FailedSet DEF SetStream
  <2> HIDE DEF j
  <2>11. SetStream(k, j, id, base, 1) /\ (j.failed \/ base # 0)
    BY <2>4, <2>8, <2>10 DEF SetStream, failed
  <2>12. NewStream(k) = [id |-> id, k |-> j]
    BY <2>1, <2>5, <2>9 DEF failed
  <2>13. QED
    BY <2>3, <2>11, <2>12
<1>3. QED
  BY <1>1, <1>2

LEMMA ShareSets ==
  ASSUME NEW k, Shape(k), NEW s
  PROVE  SetStream(k, Share(k, s), s, k.stream[s].base, k.stream[s].count + 1)
<1> DEFINE base  == k.stream[s].base
           count == k.stream[s].count + 1
           r     == [k.stream[s] EXCEPT !.count = count]
<1>1. Share(k, s) = [k EXCEPT !.stream[s] = r]
  BY DEF Share
<1>2. s \in Stream => r = [base |-> base, count |-> count]
  <2>1. SUFFICES ASSUME s \in Stream PROVE r = [base |-> base, count |-> count]
    OBVIOUS
  <2>2. k.stream[s] = [base |-> base, count |-> k.stream[s].count]
    BY <2>1 DEF Shape, StreamShape
  <2> HIDE DEF base, count
  <2>3. QED
    BY <2>2
<1> HIDE DEF base, count, r
<1>3. SetStream(k, [k EXCEPT !.stream[s] = r], s, base, count)
  BY <1>2, StreamSet
<1>4. QED
  BY <1>1, <1>3 DEF base, count

(* Counting.                                                               *)
LEMMA NewStreamIs ==
  ASSUME NEW k, Shape(k), NEW task, NEW g, NEW a \in Stream \union {0},
         ~ k.failed => Counted(k.stream, task, g, a, 0)
  PROVE  LET new == NewStream(k) IN
         /\ new.id \in Stream \union {0} /\ Shape(new.k) /\ new.k.task = k.task
         /\ k.failed => new.k.failed
         /\ ~ new.k.failed => Counted(new.k.stream, task, g, a, new.id)
<1> DEFINE id == NewStream(k).id
           j  == NewStream(k).k
<1>1. CASE id = 0 /\ j = k
  <2>1. QED
    BY <1>1
<1>2. CASE /\ id \in Stream /\ k.stream[id].base = 0
           /\ \E base : SetStream(k, j, id, base, 1) /\ (j.failed \/ base # 0)
  <2>1. PICK base : SetStream(k, j, id, base, 1) /\ (j.failed \/ base # 0)
    BY <1>2
  <2>0. id \in Stream /\ k.stream[id].base = 0
    BY <1>2
  <2> HIDE DEF id, j
  <2>2. Shape(j) /\ j.task = k.task /\ (k.failed => j.failed)
    BY <2>1 DEF SetStream
  <2>3. ASSUME ~ j.failed, NEW s \in Stream
        PROVE  /\ j.stream[s].count = Cardinality(EndsOf(task, g, s)) + Others(s)
                                        + Is(s, a) + Is(s, id)
               /\ j.stream[s].base = 0 <=> j.stream[s].count = 0
    <3> DEFINE n == Cardinality(EndsOf(task, g, s))
    <3>1. n \in Nat /\ Others(s) \in Nat
      BY EndsFinite
    <3>2. /\ k.stream[s].count = n + Others(s) + Is(s, a) + Is(s, 0)
          /\ k.stream[s].base = 0 <=> k.stream[s].count = 0
      BY <2>2, <2>3 DEF Counted
    <3>3. Is(s, 0) = 0 /\ Is(s, a) \in Nat
      BY DEF Is, Stream
    <3> HIDE DEF n
    <3>4. CASE s = id
      <4>1. k.stream[s].count = 0
        BY <2>0, <3>2, <3>4
      <4> DEFINE u == Others(s)
                 v == Is(s, a)
      <4>5. n + u + v + 0 = 0
        BY <3>2, <3>3, <4>1
      <4>2. n = 0 /\ u = 0 /\ v = 0
        <5>1. n \in Nat /\ u \in Nat /\ v \in Nat
          BY <3>1, <3>3
        <5> HIDE DEF u, v
        <5>2. QED
          BY <4>5, <5>1
      <4>3. Is(s, id) = 1 /\ j.stream[s].count = 1 /\ j.stream[s].base # 0
        BY <2>1, <2>3, <3>4 DEF SetStream, Is
      <4>4. QED
        BY <4>2, <4>3 DEF n
    <3>5. CASE s # id
      <4>1. Is(s, id) = 0 /\ j.stream[s] = k.stream[s]
        BY <2>1, <3>5 DEF SetStream, Is
      <4>2. QED
        BY <3>1, <3>2, <3>3, <4>1 DEF n
    <3>6. QED
      BY <3>4, <3>5
  <2>4. ~ j.failed => Counted(j.stream, task, g, a, id)
    BY <2>3 DEF Counted
  <2>5. QED
    BY <2>0, <2>2, <2>4 DEF id, j
<1>3. QED
  BY <1>1, <1>2, NewStreamSets

(* A stream that has a user is given another.                              *)
LEMMA ShareIs ==
  ASSUME NEW k, Shape(k), NEW task, NEW g, NEW a \in Stream \union {0},
         NEW s \in Stream \union {0},
         s # 0 => Cardinality(EndsOf(task, g, s)) + Others(s) + Is(s, a) >= 1,
         ~ k.failed => Counted(k.stream, task, g, a, 0)
  PROVE  LET j == Share(k, s) IN
         /\ Shape(j) /\ j.task = k.task /\ (k.failed => j.failed)
         /\ ~ j.failed => Counted(j.stream, task, g, a, s)
<1> DEFINE j == Share(k, s)
<1>1. SetStream(k, j, s, k.stream[s].base, k.stream[s].count + 1)
  BY ShareSets
<1> HIDE DEF j
<1>2. Shape(j) /\ j.task = k.task /\ (k.failed => j.failed)
  BY <1>1 DEF SetStream
<1>3. ASSUME ~ j.failed, NEW x \in Stream
      PROVE  /\ j.stream[x].count = Cardinality(EndsOf(task, g, x)) + Others(x)
                                      + Is(x, a) + Is(x, s)
             /\ j.stream[x].base = 0 <=> j.stream[x].count = 0
  <2> DEFINE n == Cardinality(EndsOf(task, g, x))
  <2>1. n \in Nat /\ Others(x) \in Nat
    BY EndsFinite
  <2>2. /\ k.stream[x].count = n + Others(x) + Is(x, a) + Is(x, 0)
        /\ k.stream[x].base = 0 <=> k.stream[x].count = 0
    BY <1>2, <1>3 DEF Counted
  <2>3. Is(x, 0) = 0 /\ Is(x, a) \in Nat
    BY DEF Is, Stream
  <2>4. x = s => n + Others(x) + Is(x, a) >= 1
    BY DEF Stream
  <2> HIDE DEF n
  <2>5. CASE x = s
    <3>1. Is(x, s) = 1 /\ j.stream[x].count = k.stream[x].count + 1
          /\ j.stream[x].base = k.stream[x].base
      BY <1>1, <2>5 DEF SetStream, Is
    <3>2. k.stream[x].count = n + Others(x) + Is(x, a) /\ k.stream[x].count >= 1
      BY <2>1, <2>2, <2>3, <2>4, <2>5
    <3>3. QED
      BY <2>1, <2>2, <2>3, <3>1, <3>2 DEF n
  <2>6. CASE x # s
    <3>1. Is(x, s) = 0 /\ j.stream[x] = k.stream[x]
      BY <1>1, <2>6 DEF SetStream, Is
    <3>2. QED
      BY <2>1, <2>2, <2>3, <3>1 DEF n
  <2>7. QED
    BY <2>5, <2>6
<1>4. ~ j.failed => Counted(j.stream, task, g, a, s)
  BY <1>3 DEF Counted
<1>5. QED
  BY <1>2, <1>4 DEF j

LEMMA CountedSwap ==
  ASSUME NEW stream, NEW task, NEW g, NEW a, Counted(stream, task, g, 0, a)
  PROVE  Counted(stream, task, g, a, 0)
<1>1. ASSUME NEW s \in Stream
      PROVE  Cardinality(EndsOf(task, g, s)) + Others(s) + Is(s, 0) + Is(s, a)
               = Cardinality(EndsOf(task, g, s)) + Others(s) + Is(s, a) + Is(s, 0)
  <2>1. Cardinality(EndsOf(task, g, s)) \in Nat /\ Others(s) \in Nat
    BY EndsFinite
  <2>2. Is(s, 0) \in Nat /\ Is(s, a) \in Nat
    BY DEF Is
  <2>3. QED
    BY <2>1, <2>2
<1>2. QED
  BY <1>1 DEF Counted

(* The streams of a program: its own, or ones its parent uses.             *)
LEMMA StreamsIs ==
  ASSUME NEW k, Shape(k), NEW e \in Entry, NEW t \in Entry \union {Kernel}, t # e, NEW flow,
         NEW task, NEW g, ~ k.failed => Counted(k.stream, task, g, 0, 0),
         \A s \in {k.task[t].in, k.task[t].out} :
           /\ s \in Stream \union {0}
           /\ s # 0 => Cardinality(EndsOf(task, g, s)) + Others(s) >= 1
  PROVE  LET j == Streams(k, e, t, flow) IN
         /\ Shape(j) /\ (k.failed => j.failed)
         /\ \A x \in Entry \union {Kernel} : x # e => j.task[x] = k.task[x]
         /\ j.task[e].in \in Stream \union {0} /\ j.task[e].out \in Stream \union {0}
         /\ ~ j.failed => Counted(j.stream, task, g, j.task[e].in, j.task[e].out)
<1> DEFINE parent == k.task[t]
           in     == NewStream(k)
           a      == in.id
           out    == CASE flow = "out_to_parent_in" -> parent.in
                       [] flow = "out_to_in"        -> a
                       [] OTHER                     -> parent.out
           own    == NewStream(in.k)
           share  == Share(in.k, out)
           Joined(j, to) == Put(j, e, [j.task[e] EXCEPT !.in = a, !.out = to])
<1>1. Streams(k, e, t, flow) = IF out = 0 THEN Joined(own.k, own.id) ELSE Joined(share, out)
  BY DEF Streams
<1>2. /\ a \in Stream \union {0} /\ Shape(in.k) /\ in.k.task = k.task
      /\ k.failed => in.k.failed
      /\ ~ in.k.failed => Counted(in.k.stream, task, g, 0, a)
  BY NewStreamIs
<1>3. ~ in.k.failed => Counted(in.k.stream, task, g, a, 0)
  BY <1>2, CountedSwap
<1>4. out \in {parent.in, parent.out, a}
  OBVIOUS
<1> HIDE DEF a, in, out
<1>5. out \in Stream \union {0}
  BY <1>2, <1>4
<1>6. out # 0 => Cardinality(EndsOf(task, g, out)) + Others(out) + Is(out, a) >= 1
  <2>1. Cardinality(EndsOf(task, g, out)) \in Nat /\ Others(out) \in Nat
    BY EndsFinite
  <2>2. Is(out, a) \in Nat /\ (out = a => Is(out, a) = 1)
    BY DEF Is
  <2>3. out # 0 /\ out # a => Cardinality(EndsOf(task, g, out)) + Others(out) >= 1
    BY <1>4
  <2>4. QED
    BY <2>1, <2>2, <2>3
<1>7. ASSUME NEW i, NEW to \in Stream \union {0}, Shape(i), i.task = k.task,
             k.failed => i.failed, ~ i.failed => Counted(i.stream, task, g, a, to)
      PROVE  LET j == Joined(i, to) IN
             /\ Shape(j) /\ (k.failed => j.failed)
             /\ \A x \in Entry \union {Kernel} : x # e => j.task[x] = k.task[x]
             /\ j.task[e].in \in Stream \union {0} /\ j.task[e].out \in Stream \union {0}
             /\ ~ j.failed => Counted(j.stream, task, g, j.task[e].in, j.task[e].out)
  <2> DEFINE x == i.task[e]
             r == [x EXCEPT !.in = a, !.out = to]
             j == Put(i, e, r)
  <2>1. TaskShape(x)
    BY <1>7, TaskOf
  <2>6. r = [x EXCEPT !.in = a, !.out = to]
    OBVIOUS
  <2> HIDE DEF x, r
  <2>2. TaskShape(r) /\ r.in = a /\ r.out = to
    BY <2>1, <2>6 DEF TaskShape
  <2>3. /\ Shape(j) /\ j.stream = i.stream /\ j.failed = i.failed /\ j.task[e] = r
        /\ \A y \in Entry \union {Kernel} : y # e => j.task[y] = i.task[y]
    BY <1>7, <2>2, PutIs
  <2>4. Joined(i, to) = j
    BY DEF r, x
  <2> HIDE DEF j, Joined
  <2>5. QED
    BY <1>2, <1>7, <2>2, <2>3, <2>4
<1> HIDE DEF Joined
<1>8. CASE out = 0
  <2>1. /\ own.id \in Stream \union {0} /\ Shape(own.k) /\ own.k.task = in.k.task
        /\ in.k.failed => own.k.failed
        /\ ~ own.k.failed => Counted(own.k.stream, task, g, a, own.id)
    BY <1>2, <1>3, NewStreamIs
  <2> HIDE DEF own
  <2>2. QED
    BY <1>1, <1>2, <1>7, <1>8, <2>1
<1>9. CASE out # 0
  <2>1. /\ Shape(share) /\ share.task = in.k.task /\ (in.k.failed => share.failed)
        /\ ~ share.failed => Counted(share.stream, task, g, a, out)
    BY <1>2, <1>3, <1>5, <1>6, ShareIs
  <2> HIDE DEF share
  <2>2. QED
    BY <1>1, <1>2, <1>5, <1>7, <1>9, <2>1
<1>10. QED
  BY <1>8, <1>9

(* What exec makes for a program: pages, a map, streams.                   *)
LEMMA StackedIs ==
  ASSUME NEW k, NEW j, NEW made, made.e \in Entry, Built(k, j, made.e)
  PROVE  Stacked(j, made).halted \/ Built(k, Stacked(j, made), made.e)
<1> DEFINE mapped == Mapped(j, made.root, StackTop - One)
           e      == made.e
           x      == mapped.task[e]
           size   == x.stack + One
           r      == [x EXCEPT !.stack = size, !.thread = FALSE]
<1>1. Stacked(j, made) = Put(mapped, e, r)
  BY DEF Stacked
<1>2. mapped.halted \/ Kept(j, mapped)
  BY MappedIs DEF Built
<1>3. e \in Entry
  OBVIOUS
<1> HIDE DEF mapped, size
<1>4. CASE mapped.halted
  BY <1>1, <1>4, PutHalted
<1>5. CASE Kept(j, mapped)
  <2>1. Built(k, mapped, e)
    BY <1>5, BuiltKept
  <2>2. TaskShape(x)
    BY <1>3, <2>1, TaskOf DEF Built
  <2>3. r = [x EXCEPT !.stack = size, !.thread = FALSE]
    OBVIOUS
  <2> HIDE DEF r
  <2>4. TaskShape(r) /\ r.in = x.in /\ r.out = x.out
    <3> HIDE DEF x
    <3>1. QED
      BY <2>2, <2>3 DEF TaskShape
  <2> HIDE DEF e
  <2>5. Built(k, Put(mapped, e, r), e)
    BY <1>3, <2>1, <2>4, BuiltPut
  <2>6. QED
    BY <1>1, <2>5 DEF e
<1>6. QED
  BY <1>2, <1>4, <1>5

LEMMA PlacedIs ==
  ASSUME NEW k, NEW j, NEW made, Built(k, j, made.e)
  PROVE  Placed(j, made).halted \/ Built(k, Placed(j, made), made.e)
<1>1. CASE j.halted
  BY <1>1 DEF Placed
<1>2. CASE ~ j.halted
  <2>1. Placed(j, made) = Mapped(j, made.root, ProgramAt)
    BY <1>2 DEF Placed
  <2>2. Placed(j, made).halted \/ Kept(j, Placed(j, made))
    BY <2>1, MappedIs DEF Built
  <2>3. QED
    BY <2>2, BuiltKept
<1>3. QED
  BY <1>1, <1>2

LEMMA ProcessMapIs ==
  ASSUME NEW k, NEW j, NEW e \in Entry, NEW map, Built(k, j, e)
  PROVE  Built(k, ProcessMap(j, e, map), e)
<1> DEFINE m == [j.memory EXCEPT !.bits[map] = (ProgramAt + One) .. PageLimit - 1]
           i == With(j, m)
           x == j.task[e]
           r == [x EXCEPT !.map = map]
<1>1. ProcessMap(j, e, map) = Put(i, e, r)
  BY DEF ProcessMap
<1> HIDE DEF m
<1>2. Kept(j, i)
  BY WithKept DEF Built
<1> HIDE DEF i
<1>3. Built(k, i, e) /\ i.task[e] = x
  BY <1>2, BuiltKept DEF Kept
<1>4. TaskShape(x)
  BY TaskOf DEF Built
<1> HIDE DEF x
<1>5. TaskShape(r) /\ r.in = x.in /\ r.out = x.out
  BY <1>4, SpaceSet
<1> HIDE DEF r
<1>6. QED
  BY <1>1, <1>3, <1>5, BuiltPut

(* The new task has its streams, which have one user more than `task' has  *)
(* ends of them.                                                           *)
Founded(k, j, e, task, g) ==
  /\ Shape(j) /\ (k.failed => j.failed)
  /\ \A x \in Entry \union {Kernel} : x # e => j.task[x] = k.task[x]
  /\ j.task[e].in \in Stream \union {0} /\ j.task[e].out \in Stream \union {0}
  /\ ~ j.failed => Counted(j.stream, task, g, j.task[e].in, j.task[e].out)

Used(task, g, s) ==
  /\ s \in Stream \union {0}
  /\ s # 0 => Cardinality(EndsOf(task, g, s)) + Others(s) >= 1

LEMMA OwnedIs ==
  ASSUME NEW k, NEW j, NEW made, made.e \in Entry, Built(k, j, made.e),
         NEW t \in Entry \union {Kernel}, t # made.e, NEW flow,
         NEW task, NEW g, ~ k.failed => Counted(k.stream, task, g, 0, 0),
         Used(task, g, k.task[t].in), Used(task, g, k.task[t].out)
  PROVE  LET o == Owned(j, made, t, flow) IN o.halted \/ Founded(k, o, made.e, task, g)
<1> DEFINE map == Take(j.memory, One)
           e   == made.e
           i   == ProcessMap(With(j, map.m), e, map.frame)
           o   == Streams(i, e, t, flow)
<1>1. Owned(j, made, t, flow) = CASE j.halted -> j
                                  [] ~ j.halted /\ map.ok -> o
                                  [] OTHER -> Halt(j)
  BY DEF Owned
<1>2. Built(k, i, e)
  <2>1. Kept(j, With(j, map.m))
    BY WithKept DEF Built
  <2> DEFINE w == With(j, map.m)
             f == map.frame
  <2> HIDE DEF w, f
  <2>2. Built(k, w, e)
    BY <2>1, BuiltKept DEF w
  <2>3. Built(k, ProcessMap(w, e, f), e)
    BY <2>2, ProcessMapIs
  <2>4. QED
    BY <2>3 DEF w, f
<1>3. e \in Entry /\ t # e
  OBVIOUS
<1> HIDE DEF i, map, e
<1>4. i.task[t] = k.task[t] /\ Shape(i) /\ i.stream = k.stream /\ (k.failed => i.failed)
  BY <1>2, <1>3 DEF Built
<1>5. ~ i.failed => Counted(i.stream, task, g, 0, 0)
  BY <1>4
<1>6. \A s \in {i.task[t].in, i.task[t].out} :
           /\ s \in Stream \union {0}
           /\ s # 0 => Cardinality(EndsOf(task, g, s)) + Others(s) >= 1
  BY <1>4 DEF Used
<1>7. /\ Shape(o) /\ (i.failed => o.failed)
      /\ \A x \in Entry \union {Kernel} : x # e => o.task[x] = i.task[x]
      /\ o.task[e].in \in Stream \union {0} /\ o.task[e].out \in Stream \union {0}
      /\ ~ o.failed => Counted(o.stream, task, g, o.task[e].in, o.task[e].out)
  BY <1>3, <1>4, <1>5, <1>6, StreamsIs
<1> HIDE DEF o
<1>8. Founded(k, o, e, task, g)
  BY <1>2, <1>4, <1>7 DEF Founded, Built
<1>9. Owned(j, made, t, flow) \in {j, o, Halt(j)}
      /\ (Owned(j, made, t, flow) = j => j.halted \/ o = j \/ j.halted)
  <2>1. CASE j.halted
    BY <1>1, <2>1
  <2>2. CASE ~ j.halted /\ map.ok
    BY <1>1, <2>2
  <2>3. CASE ~ j.halted /\ ~ map.ok
    <3>1. Owned(j, made, t, flow) = Halt(j)
      BY <1>1, <2>3
    <3>2. QED
      BY <3>1, <2>3, Halts
  <2>4. QED
    BY <2>1, <2>2, <2>3
<1>10. QED
  BY <1>8, <1>9, Halts DEF e

(* A task that becomes active is a user of its streams.                    *)
LEMMA NewUser ==
  ASSUME NEW task, NEW g, NEW e \in Entry, NEW new, NEW s,
         task[e].state \notin {"active", "close"}, ~ Gone(g, e, "in"), ~ Gone(g, e, "out"),
         new[e].state = "active",
         \A x \in Entry : x # e => new[x] = task[x]
  PROVE  Cardinality(EndsOf(new, g, s))
           = Cardinality(EndsOf(task, g, s)) + Is(s, new[e].in) + Is(s, new[e].out)
<1> DEFINE S == EndsOf(task, g, s)
           T == IF s = new[e].in THEN S \union {<<e, "in">>} ELSE S
           U == IF s = new[e].out THEN T \union {<<e, "out">>} ELSE T
<1>1. "in" # "out"
  OBVIOUS
<1>2. <<e, "in">> \notin S /\ <<e, "out">> \notin S
  BY DEF EndsOf
<1>3. EndsOf(new, g, s) = U
  <2>1. ASSUME NEW x \in Entry, NEW part \in {"in", "out"}
        PROVE  <<x, part>> \in EndsOf(new, g, s) <=> <<x, part>> \in U
    <3>1. <<x, part>> \in EndsOf(new, g, s) <=>
            /\ new[x].state \in {"active", "close"} /\ ~ Gone(g, x, part)
            /\ s = IF part = "in" THEN new[x].in ELSE new[x].out
      BY DEF EndsOf
    <3>2. <<x, part>> \in S <=>
            /\ task[x].state \in {"active", "close"} /\ ~ Gone(g, x, part)
            /\ s = IF part = "in" THEN task[x].in ELSE task[x].out
      BY DEF EndsOf
    <3> HIDE DEF S
    <3>3. <<x, part>> \in U <=> \/ <<x, part>> \in S
                                \/ x = e /\ part = "in" /\ s = new[e].in
                                \/ x = e /\ part = "out" /\ s = new[e].out
      OBVIOUS
    <3> HIDE DEF U, T
    <3>4. CASE x = e
      BY <1>1, <1>2, <3>1, <3>2, <3>3, <3>4
    <3>5. CASE x # e
      BY <3>1, <3>2, <3>3, <3>5
    <3>6. QED
      BY <3>4, <3>5
  <2>2. EndsOf(new, g, s) \subseteq Entry \X {"in", "out"} /\ U \subseteq Entry \X {"in", "out"}
    BY DEF EndsOf
  <2> HIDE DEF U, T, S
  <2>3. ASSUME NEW x \in Entry \X {"in", "out"}
        PROVE  x \in EndsOf(new, g, s) <=> x \in U
    <3>1. x = <<x[1], x[2]>> /\ x[1] \in Entry /\ x[2] \in {"in", "out"}
      OBVIOUS
    <3>2. QED
      BY <3>1, <2>1
  <2>4. QED
    BY <2>2, <2>3
<1>4. IsFiniteSet(S) /\ Cardinality(S) \in Nat
  BY EndsFinite
<1> HIDE DEF S
<1>5. IsFiniteSet(T) /\ Cardinality(T) = Cardinality(S) + Is(s, new[e].in)
      /\ <<e, "out">> \notin T
  BY <1>1, <1>2, <1>4, FS_AddElement DEF Is
<1> HIDE DEF T
<1>6. Cardinality(U) = Cardinality(T) + Is(s, new[e].out)
  <2>1. Cardinality(T) \in Nat
    BY <1>5, FS_CardinalityType
  <2>2. Cardinality(T \union {<<e, "out">>}) = Cardinality(T) + 1
    BY <1>5, FS_AddElement
  <2>3. CASE s = new[e].out
    <3>1. U = T \union {<<e, "out">>} /\ Is(s, new[e].out) = 1
      BY <2>3 DEF Is
    <3>2. QED
      BY <2>2, <3>1
  <2>4. CASE s # new[e].out
    <3>1. U = T /\ Is(s, new[e].out) = 0
      BY <2>4 DEF Is
    <3> HIDE DEF U
    <3>2. QED
      BY <2>1, <3>1
  <2>5. QED
    BY <2>3, <2>4
<1>7. QED
  BY <1>3, <1>5, <1>6 DEF S

(* The streams of a task that runs have users.                             *)
LEMMA UserOf ==
  ASSUME NEW task, NEW g, NEW t \in Entry \union {Kernel}, task[t].state = "active",
         g.pc # "scan" => task[g.e].state = "close",
         task[t].in \in Stream \union {0}, task[t].out \in Stream \union {0},
         t = Kernel => task[t].in \in {0, Null} /\ task[t].out \in {0, Null}
  PROVE  Used(task, g, task[t].in) /\ Used(task, g, task[t].out)
<1>1. ASSUME NEW part \in {"in", "out"}, NEW s, s = IF part = "in" THEN task[t].in ELSE task[t].out
      PROVE  Used(task, g, s)
  <2>1. s \in Stream \union {0}
    BY <1>1
  <2>2. Cardinality(EndsOf(task, g, s)) \in Nat /\ Others(s) \in Nat
    BY EndsFinite
  <2>3. CASE t = Kernel
    <3>1. s \in {0, Null}
      BY <1>1, <2>3
    <3>2. s # 0 => Others(s) = 2
      BY <3>1 DEF Others
    <3>3. QED
      BY <2>1, <2>2, <3>2 DEF Used
  <2>4. CASE t \in Entry
    <3>1. ~ Gone(g, t, part)
      BY DEF Gone
    <3>2. <<t, part>> \in EndsOf(task, g, s)
      BY <1>1, <2>4, <3>1 DEF EndsOf
    <3>3. Cardinality(EndsOf(task, g, s)) >= 1
      BY <3>2, EndsFinite
    <3>4. QED
      BY <2>1, <2>2, <3>3 DEF Used
  <2>5. QED
    BY <2>3, <2>4
<1>2. "in" # "out"
  OBVIOUS
<1>3. QED
  BY <1>1, <1>2

-----------------------------------------------------------------------------
(* The invariant, as the kernel's data change.                             *)
LEMMA KeptHeld ==
  ASSUME NEW k, NEW j, NEW g, Held(k, g), Kept(k, j)
  PROVE  Held(j, g)
BY DEF Held, Kept

LEMMA EndsSame ==
  ASSUME NEW task, NEW new, NEW g, NEW h, NEW s,
         \A x \in Entry : new[x].in = task[x].in /\ new[x].out = task[x].out,
         \A x \in Entry, part \in {"in", "out"} :
           (new[x].state \in {"active", "close"} /\ ~ Gone(h, x, part))
             <=> (task[x].state \in {"active", "close"} /\ ~ Gone(g, x, part))
  PROVE  EndsOf(new, h, s) = EndsOf(task, g, s)
<1>1. ASSUME NEW e \in Entry \X {"in", "out"}
      PROVE  /\ new[e[1]].in = task[e[1]].in /\ new[e[1]].out = task[e[1]].out
             /\ (new[e[1]].state \in {"active", "close"} /\ ~ Gone(h, e[1], e[2]))
                  <=> (task[e[1]].state \in {"active", "close"} /\ ~ Gone(g, e[1], e[2]))
  <2>1. e[1] \in Entry /\ e[2] \in {"in", "out"}
    OBVIOUS
  <2>2. QED
    BY <2>1
<1>2. QED
  BY <1>1 DEF EndsOf

(* No stream changes, and no task but in its state.                        *)
LEMMA HeldSame ==
  ASSUME NEW k, NEW j, NEW g, NEW h, Held(k, g),
         Shape(j), j.stream = k.stream, k.failed => j.failed,
         \A x \in Entry \union {Kernel} :
           j.task[x].in = k.task[x].in /\ j.task[x].out = k.task[x].out,
         ~ j.failed => \A x \in Entry : j.task[x].state \in {"free", "active", "close"},
         h = [pc |-> h.pc, e |-> h.e, slot |-> h.slot],
         h.pc # "scan" => h.e \in Entry /\ j.task[h.e].state = "close",
         \A x \in Entry, part \in {"in", "out"} :
           (j.task[x].state \in {"active", "close"} /\ ~ Gone(h, x, part))
             <=> (k.task[x].state \in {"active", "close"} /\ ~ Gone(g, x, part))
  PROVE  Held(j, h)
<1>1. ASSUME NEW s PROVE EndsOf(j.task, h, s) = EndsOf(k.task, g, s)
  BY EndsSame
<1>2. ~ j.failed => Counted(j.stream, j.task, h, 0, 0)
  BY <1>1 DEF Counted, Held
<1>3. \A e \in Entry \union {Kernel} : j.task[e].in \in Stream \union {0}
                                       /\ j.task[e].out \in Stream \union {0}
  BY DEF Held
<1>4. j.task[Kernel].in \in {0, Null} /\ j.task[Kernel].out \in {0, Null}
  BY DEF Held
<1>5. QED
  BY <1>2, <1>3, <1>4 DEF Held

(* A task whose creation failed.                                           *)
LEMMA FailedHeld ==
  ASSUME NEW k, NEW j, NEW g, NEW e \in Entry, Held(k, g), Built(k, j, e), j.failed,
         k.task[e].state = "free"
  PROVE  Held(j, g)
<1>1. g.pc # "scan" => g.e \in Entry /\ g.e # e
  BY DEF Held
<1>2. g.pc # "scan" => j.task[g.e].state = "close"
  BY <1>1 DEF Built, Held
<1>3. \A x \in Entry \union {Kernel} : j.task[x].in = k.task[x].in /\ j.task[x].out = k.task[x].out
  BY DEF Built
<1>4. QED
  BY <1>1, <1>2, <1>3 DEF Held, Built

LEMMA FoundedKept ==
  ASSUME NEW k, NEW j, NEW i, NEW e, NEW task, NEW g, Founded(k, j, e, task, g), Kept(j, i)
  PROVE  Founded(k, i, e, task, g)
BY DEF Founded, Kept

(* A task that was created becomes active.                                 *)
LEMMA ReadyHeld ==
  ASSUME NEW k, NEW j, NEW g, NEW e \in Entry, Held(k, g), k.task[e].state = "free",
         Founded(k, j, e, k.task, g)
  PROVE  Held(Ready(j, e), g)
<1> DEFINE x == j.task[e]
           r == [x EXCEPT !.state = "active"]
           i == Put(j, e, r)
<1>1. TaskShape(x)
  BY TaskOf DEF Founded
<1>2. Ready(j, e) = i
  BY DEF Ready
<1>3. TaskShape(r) /\ r.in = x.in /\ r.out = x.out /\ r.state = "active"
  <2> HIDE DEF x
  <2>1. QED
    BY <1>1, StateSet
<1> HIDE DEF r
<1>4. /\ Shape(i) /\ i.stream = j.stream /\ i.failed = j.failed /\ i.task[e] = r
      /\ \A y \in Entry \union {Kernel} : y # e => i.task[y] = j.task[y]
  BY <1>3, PutIs DEF Founded
<1> HIDE DEF i
<1>5. /\ \A y \in Entry \union {Kernel} : y # e => i.task[y] = k.task[y]
      /\ i.task[e].state = "active"
      /\ i.task[e].in \in Stream \union {0} /\ i.task[e].out \in Stream \union {0}
      /\ k.failed => i.failed
      /\ ~ i.failed => Counted(i.stream, k.task, g, i.task[e].in, i.task[e].out)
  BY <1>3, <1>4 DEF Founded
<1>6. e # Kernel /\ Kernel \in Entry \union {Kernel}
  BY DEF Entry, Kernel
<1>7. g.pc # "scan" => g.e \in Entry /\ g.e # e /\ i.task[g.e].state = "close"
  BY <1>5 DEF Held
<1>8. ASSUME ~ i.failed
      PROVE  Counted(i.stream, i.task, g, 0, 0)
  <2>1. ASSUME NEW s \in Stream
        PROVE  /\ i.stream[s].count = Cardinality(EndsOf(i.task, g, s)) + Others(s)
                                        + Is(s, 0) + Is(s, 0)
               /\ i.stream[s].base = 0 <=> i.stream[s].count = 0
    <3> DEFINE a == i.task[e].in
               b == i.task[e].out
               n == Cardinality(EndsOf(k.task, g, s))
               m == Cardinality(EndsOf(i.task, g, s))
    <3>1. /\ i.stream[s].count = n + Others(s) + Is(s, a) + Is(s, b)
          /\ i.stream[s].base = 0 <=> i.stream[s].count = 0
      BY <1>5, <1>8 DEF Counted
    <3>2. m = n + Is(s, a) + Is(s, b)
      <4>1. ~ Gone(g, e, "in") /\ ~ Gone(g, e, "out")
        BY <1>7 DEF Gone
      <4>2. QED
        BY <1>5, <4>1, NewUser
    <3>3. n \in Nat /\ Others(s) \in Nat
      BY EndsFinite
    <3>4. Is(s, a) \in Nat /\ Is(s, b) \in Nat /\ Is(s, 0) = 0
      BY DEF Is, Stream
    <3> HIDE DEF a, b, n
    <3>5. m + Others(s) + Is(s, 0) + Is(s, 0) = n + Others(s) + Is(s, a) + Is(s, b)
      <4> DEFINE u == Is(s, a)
                 v == Is(s, b)
                 w == Others(s)
      <4> HIDE DEF u, v, w, m
      <4>1. m = n + u + v /\ n \in Nat /\ u \in Nat /\ v \in Nat /\ w \in Nat
        BY <3>2, <3>3, <3>4 DEF u, v, w
      <4>2. m + w + 0 + 0 = n + w + u + v
        BY <4>1
      <4>3. QED
        BY <3>4, <4>2 DEF u, v, w
    <3>6. QED
      BY <3>1, <3>5
  <2>2. QED
    BY <2>1 DEF Counted
<1>9. \A y \in Entry \union {Kernel} : i.task[y].in \in Stream \union {0}
                                       /\ i.task[y].out \in Stream \union {0}
  BY <1>5 DEF Held
<1>10. i.task[Kernel].in \in {0, Null} /\ i.task[Kernel].out \in {0, Null}
  BY <1>5, <1>6 DEF Held
<1>11. ~ i.failed => \A y \in Entry : i.task[y].state \in {"free", "active", "close"}
  BY <1>5 DEF Held
<1>12. Held(i, g)
  BY <1>4, <1>7, <1>8, <1>9, <1>10, <1>11 DEF Held
<1>13. QED
  BY <1>2, <1>12

-----------------------------------------------------------------------------
(* kernel_exec and kernel_service_thread.                                  *)
LEMMA ExecHeld ==
  ASSUME NEW k, NEW g, Held(k, g), NEW t \in Entry \union {Kernel}, k.task[t].state = "active",
         NEW flow, NEW l
  PROVE  LET j == ExecResult(k, t, flow, <<l>>) IN j.halted \/ Held(j, g)
<1> DEFINE file   == Take(k.memory, One)
           with   == With(k, file.m)
           linked == Import(with, t, <<l>>)
           made   == Frameset(linked, t)
           e      == made.e
           owned  == Owned(Placed(Stacked(made.k, made), made), made, t, flow)
           merged == PageMerge(owned.memory, Root, made.root)
           last   == Free(With(owned, merged), file.frame)
           j      == ExecResult(k, t, flow, <<l>>)
<1>1. j = CASE ~ file.ok -> k
            [] file.ok /\ (linked.halted \/ made.k.halted) -> Halt(k)
            [] file.ok /\ ~ linked.halted /\ ~ made.k.halted /\ made.at # "built" ->
                 Keep(made.k, file.frame)
            [] OTHER -> IF owned.halted THEN Halt(k) ELSE Ready(last, e)
  BY DEF ExecResult
<1> SUFFICES j.halted \/ Held(j, g)
  OBVIOUS
<1> HIDE DEF j
<1>2. CASE ~ file.ok
  BY <1>1, <1>2
<1>3. CASE file.ok /\ (linked.halted \/ made.k.halted)
  <2>1. j = Halt(k)
    BY <1>1, <1>3
  <2>2. QED
    BY <2>1, Halts
<1>4. CASE file.ok /\ ~ linked.halted /\ ~ made.k.halted
  <2>1. Kept(k, with)
    BY WithKept DEF Held
  <2>2. Kept(k, linked)
    <3> HIDE DEF with
    <3>1. linked.halted \/ Kept(with, linked)
      BY <2>1, ImportIs, LoadKept DEF Kept
    <3> HIDE DEF linked
    <3>2. QED
      BY <1>4, <2>1, <3>1, KeptTwice
  <2> HIDE DEF linked
  <2>3. \/ made.at = "none" /\ (made.k = linked \/ made.k.halted)
        \/ /\ e \in Entry /\ linked.task[e].state = "free" /\ Built(linked, made.k, e)
           /\ \/ made.at = "built"
              \/ made.at = "secured" /\ made.k.failed
    BY <2>2, FramesetIs DEF Kept
  <2>4. Held(linked, g)
    BY <2>2, KeptHeld
  <2> HIDE DEF made
  <2>5. CASE made.at # "built"
    <3>1. j = Keep(made.k, file.frame)
      BY <1>1, <1>4, <2>5
    <3>2. Held(made.k, g)
      BY <1>4, <2>3, <2>4, <2>5, FailedHeld
    <3> HIDE DEF file
    <3>3. Held(Keep(made.k, file.frame), g)
      BY <3>2, KeepKept, KeptHeld DEF Held
    <3>4. QED
      BY <3>1, <3>3
  <2>6. CASE made.at = "built"
    <3>1. /\ e \in Entry /\ linked.task[e].state = "free" /\ Built(linked, made.k, e)
      BY <2>3, <2>6
    <3>2. j = IF owned.halted THEN Halt(k) ELSE Ready(last, e)
      BY <1>1, <1>4, <2>6
    <3>3. CASE owned.halted
      BY <3>2, <3>3, Halts
    <3>4. CASE ~ owned.halted
      <4> DEFINE stacked == Stacked(made.k, made)
                 placed  == Placed(stacked, made)
      <4>1. stacked.halted \/ Built(linked, stacked, e)
        BY <3>1, StackedIs
      <4>2. ~ stacked.halted
        <5>1. stacked.halted => placed = stacked
          BY DEF Placed
        <5>2. placed.halted => owned = placed
          BY DEF Owned
        <5> HIDE DEF stacked, placed, owned
        <5>3. QED
          BY <3>4, <5>1, <5>2
      <4>3. ~ placed.halted
        <5>1. placed.halted => owned = placed
          BY DEF Owned
        <5> HIDE DEF placed, owned
        <5>2. QED
          BY <3>4, <5>1
      <4>4. Built(linked, stacked, e)
        BY <4>1, <4>2
      <4> HIDE DEF stacked
      <4>5. Built(linked, placed, e)
        BY <4>3, <4>4, PlacedIs
      <4>6. owned = Owned(placed, made, t, flow)
        BY DEF placed, stacked
      <4> HIDE DEF placed
      <4>7. linked.task[t].state = "active" /\ t # e
        BY <2>2, <3>1 DEF Kept
      <4>8. Used(linked.task, g, linked.task[t].in) /\ Used(linked.task, g, linked.task[t].out)
        <5>1. g.pc # "scan" => linked.task[g.e].state = "close"
          BY <2>4 DEF Held
        <5>2. /\ linked.task[t].in \in Stream \union {0}
              /\ linked.task[t].out \in Stream \union {0}
              /\ t = Kernel => linked.task[t].in \in {0, Null} /\ linked.task[t].out \in {0, Null}
          BY <2>4 DEF Held
        <5>3. QED
          BY <4>7, <5>1, <5>2, UserOf
      <4>9. ~ linked.failed => Counted(linked.stream, linked.task, g, 0, 0)
        BY <2>4 DEF Held
      <4>10. Founded(linked, owned, e, linked.task, g)
        <5>1. made.e \in Entry /\ Built(linked, placed, made.e) /\ t # made.e
          BY <3>1, <4>5, <4>7
        <5> DEFINE task == linked.task
        <5>2. /\ ~ linked.failed => Counted(linked.stream, task, g, 0, 0)
              /\ Used(task, g, linked.task[t].in) /\ Used(task, g, linked.task[t].out)
          BY <4>8, <4>9
        <5> HIDE DEF task, owned, e
        <5>3. owned.halted \/ Founded(linked, owned, made.e, task, g)
          BY <4>6, <5>1, <5>2, OwnedIs
        <5>4. QED
          BY <3>4, <5>3 DEF task, e
      <4> HIDE DEF owned
      <4>11. Kept(owned, last)
        <5> DEFINE w == With(owned, merged)
        <5>1. Kept(owned, w)
          BY <4>10, WithKept DEF Founded
        <5> HIDE DEF w
        <5>2. Kept(w, Free(w, file.frame))
          BY <5>1, FreeKept DEF Kept
        <5>3. QED
          BY <5>1, <5>2, KeptTwice DEF w
      <4> HIDE DEF last, e
      <4>12. Founded(linked, last, e, linked.task, g)
        BY <4>10, <4>11, FoundedKept
      <4>13. Held(Ready(last, e), g)
        BY <2>4, <3>1, <4>12, ReadyHeld
      <4>14. QED
        BY <3>2, <3>4, <4>13
    <3>5. QED
      BY <3>3, <3>4
  <2>7. QED
    BY <2>5, <2>6
<1>5. QED
  BY <1>2, <1>3, <1>4

LEMMA ThreadHeld ==
  ASSUME NEW k, NEW g, Held(k, g), NEW t \in Entry, k.task[t].state = "active"
  PROVE  LET j == ThreadResult(k, t) IN j.halted \/ Held(j, g)
<1> DEFINE own   == k.task[t]
           made  == Frameset(k, t)
           e     == made.e
           stack == PageAlloc(made.k.memory, made.root, StackTop - One, One, User)
           after == With(made.k, stack.m)
           one   == Share(after, own.in)
           both  == Share(one, own.out)
           x     == after.task[e]
           size  == x.stack + One
           map   == own.map
           a     == own.in
           b     == own.out
           r     == [x EXCEPT !.stack = size, !.thread = TRUE, !.map = map, !.in = a, !.out = b]
           known == Put(both, e, r)
           last  == With(known, PageMerge(known.memory, own.cr3, made.root))
           j     == ThreadResult(k, t)
<1>1. j = CASE made.at # "built" -> made.k
            [] made.at = "built" /\ ~ stack.ok -> Fail(after)
            [] made.at = "built" /\ stack.ok -> Ready(last, e)
  BY DEF ThreadResult, SpaceOfThread
<1> SUFFICES j.halted \/ Held(j, g)
  OBVIOUS
<1> HIDE DEF j
<1>2. \/ made.at = "none" /\ (made.k = k \/ made.k.halted)
      \/ /\ e \in Entry /\ k.task[e].state = "free" /\ Built(k, made.k, e)
         /\ \/ made.at = "built"
            \/ made.at = "secured" /\ made.k.failed
  BY FramesetIs DEF Held
<1> HIDE DEF made
<1>3. CASE made.at # "built"
  <2>1. j = made.k
    BY <1>1, <1>3
  <2>2. QED
    BY <1>2, <1>3, <2>1, FailedHeld
<1>4. CASE made.at = "built"
  <2>1. e \in Entry /\ k.task[e].state = "free" /\ Built(k, made.k, e)
    BY <1>2, <1>4
  <2>2. Kept(made.k, after)
    BY <2>1, WithKept DEF Built
  <2> HIDE DEF stack
  <2>3. Built(k, after, e)
    <3> HIDE DEF after, e
    <3>1. QED
      BY <2>1, <2>2, BuiltKept
  <2>4. CASE ~ stack.ok
    <3>1. j = Fail(after)
      BY <1>1, <1>4, <2>4
    <3> HIDE DEF after, e
    <3>2. Built(k, Fail(after), e) /\ Fail(after).failed
      <4>1. Shape(after)
        BY <2>3 DEF Built
      <4>2. Kept(after, Fail(after)) /\ Fail(after).failed
        BY <4>1, FailKept
      <4>3. QED
        BY <2>3, <4>2, BuiltKept
    <3>3. Held(Fail(after), g)
      BY <2>1, <3>2, FailedHeld
    <3>4. QED
      BY <3>1, <3>3
  <2>5. CASE stack.ok
    <3>1. j = Ready(last, e)
      BY <1>1, <1>4, <2>5
    <3>2. Used(k.task, g, a) /\ Used(k.task, g, b)
      <4>1. g.pc # "scan" => k.task[g.e].state = "close"
        BY DEF Held
      <4>2. k.task[t].in \in Stream \union {0} /\ k.task[t].out \in Stream \union {0}
        BY DEF Held
      <4>3. t # Kernel
        BY DEF Entry, Kernel
      <4>4. Used(k.task, g, k.task[t].in) /\ Used(k.task, g, k.task[t].out)
        BY <4>1, <4>2, <4>3, UserOf
      <4>5. QED
        BY <4>4
    <3> HIDE DEF after
    <3>3. /\ Shape(after) /\ (k.failed => after.failed)
          /\ ~ after.failed => Counted(after.stream, k.task, g, 0, 0)
      BY <2>3 DEF Built, Held
    <3> DEFINE task == k.task
    <3>4. one = Share(after, a) /\ both = Share(one, b)
      OBVIOUS
    <3>14. x = after.task[e]
      OBVIOUS
    <3>5. /\ Used(task, g, a) /\ Used(task, g, b)
          /\ ~ after.failed => Counted(after.stream, task, g, 0, 0)
      BY <3>2, <3>3
    <3> HIDE DEF task, one, both, a, b
    <3>6. /\ Shape(one) /\ one.task = after.task /\ (after.failed => one.failed)
          /\ ~ one.failed => Counted(one.stream, task, g, 0, a)
      <4>1. a \in Stream \union {0} /\ 0 \in Stream \union {0}
        BY <3>5 DEF Used
      <4>2. a # 0 => Cardinality(EndsOf(task, g, a)) + Others(a) + Is(a, 0) >= 1
        <5>1. Cardinality(EndsOf(task, g, a)) \in Nat /\ Others(a) \in Nat /\ Is(a, 0) \in Nat
          BY EndsFinite DEF Is
        <5>2. QED
          BY <3>5, <5>1 DEF Used
      <4>3. QED
        BY <3>3, <3>4, <3>5, <4>1, <4>2, ShareIs
    <3>7. ~ one.failed => Counted(one.stream, task, g, a, 0)
      BY <3>6, CountedSwap
    <3>8. /\ Shape(both) /\ both.task = one.task /\ (one.failed => both.failed)
          /\ ~ both.failed => Counted(both.stream, task, g, a, b)
      <4>1. a \in Stream \union {0} /\ b \in Stream \union {0}
        BY <3>5 DEF Used
      <4>2. b # 0 => Cardinality(EndsOf(task, g, b)) + Others(b) + Is(b, a) >= 1
        <5>1. Cardinality(EndsOf(task, g, b)) \in Nat /\ Others(b) \in Nat /\ Is(b, a) \in Nat
          BY EndsFinite DEF Is
        <5>2. QED
          BY <3>5, <5>1 DEF Used
      <4>3. QED
        BY <3>4, <3>6, <3>7, <4>1, <4>2, ShareIs
    <3>9. r = [x EXCEPT !.stack = size, !.thread = TRUE, !.map = map, !.in = a, !.out = b]
      BY DEF a, b
    <3>10. TaskShape(x)
      <4> HIDE DEF e
      <4>1. QED
        BY <2>1, <3>3, <3>14, TaskOf
    <3> HIDE DEF r, x, size, map
    <3>11. TaskShape(r) /\ r.in = a /\ r.out = b
      BY <3>9, <3>10 DEF TaskShape
    <3> HIDE DEF e
    <3>12. /\ Shape(known) /\ known.stream = both.stream /\ known.failed = both.failed
           /\ known.task[e] = r
           /\ \A y \in Entry \union {Kernel} : y # e => known.task[y] = both.task[y]
      BY <2>1, <3>8, <3>11, PutIs
    <3> HIDE DEF known
    <3>13. Founded(k, known, e, task, g)
      <4>1. \A y \in Entry \union {Kernel} : y # e => known.task[y] = k.task[y]
        BY <2>3, <3>6, <3>8, <3>12 DEF Built
      <4>2. k.failed => known.failed
        BY <3>3, <3>6, <3>8, <3>12
      <4>3. a \in Stream \union {0} /\ b \in Stream \union {0}
        BY <3>5 DEF Used
      <4>4. QED
        BY <3>8, <3>11, <3>12, <4>1, <4>2, <4>3 DEF Founded
    <3>15. Kept(known, last)
      BY <3>12, WithKept
    <3> HIDE DEF last
    <3>16. Founded(k, last, e, k.task, g)
      BY <3>13, <3>15, FoundedKept DEF task
    <3>17. Held(Ready(last, e), g)
      BY <2>1, <3>16, ReadyHeld
    <3>18. QED
      BY <3>1, <3>17
  <2>6. QED
    BY <2>4, <2>5
<1>5. QED
  BY <1>3, <1>4

-----------------------------------------------------------------------------
(* The collector.                                                          *)
LEMMA LeaveSets ==
  ASSUME NEW k, Shape(k), NEW s \in Stream
  PROVE  LET j == Leave(k, s) IN
         \/ k.stream[s].count = 1 /\ SetStream(k, j, s, 0, 0)
         \/ k.stream[s].count # 1
            /\ SetStream(k, j, s, k.stream[s].base, k.stream[s].count - 1)
<1> DEFINE base  == k.stream[s].base
           count == k.stream[s].count - 1
           r     == [k.stream[s] EXCEPT !.count = count]
           z     == [base |-> 0, count |-> 0]
           free  == Free(k, base)
<1>1. s # 0
  BY DEF Stream
<1>2. CASE k.stream[s].count = 1
  <2>1. Leave(k, s) = [free EXCEPT !.stream[s] = z]
    BY <1>1, <1>2 DEF Leave
  <2>2. Kept(k, free)
    BY FreeKept
  <2> HIDE DEF free
  <2>3. SetStream(free, [free EXCEPT !.stream[s] = z], s, 0, 0)
    BY <2>2, StreamSet DEF Kept
  <2>4. SetStream(k, [free EXCEPT !.stream[s] = z], s, 0, 0)
    BY <2>2, <2>3, SetStreamKept
  <2>5. QED
    BY <1>2, <2>1, <2>4
<1>3. CASE k.stream[s].count # 1
  <2>1. Leave(k, s) = [k EXCEPT !.stream[s] = r]
    BY <1>1, <1>3 DEF Leave
  <2>2. r = [base |-> base, count |-> count]
    <3>1. k.stream[s] = [base |-> base, count |-> k.stream[s].count]
      BY DEF Shape, StreamShape
    <3> HIDE DEF base, count
    <3>2. QED
      BY <3>1
  <2> HIDE DEF base, count, r
  <2>3. SetStream(k, [k EXCEPT !.stream[s] = r], s, base, count)
    BY <2>2, StreamSet
  <2>4. QED
    BY <1>3, <2>1, <2>3 DEF base, count
<1>4. QED
  BY <1>2, <1>3

(* An end that is left was one of those counted.                           *)
LEMMA LeaveIs ==
  ASSUME NEW k, Shape(k), NEW task, NEW g, NEW h, NEW s \in Stream, NEW end,
         end \in EndsOf(task, g, s),
         EndsOf(task, h, s) = EndsOf(task, g, s) \ {end},
         \A x \in Stream : x # s => EndsOf(task, h, x) = EndsOf(task, g, x),
         ~ k.failed => Counted(k.stream, task, g, 0, 0)
  PROVE  LET j == Leave(k, s) IN
         /\ Shape(j) /\ j.task = k.task /\ (k.failed => j.failed)
         /\ ~ j.failed => Counted(j.stream, task, h, 0, 0)
<1> DEFINE j == Leave(k, s)
<1>1. \/ k.stream[s].count = 1 /\ SetStream(k, j, s, 0, 0)
      \/ k.stream[s].count # 1 /\ SetStream(k, j, s, k.stream[s].base, k.stream[s].count - 1)
  BY LeaveSets
<1> SUFFICES /\ Shape(j) /\ j.task = k.task /\ (k.failed => j.failed)
             /\ ~ j.failed => Counted(j.stream, task, h, 0, 0)
  OBVIOUS
<1> HIDE DEF j
<1>2. /\ Shape(j) /\ j.task = k.task /\ (k.failed => j.failed)
      /\ \A x \in Stream : x # s => j.stream[x] = k.stream[x]
  BY <1>1 DEF SetStream
<1>3. ASSUME ~ j.failed, NEW x \in Stream
      PROVE  /\ j.stream[x].count = Cardinality(EndsOf(task, h, x)) + Others(x)
                                      + Is(x, 0) + Is(x, 0)
             /\ j.stream[x].base = 0 <=> j.stream[x].count = 0
  <2>1. /\ k.stream[x].count = Cardinality(EndsOf(task, g, x)) + Others(x) + Is(x, 0) + Is(x, 0)
        /\ k.stream[x].base = 0 <=> k.stream[x].count = 0
    BY <1>2, <1>3 DEF Counted
  <2>2. CASE x # s
    BY <1>2, <2>1, <2>2
  <2>3. CASE x = s
    <3> DEFINE n == Cardinality(EndsOf(task, g, s))
               m == Cardinality(EndsOf(task, h, s))
               u == Others(s)
               count == k.stream[s].count
    <3>1. m = n - 1 /\ n \in Nat /\ n >= 1
      <4>1. IsFiniteSet(EndsOf(task, g, s)) /\ n \in Nat /\ n >= 1
        BY EndsFinite
      <4>2. m = n - 1
        BY <4>1, FS_RemoveElement
      <4>3. QED
        BY <4>1, <4>2
    <3>2. u \in Nat /\ Is(s, 0) = 0
      BY EndsFinite DEF Is, Stream
    <3>3. count = n + u
      <4>1. count = n + u + 0 + 0
        BY <2>1, <2>3, <3>2
      <4> HIDE DEF n, u, count
      <4>2. QED
        BY <3>1, <3>2, <4>1
    <3>4. k.stream[s].base = 0 <=> count = 0
      BY <2>1, <2>3
    <3>5. \/ count = 1 /\ j.stream[s].base = 0 /\ j.stream[s].count = 0
          \/ count # 1 /\ j.stream[s].base = k.stream[s].base /\ j.stream[s].count = count - 1
      BY <1>1 DEF SetStream
    <3> HIDE DEF n, m, u, count
    <3>6. m + u + 0 + 0 = count - 1 /\ count \in Nat /\ count >= 1
      BY <3>1, <3>2, <3>3
    <3>7. /\ j.stream[s].count = count - 1
          /\ j.stream[s].base = 0 <=> count - 1 = 0
      <4>1. CASE count = 1
        BY <3>5, <4>1
      <4>2. CASE count # 1
        BY <3>4, <3>5, <3>6, <4>2
      <4>3. QED
        BY <4>1, <4>2
    <3>8. j.stream[s].count = m + u + Is(s, 0) + Is(s, 0)
      BY <3>2, <3>6, <3>7
    <3>9. QED
      BY <2>3, <3>7, <3>8 DEF m, u
  <2>4. QED
    BY <2>2, <2>3
<1>4. QED
  BY <1>2, <1>3 DEF Counted

LEMMA LeaveHeld ==
  ASSUME NEW k, NEW g, NEW h, Held(k, g), NEW part \in {"in", "out"},
         g.pc = part, h = [g EXCEPT !.pc = IF part = "in" THEN "out" ELSE "map"],
         NEW s, s = IF part = "in" THEN k.task[g.e].in ELSE k.task[g.e].out
  PROVE  LET j == Leave(k, s) IN j.halted \/ Held(j, h)
<1>1. g.e \in Entry /\ k.task[g.e].state = "close"
  BY DEF Held
<1>2. s \in Stream \union {0}
  BY <1>1 DEF Held
<1>3. CASE s = 0
  <2>1. Leave(k, s) = Halt(k)
    BY <1>3 DEF Leave
  <2>2. QED
    BY <2>1, Halts
<1>4. CASE s # 0
  <2> DEFINE end == <<g.e, part>>
  <2>1. /\ h.e = g.e /\ h.pc = IF part = "in" THEN "out" ELSE "map"
        /\ h = [pc |-> h.pc, e |-> h.e, slot |-> h.slot]
    BY DEF Held
  <2>2. \A x \in Entry, p \in {"in", "out"} :
          /\ Gone(h, x, p) <=> Gone(g, x, p) \/ (x = g.e /\ p = part)
          /\ ~ Gone(g, g.e, part)
    <3>1. CASE part = "in"
      BY <2>1, <3>1 DEF Gone
    <3>2. CASE part = "out"
      BY <2>1, <3>2 DEF Gone
    <3>3. QED
      BY <3>1, <3>2
  <2>3. ASSUME NEW x \in Stream, NEW e \in Entry, NEW p \in {"in", "out"}
        PROVE  <<e, p>> \in EndsOf(k.task, h, x)
                 <=> <<e, p>> \in EndsOf(k.task, g, x) /\ ~ (e = g.e /\ p = part)
    BY <2>2 DEF EndsOf
  <2>4. \A x \in Stream : EndsOf(k.task, h, x) = EndsOf(k.task, g, x) \ {end}
    <3>1. \A x \in Stream : EndsOf(k.task, h, x) \subseteq Entry \X {"in", "out"}
                            /\ EndsOf(k.task, g, x) \subseteq Entry \X {"in", "out"}
      BY DEF EndsOf
    <3>2. ASSUME NEW x \in Stream, NEW y \in Entry \X {"in", "out"}
          PROVE  y \in EndsOf(k.task, h, x) <=> y \in EndsOf(k.task, g, x) /\ y # end
      <4>1. PICK e \in Entry, p \in {"in", "out"} : y = <<e, p>>
        OBVIOUS
      <4>2. QED
        BY <2>3, <4>1
    <3>3. QED
      BY <3>1, <3>2
  <2>5. \A x \in Stream : end \in EndsOf(k.task, g, x) <=> x = s
    BY <1>1, <2>2 DEF EndsOf
  <2> HIDE DEF end
  <2>6. \A x \in Stream : x # s => EndsOf(k.task, h, x) = EndsOf(k.task, g, x)
    BY <2>4, <2>5
  <2>7. s \in Stream
    BY <1>2, <1>4
  <2> DEFINE j == Leave(k, s)
             task == k.task
  <2>8. /\ end \in EndsOf(task, g, s) /\ EndsOf(task, h, s) = EndsOf(task, g, s) \ {end}
        /\ \A x \in Stream : x # s => EndsOf(task, h, x) = EndsOf(task, g, x)
        /\ ~ k.failed => Counted(k.stream, task, g, 0, 0)
        /\ Shape(k)
    BY <2>4, <2>5, <2>6, <2>7 DEF Held
  <2> HIDE DEF task
  <2>9. /\ Shape(j) /\ j.task = k.task /\ (k.failed => j.failed)
        /\ ~ j.failed => Counted(j.stream, task, h, 0, 0)
    BY <2>7, <2>8, LeaveIs
  <2> SUFFICES Held(j, h)
    OBVIOUS
  <2> HIDE DEF j
  <2>10. h.e \in Entry /\ j.task[h.e].state = "close"
    BY <1>1, <2>1, <2>9
  <2>11. QED
    BY <2>1, <2>9, <2>10 DEF Held, task
<1>5. QED
  BY <1>3, <1>4

LEMMA CloseHeld ==
  ASSUME NEW k, NEW g, Held(k, g), NEW j, Shape(j), j.stream = k.stream, k.failed => j.failed,
         \A x \in Entry \union {Kernel} :
           /\ j.task[x].in = k.task[x].in /\ j.task[x].out = k.task[x].out
           /\ \/ j.task[x].state = k.task[x].state
              \/ j.task[x].state = "close" /\ (~ k.failed => k.task[x].state \in {"active", "close"})
  PROVE  ~ j.failed => Held(j, g)
<1> SUFFICES ASSUME ~ j.failed PROVE Held(j, g)
  OBVIOUS
<1>1. \A x \in Entry : k.task[x].state \in {"free", "active", "close"}
  BY DEF Held
<1>2. \A x \in Entry : j.task[x].state \in {"free", "active", "close"}
  BY <1>1
<1>3. g = [pc |-> g.pc, e |-> g.e, slot |-> g.slot]
      /\ (g.pc # "scan" => g.e \in Entry /\ j.task[g.e].state = "close")
  BY DEF Held
<1>4. \A x \in Entry, part \in {"in", "out"} :
        (j.task[x].state \in {"active", "close"} /\ ~ Gone(g, x, part))
          <=> (k.task[x].state \in {"active", "close"} /\ ~ Gone(g, x, part))
  <2>1. \A x \in Entry : j.task[x].state \in {"active", "close"}
                           <=> k.task[x].state \in {"active", "close"}
    BY DEF Held
  <2>2. QED
    BY <2>1
<1>5. QED
  BY <1>2, <1>3, <1>4, HeldSame

(* With a failed creation only the shape is left to keep.                  *)
LEMMA FailedSame ==
  ASSUME NEW k, NEW j, NEW g, NEW h, Held(k, g), j.failed, Shape(j),
         \A x \in Entry \union {Kernel} :
           j.task[x].in = k.task[x].in /\ j.task[x].out = k.task[x].out,
         h = [pc |-> h.pc, e |-> h.e, slot |-> h.slot],
         h.pc # "scan" => h.e \in Entry /\ j.task[h.e].state = "close"
  PROVE  Held(j, h)
BY DEF Held

LEMMA SpaceInit == Init => SpaceInv
<1> SUFFICES ASSUME Init PROVE Held(Start, [pc |-> "scan", e |-> Kernel, slot |-> 0])
  BY DEF Init, SpaceInv
<1> DEFINE k == Start
           g == [pc |-> "scan", e |-> Kernel, slot |-> 0]
           first == [NoTask EXCEPT !.state = "active", !.cr3 = Root, !.in = Null, !.out = Null]
<1>1. Null \in Stream /\ Video # 0 /\ 0 \notin Entry
  BY SpaceAssumption, PagingAssumption DEF Null, Stream, Entry
<1>2. TaskShape(NoTask) /\ NoTask.in = 0 /\ NoTask.out = 0 /\ NoTask.state = "free"
  BY DEF TaskShape, NoTask
<1>3. TaskShape(first) /\ first.in = Null /\ first.out = Null
  <2>1. first = [NoTask EXCEPT !.state = "active", !.cr3 = Root, !.in = Null, !.out = Null]
    OBVIOUS
  <2> HIDE DEF first
  <2>2. QED
    BY <1>2, <2>1 DEF TaskShape
<1>4. k.task = [e \in Entry \union {Kernel} |-> IF e = Kernel THEN first ELSE NoTask]
  BY DEF Start
<1> HIDE DEF first
<1>5. /\ k.task[Kernel] = first
      /\ \A e \in Entry : k.task[e] = NoTask
  BY <1>1, <1>4 DEF Kernel
<1>6. QueueShape(k.task)
  <2>1. k.task = [e \in Entry \union {Kernel} |-> k.task[e]]
    BY <1>4
  <2>2. QED
    BY <1>2, <1>3, <1>5, <2>1 DEF QueueShape
<1>7. k.stream = [s \in Stream |-> IF s = Null THEN [base |-> Video, count |-> 2]
                                  ELSE [base |-> 0, count |-> 0]]
  BY DEF Start
<1>8. StreamShape(k.stream)
  BY <1>7 DEF StreamShape
<1>9. Shape(k)
  <2>1. /\ k = [memory |-> k.memory, task |-> k.task, task_id |-> k.task_id, stream |-> k.stream,
                library |-> k.library, library_map |-> k.library_map,
                framebuffer_pid |-> k.framebuffer_pid, uses |-> k.uses, calls |-> k.calls,
                kept |-> k.kept, failed |-> k.failed, halted |-> k.halted]
        /\ k.failed = FALSE
    BY DEF Start
  <2>2. QED
    BY <1>6, <1>8, <2>1 DEF Shape
<1>10. \A s \in Stream : EndsOf(k.task, g, s) = {}
  <2>1. \A e \in Entry : k.task[e].state \notin {"active", "close"}
    BY <1>2, <1>5
  <2> HIDE DEF k
  <2>2. QED
    BY <2>1 DEF EndsOf
<1>11. Counted(k.stream, k.task, g, 0, 0)
  <2>1. ASSUME NEW s \in Stream
        PROVE  /\ k.stream[s].count = Cardinality(EndsOf(k.task, g, s)) + Others(s)
                                        + Is(s, 0) + Is(s, 0)
               /\ k.stream[s].base = 0 <=> k.stream[s].count = 0
    <3>1. Cardinality(EndsOf(k.task, g, s)) = 0 /\ Is(s, 0) = 0
      BY <1>10, FS_EmptySet DEF Is, Stream
    <3>2. CASE s = Null
      <4>1. k.stream[s].count = 2 /\ k.stream[s].base = Video /\ Others(s) = 2
        BY <1>7, <3>2 DEF Others
      <4>2. QED
        BY <1>1, <3>1, <4>1
    <3>3. CASE s # Null
      <4>1. k.stream[s].count = 0 /\ k.stream[s].base = 0 /\ Others(s) = 0
        BY <1>7, <3>3 DEF Others
      <4>2. QED
        BY <3>1, <4>1
    <3>4. QED
      BY <3>2, <3>3
  <2>2. QED
    BY <2>1 DEF Counted
<1>12. g.pc = "scan" /\ g = [pc |-> g.pc, e |-> g.e, slot |-> g.slot]
  OBVIOUS
<1> HIDE DEF k, g
<1>13. Held(k, g)
  <2>1. \A e \in Entry \union {Kernel} : k.task[e].in \in Stream \union {0}
                                         /\ k.task[e].out \in Stream \union {0}
    BY <1>1, <1>2, <1>3, <1>5
  <2>2. \A e \in Entry : k.task[e].state \in {"free", "active", "close"}
    BY <1>2, <1>5
  <2>3. k.task[Kernel].in \in {0, Null} /\ k.task[Kernel].out \in {0, Null}
    BY <1>3, <1>5
  <2>4. QED
    BY <1>9, <1>11, <1>12, <2>1, <2>2, <2>3 DEF Held
<1>14. QED
  BY <1>13 DEF k, g

(* One step of each operation.                                             *)
LEMMA TasksHeld ==
  ASSUME SpaceInv, ~ kernel.halted, NEW t \in Entry,
         ExecOther(t) \/ MemoryAlloc(t) \/ MemoryRelease(t) \/ MemoryShare(t) \/ Framebuffer(t)
  PROVE  SpaceInv'
<1>1. Held(kernel, gc) /\ Shape(kernel)
  BY DEF SpaceInv, Held
<1>2. ASSUME NEW j, j.halted \/ Kept(kernel, j), kernel' = j, gc' = gc
      PROVE  SpaceInv'
  BY <1>1, <1>2, KeptHeld DEF SpaceInv
<1>3. ASSUME NEW m PROVE Kept(kernel, Called(With(kernel, m)))
  BY <1>1, WithKept, CalledKept, KeptTwice DEF Kept
<1>4. ASSUME NEW m, NEW u, NEW n
      PROVE  Kept(kernel, [Called(With(kernel, m)) EXCEPT !.uses[u] = n])
  <2> DEFINE j == Called(With(kernel, m))
  <2>1. Kept(kernel, j)
    BY <1>3
  <2> HIDE DEF j
  <2>2. Kept(j, [j EXCEPT !.uses = [j.uses EXCEPT ![u] = n]])
    BY <2>1, UsesKept DEF Kept
  <2>3. Kept(kernel, [j EXCEPT !.uses[u] = n])
    BY <2>1, <2>2, KeptTwice
  <2>4. QED
    BY <2>3 DEF j
<1>5. CASE ExecOther(t)
  <2> DEFINE file == Take(kernel.memory, One)
             i    == Called(With(kernel, file.m))
             j    == Keep(i, file.frame)
  <2>1. kernel' = j /\ gc' = gc
    BY <1>5 DEF ExecOther
  <2>2. Kept(kernel, i)
    BY <1>3
  <2> HIDE DEF i, file
  <2>3. Kept(kernel, j)
    BY <2>2, KeepKept, KeptTwice DEF Kept
  <2> HIDE DEF j
  <2>4. QED
    BY <1>2, <2>1, <2>3
<1>6. CASE MemoryAlloc(t)
  <2>1. gc' = gc
    BY <1>6 DEF MemoryAlloc
  <2>2. \E m, u, n : kernel' \in {[Called(With(kernel, m)) EXCEPT !.uses[u] = n], Halt(kernel)}
    <3>1. PICK n \in Sizes :
            LET map   == MapOf(t)
                p     == FirstFit(kernel.memory.bits[map], n)
                alloc == PageAlloc([kernel.memory EXCEPT !.bits[map] = @ \ Run(p, n)],
                                   RootOf(t), p, n, User)
            IN kernel' = IF alloc.ok
                         THEN [Called(With(kernel, alloc.m)) EXCEPT !.uses[map] = @ \union {<<p, n>>}]
                         ELSE Halt(kernel)
      BY <1>6 DEF MemoryAlloc
    <3> DEFINE map   == MapOf(t)
               p     == FirstFit(kernel.memory.bits[map], n)
               alloc == PageAlloc([kernel.memory EXCEPT !.bits[map] = @ \ Run(p, n)],
                                  RootOf(t), p, n, User)
               c     == Called(With(kernel, alloc.m))
               v     == c.uses[map] \union {<<p, n>>}
    <3>2. kernel' = IF alloc.ok THEN [c EXCEPT !.uses[map] = v] ELSE Halt(kernel)
      BY <3>1
    <3>3. kernel' \in {[c EXCEPT !.uses[map] = v], Halt(kernel)}
      <4> HIDE DEF alloc, c, v, map
      <4>1. QED
        BY <3>2
    <3> DEFINE m == alloc.m
    <3>4. kernel' \in {[Called(With(kernel, m)) EXCEPT !.uses[map] = v], Halt(kernel)}
      BY <3>3
    <3> HIDE DEF map, v, m
    <3>5. QED
      BY <3>4
  <2>3. QED
    BY <1>2, <1>4, <2>1, <2>2, Halts
<1>7. CASE MemoryRelease(t)
  <2>1. gc' = gc
    BY <1>7 DEF MemoryRelease
  <2>2. \E m, u, n : kernel' = [kernel EXCEPT !.memory = m, !.uses[u] = n]
    BY <1>7 DEF MemoryRelease
  <2>3. PICK m, u, n : kernel' = [kernel EXCEPT !.memory = m, !.uses[u] = n]
    BY <2>2
  <2> DEFINE j == With(kernel, m)
  <2>4. Kept(kernel, j) /\ kernel' = [j EXCEPT !.uses = [j.uses EXCEPT ![u] = n]]
    BY <1>1, <2>3, WithKept DEF With, Shape
  <2> HIDE DEF j
  <2>5. Kept(j, [j EXCEPT !.uses = [j.uses EXCEPT ![u] = n]])
    BY <2>4, UsesKept DEF Kept
  <2>6. Kept(kernel, kernel')
    BY <2>4, <2>5, KeptTwice
  <2>7. QED
    BY <1>2, <2>1, <2>6
<1>8. CASE MemoryShare(t)
  <2>1. gc' = gc
    BY <1>8 DEF MemoryShare
  <2>2. \E m, u, n : kernel' = [Called(With(kernel, m)) EXCEPT !.uses[u] = n]
    <3>1. PICK use \in kernel.uses[MapOf(t)], e \in Entry :
            LET map    == kernel.task[e].map
                p      == FirstFit(kernel.memory.bits[map], use[2])
                marked == [kernel.memory EXCEPT !.bits[map] = IF p = 0 THEN @ ELSE @ \ Run(p, use[2])]
                shared == PageClang(marked, RootOf(t), use[1], kernel.task[e].cr3, p, use[2], Shared)
            IN /\ e # t /\ map # MapOf(t) /\ map # 0
               /\ LiveOnly => kernel.task[e].state = "active"
               /\ kernel' = [Called(With(kernel, shared.m)) EXCEPT
                               !.uses[map] = IF p = 0 THEN @ ELSE @ \union {<<p, use[2]>>}]
               /\ UNCHANGED gc
      BY <1>8, Zenon DEF MemoryShare
    <3> DEFINE map    == kernel.task[e].map
               p      == FirstFit(kernel.memory.bits[map], use[2])
               marked == [kernel.memory EXCEPT !.bits[map] = IF p = 0 THEN @ ELSE @ \ Run(p, use[2])]
               shared == PageClang(marked, RootOf(t), use[1], kernel.task[e].cr3, p, use[2], Shared)
               m      == shared.m
               c      == Called(With(kernel, m))
               v      == IF p = 0 THEN c.uses[map] ELSE c.uses[map] \union {<<p, use[2]>>}
    <3>2. kernel' = [Called(With(kernel, m)) EXCEPT !.uses[map] = v]
      BY <3>1
    <3> HIDE DEF map, m, v
    <3>3. QED
      BY <3>2
  <2>3. QED
    BY <1>2, <1>4, <2>1, <2>2
<1>9. CASE Framebuffer(t)
  <2> DEFINE pid == kernel.task[t].pid
             j   == [Called(kernel) EXCEPT !.framebuffer_pid = pid]
             i   == KernelShare(j, t, Video)
  <2>1. kernel' = i /\ gc' = gc
    BY <1>9 DEF Framebuffer
  <2>2. Kept(kernel, j)
    <3> DEFINE c == Called(kernel)
    <3>1. Kept(kernel, c)
      BY <1>1, CalledKept
    <3> HIDE DEF c, pid
    <3>2. Kept(c, [c EXCEPT !.framebuffer_pid = pid])
      BY <3>1 DEF Kept, Shape
    <3>3. QED
      BY <3>1, <3>2, KeptTwice DEF c
  <2> HIDE DEF j
  <2>3. i.halted \/ \E m : i = With(j, m)
    <3>1. CASE FirstFit(j.memory.bits[j.task[t].map], One) = 0
      <4>1. i = Halt(j)
        BY <3>1 DEF KernelShare
      <4>2. QED
        BY <4>1, Halts
    <3>2. CASE FirstFit(j.memory.bits[j.task[t].map], One) # 0
      BY <3>2 DEF KernelShare
    <3>3. QED
      BY <3>1, <3>2
  <2> HIDE DEF i
  <2>4. i.halted \/ Kept(kernel, i)
    BY <2>2, <2>3, WithKept, KeptTwice DEF Kept
  <2>5. QED
    BY <1>2, <2>1, <2>4
<1>10. QED
  BY <1>5, <1>6, <1>7, <1>8, <1>9

LEMMA StackFaultHeld ==
  ASSUME SpaceInv, ~ kernel.halted, NEW t \in Entry, StackFault(t)
  PROVE  SpaceInv'
<1> DEFINE c == Called(kernel)
           x == kernel.task[t]
           size == x.stack + 1
           r == [x EXCEPT !.stack = size]
           grown == Put(c, t, r)
<1>1. Held(kernel, gc) /\ Shape(kernel)
  BY DEF SpaceInv, Held
<1>2. gc' = gc /\ \E m : kernel' \in {Halt(kernel), With(grown, m)}
  BY DEF StackFault
<1>3. Kept(kernel, c)
  BY <1>1, CalledKept
<1>4. TaskShape(x)
  BY <1>1, TaskOf
<1> HIDE DEF c, size
<1>5. TaskShape(r) /\ r.in = x.in /\ r.out = x.out /\ r.state = x.state
  <2> HIDE DEF x
  <2>1. QED
    BY <1>4, StackSet
<1> HIDE DEF r
<1>6. /\ Shape(grown) /\ grown.stream = kernel.stream /\ (kernel.failed => grown.failed)
      /\ grown.task[t] = r
      /\ \A y \in Entry \union {Kernel} : y # t => grown.task[y] = kernel.task[y]
  BY <1>3, <1>5, PutIs DEF Kept
<1> HIDE DEF grown
<1>7. /\ \A y \in Entry \union {Kernel} :
           /\ grown.task[y].in = kernel.task[y].in /\ grown.task[y].out = kernel.task[y].out
           /\ grown.task[y].state = kernel.task[y].state
  BY <1>5, <1>6
<1>8. Held(grown, gc)
  <2>1. CASE grown.failed
    <3>1. /\ gc = [pc |-> gc.pc, e |-> gc.e, slot |-> gc.slot]
          /\ gc.pc # "scan" => gc.e \in Entry /\ grown.task[gc.e].state = "close"
      BY <1>1, <1>7 DEF Held
    <3>2. QED
      BY <1>1, <1>6, <1>7, <2>1, <3>1, FailedSame
  <2>2. CASE ~ grown.failed
    BY <1>1, <1>6, <1>7, <2>2, CloseHeld
  <2>3. QED
    BY <2>1, <2>2
<1>9. \A m : Held(With(grown, m), gc)
  BY <1>6, <1>8, WithKept, KeptHeld
<1>10. QED
  BY <1>2, <1>9, Halts DEF SpaceInv

LEMMA ExitHeld ==
  ASSUME SpaceInv, ~ kernel.halted, NEW t \in Entry, Exit(t)
  PROVE  SpaceInv'
<1> DEFINE x == kernel.task[t]
           r == [x EXCEPT !.state = "close"]
           j == Put(kernel, t, r)
<1>1. Held(kernel, gc) /\ Shape(kernel)
  BY DEF SpaceInv, Held
<1>2. gc' = gc /\ kernel' = j /\ x.state = "active"
  BY DEF Exit, Runs, Active
<1>3. TaskShape(x)
  BY <1>1, TaskOf
<1>4. TaskShape(r) /\ r.in = x.in /\ r.out = x.out /\ r.state = "close"
  <2> HIDE DEF x
  <2>1. QED
    BY <1>3, StateSet
<1> HIDE DEF r
<1>5. /\ Shape(j) /\ j.stream = kernel.stream /\ j.failed = kernel.failed /\ j.task[t] = r
      /\ \A y \in Entry \union {Kernel} : y # t => j.task[y] = kernel.task[y]
  BY <1>1, <1>4, PutIs
<1> HIDE DEF j
<1>6. \A y \in Entry \union {Kernel} :
        /\ j.task[y].in = kernel.task[y].in /\ j.task[y].out = kernel.task[y].out
        /\ \/ j.task[y].state = kernel.task[y].state
           \/ /\ j.task[y].state = "close"
              /\ ~ kernel.failed => kernel.task[y].state \in {"active", "close"}
  BY <1>2, <1>4, <1>5
<1>7. Held(j, gc)
  <2>1. CASE j.failed
    <3>1. /\ gc = [pc |-> gc.pc, e |-> gc.e, slot |-> gc.slot]
          /\ gc.pc # "scan" => gc.e \in Entry /\ j.task[gc.e].state = "close"
      BY <1>1, <1>6 DEF Held
    <3>2. QED
      BY <1>1, <1>5, <1>6, <2>1, <3>1, FailedSame
  <2>2. CASE ~ j.failed
    BY <1>1, <1>5, <1>6, <2>2, CloseHeld
  <2>3. QED
    BY <2>1, <2>2
<1>8. QED
  BY <1>2, <1>7 DEF SpaceInv

LEMMA GcChildrenHeld ==
  ASSUME SpaceInv, ~ kernel.halted, GcChildren
  PROVE  SpaceInv'
<1> DEFINE Ends(e)  == /\ e \notin {gc.e, Kernel} /\ kernel.task[e].state # "free"
                       /\ Ancestor(kernel.task[gc.e].pid, e)
           Next1(e) == IF Ends(e) THEN [kernel.task[e] EXCEPT !.state = "close"]
                       ELSE kernel.task[e]
           task     == [e \in DOMAIN kernel.task |-> Next1(e)]
           j        == [kernel EXCEPT !.task = task]
           h        == [gc EXCEPT !.pc = "in"]
<1>1. Held(kernel, gc) /\ Shape(kernel)
  BY DEF SpaceInv, Held
<1>2. gc.pc = "children" /\ gc' = h /\ kernel' = j
  BY DEF GcChildren, GcAt
<1>3. DOMAIN kernel.task = Entry \union {Kernel}
  BY <1>1 DEF Shape, QueueShape
<1>4. /\ task = [e \in Entry \union {Kernel} |-> Next1(e)]
      /\ \A e \in Entry \union {Kernel} : task[e] = Next1(e)
  BY <1>3
<1>5. ASSUME NEW e \in Entry \union {Kernel}
      PROVE  /\ TaskShape(Next1(e)) /\ Next1(e).in = kernel.task[e].in
             /\ Next1(e).out = kernel.task[e].out
             /\ Next1(e).state = IF Ends(e) THEN "close" ELSE kernel.task[e].state
  <2> DEFINE x == kernel.task[e]
             r == [x EXCEPT !.state = "close"]
  <2>1. TaskShape(x)
    BY <1>1, TaskOf
  <2>2. Next1(e) = IF Ends(e) THEN r ELSE x
    OBVIOUS
  <2> HIDE DEF x
  <2>3. TaskShape(r) /\ r.in = x.in /\ r.out = x.out /\ r.state = "close"
    BY <2>1, StateSet
  <2> HIDE DEF r, Next1, Ends
  <2>4. QED
    BY <2>1, <2>2, <2>3 DEF x
<1> HIDE DEF Next1, task
<1>6. /\ j.task = task /\ j.stream = kernel.stream /\ j.failed = kernel.failed
      /\ QueueShape(task)
  <2>1. QueueShape(task)
    BY <1>4, <1>5 DEF QueueShape
  <2>2. QED
    BY <1>1, <2>1 DEF Shape
<1>7. Shape(j)
  BY <1>1, <1>6 DEF Shape
<1>8. \A y \in Entry \union {Kernel} :
        /\ j.task[y].in = kernel.task[y].in /\ j.task[y].out = kernel.task[y].out
        /\ j.task[y].state = IF Ends(y) THEN "close" ELSE kernel.task[y].state
  BY <1>4, <1>5, <1>6
<1>9. /\ h.pc = "in" /\ h.e = gc.e /\ h = [pc |-> h.pc, e |-> h.e, slot |-> h.slot]
      /\ gc.e \in Entry /\ kernel.task[gc.e].state = "close"
  BY <1>1, <1>2 DEF Held
<1> HIDE DEF j, h
<1>10. j.task[gc.e].state = "close"
  BY <1>8, <1>9
<1>11. \A x, part : ~ Gone(gc, x, part) /\ ~ Gone(h, x, part)
  BY <1>2, <1>9 DEF Gone
<1>12. CASE j.failed
  <2>1. Held(j, h)
    BY <1>1, <1>7, <1>8, <1>9, <1>10, <1>12, FailedSame
  <2>2. QED
    BY <1>2, <2>1 DEF SpaceInv
<1>13. CASE ~ j.failed
  <2>1. \A x \in Entry : kernel.task[x].state \in {"free", "active", "close"}
    BY <1>1, <1>6, <1>13 DEF Held
  <2>2. /\ \A x \in Entry : j.task[x].state \in {"free", "active", "close"}
        /\ \A x \in Entry : j.task[x].state \in {"active", "close"}
                              <=> kernel.task[x].state \in {"active", "close"}
    BY <1>8, <2>1
  <2>3. \A x \in Entry \union {Kernel} :
          j.task[x].in = kernel.task[x].in /\ j.task[x].out = kernel.task[x].out
    BY <1>8
  <2>4. Held(j, h)
    <3>1. kernel.failed => j.failed
      BY <1>6
    <3>2. h.pc # "scan" => h.e \in Entry /\ j.task[h.e].state = "close"
      BY <1>9, <1>10
    <3>3. \A x \in Entry, part \in {"in", "out"} :
            (j.task[x].state \in {"active", "close"} /\ ~ Gone(h, x, part))
              <=> (kernel.task[x].state \in {"active", "close"} /\ ~ Gone(gc, x, part))
      BY <1>11, <2>2
    <3>4. j.stream = kernel.stream
      BY <1>6
    <3>5. QED
      BY <1>1, <1>7, <1>9, <2>2, <2>3, <3>1, <3>2, <3>3, <3>4, HeldSame
  <2>5. QED
    BY <1>2, <2>4 DEF SpaceInv
<1>14. QED
  BY <1>12, <1>13

LEMMA CollectHeld ==
  ASSUME SpaceInv, ~ kernel.halted,
         GcFind \/ GcIn \/ GcOut \/ GcClear \/ GcMap \/ GcStrip
  PROVE  SpaceInv'
<1>1. Held(kernel, gc) /\ Shape(kernel)
  BY DEF SpaceInv, Held
<1>2. ASSUME NEW j, Kept(kernel, j), NEW h, h = [pc |-> h.pc, e |-> h.e, slot |-> h.slot],
             h.pc # "scan" => h.e \in Entry /\ kernel.task[h.e].state = "close",
             \A x, part : Gone(h, x, part) <=> Gone(gc, x, part)
      PROVE  Held(j, h)
  <2>1. Held(kernel, h)
    <3>1. CASE kernel.failed
      BY <1>1, <1>2, <3>1, FailedSame
    <3>2. CASE ~ kernel.failed
      <4>1. \A x \in Entry : kernel.task[x].state \in {"free", "active", "close"}
        BY <1>1, <3>2 DEF Held
      <4>2. QED
        BY <1>1, <1>2, <4>1, HeldSame
    <3>3. QED
      BY <3>1, <3>2
  <2>2. QED
    BY <1>2, <2>1, KeptHeld
<1>3. CASE GcFind
  <2>1. PICK e \in Entry : /\ gc.pc = "scan" /\ kernel.task[e].state = "close"
                           /\ gc' = [pc |-> "children", e |-> e, slot |-> 0]
                           /\ kernel' = kernel
    BY <1>3 DEF GcFind
  <2> DEFINE h == [pc |-> "children", e |-> e, slot |-> 0]
  <2>2. h = [pc |-> h.pc, e |-> h.e, slot |-> h.slot] /\ h.pc = "children" /\ h.e = e
    OBVIOUS
  <2> HIDE DEF h
  <2>3. \A x, part : Gone(h, x, part) <=> Gone(gc, x, part)
    BY <2>1, <2>2 DEF Gone
  <2>4. Held(kernel, h)
    BY <1>1, <1>2, <2>1, <2>2, <2>3, KeptItself
  <2>5. QED
    BY <2>1, <2>4 DEF SpaceInv, h
<1>4. CASE GcIn
  <2> DEFINE h == [gc EXCEPT !.pc = "out"]
             s == kernel.task[gc.e].in
  <2>1. gc.pc = "in" /\ gc' = h /\ kernel' = Leave(kernel, s)
    BY <1>4 DEF GcIn, GcAt
  <2>2. h = [gc EXCEPT !.pc = IF "in" = "in" THEN "out" ELSE "map"]
        /\ s = IF "in" = "in" THEN kernel.task[gc.e].in ELSE kernel.task[gc.e].out
    OBVIOUS
  <2> HIDE DEF h, s
  <2>3. Leave(kernel, s).halted \/ Held(Leave(kernel, s), h)
    BY <1>1, <2>1, <2>2, LeaveHeld
  <2>4. QED
    BY <2>1, <2>3 DEF SpaceInv
<1>5. CASE GcOut
  <2> DEFINE h == [gc EXCEPT !.pc = "map"]
             s == kernel.task[gc.e].out
  <2>1. gc.pc = "out" /\ gc' = h /\ kernel' = Leave(kernel, s)
    BY <1>5 DEF GcOut, GcAt
  <2>2. h = [gc EXCEPT !.pc = IF "out" = "in" THEN "out" ELSE "map"]
        /\ s = IF "out" = "in" THEN kernel.task[gc.e].in ELSE kernel.task[gc.e].out
    OBVIOUS
  <2> HIDE DEF h, s
  <2>3. Leave(kernel, s).halted \/ Held(Leave(kernel, s), h)
    BY <1>1, <2>1, <2>2, LeaveHeld
  <2>4. QED
    BY <2>1, <2>3 DEF SpaceInv
<1>6. ASSUME GcAt("map", "strip")
      PROVE  /\ gc'.pc = "strip" /\ gc' = [pc |-> gc'.pc, e |-> gc'.e, slot |-> gc'.slot]
             /\ gc'.e \in Entry /\ kernel.task[gc'.e].state = "close"
             /\ \A x, part : Gone(gc', x, part) <=> Gone(gc, x, part)
  <2>1. gc.pc = "map" /\ gc' = [gc EXCEPT !.pc = "strip"]
    BY <1>6 DEF GcAt
  <2>2. gc'.pc = "strip" /\ gc'.e = gc.e /\ gc' = [pc |-> gc'.pc, e |-> gc'.e, slot |-> gc'.slot]
    BY <1>1, <2>1 DEF Held
  <2>3. QED
    BY <1>1, <2>1, <2>2 DEF Gone, Held
<1>7. CASE GcClear
  <2>1. GcAt("map", "strip") /\ \E m : kernel' = With(kernel, m)
    BY <1>7 DEF GcClear
  <2>2. Kept(kernel, kernel')
    BY <1>1, <2>1, WithKept
  <2>3. QED
    BY <1>2, <1>6, <2>1, <2>2 DEF SpaceInv
<1>8. CASE GcMap
  <2> DEFINE map  == MapOf(gc.e)
             free == Free(kernel, map)
  <2>1. GcAt("map", "strip") /\ kernel' \in {Halt(kernel), [free EXCEPT !.uses[map] = {}]}
    BY <1>8 DEF GcMap
  <2>2. Kept(kernel, free)
    BY <1>1, FreeKept
  <2> HIDE DEF free, map
  <2>3. Kept(free, [free EXCEPT !.uses = [free.uses EXCEPT ![map] = {}]])
    BY <2>2, UsesKept DEF Kept
  <2>4. Kept(kernel, [free EXCEPT !.uses[map] = {}])
    BY <2>2, <2>3, KeptTwice
  <2>5. CASE kernel' = Halt(kernel)
    BY <2>5, Halts DEF SpaceInv
  <2>6. CASE kernel' = [free EXCEPT !.uses[map] = {}]
    BY <1>2, <1>6, <2>1, <2>4, <2>6 DEF SpaceInv
  <2>7. QED
    BY <2>1, <2>5, <2>6
<1>9. CASE GcStrip
  <2>1. /\ gc.pc = "strip" /\ gc' = [gc EXCEPT !.slot = gc.slot + 1]
        /\ \E m : kernel' = With(kernel, m)
    BY <1>9 DEF GcStrip
  <2>2. Kept(kernel, kernel')
    BY <1>1, <2>1, WithKept
  <2> DEFINE n == gc.slot + 1
  <2>3. gc' = [gc EXCEPT !.slot = n]
    BY <2>1
  <2> HIDE DEF n
  <2>4. gc'.pc = "strip" /\ gc'.e = gc.e /\ gc' = [pc |-> gc'.pc, e |-> gc'.e, slot |-> gc'.slot]
    BY <1>1, <2>1, <2>3 DEF Held
  <2>5. /\ \A x, part : Gone(gc', x, part) <=> Gone(gc, x, part)
        /\ gc'.e \in Entry /\ kernel.task[gc'.e].state = "close"
    BY <1>1, <2>1, <2>4 DEF Gone, Held
  <2>6. QED
    BY <1>2, <2>2, <2>4, <2>5 DEF SpaceInv
<1>10. QED
  BY <1>3, <1>4, <1>5, <1>7, <1>8, <1>9

LEMMA GcFreeHeld ==
  ASSUME SpaceInv, ~ kernel.halted, GcFree
  PROVE  SpaceInv'
<1> DEFINE free == Free(kernel, RootOf(gc.e))
           e == gc.e
           x == kernel.task[e]
           r == [x EXCEPT !.state = "free"]
           j == Put(free, e, r)
           h == [pc |-> "scan", e |-> Kernel, slot |-> 0]
<1>1. Held(kernel, gc) /\ Shape(kernel)
  BY DEF SpaceInv, Held
<1>2. gc.pc = "strip" /\ gc' = h /\ kernel' = j
  BY DEF GcFree
<1>3. e \in Entry /\ x.state = "close"
  BY <1>1, <1>2 DEF Held
<1>4. Kept(kernel, free)
  BY <1>1, FreeKept
<1>5. TaskShape(x)
  BY <1>1, <1>3, TaskOf
<1> HIDE DEF free
<1>6. TaskShape(r) /\ r.in = x.in /\ r.out = x.out /\ r.state = "free"
  <2> HIDE DEF x
  <2>1. QED
    BY <1>5, StateSet
<1> HIDE DEF r
<1>7. /\ Shape(j) /\ j.stream = kernel.stream /\ (kernel.failed => j.failed) /\ j.task[e] = r
      /\ \A y \in Entry \union {Kernel} : y # e => j.task[y] = kernel.task[y]
  <2> HIDE DEF e
  <2>1. QED
    BY <1>3, <1>4, <1>6, PutIs DEF Kept
<1>8. h.pc = "scan" /\ h = [pc |-> h.pc, e |-> h.e, slot |-> h.slot]
  OBVIOUS
<1> HIDE DEF j, h
<1>9. \A y \in Entry \union {Kernel} :
        /\ j.task[y].in = kernel.task[y].in /\ j.task[y].out = kernel.task[y].out
        /\ y # e => j.task[y].state = kernel.task[y].state
  BY <1>6, <1>7
<1>10. j.task[e].state = "free"
  BY <1>6, <1>7
<1>11. \A y \in Entry, part \in {"in", "out"} :
         /\ ~ Gone(h, y, part)
         /\ Gone(gc, y, part) <=> y = e
  BY <1>2, <1>8 DEF Gone
<1>12. CASE j.failed
  <2>1. Held(j, h)
    BY <1>1, <1>7, <1>8, <1>9, <1>12, FailedSame
  <2>2. QED
    BY <1>2, <2>1 DEF SpaceInv
<1>13. CASE ~ j.failed
  <2>1. \A y \in Entry : j.task[y].state \in {"free", "active", "close"}
    BY <1>1, <1>7, <1>9, <1>10, <1>13 DEF Held
  <2>2. \A y \in Entry, part \in {"in", "out"} :
          (j.task[y].state \in {"active", "close"} /\ ~ Gone(h, y, part))
            <=> (kernel.task[y].state \in {"active", "close"} /\ ~ Gone(gc, y, part))
    BY <1>9, <1>10, <1>11
  <2>3. Held(j, h)
    BY <1>1, <1>7, <1>8, <1>9, <2>1, <2>2, HeldSame
  <2>4. QED
    BY <1>2, <2>3 DEF SpaceInv
<1>14. QED
  BY <1>12, <1>13

LEMMA SpaceStep == SpaceInv /\ [Next]_vars => SpaceInv'
<1> SUFFICES ASSUME SpaceInv, [Next]_vars PROVE SpaceInv'
  OBVIOUS
<1>1. CASE UNCHANGED vars
  BY <1>1 DEF vars, SpaceInv
<1>2. CASE Next
  <2>1. ~ kernel.halted
    BY <1>2 DEF Next, Exec, MayExec, Runs, Active, ExecOther, Call, Thread, MemoryAlloc,
                MemoryRelease, MemoryShare, Framebuffer, StackFault, Exit, Collect, GcFind,
                GcChildren, GcIn, GcOut, GcClear, GcMap, GcStrip, GcFree, GcAt
  <2>2. Held(kernel, gc)
    BY <2>1 DEF SpaceInv
  <2>3. ASSUME NEW t \in Entry \union {Kernel}, Exec(t) PROVE SpaceInv'
    <3>1. Loaded \union Another \subseteq Library
      BY DEF Loaded, Another
    <3>2. PICK flow \in Flows, l \in Library : kernel' = ExecResult(kernel, t, flow, <<l>>)
      BY <2>3, <3>1 DEF Exec
    <3>3. gc' = gc /\ kernel.task[t].state = "active"
      BY <2>3 DEF Exec, MayExec, Runs, Active
    <3>4. kernel'.halted \/ Held(kernel', gc)
      BY <2>2, <3>2, <3>3, ExecHeld
    <3>5. QED
      BY <3>3, <3>4 DEF SpaceInv
  <2>4. ASSUME NEW t \in Entry, Thread(t) PROVE SpaceInv'
    <3>1. kernel' = ThreadResult(kernel, t) /\ gc' = gc /\ kernel.task[t].state = "active"
      BY <2>4 DEF Thread, Runs, Active
    <3>2. kernel'.halted \/ Held(kernel', gc)
      BY <2>2, <3>1, ThreadHeld
    <3>3. QED
      BY <3>1, <3>2 DEF SpaceInv
  <2>5. ASSUME NEW t \in Entry,
               ExecOther(t) \/ MemoryAlloc(t) \/ MemoryRelease(t) \/ MemoryShare(t) \/ Framebuffer(t)
        PROVE  SpaceInv'
    BY <2>1, <2>5, TasksHeld
  <2>6. ASSUME NEW t \in Entry, StackFault(t) PROVE SpaceInv'
    BY <2>1, <2>6, StackFaultHeld
  <2>7. ASSUME NEW t \in Entry, Exit(t) PROVE SpaceInv'
    BY <2>1, <2>7, ExitHeld
  <2>8. CASE Collect
    BY <2>1, <2>8, CollectHeld, GcChildrenHeld, GcFreeHeld DEF Collect
  <2>9. QED
    BY <1>2, <2>3, <2>4, <2>5, <2>6, <2>7, <2>8 DEF Next
<1>3. QED
  BY <1>1, <1>2

(* Whatever tasks are started with which streams, however they and their   *)
(* children end while the collector is at work: as long as the kernel      *)
(* runs its data keep their shape, the collector is at an entry that is    *)
(* being closed, and, if no creation failed half way, a stream counts the  *)
(* ends that tasks have of it (stream.c:16-48, exec.c:146-167,             *)
(* service.c:341-343, gc.d.c:40-44).                                       *)
THEOREM SpaceInvariant == Spec => []SpaceInv
BY SpaceInit, SpaceStep, PTL DEF Spec

(* A stream counts its users: its space goes when the last of them has     *)
(* left and not before, and no stream without a user keeps its space       *)
(* (stream.c:39-48).                                                       *)
THEOREM UsersAreCounted == Spec => []StreamUsersExact
<1>1. SpaceInv => StreamUsersExact
  <2> SUFFICES ASSUME SpaceInv, Sound, NEW s \in Stream
               PROVE  LET ends == {e \in Entry \X {"in", "out"} :
                                    /\ Alive(e[1]) /\ ~ Released(e[1], e[2])
                                    /\ s = IF e[2] = "in" THEN kernel.task[e[1]].in
                                                          ELSE kernel.task[e[1]].out}
                          others == IF s = Null THEN 2 ELSE 0
                      IN /\ kernel.stream[s].count = Cardinality(ends) + others
                         /\ kernel.stream[s].base = 0 <=> kernel.stream[s].count = 0
    BY DEF StreamUsersExact
  <2> DEFINE ends == {e \in Entry \X {"in", "out"} :
                        /\ Alive(e[1]) /\ ~ Released(e[1], e[2])
                        /\ s = IF e[2] = "in" THEN kernel.task[e[1]].in
                                              ELSE kernel.task[e[1]].out}
             n == Cardinality(EndsOf(kernel.task, gc, s))
  <2>1. Counted(kernel.stream, kernel.task, gc, 0, 0)
    BY DEF SpaceInv, Sound, Held
  <2>2. /\ kernel.stream[s].count = n + Others(s) + Is(s, 0) + Is(s, 0)
        /\ kernel.stream[s].base = 0 <=> kernel.stream[s].count = 0
    BY <2>1 DEF Counted
  <2>3. ends = EndsOf(kernel.task, gc, s)
    <3>1. ASSUME NEW e \in Entry, NEW part \in {"in", "out"}
          PROVE  Released(e, part) <=> Gone(gc, e, part)
      <4>1. CASE part = "in"
        BY <4>1 DEF Released, Gone
      <4>2. CASE part = "out"
        BY <4>2 DEF Released, Gone
      <4>3. QED
        BY <4>1, <4>2
    <3>2. ASSUME NEW e \in Entry \X {"in", "out"}
          PROVE  (Alive(e[1]) /\ ~ Released(e[1], e[2]))
                   <=> (kernel.task[e[1]].state \in {"active", "close"} /\ ~ Gone(gc, e[1], e[2]))
      <4>1. e[1] \in Entry /\ e[2] \in {"in", "out"}
        OBVIOUS
      <4>2. QED
        BY <3>1, <4>1 DEF Alive
    <3>3. QED
      BY <3>2 DEF EndsOf
  <2>4. n \in Nat /\ Others(s) \in Nat /\ Is(s, 0) = 0
    BY EndsFinite DEF Is, Stream
  <2>5. n + Others(s) + Is(s, 0) + Is(s, 0) = n + Others(s)
    <3> HIDE DEF n
    <3>1. QED
      BY <2>4
  <2>6. Cardinality(ends) = n /\ Others(s) = IF s = Null THEN 2 ELSE 0
    BY <2>3 DEF Others
  <2> HIDE DEF ends, n
  <2>7. /\ kernel.stream[s].count = Cardinality(ends) + (IF s = Null THEN 2 ELSE 0)
        /\ kernel.stream[s].base = 0 <=> kernel.stream[s].count = 0
    BY <2>2, <2>5, <2>6
  <2>8. QED
    BY <2>7 DEF ends
<1>2. QED
  BY <1>1, SpaceInvariant, PTL
=============================================================================
