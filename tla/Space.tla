------------------------------- MODULE Space --------------------------------
(***************************************************************************)
(* The address spaces of programs and threads, and all that is made and    *)
(* released with them: kernel/exec.c, kernel/library.c, the memory calls   *)
(* and thread of kernel/service.c, the table of kernel/stream.c, the stack *)
(* of a page fault (kernel/idt.c), and the releasing half of the collector *)
(* (daemon/gc.d.c), over the tables of Paging.                             *)
(*                                                                         *)
(* There is one processor.  A system call masks interrupts and is one step;*)
(* the collector does not, and programs run between its steps.             *)
(***************************************************************************)
EXTENDS Paging

CONSTANTS
  TaskLimit,    \* the entries of the queue left to programs
  TaskMax,      \* bound: how many tasks are ever made
  CallMax,      \* bound: how many libraries and calls change the spaces
  StreamLimit,  \* KERNEL_STREAM_limit
  Library,      \* the files of the libraries
  ProgramAt,    \* KERNEL_EXEC_BASE_address
  PageLimit,    \* kernel -> page_limit, as the limit of a process's map
  StackTop,     \* KERNEL_EXEC_STACK_pointer
  LibraryAt,    \* KERNEL_LIBRARY_BASE_address
  ContextAt,    \* KERNEL_CONTEXT_STACK_address
  Ram,          \* the pages of memory the kernel manages
  Video,        \* the page of the frame buffer, which is no RAM
  Sizes,        \* how many pages programs ask for
  Flows,        \* how the output of a program is connected
  LiveOnly      \* nothing is shared with a task that has ended

ASSUME SpaceAssumption ==
  /\ Ram \subseteq Frame /\ Video \in Frame \ Ram
  /\ Sizes \subseteq Nat \ {0}
  /\ ProgramAt < PageLimit /\ ProgramAt \in Nat \ {0}
  /\ TaskLimit \in Nat /\ StreamLimit \in Nat \ {0}

(* Sizes in pages: of files, arguments, programs, maps and streams.        *)
One == 1

VARIABLES
  kernel,       \* the kernel's data and the contents of memory
  gc            \* where the collector is, and the entry it releases

vars == <<kernel, gc>>

Entry    == 1 .. TaskLimit
Kernel   == 0                   \* the entry of the kernel itself
Root     == CHOOSE f \in Ram : \A g \in Ram : f <= g
Null     == 1                   \* the stream of the kernel
Stream   == 1 .. StreamLimit

User    == {"write", "user", "process"}
Shared  == User \union {"shared"}
Context == {"write", "process"}

(* An entry of the queue keeps the fields of its last task. *)
NoTask == [state |-> "free", pid |-> 0, parent |-> 0, thread |-> FALSE,
           cr3 |-> 0, map |-> 0, in |-> 0, out |-> 0, stack |-> 0]

Start ==
       [memory |-> [free  |-> Ram \ {Root},
                    table |-> [f \in Frame |-> NoTable],
                    bits  |-> [f \in Frame |-> {}]],
        task  |-> [e \in Entry \union {Kernel} |->
                     IF e = Kernel THEN [NoTask EXCEPT !.state = "active",
                                           !.cr3 = Root, !.in = Null, !.out = Null]
                                   ELSE NoTask],
        task_id |-> 0,
        stream  |-> [s \in Stream |-> IF s = Null
                                      THEN [base |-> Video, count |-> 2]
                                      ELSE [base |-> 0, count |-> 0]],
        library     |-> [l \in Library |-> 0],
        library_map |-> LibraryAt .. LibraryAt + Width - 1,
        framebuffer_pid |-> 0,
        uses    |-> [f \in Frame |-> {}], \* the spaces (address, pages) that
                                          \* the programs of a map know of
        calls   |-> 0,
        kept    |-> {},         \* file images nobody releases (history)
        failed  |-> FALSE,      \* a creation failed half way (history)
        halted  |-> FALSE]

Init ==
  /\ kernel = Start
  /\ gc = [pc |-> "scan", e |-> Kernel, slot |-> 0]

(* A null pointer is dereferenced, or the kernel gives up: it stops, with  *)
(* its data as they happen to be, of which nothing more is said.           *)
Halt(k) == [Start EXCEPT !.halted = TRUE]
Keep(k, frame) == [k EXCEPT !.kept = @ \union {frame}]
Fail(k) == [k EXCEPT !.failed = TRUE]

(* Paging changes the memory only; an entry of the queue gets new fields. *)
With(k, m)      == [k EXCEPT !.memory = m]
Put(k, e, task) == [k EXCEPT !.task[e] = task]
Free(k, frame) == With(k, Release(k.memory, frame, One))

-----------------------------------------------------------------------------
(* kernel_stream: the first entry without a space.  With no page left it   *)
(* is handed out without one; with no entry left there is none.            *)
NewStream(k) ==
  LET idle == {s \in Stream : k.stream[s].base = 0}
      Opened(id, page) ==
        [id |-> id,
         k  |-> [With(k, page.m) EXCEPT !.stream[id] = [base |-> page.frame, count |-> 1],
                                        !.failed = @ \/ ~ page.ok]]
  IN IF idle = {} THEN [id |-> 0, k |-> k]
     ELSE Opened(CHOOSE s \in idle : \A x \in idle : s <= x, Take(k.memory, One))

Share(k, id) == [k EXCEPT !.stream[id].count = @ + 1]

(* Mutant: the space of a stream goes with its first user. *)
LeaveAtOnce(k, id) ==
  IF id = 0 THEN Halt(k)
  ELSE [Free(k, k.stream[id].base) EXCEPT
          !.stream[id] = [base |-> 0, count |-> @.count - 1]]

(* kernel_stream_release *)
Leave(k, id) ==
  CASE id = 0 -> Halt(k)
    [] id # 0 /\ k.stream[id].count # 1 -> [k EXCEPT !.stream[id].count = @ - 1]
    [] OTHER ->
         [Free(k, k.stream[id].base) EXCEPT !.stream[id] = [base |-> 0, count |-> 0]]

-----------------------------------------------------------------------------
(* kernel_library_load: the image of the file is never released.  The      *)
(* segments are copied to the addresses of the library, in the space of    *)
(* the task that asked for it.                                             *)
Load(k, t, l) ==
  LET Shown(p, file, mapped) ==
        IF mapped.ok /\ Address(mapped.m, k.task[t].cr3, p) # 0
        THEN Keep([With(k, PageFlags(mapped.m, Root, p, One, {"user", "library"})) EXCEPT
                     !.library[l] = p, !.library_map = @ \ {p}], file.frame)
        ELSE Halt(k)
      Image(p, file) ==
        IF file.ok /\ p # 0
        THEN Shown(p, file, PageAlloc(file.m, Root, p, One, {"write", "user", "library"}))
        ELSE Halt(k)
  IN IF k.halted \/ k.library[l] # 0 THEN k
     ELSE Image(FirstFit(k.library_map, One), Take(k.memory, One))

(* kernel_library_import: one after the other. *)
Import(k, t, libraries) ==
  LET loaded[n \in 0 .. Len(libraries)] ==
        IF n = 0 THEN k ELSE Load(loaded[n - 1], t, libraries[n])
  IN loaded[Len(libraries)]

(* kernel_task_add *)
FreeEntry(k) ==
  LET idle == {e \in Entry : k.task[e].state = "free"} IN
  IF idle = {} THEN 0 ELSE CHOOSE e \in idle : \A x \in idle : e <= x

Secure(k, e, t) ==
  Put([k EXCEPT !.task_id = @ + 1], e,
      [k.task[e] EXCEPT !.state = "secured", !.pid = k.task_id + 1, !.parent = k.task[t].pid])

(* What exec and thread begin with: an entry, its PML4 array and its       *)
(* context stack.  `at' tells how far it came.                             *)
Frameset(k, t) ==
  LET Made(at, e, root, made) == [at |-> at, e |-> e, root |-> root, k |-> made]
      Rooted(s, e, root) == Put(s, e, [s.task[e] EXCEPT !.cr3 = root])
      Stacked(e, root, s, context) ==
        IF context.ok THEN Made("built", e, root, With(s, context.m))
        ELSE Made("secured", e, root, Fail(With(s, context.m)))
      Secured(e, root) ==
        CASE e = 0 -> Made("none", e, root.frame, k)
          [] e # 0 /\ ~ root.ok -> Made("none", e, root.frame, Halt(k))
          [] OTHER -> Stacked(e, root.frame,
                              Rooted(Secure(With(k, root.m), e, t), e, root.frame),
                              PageAlloc(root.m, root.frame, ContextAt, One, Context))
  IN Secured(FreeEntry(k), Take(k.memory, 1))

(* Pages for the new space, behind a kernel_page_map, whose result nobody  *)
(* looks at.                                                               *)
Mapped(k, root, target) ==
  LET Used(mapped, frame) == IF mapped.ok THEN With(k, mapped.m)
                             ELSE Fail(Keep(With(k, mapped.m), frame))
      Had(run) == IF run.ok
                  THEN Used(PageMap(run.m, root, run.frame, target, One, User), run.frame)
                  ELSE Halt(k)
  IN Had(Take(k.memory, One))

(* The streams of a program, by the flow its parent asked for. *)
Streams(k, e, t, flow) ==
  LET parent == k.task[t]
      Joined(j, in, out) == Put(j, e, [j.task[e] EXCEPT !.in = in, !.out = out])
      Piped(in, own) == Joined(own.k, in.id, own.id)
      Out(in, out) == IF out = 0 THEN Piped(in, NewStream(in.k))
                      ELSE Joined(Share(in.k, out), in.id, out)
      In(in) == Out(in, CASE flow = "out_to_parent_in" -> parent.in
                          [] flow = "out_to_in"        -> in.id
                          [] OTHER                     -> parent.out)
  IN In(NewStream(k))

Ready(k, e) == Put(k, e, [k.task[e] EXCEPT !.state = "active"])

(* The stack, the program, and its map and streams, as far as it comes.    *)
Stacked(k, made) ==
  LET Grown(j) == Put(j, made.e, [j.task[made.e] EXCEPT !.stack = @ + One, !.thread = FALSE])
  IN Grown(Mapped(k, made.root, StackTop - One))

Placed(k, made) ==
  IF k.halted THEN k ELSE Mapped(k, made.root, ProgramAt)

(* A map of its own, with the pages above the program available. *)
ProcessMap(k, e, map) ==
  Put(With(k, [k.memory EXCEPT !.bits[map] = (ProgramAt + One) .. PageLimit - 1]), e,
      [k.task[e] EXCEPT !.map = map])

Owned(k, made, t, flow) ==
  LET Had(map) ==
        IF map.ok THEN Streams(ProcessMap(With(k, map.m), made.e, map.frame), made.e, t, flow)
        ELSE Halt(k)
  IN IF k.halted THEN k ELSE Had(Take(k.memory, One))

(* kernel_exec, after the file was found. *)
ExecResult(k, t, flow, libraries) ==
  LET Done(j, made, image) ==
        IF j.halted THEN Halt(k)
        ELSE Ready(Free(With(j, PageMerge(j.memory, Root, made.root)), image), made.e)
      Built(made, image) ==
        CASE made.k.halted -> Halt(k)
          [] ~ made.k.halted /\ made.at # "built" -> Keep(made.k, image)
          [] OTHER -> Done(Owned(Placed(Stacked(made.k, made), made), made, t, flow),
                           made, image)
      Linked(j, image) == IF j.halted THEN Halt(k) ELSE Built(Frameset(j, t), image)
      Had(file) == IF file.ok
                   THEN Linked(Import(With(k, file.m), t, libraries), file.frame) ELSE k
  IN Had(Take(k.memory, One))

(* Mutant: a thread gets a copy of the table of the libraries. *)
SpaceOfThreadCopied(k, parent, root) ==
  LET Copied(m, s) ==
        LET e == m.table[parent][s]  new == Take(m, 1) IN
        IF "library" \in e.flags /\ new.ok
        THEN Store([new.m EXCEPT !.table[new.frame] = m.table[e.frame]], root, s,
                   Ent(new.frame, e.flags))
        ELSE m
  IN With(k, PageMerge(FoldSet(LAMBDA s, m : Copied(m, s), k.memory, Slot \ Redundant),
                       parent, root))

(* A thread shares the tables of its parent. *)
SpaceOfThread(k, parent, root) == With(k, PageMerge(k.memory, parent, root))

(* kernel_service_thread *)
ThreadResult(k, t) ==
  LET own   == k.task[t]
      Known(j, e) == Put(Share(Share(j, own.in), own.out), e,
                         [j.task[e] EXCEPT !.stack = @ + One, !.thread = TRUE,
                                           !.map = own.map, !.in = own.in, !.out = own.out])
      Stood(made, stack) ==
        IF stack.ok
        THEN Ready(SpaceOfThread(Known(With(made.k, stack.m), made.e), own.cr3, made.root),
                   made.e)
        ELSE Fail(With(made.k, stack.m))
      Built(made) ==
        IF made.at = "built"
        THEN Stood(made, PageAlloc(made.k.memory, made.root, StackTop - One, One, User))
        ELSE made.k
  IN Built(Frameset(k, t))

-----------------------------------------------------------------------------
Active(t) == ~ kernel.halted /\ kernel.task[t].state = "active"
MapOf(t)  == kernel.task[t].map
RootOf(t) == kernel.task[t].cr3

(* The stack and the program of a task that runs are mapped: where that    *)
(* failed no page was left for its map, and the kernel has stopped.        *)
Runs(t) == t # Kernel /\ Active(t)

(* A call that changes the space of a task, and a library that is loaded,  *)
(* which changes all of them.                                              *)
Loaded    == {l \in Library : kernel.library[l] # 0}
Bounded   == Cardinality(Loaded) + kernel.calls < CallMax
Call(t)   == Runs(t) /\ Bounded

(* Of the libraries that are not loaded one stands for all. *)
Another == IF Bounded /\ Loaded # Library THEN {CHOOSE l \in Library : l \notin Loaded} ELSE {}

Called(k) == [k EXCEPT !.calls = @ + 1]

(* The kernel starts the first program, and programs start others.  All    *)
(* programs are linked to libraries, the later ones perhaps to a library   *)
(* that is loaded for them while the others run, also when there is then   *)
(* no entry left for the program.                                          *)
MayExec(t) == IF t = Kernel THEN kernel.task_id = 0 /\ Active(t) ELSE Runs(t)

Exec(t) ==
  \E flow \in Flows, l \in Loaded \union Another :
    /\ MayExec(t)
    /\ kernel.task_id < TaskMax \/ (FreeEntry(kernel) = 0 /\ l \notin Loaded)
    /\ kernel' = ExecResult(kernel, t, flow, <<l>>)
    /\ UNCHANGED gc

(* The file is no program.  Its image is released if it is an ELF file.    *)
ExecOther(t) ==
  LET file == Take(kernel.memory, One) IN
    /\ Call(t) /\ file.ok
    /\ kernel' = Keep(Called(With(kernel, file.m)), file.frame)
    /\ UNCHANGED gc

Thread(t) ==
  /\ Runs(t)
  /\ kernel.task_id < TaskMax
  /\ kernel' = ThreadResult(kernel, t)
  /\ UNCHANGED gc

(* kernel_service_memory_alloc, for itself or for the content of a file    *)
(* (kernel_service_storage_read), which is the same up to what the pages   *)
(* are filled with, or the list of tasks (kernel_service_task).            *)
MemoryAlloc(t) ==
  /\ Call(t)
  /\ \E n \in Sizes :
       LET map   == MapOf(t)
           p     == FirstFit(kernel.memory.bits[map], n)
           alloc == PageAlloc([kernel.memory EXCEPT !.bits[map] = @ \ Run(p, n)],
                              RootOf(t), p, n, User)
       IN /\ p # 0
          /\ kernel' = IF alloc.ok
                       THEN [Called(With(kernel, alloc.m)) EXCEPT !.uses[map] = @ \union {<<p, n>>}]
                       ELSE Halt(kernel)
  /\ UNCHANGED gc

(* kernel_service_memory_release: page by page. *)
MemoryRelease(t) ==
  /\ Runs(t)
  /\ \E use \in kernel.uses[MapOf(t)] :
       LET map == MapOf(t)
           Back(removed) == IF removed.frame = 0 THEN removed.m
                            ELSE Release(removed.m, removed.frame, 1)
           Drop(m, n) == [Back(PageRemove(m, RootOf(t), use[1] + n)) EXCEPT
                            !.bits[map] = @ \union {use[1] + n}]
       IN /\ kernel' = [kernel EXCEPT
                          !.memory = FoldLeft(Drop, @, [n \in 1 .. use[2] |-> n - 1]),
                          !.uses[map] = @ \ {use}]
          /\ UNCHANGED gc

(* kernel_service_memory_share: an entry of the queue keeps its identifier *)
(* when its task is gone.  With no space in the target the pages go to     *)
(* address 0, and 0 is returned.                                           *)
MemoryShare(t) ==
  /\ Call(t)
  /\ \E use \in kernel.uses[MapOf(t)], e \in Entry :
       LET map    == kernel.task[e].map
           p      == FirstFit(kernel.memory.bits[map], use[2])
           marked == [kernel.memory EXCEPT !.bits[map] = IF p = 0 THEN @ ELSE @ \ Run(p, use[2])]
           shared == PageClang(marked, RootOf(t), use[1], kernel.task[e].cr3, p, use[2], Shared)
       IN /\ e # t /\ map # MapOf(t) /\ map # 0
          /\ LiveOnly => kernel.task[e].state = "active"
          /\ kernel' = [Called(With(kernel, shared.m)) EXCEPT
                          !.uses[map] = IF p = 0 THEN @ ELSE @ \union {<<p, use[2]>>}]
          /\ UNCHANGED gc

(* The identifier is that of the task of an entry, or of the one that      *)
(* started it, and so on.                                                  *)
Ancestor(pid, e) ==
  LET line[n \in 0 .. TaskLimit] ==
        IF n = 0 THEN {e}
        ELSE {p \in Entry : \E q \in line[n - 1] : /\ kernel.task[q].parent # 0
                                                   /\ kernel.task[p].pid = kernel.task[q].parent}
  IN \E n \in 0 .. TaskLimit : \E p \in line[n] : kernel.task[p].pid = pid

(* kernel_memory_share: pages of no process, at the first addresses that   *)
(* are available.  The search does not end at the limit of the map.        *)
KernelShare(k, t, frame) ==
  LET map == k.task[t].map
      p   == FirstFit(k.memory.bits[map], One)
  IN IF p = 0 THEN Halt(k)
     ELSE With(k, PageMap([k.memory EXCEPT !.bits[map] = @ \ {p}],
                          k.task[t].cr3, frame, p, One, User).m)

(* kernel_service_framebuffer: the first to ask is the manager.  That is   *)
(* the window manager, a process that does not end, nor do those it was    *)
(* started by: its end would release the frame buffer.                     *)
Framebuffer(t) ==
  /\ Call(t)
  /\ ~ kernel.task[t].thread
  /\ \A e \in Entry : Ancestor(kernel.task[e].pid, t) =>
                          kernel.task[e].state # "close"
  /\ kernel.framebuffer_pid = 0
  /\ kernel' = KernelShare([Called(kernel) EXCEPT
                              !.framebuffer_pid = kernel.task[t].pid], t, Video)
  /\ UNCHANGED gc

(* kernel_idt_exception: the page below the mapped part of the stack is    *)
(* touched, anywhere or at its very first byte.                            *)
Depth(k, t) ==
  CHOOSE n \in 0 .. Width :
    /\ Address(k.memory, k.task[t].cr3, StackTop - n - 1) = 0
    /\ \A i \in 1 .. n : Address(k.memory, k.task[t].cr3, StackTop - i) # 0

StackFault(t) ==
  /\ Call(t)
  /\ \E first \in BOOLEAN :
       LET rounded == StackTop - Depth(kernel, t) - (IF first THEN 1 ELSE 0)
           grown   == Put(Called(kernel), t, [kernel.task[t] EXCEPT !.stack = @ + 1])
       IN /\ kernel' = IF rounded # StackTop - kernel.task[t].stack THEN Halt(kernel)
                       ELSE With(grown, PageAlloc(kernel.memory, RootOf(t),
                                                  StackTop - grown.task[t].stack, 1, User).m)
          /\ UNCHANGED gc

(* kernel_service_exit *)
Exit(t) ==
  /\ Runs(t)
  /\ \A e \in Entry : kernel.task[e].pid = kernel.framebuffer_pid
                         /\ kernel.framebuffer_pid # 0
                       => ~ Ancestor(kernel.task[t].pid, e)
  /\ kernel' = Put(kernel, t, [kernel.task[t] EXCEPT !.state = "close"])
  /\ UNCHANGED gc

-----------------------------------------------------------------------------
(* entry() of the collector. *)
GcAt(from, to) == /\ ~ kernel.halted
                  /\ gc.pc = from
                  /\ gc' = [gc EXCEPT !.pc = to]

GcFind ==
  \E e \in Entry :
    /\ ~ kernel.halted
    /\ gc.pc = "scan"
    /\ kernel.task[e].state = "close"
    /\ gc' = [pc |-> "children", e |-> e, slot |-> 0]
    /\ UNCHANGED kernel

(* child(), which Reaper has step by step. *)
GcChildren ==
  /\ GcAt("children", "in")
  /\ kernel' = [kernel EXCEPT !.task = [e \in DOMAIN @ |->
       IF e \notin {gc.e, Kernel} /\ @[e].state # "free"
          /\ Ancestor(kernel.task[gc.e].pid, e)
       THEN [@[e] EXCEPT !.state = "close"] ELSE @[e]]]

GcIn  == /\ GcAt("in", "out")
         /\ kernel' = Leave(kernel, kernel.task[gc.e].in)

GcOut == /\ GcAt("out", "map")
         /\ kernel' = Leave(kernel, kernel.task[gc.e].out)

(* Mutant: the tables of a thread are left as they are. *)
GcForget ==
  /\ kernel.task[gc.e].thread
  /\ GcAt("map", "strip")
  /\ UNCHANGED kernel

(* A thread has the tables of its parent, which are not its own. *)
GcClear ==
  /\ kernel.task[gc.e].thread
  /\ GcAt("map", "strip")
  /\ kernel' = With(kernel, [kernel.memory EXCEPT !.table[RootOf(gc.e)] =
                               [s \in Slot |-> IF s \in Redundant THEN @[s] ELSE Empty]])

GcMap ==
  /\ ~ kernel.task[gc.e].thread
  /\ GcAt("map", "strip")
  /\ kernel' = IF MapOf(gc.e) = 0 THEN Halt(kernel)
               ELSE [Free(kernel, MapOf(gc.e)) EXCEPT !.uses[MapOf(gc.e)] = {}]

GcStrip ==
  /\ ~ kernel.halted
  /\ gc.pc = "strip"
  /\ gc.slot < Width
  /\ gc' = [gc EXCEPT !.slot = @ + 1]
  /\ kernel' = With(kernel, Strip(kernel.memory, RootOf(gc.e), gc.slot))

GcFree ==
  /\ ~ kernel.halted
  /\ gc.pc = "strip"
  /\ gc.slot = Width
  /\ gc' = [pc |-> "scan", e |-> Kernel, slot |-> 0]
  /\ kernel' = Put(Free(kernel, RootOf(gc.e)), gc.e, [kernel.task[gc.e] EXCEPT !.state = "free"])

Collect == \/ GcFind \/ GcChildren \/ GcIn \/ GcOut \/ GcClear \/ GcMap
           \/ GcStrip \/ GcFree

Next ==
  \/ \E t \in Entry \union {Kernel} : Exec(t)
  \/ \E t \in Entry :
       \/ ExecOther(t) \/ Thread(t) \/ MemoryAlloc(t) \/ MemoryRelease(t)
       \/ MemoryShare(t) \/ Framebuffer(t) \/ StackFault(t)
       \/ Exit(t)
  \/ Collect

Spec == Init /\ [][Next]_vars

-----------------------------------------------------------------------------
(***************************************************************************)
(* Properties.  They are stated for as long as no creation of a task has   *)
(* failed half way: what becomes of such a task is the matter of           *)
(* StreamHasSpace.                                                         *)
(***************************************************************************)
Sound == ~ kernel.halted /\ ~ kernel.failed

(* What is released of the task the collector is at. *)
Released(t, part) ==
  gc.e = t /\ CASE part = "in"  -> gc.pc \in {"out", "map", "strip"}
                [] part = "out" -> gc.pc \in {"map", "strip"}
                [] part = "map" -> gc.pc = "strip"

Alive(t) == kernel.task[t].state \in {"active", "close"}

(* The owners of pages, with what they own.  A page that is shared counts  *)
(* for the space it was made for.  The images of files that nothing points *)
(* to any more (exec.c:25, library.c) are lost: they are the last.         *)
PlacesOf(t) ==
  LET x == kernel.task[t]
  IN {<<"cr3", t, x.cr3>>}
     \union Holdings(kernel.memory, x.cr3, IF x.thread THEN Redundant ELSE Slot)
     \union (IF x.thread \/ Released(t, "map") THEN {} ELSE {<<"map", t, x.map>>})

Places ==
  UNION {PlacesOf(t) : t \in {e \in Entry : Alive(e)}}
  \union {<<"kernel", f, f>> : f \in Tables(kernel.memory, Root)}
  \union {<<"library", l, Address(kernel.memory, Root, kernel.library[l])>> :
           l \in {x \in Library : kernel.library[x] # 0}}
  \union {<<"stream", s, kernel.stream[s].base>> :
           s \in {x \in Stream \ {Null} : kernel.stream[x].base # 0}}
  \union {<<"file", f, f>> : f \in kernel.kept}

(* Every page of memory is available or has one owner: the tables of a     *)
(* task, a page in them that was made for it, its map, a stream, a library.*)
(* Whatever programs and threads start, share, release and leave behind    *)
(* when they end, no page but those of file images gets lost, none is      *)
(* owned twice, so that it would be released twice, and none is available  *)
(* while its owner has it (page.c:223-286, gc.d.c:46-68, service.c:        *)
(* 164-185).  A space it was shared with may have it longer: SharedStands. *)
EveryPageHasOnePlace ==
  Sound =>
    LET used == {p[3] : p \in Places} IN
    /\ used \intersect kernel.memory.free = {}
    /\ Ram \subseteq used \union kernel.memory.free
    /\ kernel.memory.free \subseteq Ram
    /\ Cardinality(used) = Cardinality(Places)

(* The space of a task that runs stands: its tables, those it shares with  *)
(* the task it is a thread of, and its map have not been released, however *)
(* the tasks around it end (gc.d.c:54-66).                                 *)
LiveSpaceStands ==
  Sound => \A t \in Entry :
    kernel.task[t].state = "active" =>
      /\ Tables(kernel.memory, RootOf(t)) \intersect kernel.memory.free = {}
      /\ MapOf(t) \notin kernel.memory.free

(* The count of users of a stream is the number of ends tasks have of it,  *)
(* so that its space goes with the last and not before; those of the       *)
(* kernel and the collector come on top (stream.c:39-48, exec.c:146-167,   *)
(* service.c:341-343).                                                     *)
StreamUsersExact ==
  Sound => \A s \in Stream :
    LET ends == {e \in Entry \X {"in", "out"} :
                  /\ Alive(e[1]) /\ ~ Released(e[1], e[2])
                  /\ s = IF e[2] = "in" THEN kernel.task[e[1]].in
                                        ELSE kernel.task[e[1]].out}
        others == IF s = Null THEN 2 ELSE 0
    IN /\ kernel.stream[s].count = Cardinality(ends) + others
       /\ kernel.stream[s].base = 0 <=> kernel.stream[s].count = 0

(* Every task that runs sees every library, those loaded after it started  *)
(* too, and cannot write to it (library.c:218: "share access to library    *)
(* content space for processes (read-only)").                              *)
LibrariesAreShown ==
  Sound => \A t \in Entry, l \in Library :
    LET p == kernel.library[l]
        e == EntryAt(kernel.memory, RootOf(t), p)
    IN kernel.task[t].state = "active" /\ p # 0 =>
         /\ e = EntryAt(kernel.memory, Root, p)
         /\ e # Empty
         /\ "write" \notin e.flags

(* A page that a task has been given a share of ("connect memory space of  *)
(* parent process with child", service.c:202) is not available.  It is, as *)
(* soon as its owner releases it.                                          *)
SharedStands ==
  Sound => \A t \in Entry :
    kernel.task[t].state = "active" =>
      \A p \in Below(kernel.memory, {RootOf(t)} \X Slot, {})[1] :
        LET e == kernel.memory.table[p[1]][p[2]]
        IN "shared" \in e.flags => e.frame \notin kernel.memory.free

(* A stream is released when "only one process used the stream"            *)
(* (stream.c:40): a task that runs has the space of its streams.           *)
StreamHasSpace ==
  ~ kernel.halted => \A t \in Entry :
    kernel.task[t].state = "active" =>
      \A s \in {kernel.task[t].in, kernel.task[t].out} :
        kernel.stream[s].count > 0

(* The field is the "process stack size" (exec.c:90): the number of pages  *)
(* that are mapped below the top of the stack.                             *)
StackSizeIsExact ==
  ~ kernel.halted => \A t \in Entry :
    kernel.task[t].state = "active" => kernel.task[t].stack = Depth(kernel, t)
=============================================================================
