------------------------------- MODULE Paging -------------------------------
(***************************************************************************)
(* The paging tables of kernel/page.c as operators on the state of         *)
(* physical memory.  That state is a record m of                           *)
(*   m.free    the pages whose bit is set in the map of the kernel,        *)
(*   m.table   the contents of a page used as a paging table,              *)
(*   m.bits    the contents of a page used as a map of pages.              *)
(* The four levels of nested loops of the code are Levels levels, with     *)
(* Width entries to a table; addresses are page numbers.  The place of an  *)
(* entry is its table and its slot.                                        *)
(***************************************************************************)
EXTENDS Naturals, FiniteSets, SequencesExt

CONSTANTS
  Frame,        \* the physical pages: numbers above 0
  Width,        \* KERNEL_PAGE_SIZE_entry
  Levels,       \* 4
  Redundant     \* KERNEL_PAGE_ENTRY_stack, KERNEL_PAGE_ENTRY_stack_context

ASSUME PagingAssumption ==
  /\ Frame \subseteq Nat \ {0}
  /\ Width \in Nat \ {0}
  /\ Levels \in Nat \ {0}
  /\ Redundant \subseteq 0 .. Width - 1

Slot  == 0 .. Width - 1

(* An entry without the bit `present', which all that are made have. *)
Empty    == [frame |-> 0, flags |-> {}]
NoTable  == [s \in Slot |-> Empty]
Ent(f, flags) == [frame |-> f, flags |-> flags]

Index(address, level) == (address \div Width ^ (level - 1)) % Width

Run(first, n) == first .. first + n - 1

(* kernel_memory_acquire on a map of pages: 0 if there is no such run, and *)
(* if the run begins at page 0.                                            *)
FirstFit(map, n) ==
  LET Lowest(runs) == IF runs = {} THEN 0 ELSE CHOOSE p \in runs : \A q \in runs : p <= q
  IN Lowest({p \in map : Run(p, n) \subseteq map})

(* kernel_memory_alloc: Memory shows the steps it takes.                   *)
Take(m, n) ==
  LET Taken(p) == [ok |-> p # 0, frame |-> p,
                   m  |-> IF p = 0 THEN m ELSE [m EXCEPT !.free = @ \ Run(p, n)]]
  IN Taken(FirstFit(m.free, n))

(* kernel_memory_release: the pages are cleaned before. *)
Clear(m, pages) ==
  [m EXCEPT !.free  = @ \union pages,
            !.table = [f \in Frame |-> IF f \in pages THEN NoTable ELSE @[f]],
            !.bits  = [f \in Frame |-> IF f \in pages THEN {} ELSE @[f]]]

Release(m, first, n) == Clear(m, Run(first, n))

Store(m, t, slot, entry) == [m EXCEPT !.table[t][slot] = entry]

-----------------------------------------------------------------------------
(* The entry that describes an address, Empty if a table is missing.       *)
EntryAt(m, root, address) ==
  LET entry[level \in 1 .. Levels] ==
        IF level = Levels THEN m.table[root][Index(address, level)]
        ELSE LET above == entry[level + 1]
             IN IF above = Empty THEN Empty ELSE m.table[above.frame][Index(address, level)]
  IN entry[1]

(* kernel_page_address *)
Address(m, root, address) == EntryAt(m, root, address).frame

(* The places of each level below some of the topmost level, through       *)
(* entries that have the flags.                                            *)
Below(m, top, flags) ==
  LET At(p) == m.table[p[1]][p[2]]
      places[level \in 1 .. Levels] ==
        IF level = Levels THEN top
        ELSE {At(p).frame : p \in {q \in places[level + 1] : /\ At(q) # Empty
                                                            /\ flags \subseteq At(q).flags}}
             \X Slot
  IN places

(* The table of the last level for an address; the missing ones on the way *)
(* are made.                                                               *)
Descend(m, root, address, flags) ==
  LET Down(d, level) ==
        LET slot == Index(address, level)
            e    == d.m.table[d.table][slot]
            Make(new) ==
              IF new.ok THEN [ok |-> TRUE, table |-> new.frame,
                              m  |-> Store(new.m, d.table, slot, Ent(new.frame, flags))]
              ELSE [d EXCEPT !.ok = FALSE]
        IN CASE ~ d.ok -> d
             [] d.ok /\ e # Empty -> [d EXCEPT !.table = e.frame]
             [] OTHER -> Make(Take(d.m, 1))
  IN FoldLeft(Down, [ok |-> TRUE, m |-> m, table |-> root],
              [n \in 1 .. Levels - 1 |-> Levels + 1 - n])

(* Describes page after page, until a page cannot be had: what has been    *)
(* described stays so.                                                     *)
Describe(m, root, address, pages, flags, Leaf(_, _, _, _)) ==
  LET At(d, n) == IF d.ok THEN Leaf(d.m, d.table, Index(address + n, 1), n)
                          ELSE [ok |-> FALSE, m |-> d.m]
      Step(r, n) == IF r.ok THEN At(Descend(r.m, root, address + n, flags), n) ELSE r
  IN FoldLeft(Step, [ok |-> TRUE, m |-> m], [n \in 1 .. pages |-> n - 1])

PageAlloc(m, root, address, pages, flags) ==
  LET Page(new, t, slot) ==
        [ok |-> new.ok,
         m  |-> IF new.ok THEN Store(new.m, t, slot, Ent(new.frame, flags)) ELSE new.m]
      Leaf(x, t, slot, n) ==
        IF x.table[t][slot] = Empty THEN Page(Take(x, 1), t, slot) ELSE [ok |-> TRUE, m |-> x]
  IN Describe(m, root, address, pages, flags, Leaf)

(* The pages at source of the task whose tables are own, in the tables of  *)
(* another.                                                                *)
PageClang(m, own, source, root, target, pages, flags) ==
  LET Leaf(x, t, slot, n) ==
        [ok |-> TRUE, m |-> Store(x, t, slot, Ent(Address(x, own, source + n), flags))]
  IN Describe(m, root, target, pages, flags, Leaf)

(* Tables are always writable. *)
PageMap(m, root, first, target, pages, flags) ==
  LET Leaf(x, t, slot, n) ==
        [ok |-> TRUE, m |-> Store(x, t, slot, Ent(first + n, flags))]
  IN Describe(m, root, target, pages, flags \union {"write"}, Leaf)

(* kernel_page_flags: all tables are there. *)
PageFlags(m, root, address, pages, flags) ==
  LET Reflag(x, n) ==
        LET d == Descend(x, root, address + n, {}) IN
        [x EXCEPT !.table[d.table][Index(address + n, 1)].flags = flags]
  IN FoldLeft(Reflag, m, [n \in 1 .. pages |-> n - 1])

(* kernel_page_merge: an entry is copied where the target has none, tables *)
(* below it and all; where both have one their tables are merged.          *)
PageMerge(m, from, to) ==
  LET Source(p) == m.table[p[1]][p[3]]
      Target(p) == m.table[p[2]][p[3]]
      places[level \in 1 .. Levels] ==
        IF level = Levels THEN {<<from, to, s>> : s \in Slot \ Redundant}
        ELSE {<<Source(p).frame, Target(p).frame, s>> :
                p \in {q \in places[level + 1] : Source(q) # Empty /\ Target(q) # Empty},
                s \in Slot}
      missing == {p \in UNION {places[level] : level \in 1 .. Levels} :
                    Source(p) # Empty /\ Target(p) = Empty}
  IN FoldSet(LAMBDA p, x : Store(x, p[2], p[3], Source(p)), m, missing)

(* A page is the process's own if it was made for it and is not shared, a  *)
(* table if it was made for it.                                            *)
Own(m, places) ==
  UNION {{p \in places[level] :
            LET flags == m.table[p[1]][p[2]].flags
            IN "process" \in flags /\ (level = 1 => "shared" \notin flags)} : level \in 1 .. Levels}

(* kernel_page_deconstruction, for the entry `slot' of the topmost table:  *)
(* what is the process's own goes, and the entry that led to it.           *)
Strip(m, root, slot) ==
  LET own   == Own(m, Below(m, {<<root, slot>>}, {}))
      pages == {m.table[p[1]][p[2]].frame : p \in own}
  IN FoldSet(LAMBDA p, x : Store(x, p[1], p[2], Empty), Clear(m, pages), own)

(* Mutant: shared or not, the page is removed. *)
PageRemoveAny(m, root, address) ==
  [frame |-> Address(m, root, address),
   m     |-> Store(m, Descend(m, root, address, {}).table, Index(address, 1), Empty)]

(* kernel_page_remove: a shared page stays mapped, and 0 is returned. *)
PageRemove(m, root, address) ==
  LET e == EntryAt(m, root, address)
      d == Descend(m, root, address, {})
  IN IF "shared" \in e.flags THEN [frame |-> 0, m |-> m]
     ELSE [frame |-> e.frame, m |-> Store(m, d.table, Index(address, 1), Empty)]

-----------------------------------------------------------------------------
(* The tables a tree is made of, whoever they were made for.               *)
Tables(m, root) ==
  LET places == Below(m, {root} \X Slot, {})
  IN {root} \union
       UNION {{m.table[p[1]][p[2]].frame : p \in {q \in places[level] : m.table[q[1]][q[2]] # Empty}} :
              level \in 2 .. Levels}

(* The entries through which a process holds pages and tables: what        *)
(* the place is, which one, and what is there.                             *)
Holdings(m, root, slots) ==
  {<<"entry", p, m.table[p[1]][p[2]].frame>> :
     p \in Own(m, Below(m, {root} \X slots, {"process"}))}
=============================================================================
