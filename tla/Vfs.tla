--------------------------------- MODULE Vfs ---------------------------------
(***************************************************************************)
(* The system disk: the package that the host tool makes of a directory    *)
(* (vfs.c), its registration when the kernel starts (kernel/init/storage.c,*)
(* kernel/storage.c, library/vfs.c), and the files that programs read from *)
(* it (kernel_service_storage_read), the directory itself among them       *)
(* (software/ls.c).                                                        *)
(*                                                                         *)
(* A package is a sequence of units: some for each entry of its table, one *)
(* for each byte of a file.  The table itself is kept aside, as a sequence.*)
(***************************************************************************)
EXTENDS LibString, FiniteSets

CONSTANTS
  Page,         \* STATIC_PAGE_SIZE_byte, in units
  EntrySize,    \* sizeof( struct LIB_VFS_STRUCTURE )
  WordSize,     \* LIB_VFS_length
  NameLimit,    \* LIB_VFS_name_limit
  Base,         \* where the package is loaded
  Directories,  \* bound: what is packed, in the order of readdir
  Names         \* bound: what is asked for

(* The names of a directory differ.  What is packed has a file: system/,   *)
(* where the build has just put libraries and programs (make:57-92).       *)
ASSUME VfsAssumption ==
  /\ Page \in Nat \ {0} /\ EntrySize \in Nat \ {0} /\ WordSize \in Nat \ {0}
  /\ NameLimit \in Nat /\ Base \in Nat \ {0}
  /\ \A files \in Directories :
       /\ files \in Seq([name : Seq(STRING), size : Nat])
       /\ \A j \in DOMAIN files : files[j].name # <<>>
       /\ \A j, k \in DOMAIN files : files[j].name = files[k].name => j = k
       /\ \E j \in DOMAIN files : files[j].name \notin {<<".">>, <<".", ".">>}

VARIABLE disk

vfsVars == <<disk>>

AlignUp(n, to) == ((n + to - 1) \div to) * to

Self   == <<".">>
Parent == <<".", ".">>

Entry(name, size) == [offset |-> 0, size |-> size, length |-> Len(name), name |-> name]

File(name, size) == [name |-> name, size |-> size]

(* A unit of a package: a byte of a file, or something else.               *)
Unit(what)  == [what |-> what, file |-> <<>>, at |-> 0]
Bytes(file) == [k \in 1 .. file.size |-> [what |-> "byte", file |-> file.name, at |-> k]]
Zeros(n)    == [k \in 1 .. n |-> Unit("zero")]
Table(head) == [k \in 1 .. Len(head) * EntrySize |-> Unit("table")]

-----------------------------------------------------------------------------
(* The host tool.  A name that is too long ends it.                        *)
Pack ==
  /\ disk.pc = "pack" /\ disk.i <= Len(disk.files)
  /\ LET file == disk.files[disk.i] IN
     disk' = CASE file.name \in {Self, Parent} -> [disk EXCEPT !.i = @ + 1]
               [] /\ file.name \notin {Self, Parent}
                  /\ Len(file.name) > NameLimit -> [disk EXCEPT !.pc = "refused"]
               [] OTHER -> [disk EXCEPT !.i = @ + 1,
                                        !.head = Append(@, Entry(file.name, file.size))]

(* Mutant: the files follow each other without alignment. *)
NextClose(at, e) == at + e.size

NextOffset(at, e) == at + AlignUp(e.size, Page)

(* The entry behind the last one is not in the memory that was allocated,  *)
(* nor cleared: its length is zero if what is there is.                    *)
Placed(head, count) ==
  LET first == AlignUp((count + 1) * EntrySize, Page)
      offset[k \in 3 .. count] ==
        IF k = 3 THEN first ELSE NextOffset(offset[k - 1], head[k - 1])
  IN [k \in 1 .. count |-> IF k < 3 THEN [head[k] EXCEPT !.size = first]
                           ELSE [head[k] EXCEPT !.offset = offset[k]]]

PackTable ==
  /\ disk.pc = "pack" /\ disk.i > Len(disk.files)
  /\ \E length \in {0, NameLimit} :
       LET head == Append(Placed(disk.head, Len(disk.head)),
                          [offset |-> 0, size |-> 0, length |-> length, name |-> <<>>])
       IN disk' = [disk EXCEPT !.pc = "write", !.head = head, !.i = 3,
                               !.package = Table(head), !.size = Len(head) * EntrySize]

PackFile ==
  /\ disk.pc = "write" /\ disk.i < Len(disk.head)
  /\ LET e == disk.head[disk.i] IN
     disk' = [disk EXCEPT !.i = @ + 1,
                          !.package = @ \o Zeros(AlignUp(disk.size, Page) - disk.size)
                                        \o Bytes(File(e.name, e.size)),
                          !.size = e.offset + e.size]

Magic == [k \in 1 .. WordSize |-> Unit("magic")]

PackEnd ==
  /\ disk.pc = "write" /\ disk.i = Len(disk.head)
  /\ disk' = [disk EXCEPT !.pc = "packed",
                          !.package = @ \o Zeros(WordSize - (disk.size % WordSize)) \o Magic]

-----------------------------------------------------------------------------
(* lib_vfs_check: the last word of the package. *)
Check(package) ==
  LET last == (Len(package) \div WordSize) * WordSize
  IN SubSeq(package, last - WordSize + 1, last) = Magic

(* Where the table ends for those who follow it: at the first entry        *)
(* without a length, behind the last one if that has one.                  *)
Ends(head) == Min({k \in DOMAIN head : head[k].length = 0} \union {Len(head) + 1})

(* kernel_init_storage: there is one slot, and lib_vfs_init adds the       *)
(* address of the package to the offsets.  If nothing ends the table, not  *)
(* even what it is filled up with, the files are taken for entries.        *)
Boot ==
  /\ disk.pc = "packed"
  /\ LET head == disk.head IN
     disk' = CASE ~ Check(disk.package) -> [disk EXCEPT !.pc = "no disk"]
               [] /\ Check(disk.package)
                  /\ Ends(head) > Len(head) /\ (Len(head) * EntrySize) % Page = 0 ->
                    [disk EXCEPT !.pc = "astray"]
               [] OTHER ->
                    [disk EXCEPT !.pc = "booted",
                       !.head = [k \in DOMAIN head |->
                                   IF k < Ends(head) THEN [head[k] EXCEPT !.offset = @ + Base]
                                   ELSE head[k]]]

(* lib_vfs_file: the entry where the table ends is looked at too.  0 if    *)
(* there is none.                                                          *)
Find(name) ==
  LET head == disk.head
      at   == {k \in DOMAIN head : /\ k <= Ends(head) /\ head[k].length = Len(name)
                                   /\ head[k].name = name}
  IN IF at = {} THEN 0 ELSE Min(at)

(* lib_vfs_read; what lies behind the package is unknown. *)
Content(e) ==
  [k \in 1 .. e.size |-> LET at == e.offset - Base + k
                         IN IF at \in DOMAIN disk.package THEN disk.package[at] ELSE Unit("unknown")]

Read(name) ==
  /\ disk.pc = "booted" /\ disk.asked = <<>>
  /\ disk' = [disk EXCEPT !.asked = name,
                          !.found = Find(name) # 0,
                          !.got = IF Find(name) = 0 THEN <<>> ELSE Content(disk.head[Find(name)])]

(* What ls shows of the directory. *)
Listing ==
  LET count == Ends(disk.head) - 1
  IN SelectSeq([k \in 1 .. count - 1 |-> disk.head[k].name], LAMBDA name : name[1] # ".")

-----------------------------------------------------------------------------
VfsInit ==
  \E files \in Directories :
    disk = [pc |-> "pack", files |-> files, i |-> 1, size |-> 0, package |-> <<>>,
            head |-> <<Entry(Self, 0), Entry(Parent, 0)>>,
            asked |-> <<>>, found |-> FALSE, got |-> <<>>]

VfsNext ==
  \/ Pack \/ PackTable \/ PackFile \/ PackEnd \/ Boot
  \/ \E name \in Names : Read(name)

VfsSpec == VfsInit /\ [][VfsNext]_vfsVars

-----------------------------------------------------------------------------
(* A file that was packed is read as it was, whatever is packed with it,   *)
(* and what was not is not found (vfs.c:158-216, library/vfs.c:25-50).     *)
FilesAreRead ==
  disk.asked # <<>> =>
    LET there == {k \in DOMAIN disk.files : disk.files[k].name = disk.asked} IN
    IF disk.asked \in {Self, Parent}
    THEN /\ SubSeq(disk.got, 1, Len(disk.head) * EntrySize) = Table(disk.head)
         /\ \A k \in Len(disk.head) * EntrySize + 1 .. Len(disk.got) : disk.got[k] = Unit("zero")
    ELSE /\ disk.found = (there # {})
         /\ \A k \in there : disk.got = Bytes(disk.files[k])

(* ls shows every file (ls.c:69: "parse each file").  It does not: it      *)
(* leaves out the last.                                                    *)
EveryFileIsListed ==
  disk.pc = "booted" =>
    ToSet(Listing) = {disk.files[k].name : k \in {j \in DOMAIN disk.files :
                                                   disk.files[j].name[1] # "."}}
=============================================================================
