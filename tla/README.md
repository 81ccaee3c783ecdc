# Fern-Night: a TLA+ model of the kernel and the programs around it

Fern-Night is a 64-bit multiprocessor kernel for the PC (C and assembly, under
`kernel/`), with one daemon that runs in ring 0 (`daemon/gc.d.c`), shared
libraries (`library/`), and programs: a window manager, a console, a shell and
small tools (`software/`). This directory holds TLA+ modules of its core,
configurations that check them with TLC, and theorems that TLAPS checks.
`PROJECT.json` lists components, runs, mutants, the lines each definition
models, what was found, and the hazards the properties are aimed at.

## 1. The system

| Part | State | Operations | Interacts by |
|---|---|---|---|
| Task queue, scheduler (`kernel/task.c`) | 22 entries: flags, pid, parent, sleep, rsp, cr3; `task_count`, `task_id`; the entry each processor runs; two spin locks | timer switch, select, add; exit, sleep (`service.c`) | interrupts, system calls, unlocked flag words |
| Collector (`daemon/gc.d.c`) | none of its own | find closed tasks, close their children, release all they hold | reads and writes the queue without a lock |
| Messages (`service.c:56-135`) | 512 entries with a time to live, a lock | send, receive | clock (RTC interrupt of the bootstrap processor) |
| Streams (`kernel/stream.c`) | table of rings: markers, free space, flags, metadata, lock, users | out, in, get, set, create, release | shared by parent, child, threads; released by the collector |
| Physical memory (`kernel/memory.c`) | a bit per page, a count, a lock | alloc, release, acquire, dispose, share | everything that needs pages |
| Paging (`kernel/page.c`) | four-level tables | alloc, map, clang, merge, remove, deconstruct | exec, thread, memory calls, collector |
| Program and thread creation (`kernel/exec.c`, `service.c:297`) | an entry under construction | exec, thread | queue, memory, paging, streams, libraries |
| Libraries (`kernel/library.c`) | 16 entries | find, load, link | exec, without a lock |
| Keyboard, mouse (`kernel/driver/ps2.c`) | key buffer, scan code and packet state, position | two interrupt handlers, two readers | interrupts against readers |
| Window manager (`software/wm*`) | table of objects, their order, zones, focus | main loop in phases; two threads (taskbar, menu) | messages and shared descriptors with clients |
| Console, terminal, shell (`software/console.c`, `shell.c`, `terminal.c`) | a grid of characters, the cursor and its lock; a command line | show, scroll, erase; execute, wait, forward keys | one stream and the table of messages |
| Formatted output (`sys.c`, `kernel/log.c`, `serial.c`) | none | printf, log, kernel_log | streams, serial line |
| Descriptions of windows (`interface.c`, `json.c`) | a list of elements | parse, convert, find | read once by the program |
| Disk (`vfs.c`, `library/vfs.c`, `kernel/storage.c`) | a read-only package | pack on the host; register, look up, read | exec, storage call |

What makes the kernel hard is that all its processors run it at once, that
`x |= f`, `x &= ~f` and `x++` on shared words carry no lock prefix (each is a
load and a store that others come between), and that some shared state is under
a lock for some of its users only.

Where interrupts are masked decides what interleaves on one processor, and the
models rely on it: the `syscall` instruction masks them (`kernel/init/ap.c:57`),
`kernel_task_entry` starts with `cli`, and the collector runs with interrupts on.
The second entry to the system calls, `int 0x40` (`service.asm`), leaves them
on; no program of the repository uses the `lib_sys_int_*` functions that call it,
and it is not modelled.

What makes each part correct:

- scheduler: one processor per task, exact exec flag, contexts saved before
  they are resumed, no starvation; unique identifiers, exact count;
- collector: no memory of a running task released, no child outlives its parent,
  every closed task collected;
- messages: delivered once, unaltered, to their target; a full table delays and
  does not stop;
- streams: bytes in order, once; flags that mean what readers take them for;
- memory: a page has one owner, is clean when handed out, is never lost;
- paging and creation: what a process holds is held once and goes when it ends;
  a thread's space stands as long as it runs; streams go with their last user;
- input: keys in the order they were typed, a pointer on the screen;
- windows: list, table, picture and taskbar agree, also when programs end;
- console and shell: the screen shows the command line, a prompt begins a line, the
  cursor comes back;
- texts: what was asked for comes out, a window is as it was described, a file is
  read as it was packed.

## 2. Modules

| Module | Models | Kind |
|---|---|---|
| `Task` | `kernel/task.c`; exit, sleep, exec and thread as far as the queue goes | component |
| `TaskProofs` | theorems about `Task` | proofs |
| `Reaper` | `daemon/gc.d.c`, composed with `Task` | composition |
| `ReaperProofs` | theorems about `Reaper` on one processor | proofs |
| `Mailbox` | what the message service promises | abstract |
| `Ipc` | `kernel_service_ipc_send`, `_receive`; implements `Mailbox` | component |
| `IpcProofs` | theorems about `Ipc`, the implementation of `Mailbox` among them | proofs |
| `Pipe` | what a stream promises | abstract |
| `Stream` | `kernel/stream.c`; implements `Pipe` | component |
| `Memory` | `kernel/memory.c` | component |
| `MemoryProofs` | theorems about `Memory` | proofs |
| `Paging` | `kernel/page.c` and the maps of `memory.c`, as operators | component |
| `Space` | programs, threads, libraries, streams, memory calls and the releasing half of the collector, over `Paging` | composition |
| `SpaceProofs` | theorems about `Space`: the users of the streams | proofs |
| `Input` | `kernel/driver/ps2.c` | component |
| `InputProofs` | theorems about `Input`, alone and below `Windows` | proofs |
| `Windows` | `software/wm/`, the window of `interface.c`, over `Input` | composition |
| `WindowsProofs` | theorems about `Windows`: its table, its list of objects and the taskbar | proofs |
| `LibString` | `library/shared/string.c` | operators |
| `Console` | `console.c`, `terminal.c`, `shell.c` and programs in it | composition |
| `TerminalProofs` | theorems about `Console`, `Vfs` and `Stream`, the implementation of `Pipe` among them | proofs |
| `Format` | printf, log, kernel_log, numbers on the serial line | component |
| `Interface` | `json.c` and the conversion of a description | component |
| `Vfs` | the host's `vfs.c`, `library/vfs.c`, `kernel/storage.c`, `ls.c` | component |
| `Terminal` | `Stream`, `Console`, `Format`, `Interface`, `Vfs`, one at a time | composition |
| `MC*` | instances for TLC: views, bounds, sets of inputs | checking |

### Task

A processor's position in the kernel is `pc[c]`. A step makes at most one access
to memory that another processor writes: an update of a flags word is a load into
`word[c]` and a store, `++task_id` and `task_count++` go through `tally[c]`.
`kernel_task` is `Timer, SaveContext, Release, SelectLock, ScanFound/ScanNext,
MarkLoad, MarkStore, Switch, FirstLoad, FirstStore`; `kernel_service_exit` is
`Exit, ExitClose, ExitLoad, ExitRetire`, ending in the switch; `kernel_task_add`
is `AddLock ... AddCount`, followed by `Build` and `Activate` of its callers, or
`BuildFails` when memory runs out. `kernel_service_sleep` stores `time_rtc + 1`,
so that `asleep[t]`, cleared by a tick, is all that matters. Registers, stack and
paging of a task are `saved[t]`: whether its entry holds the point at which it is
to be resumed. The name, page and stack fields are left out.

### Reaper

The daemon is the task of `GcEntry`: its steps are enabled while a processor runs
that entry. `frames` is the stack of the recursion of `child()`. A task that exits
frees its entry nowhere else; releasing what a task holds is one step, `GcRelease`.

### Ipc and Mailbox

An entry's age is `ttl - time_rtc`, kept relative: `Tick` lowers all of them. At
age 0 an entry is neither free (`ttl < time_rtc`) nor available (`ttl > time_rtc`),
as in the code. `bsp` is the process that is in a call on the bootstrap processor:
the clock stands still meanwhile. `Mailbox` counts the copies of each message that
wait; under the refinement mapping a message is delivered when the receiver has
found it, since it can expire in the table between the look and the copy.

### Stream and Pipe

The bodies under the lock of the stream are one step each; what is read before
the lock (`OutCheck`, `InCheck`) and after it (`GetFlags`) is a step of its own.
`Received` and `Written` follow the markers as the loops do. `Pipe` is a sequence
of bytes with writes that are accepted whole or refused, reads that take all, and
one reservation that the code needs: the content of a full stream may be forgotten
(`Forget`), because full and empty look alike.

### Memory

`memory_map` is the set of pages whose bit is set; `WordOf` tells which bits share
a word. `SearchOn`, `SearchAgain`, `SearchFound`, `SearchFailed` are the loops of
`kernel_memory_acquire`, page by page, while releases change the map. `Indivisible`
says whether the two halves of an update can be interrupted: on one processor, if
the compiler emits one instruction, they cannot; on several they always can, since
there is no lock prefix. The count is modulo `CountLimit` (2^64 in the code): it
falls below zero for a moment when pages come back before their number is added.

### Paging and Space

The four levels of nested loops of `page.c` are `Levels` levels of tables with `Width`
entries. What a loop visits is a set of places, level by level, a place being a table and a
slot (`Below`, `Tables`, the places of `PageMerge`); what it does at each is a fold. The
operators of `Paging` take the state of physical memory, the pages that are available and
the contents of those that are tables or maps, and return the next, so that a failure half
way keeps what was done before it, as in the code. The state of `Space` is a record `kernel`:
that memory, the entries of the queue, the streams, the libraries. Sizes in pages are
one (`One`): a program, a stack, arguments, a map, a stream are a page each; what a
program asks for is in `Sizes`. There is one processor: system calls, which mask
interrupts, are one step, and the collector, which does not, is `GcFind ... GcFree`
with programs between them.

Where the code follows a null pointer or gives up, `Halt` is the end, and nothing is
said of it. `failed` remembers that a creation failed half way, after which the
properties are silent too (`Sound`): the entry stays secured, and a stream without
space is handed out twice (section 6). `kept` are the file images that nobody
releases. `LiveOnly` leaves out sharing memory with a task that has ended: its map
and tables may be released already. A program may be linked to a library that is loaded
for it while other programs and threads run (`Another`): these then lack its tables, and
the ones that start later must have them. `EveryPageHasOnePlace` is about owners: a shared
page counts for the task it was made for, file images in `kept` for nobody; what a space
that was given a share still sees after the owner's release is 22 of section 6.

### Input and Windows

An interrupt brings a byte. The three bytes of a packet are three steps, so that the
pointer is looked at between them. A movement has nine bits, as the mouse reports it
without overflow; `Narrow` is the `int8_t` that takes eight of them, and the position is a
`uint16_t`. `Gentle` says that the eighth bit is always the sign: `PointerOnScreen` needs it
(section 6), and `Windows` assumes it, since its search for the object under the pointer
has no end off the screen. The reader of keys is one step when it runs on the processor
the interrupts come to, and a load and a store per entry when it is `apart`.

`Windows` has a step per phase of the main loop (`Reading`, `Event`, `Objects`, `Zone`,
`Draw`); messages and changes of descriptors come between. The thread of the taskbar takes
no lock and may be interrupted anywhere, so each of its stores is a step, which the main
loop's phases come between. `wm.turn` is where the thread is: the statement, the object it
looks at, the position of the list that wm_object_move_up has vacated (`hole`), and where
it goes on. A click begins a turn (`TaskbarClick`), `TaskbarMenu`, `TaskbarEntry` and `TaskbarObject` are
its stores, `Listed` reads the table and draws the entries, and `Cleared` takes the request
back (`taskbar.c:112`). Merged are the two reads of the pointer's position at
`taskbar.c:223,225`, the flags of one object and of the cursor at `taskbar.c:242,245`, and
`taskbar.c:112` with the flag of line 159. The other side is coarser: a phase of the main loop
is not interrupted by the thread. What such an interruption could do to the list, an insertion
or a removal by the main loop that the thread's look-up falls into, is of the same kind as 20
and 14 of section 6, and is not told apart here. The thread of the menu writes nothing that is
shared: it reads where the pointer is and executes a program (`MenuClick`).

Objects are rectangles, the picture is a function from pixels to who is shown there with
which content (`look`). `Whole` is the list with the moved object in the vacated position.
Three variables of `wm` record collisions of the thread with the main loop, and the
properties hold up to them (all are findings, section 6): `ghost`, a list that the main loop
changed while a position of it was vacated (`Tear`), or an entry that was written to or made
active after it was released; `missed`, a zone that was dropped before it was drawn, or a
window that was to be hidden and was not redrawn; and `asked`, a request for the taskbar that
the thread took back without having seen what it was for (`Overtaken`). The behaviour ends at
a `ghost`. The manager and the kernel themselves never end.
Keys go to the active window; the message that says so is left out.

### Console, Format, Interface, LibString, Vfs and Terminal

`Console`: a cell of the terminal is a character or `"#"`, two drawn over each other.
What a process prints between two other calls is a step (`Say`), what the console
receives is shown in one (`ConsoleStream`), and a character or sequence is one token. The stream is
never full here (`Stream` has that) and messages to the console and the shell do not
expire (`Ipc` has that); those to programs do. The shell copies the metadata under the lock
(`Meta`) and reads the flag that says whether they are current after it (`Flag`,
`stream.c:183-191`); `torn` remembers that the console answered in between, and
`PromptStartsLine` is stated for the other prompts (section 6, 21). The name of a command is one character.
`mixed` remembers that a program was started in the background: it prints into the
command line when it likes, and the properties of the screen hold until then.

`Format`: a call is a list of parts, from which the string and the arguments are
made; the handlers see the string. Fractions are hundredths. What follows `%%` or `%f`
is lost in printf (section 6), so these come last in the calls that are checked.

`Interface`: a text is a sequence of tokens; a word is one. Positions are what pointers
are in the code, and 0 is null. The description is written out with white characters
and its keys in any order; strings have no brackets in them, which `json.c` would
count, and limits of names are left out.

`Vfs`: a package is a sequence of units with small numbers for the sizes of pages,
entries and words. The length of the entry behind the last one is arbitrary (section
6); `astray` is where the files would be taken for entries. Types and modes are stored
and never used. There is at least one file.

`Terminal` only puts these side by side (`scene`), so that one run checks them.

## 3. Runs

| Run | Checks | Bounds |
|---|---|---|
| `scheduler` | resumed contexts, no starvation | 2 processors, 4 entries |
| `scheduler_many` | one processor per task, exec flag, identifiers, count | 2 processors, 5 entries |
| `stack_shared` | finds two processors on one stack | 2 processors, 4 entries |
| `collector` | no orphans, closed tasks stay out, exec flag, collection | 1 processor, 5 entries, 4 tasks |
| `collector_smp` | finds released paging under a running processor | 2 processors, 3 entries |
| `messages` | empty means none, implements `Mailbox`, senders proceed | 2 entries, time to live 2, 2 processes, 3 messages |
| `stream` | a stream implements `Pipe`, markers, flag; command line, cursor and prompt on the screen, the prompt comes; formats; descriptions; files | stream of 3 bytes, 2 tasks; screen of 4 by 2, 3 to 6 keys, 3 messages, 2 programs; 3 parts of a format; 3 elements; 4 directory entries |
| `stream_full` | finds metadata replaced while bytes wait | 3 bytes, two metadata values |
| `memory` | one place per page, clean pages, first fit, count, termination | 4 pages in 2 words, 2 tasks, runs of 1 and 2 |
| `memory_race` | finds a page handed out twice | the same, divisible updates |
| `space` | one place per page of whole processes, live spaces, users of streams, libraries | 27 pages, 2 levels of 4 entries, 3 tasks, 2 libraries, 3 calls or libraries loaded, 4 streams |
| `desktop` | keys in order, each at most once, pointer, list, focus, picture, taskbar, ended windows go | screen of 6 by 4, 6 objects, 2 programs, a buffer of 3 keys, 13 users with up to 4 bytes or packets |

Every property of a passing run has a mutant: a changed definition with which TLC
finds that property violated, under the same bounds. `TypeOK` of `Task`, `Ipc`,
`Stream` and `Memory` and `ReaperTypeOK` say what the variables are; the runs spend
their time on the other properties, and these are proved (section 5).

Why the bounds are enough to meet the interesting cases. Two processors are what a
race between two updates needs. The three entries the kernel starts with leave one
in a queue of four, two in a queue of five: the second lets two processors add
tasks at a time and reuses entries. Two message entries are full with two messages and make a search go
round; with a time to live of 2 an entry is seen at every age. In the collector's run the bound `TaskMax` on
identifiers ends the creation of tasks; a chain of parent, child and grandchild,
and the reuse of a freed entry, fit below it. The stream of three bytes is filled
exactly, wraps at every offset and refuses writes. The pages of `MCMemory` hold a
gap and a run across the border of two words. `MCTask` and `MCReaper` check some
runs under a view, `LiveState`, that drops values that are overwritten before they
are read (the word, entry and tally of a processor where its position does not use
them); it identifies states with the same future.

In `space` a program, its child or its thread, and what they leave behind are three
tasks; the 27 pages are short for all of them, so that allocations fail at every
point of a creation, and four streams are used up by three programs. The second of the two libraries is first
linked by a program that another one starts, so that a space from before it, and a thread
from after it, are both there. The two flows are the ones the repository's programs ask for. On the screen of `desktop` a window
has a header, controls and a border, two windows overlap, and both reach over the edge
when they are moved; each of `MCUsers` brings one part of the manager into view: it has
the bytes that come, the programs that have a window, and those of them that end; `waits`
keeps a user from moving before the windows are there. The users without it, or with programs
that end while the mouse is used, are those for whom the main loop changes the list while
the thread of the taskbar is in the middle of a turn. The buffer has three
entries:
with them a reader on another processor has keys out of order (section 6).

In `stream` a line of
four characters makes the prompt and two keys wrap, and two lines make them scroll;
`MCCalls` and `MCDescriptions` have every pair of parts, and `MCDirectories` sizes of
zero, less than a page, a page, and more.

## 4. Fairness

- `Task`, `Reaper`: a processor in the kernel keeps executing (weak fairness of
  `InKernel`); its timer, reloaded at each switch, fires, and an interrupt that comes
  during a system call stays pending, hence strong fairness of `Timer`. Nothing is
  assumed of the spin locks, nor of programs. The daemon executes some of its
  instructions when it is given a processor again and again (strong fairness of
  `Collect`).
- `Ipc`: the clock ticks whenever it can, the holder of the lock goes on.
  `SenderProceeds` allows for what the code cannot avoid: a call on the bootstrap
  processor stops the clock, and a sender that waits there for an entry waits for
  ever, with everybody else behind it.
- `Memory`: the scheduler comes back to every task that is ready. Waiting for the
  lock is not assumed to end.
- `Windows`, `GoesRound`: the main loop has no call that waits (`wm.c:51-74`), so each
  phase comes again. Stated as a recurrence of two phases (`event` and `zone`), which is what
  weak fairness of its steps gives: one of them is enabled whenever the manager has not crashed.
  Nothing is assumed of the thread of the taskbar: windows go also when it never runs.
  Nothing is assumed of clients or of the user.
- `Console`, `ConsoleGoesRound`: the console polls (`console.c:34-319`) and the shell
  waits for nothing but a defined stream and a key, stated in the same way: it does not stay
  at its header, at either half of its read, or at the prompt. Programs
  need not print, read or end; without that a shell that waits for a program may wait
  for ever, which `PromptComes` does not exclude.
- `Space`, `Format`, `Interface`, `Vfs`: safety only.

## 5. Theorems

Checked by TLAPS for every value of the constants that the named assumptions allow; these
are in the modules that declare the constants, and TLC evaluates them in the runs. Each
proof about a component has one inductive invariant, lemmas `<Action>Step` or one per conjunct
that show it is kept, and the theorems that follow from it.

`TaskProofs` holds for every number of processors and entries (`CpuAssumption`, the
bootstrap processor is one of them; `LimitAssumption`, at least three entries).
`SchedInv` is the inductive invariant. `OneCpuPerTask` is not
inductive by itself: it has to be known that the exec flag is set exactly on what a
processor owns, that a word loaded and not yet stored is still what the memory holds
(nobody else updates the flags of an entry that one processor owns, marks under the
lock, or builds), that positions under a lock are held by its holder, and that the
entry under construction is not selectable. `OwnerAlone`, `MarkerAlone` and
`BuilderAlone` say who may touch an entry. From it: `TypeCorrect`, `TasksRunOnOneCpu`,
`ExecFlagIsExact`, `ResumesOnlySaved`.

`QueueInvariant` adds what the holder of `task_semaphore` knows: the
value in `tally` is current, identifiers are at most `task_id`, and the number of
entries in use is `task_count` up to the addition under way (`CountAssumption`: the
counter does not wrap within the queue). From it: `IdentifiersAreUnique`,
`TaskCountIsExact`.

These are theorems about `Task` without the collector. With the collector they hold on one
processor (`OneProcessor`, an assumption of each theorem of `ReaperProofs`); with two they
fail (section 6, and TLC finds `NoOrphans` and `ClosedStaysOut` violated as well), because
the collector's updates are the ones nobody excludes. `ReaperInv` has two parts. `LifeInv`
is about the tasks and does not mention the daemon: what runs is active, a closed task is
inactive but while it retires itself, every entry in use has an identifier but while it is
given one, the parent of a new task is the one that starts it. `DaemonInv` is about what
the daemon has read and not yet used, while it is interrupted anywhere: nobody takes or
builds an entry that is on its stack (`FramesHeld`), the word it stores marks nothing as
running (`WordSafe`), and the children it has been past cannot run (`PassedInactive`). A
task that starts a child meanwhile must be running, so its parent is not one of the closed.
From it: `NoOrphansLeft`, `ClosedNeverRuns`,
`CollectorKeepsMarks`, `ReaperTypes`. The exact count is not among them: it fails.

`IpcProofs` holds for every number of entries, processes, messages and every time to live.
`IpcInv` says that whoever is inside the table is alone there (`Alone`) but for the clock,
which only lowers ages, so that entries a receiver has passed hold nothing for it
(`Searched`: what expires does not come back), and that there is a message where one is
read (`Whole`). From it
`IpcTypes` and `EmptyIsNone`; and `TableIsMailbox`, the refinement: `MailInit` maps the
initial states, `MailStep` every step to a step of `Mailbox` or to a stutter.

`MemoryProofs` holds for every number of tasks, pages and words (`MemoryAssumption`),
and assumes `Indivisible` updates: without it `NoPageTwice` is false (`memory_race`).
`MemInv` adds to the properties what makes them inductive: only the holder of the lock
takes pages from the map (`Alone`), so what it has found available stays so (`Knows`);
what a call has read of a word is what the word holds until it writes it, since nobody
else is in the middle of an update; runs are intervals (`RunsOf`), so a release gets
back exactly the pages handed out; what is being put back has been cleaned (`Cleaned`),
and the map only grows during a search (`Searched`). `MapMoves` and `TakenMoves` reduce
each step to a page that goes from the map to a call, or back. From it: `MemTypes`,
`PagesHaveOnePlace`, `PagesAreExclusive`, `PagesAreClean`, `SearchIsFirstFit`. For
`CountIsRight` the invariant adds up the pages that each call has taken and not yet
counted, or given back and not yet counted; modulo 2^64 the count is off by that sum.

`InputProofs` holds for every length of the buffer, every size of the screen a `uint16_t`
can say, and all users, for the driver alone and below the window manager
(`InputSpec \/ WindowsSpec`): every step of the manager is one of the driver, a drawing,
or leaves the driver alone (`WindowsStep`). On one processor the buffer has no gaps, and
what was read followed by the buffer is an increasing choice of the typed keys (`Order`).
With a reader on another processor that is false, and `Once` is the invariant: each key
that was read, is in an entry, or in the hands of the reader has a number of its own
(`Numbers`), where an entry that the reader is about to overwrite holds none. From it:
`KeysStayInOrder`, `KeysAreReadOnce`, `PointerStaysOnScreen`.

`TerminalProofs` is about the console, the disk and a stream. The first part holds for a screen, a command line and a table of messages of any size, for
any keys and any texts, with two assumptions about what programs print
(`TypistAssumption`): the dollar is left to the prompt, so that the properties know it, and
a program that hides the cursor does so once before it shows it again. The shell releases
the cursor once (`shell.c:123`), so the second is what it relies on; none of its programs
hides the cursor. What was said and not yet shown waits in the stream, and `ConsoleInv` is
about what showing it will do: from the lock that the console holds the waiting text leads
to one that suits where the shell is (`Locks`, `Closes`), the prompt in it comes first or after
the end of a line (`Begins`), and what the shell knows about the column is what the console
has when nothing waits (`Told`, `Fresh`), unless the console answered between the two
halves of its read (`torn`). `TextFits` says that a text from such a state is
shown to such an end: it takes the place of an induction over its length by the first
position where that would fail. From it: `CursorReturns`, `PromptBeginsLine`,
`CursorStaysOnScreen`.

The second part holds for pages, entries and words of any size, any place the package is
loaded at, and any directories whose names differ and are not empty and that have a file
(`VfsAssumption`; without one, `vfs.c` still writes a package, and its directory claims more
bytes than it has; what the build packs has files, `make:57-92`). `FilesAreRead` speaks
only of what was read last; `VfsInv` says why it is right at each stage: the table has the
two names of the directory and the files seen so far (`Registered`), each file begins at
the next page behind the one before (`Laid`), what is between the table and the first file
is zero (`Filled`), and the bytes of each file written so far are where its entry says
(`Holds`), also after the kernel has moved the offsets. That the host's padding, which goes
by the size of the package, ends at the offset, which goes by the sizes of the files, is
`AlignUpShift`. The offsets are a function of the position, about which facts are shown by
the least position where they would fail. From it: `FilesComeBack`. Whether the magic
is found does not matter here: without it there is no disk to read from.

The third part of `TerminalProofs` holds for every size of a stream and any number of tasks. `StreamInv` says
how far apart the markers are, without the remainder that makes full and empty alike
(`RingShape`), and that there are bytes where they wait (`Filled`). From it `StreamTypes`, `MarkersMatchCount`, `DefinedIsShown`, and
`RingIsPipe`: the bytes between the markers, in order, are the content of `Pipe`, and every
step is one of its steps or a stutter.

`WindowsProofs` holds for a table, a screen and windows of any size and any number of
programs, under `WindowsAssumption`: the mouse is moved gently (otherwise 16 and 18 of
section 6 happen), the table has room for the four objects of `wm_init`, and the screen is
wide enough for an entry of a pixel for every further object, since the list divides by the
width of an entry (`taskbar.c:94-95`). None of the properties is inductive. `WindowsInv`
adds to them what each entry of the table is (`Kind`): the four of `wm_init` keep the
flags and the owner that make them what they are, the workbench is visible and covers
the screen, so that the search for the object under the pointer finds one and there is
always one to make active, and `destroy` is set only on what a program left that has ended,
which stays so (`Gone`). It adds what the threads remember: what the taskbar drew are entries
of windows, used or not, with a width of at least one (`Tray`); and that requests
come from clients (`Senders`). And it holds with the thread of the taskbar stopped between
any two of its stores: `Turned` says what it knows at each, `Laid` that with the moved object in the vacated position
the list has each object once, and `Seats` that the workbench, the taskbar and the cursor keep
their places in it meanwhile. A change of the list by the main loop meanwhile is a
`ghost`, so each of its phases is shown for a list that is whole. A write to a released entry ends what is claimed, and nothing
undoes it; so each operation has two lemmas, one for data of any kind (`Keeps`) and one for
sound data (`Stays`). A pass over the list, during which it shrinks, is a function of the
position, of which both are shown by the least position where they would fail. From it:
`ListAgreesWithTable`, `ActiveStaysListed`. For the taskbar `BarInv` is added: it shows
the windows as they are (`Current`), or its semaphore is up, or the thread is in a turn that
ends with the list (`Busy`), or the main loop has asked since the list was read (`asked`), or
an object is about to go (`Doomed`). The last is needed because `wm_object` hides the window of a program that has
ended without a word to the taskbar, which hears of it in a later pass only, when the object is
removed (`object.c:56-78`). For each operation it is shown that it changes nothing of what
the taskbar shows (`Same`), or raises the semaphore, or marks an object to go; each store of a turn leaves the thread
`Busy` until it lists. From it: `TaskbarStaysCurrent`, by which no request is lost but one that
is overtaken.

`SpaceProofs` holds for a queue and a table of streams of any length (`SpaceAssumption`: a
stream at least, which the kernel has), any flows, libraries and sizes, and tables of any
shape: what paging does changes the memory, of which the counts of streams know nothing
(`Kept`, `Built`). `StreamUsersExact` speaks of states in which nothing is under way; the
steps of exec and thread pass through others. `Counted` is therefore stated with up to two
users more than tasks have ends, those of the task that is being made: kernel_stream and
the sharing of a stream each add one (`NewStreamIs`, `ShareIs`), and the task that becomes
active makes them ends (`ReadyHeld`). A new stream is taken from those without a space, so
it has to be known that these have no user; and sharing must find a user, which is the task
that starts the other (`UserOf`): a running one, of which the collector has released nothing,
since it works on a closed one only. The collector takes one end away with each count
(`LeaveHeld`), and an entry that it frees has no end left (`GcFreeHeld`). From it:
`UsersAreCounted`. Once a creation has failed half way only the shape of the data is
kept, as the property says nothing more either (`Sound`); after a halt, nothing.

Only model-checked: liveness (the termination of allocation, waiting senders, collection,
prompts, windows that go) and whatever rests on ENABLED, which the prover does not treat;
of `Space` what is about tables (`EveryPageHasOnePlace`, `LiveSpaceStands`,
`LibrariesAreShown`), which are trees that `Paging` builds and takes apart by folds over
places, and `Interface` and `Format`, which recurse over texts: what these compute for
every input needs induction over data, which the prover does not have; `LineIsShown`, since
the invariant of `Console` says nothing of the characters on the screen; the picture of
`Windows`, which folds an operator over the list of objects.

## 6. What was found

1. `task.c:14`: a task is declared free while its processor is still on its stack
   (`stack_shared`).
2. `gc.d.c:46`: the collector releases the paging of a task that closed itself while
   a processor executes in it (`collector_smp`).
3. `stream.c:209`: a full stream counts as empty: its metadata is replaced and its
   content dropped (`stream_full`; `Forget` in `Pipe`).
4. `memory.c:51`: release writes the page map without the lock (`memory_race`). With
   indivisible updates release needs no lock, which the run `memory` shows: `lock or`
   and `lock xadd` would be a sufficient repair.
5. `stream.c:130`: numbers are not displayed (found by reading, no run).
6. `service.c:214`: sleep ignores its argument (found by reading, no run).

Found while `Space`, `Windows`, `Console`, `Format`, `Interface` and `Vfs` were written. For
7, 8 and 9 a formula stands in the module (`StreamHasSpace`, `StackSizeIsExact`,
`EveryFileIsListed`), which TLC finds violated and no run includes; the others were seen
in the code or as counterexamples of properties that are now stated around them.

7. `stream.c:14`: a stream whose space could not be allocated is handed out, and again.
8. `exec.c:91`, `service.c:336`: the stack of a reused entry is counted on top of the
   last one's, so that a stack fault is not recognised (`idt.c:46`).
9. `ls.c:71`: the last file is not listed.
10. `vfs.c:159`: the entry that ends the table lies behind the memory allocated for it,
    and is not cleared.
11. `kernel/log.c:19`: `%s` sends nothing. `sys.c:339`: printf loses the character behind
    `%%` and `%f`.
12. `exec.c:25`: the pages of a file that is no ELF file are never released, nor are
    those of library images.
13. `event.c:189`: a vertical movement decides a horizontal test; `event.c:228`: the header
    is tested at the mirrored movement.
14. `object.c:274`: pointers to a removed object stay in use, and the taskbar makes one
    active that was removed after it was looked up, `taskbar.c:215,233` (`ghost`).
15. `object.c:40`, `object.c:62`, `taskbar.c:229`: the flag `hide` is toggled, not set: a
    window hidden twice, or one that ends while hidden, shows up again or is not redrawn
    (`missed`).
16. `object.c:110`, `event.c:31`, `event.c:83`: identifiers wrap after 256 objects, and
    what by_id and create return is not looked at; `object.c:135`: an unsigned index
    counts down past zero.
17. `interface.c:168`: the address of a local pointer is passed for the interface.

Found while the theorems about `Input` were proved; `OffsetIsKept` and `FirstKeyFirst` are
the formulas, which TLC finds violated and no run includes:

18. `ps2.c:255`: a fast movement is narrowed to eight bits and takes the pointer off the
    screen, below zero or past an edge. With an `int16_t` that takes the sign from the
    status the comparisons would be right.
19. `ps2.c:337`: with the reader on another processor than the interrupts keys are lost, and
    may be handed out in another order; none is handed out twice.

Found when the thread of the taskbar was modelled store by store, reads of a stream in two
steps, and shared pages were followed to their release. `PromptIsCurrent` of `Console` and
`SharedStands` of `Space` are formulas that TLC finds violated and no run includes; the
others are the reservations of the properties of `Windows`:

20. `object.c:266`: the taskbar's thread shifts the list of objects without a lock; when the
    main loop inserts, removes or raises an object meanwhile, one is on the list twice and
    one not at all (`ghost`, `Tear`).
21. `stream.c:191`, `shell.c:43`: the flag is read after the lock is given up. When the console
    answers in between, the shell has an old position with a new flag, and prompts in the
    middle of a line (`PromptIsCurrent`).
22. `service.c:176`, `page.c:508`: the owner releases a page that it shared, and the next
    allocation takes it, while the other task still has it in its tables (`SharedStands`). The
    window manager does so with each window it removes (`wm/object.c:284`).
23. `fill.c:56`: a zone that the taskbar inserts between wm_zone and this store is dropped,
    and the screen keeps what was there (`missed`).
24. `taskbar.c:112`: a request made after the table was read and before this store is taken
    back, and the taskbar stays as it was until the next change (`Overtaken`).

`OneCpuPerTask` holds although 1 is true: the processor that is still on the stack has
given the task up. 1, 2, 4, 19 and 21 need two processors (4 happens on one as well, if the
compiler makes more than one instruction of an update).

## 7. Plan

Done in this order: the scheduler, its proofs, the collector on top of it, messages,
streams, memory and its proofs; paging and whole processes; input and the window
manager; the console with its shell, formats, descriptions and the disk. Left:

1. Proofs: that tables, pages and maps have one place each (`EveryPageHasOnePlace`), from
   what each operator of `Paging` does to the places of a tree.
2. `Space` on two processors: the unlocked map that threads share, the table of
   libraries, the counts of streams. As one step per call it would say nothing, and
   with the steps of `page.c` it needs a smaller instance.
3. An abstract desktop (a stack of windows) that `Windows` implements up to `ghost`.
4. The list of tasks (`service.c:258`) with the tools that show it, and the allocator
   malloc of `sys.c`.

## 8. Not modelled

- `removed/`, which the build leaves out, and `library/lib_tar.c`, which nothing uses.
- Pixels: `rgl.c`, `font.c`, `image.c`, `color.c`, `math.c`, the drawing of elements in
  `interface.c`, transparent objects. There is no state between calls, and what they
  compute is seen on a screen, not stated by the code.
- Device set-up (descriptor tables, interrupt controllers, timers, ACPI, the serial line's
  registers) and the start of the other processors, which share one boot stack until
  their first switch: `KernelEntry` stands for it, and `StackExclusive` leaves it out.
  Exceptions other than the stack's end in a halt.
- ELF files: relocation and linking are data; a library that needs another one.
- `kernel_stream_out_value`, whose output is a finding; `kernel_service_task`; getters;
  malloc; system calls through `int 0x40` (section 1).
- The tools `ps`, `free`, `cat` and `uptime`, which print what they read once; the colours
  and the title of the console.
- The contents of files, pages and messages are abstract values everywhere.
