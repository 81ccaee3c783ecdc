------------------------------- MODULE Console -------------------------------
(***************************************************************************)
(* The console and the shell: software/console.c with the terminal it      *)
(* draws on (library/shared/terminal.c), software/shell.c, and the         *)
(* programs that the shell executes.  They share a stream, into which the  *)
(* shell and its programs print and which the console shows, and the table *)
(* of messages, through which keys go from the console to the shell and    *)
(* from it to the program it waits for.                                    *)
(*                                                                         *)
(* A call of the kernel is a step, and so is what a process prints between *)
(* two of its other calls.  The stream never fills up (Stream has that),   *)
(* messages to the console and the shell do not expire (Ipc has that).     *)
(* Colours and the name of the window are left out.                        *)
(***************************************************************************)
EXTENDS LibString, FiniteSets

CONSTANTS
  Columns,      \* width_char + 1
  Lines,        \* height_char + 1
  Tab,          \* LIBRARY_TERMINAL_TAB_length
  CommandLimit, \* SHELL_COMMAND_limit
  MailLimit,    \* KERNEL_IPC_limit
  Jobs,         \* the programs that run at a time, as numbers
  Typists       \* bound: what is typed, and what programs print

ASSUME ConsoleAssumption ==
  /\ Columns \in Nat \ {0, 1} /\ Lines \in Nat \ {0} /\ Tab \in Nat \ {0}
  /\ CommandLimit \in Nat /\ MailLimit \in Nat \ {0}
  /\ Jobs \subseteq Nat /\ Jobs # {}

(* What a text does to the cursor of a program: it is hidden by a text     *)
(* only if it is shown, and the other way round.                           *)
Turns(token, before, after) ==
  CASE token = "hide" -> ~ before /\ after
    [] token = "show" -> before /\ ~ after
    [] token \notin {"hide", "show"} -> before = after

Keeps(text, before, after) ==
  \E hidden \in [0 .. Len(text) -> BOOLEAN] :
    /\ hidden[0] = before /\ hidden[Len(text)] = after
    /\ \A n \in 1 .. Len(text) : Turns(text[n], hidden[n - 1], hidden[n])

(* A key is no sequence, and the dollar is left to the prompt, so that the *)
(* properties know it.  A program hides the cursor once before it shows it *)
(* again, or ends: the shell enables it once (shell.c:123).                *)
Typed == STRING \ {"$", "hide", "show"}

ASSUME TypistAssumption ==
  /\ Typists \subseteq [keys : Seq(SUBSET Typed), script : Seq(Seq(STRING \ {"$"}))]
  /\ \A u \in Typists : \E hidden \in [0 .. Len(u.script) -> BOOLEAN] :
       /\ ~ hidden[0]
       /\ \A n \in 1 .. Len(u.script) : Keeps(u.script[n], hidden[n - 1], hidden[n])

VARIABLES
  typist,       \* keys, the keys still to be typed, each one of a set;
                \* script, the strings that a program prints
  term,         \* console_terminal and the characters on it
  feed,         \* the stream: what waits in it, its flag and metadata
  mail,         \* the table of messages
  console,      \* where the console is in its main loop
  shell,        \* where the shell is, and its data
  job           \* how many strings a program has printed; -1 if it is none

consoleVars == <<typist, term, feed, mail, console, shell, job>>

-----------------------------------------------------------------------------
(* The terminal.  Cells are numbered line by line; `on' are those whose    *)
(* first column of pixels is inverted, as the cursor does it.              *)
Grid == 0 .. Columns * Lines - 1
At(t) == t.y * Columns + t.x
Line(t) == {p \in Grid : p \div Columns = t.y}

CursorSwitch(t) == [t EXCEPT !.on = (@ \ {At(t)}) \union ({At(t)} \ @)]

CursorDisable(t) ==
  IF t.lock = 0 THEN CursorSwitch([t EXCEPT !.lock = 1]) ELSE [t EXCEPT !.lock = @ + 1]

(* Mutant: unlocked once more than it was locked. *)
CursorEnableAlways(t) ==
  IF t.lock = 1 THEN CursorSwitch([t EXCEPT !.lock = 0]) ELSE [t EXCEPT !.lock = @ - 1]

CursorEnable(t) ==
  CASE t.lock = 0 -> t
    [] t.lock = 1 -> CursorSwitch([t EXCEPT !.lock = 0])
    [] t.lock > 1 -> [t EXCEPT !.lock = @ - 1]

Cleared(t, cells) == [t EXCEPT !.cell = [p \in Grid |-> IF p \in cells THEN " " ELSE @[p]],
                               !.on = @ \ cells]

ScrollUp(t) ==
  Cleared([t EXCEPT !.cell = [p \in Grid |-> IF p + Columns \in Grid THEN @[p + Columns]
                                             ELSE @[p]],
                    !.on = {p \in Grid : p + Columns \in @}],
          Line(t))

(* lib_terminal_cursor_set: behind the last column follows the next line,  *)
(* and behind the last line everything moves up.                           *)
CursorSet(t) ==
  LET Wrapped  == IF t.x < Columns THEN t ELSE [t EXCEPT !.x = 0, !.y = @ + 1]
      Down(w)  == IF w.y < Lines THEN w ELSE ScrollUp([w EXCEPT !.y = @ - 1])
  IN Down(Wrapped)

Drain(t) ==
  CursorEnable([Cleared(CursorDisable(t), Grid) EXCEPT !.x = 0, !.y = 0])

(* Mutant: the cursor stays at the beginning of a line. *)
BackInLine(t) == IF t.x > 0 THEN [t EXCEPT !.x = @ - 1] ELSE t

Back(t) ==
  CASE t.x > 0 -> [t EXCEPT !.x = @ - 1]
    [] t.x = 0 /\ t.y > 0 -> [t EXCEPT !.x = Columns - 1, !.y = @ - 1]
    [] t.x = 0 /\ t.y = 0 -> t

(* A character that is drawn over another one is not told from it unless   *)
(* the cell is cleared before.                                             *)
Drawing(t, c) ==
  LET Over(u) == [u EXCEPT !.cell[At(u)] = IF c = " " THEN @ ELSE IF @ = " " THEN c ELSE "#",
                           !.x = @ + 1]
  IN Over(IF t.clean THEN Cleared(t, {At(t)}) ELSE t)

Controls == {"\n", "\r", "back", "\t"}

(* lib_terminal_char *)
Char(t, c) ==
  LET Went(u) == CASE c = "\n" -> [u EXCEPT !.x = 0, !.y = @ + 1]
                   [] c = "\r" -> [u EXCEPT !.x = 0]
                   [] c = "back" -> Back(u)
                   [] c = "\t" -> [u EXCEPT !.x = @ + Tab - (@ % Tab)]
                   [] c \notin Controls -> Drawing(u, c)
      Done(u) == IF c = "back" THEN Cleared(u, {At(u)}) ELSE u
  IN CursorEnable(Done(CursorSet(Went(CursorDisable(t)))))

(* What the console does with a sequence about the cursor. *)
Positions == {"home", "show", "hide", "push", "pop", "up", "down", "left", "right"}

Positioned(t, token) ==
  CASE token = "home"  -> CursorSet([t EXCEPT !.x = 0, !.y = 0])
    [] token = "show"  -> CursorEnable(t)
    [] token = "hide"  -> CursorDisable(t)
    [] token = "push"  -> [t EXCEPT !.kept = <<t.x, t.y>>]
    [] token = "pop"   -> CursorSet([t EXCEPT !.x = t.kept[1], !.y = t.kept[2]])
    [] token = "up"    -> CursorSet([t EXCEPT !.y = IF @ > 0 THEN @ - 1 ELSE @])
    [] token = "down"  -> CursorSet([t EXCEPT !.y = @ + 1])
    [] token = "left"  -> CursorSet([t EXCEPT !.x = IF @ > 0 THEN @ - 1 ELSE @])
    [] token = "right" -> CursorSet([t EXCEPT !.x = @ + 1])

Sequences == {"name", "clear", "clear line", "clean", "no clean"} \union Positions

(* What it does with a character or a sequence from the stream.  Whether a *)
(* prompt begins a line is kept for the properties.                        *)
Shown(t, token) ==
  CASE token = "name"       -> t
    [] token = "clear"      -> Drain(t)
    [] token = "clear line" -> Cleared(t, Line(t))
    [] token = "clean"      -> [t EXCEPT !.clean = TRUE]
    [] token = "no clean"   -> [t EXCEPT !.clean = FALSE]
    [] token \in Positions  -> Positioned(t, token)
    [] token = "$"          -> Char([t EXCEPT !.astray = IF t.x = 0 THEN @ ELSE TRUE], token)
    [] token \notin Sequences \union {"$"} -> Char(t, token)

ShownAll(t, text) ==
  LET after[n \in 0 .. Len(text)] == IF n = 0 THEN t ELSE Shown(after[n - 1], text[n])
  IN after[Len(text)]

-----------------------------------------------------------------------------
(* The stream and the table of messages: a message goes to the first free  *)
(* entry, and the first one for a process is received.                     *)
Say(text) == feed' = [feed EXCEPT !.text = @ \o text, !.undefined = TRUE]

NoMail == [to |-> "none", key |-> "none"]
Vacant(table) == {i \in 1 .. MailLimit : table[i] = NoMail}
For(to) == {i \in 1 .. MailLimit : mail[i].to = to}

Sent(table, to, key) == [table EXCEPT ![Min(Vacant(table))] = [to |-> to, key |-> key]]

(* What is received is sent on: the entry is free by then. *)
Forwarded(i, to) == Sent([mail EXCEPT ![i] = NoMail], to, mail[i].key)

-----------------------------------------------------------------------------
(* The console: whether the shell is there, a key for it, the stream.      *)
ConsoleMail ==
  /\ console.pc = "mail"
  /\ IF shell.pc = "ended"
     THEN console' = [console EXCEPT !.pc = "ended"] /\ UNCHANGED mail
     ELSE /\ console' = [console EXCEPT !.pc = "stream"]
          /\ mail' = IF For("console") = {} THEN mail
                     ELSE Forwarded(Min(For("console")), "shell")
  /\ UNCHANGED <<typist, term, feed, shell, job>>

ConsoleStream ==
  /\ console.pc = "stream"
  /\ IF feed.text = <<>>
     THEN console' = [console EXCEPT !.pc = "meta"] /\ UNCHANGED <<term, feed>>
     ELSE /\ console' = [console EXCEPT !.pc = "mail"]
          /\ term' = CursorEnable(ShownAll(CursorDisable(term), feed.text))
          /\ feed' = [feed EXCEPT !.text = <<>>]
  /\ UNCHANGED <<typist, mail, shell, job>>

(* Mutant: the metadata are replaced though something waits to be shown. *)
MetaAlways ==
  /\ console.pc = "meta"
  /\ console' = [console EXCEPT !.pc = "mail"]
  /\ feed' = [feed EXCEPT !.undefined = FALSE, !.x = term.x]
  /\ UNCHANGED <<typist, term, mail, shell, job>>

(* Mutant: the metadata are replaced, and remain undefined. *)
MetaUnmarked ==
  /\ console.pc = "meta"
  /\ console' = [console EXCEPT !.pc = "mail"]
  /\ feed' = [feed EXCEPT !.x = term.x]
  /\ UNCHANGED <<typist, term, mail, shell, job>>

(* The metadata are ignored by the kernel if the stream is not empty.      *)
ConsoleMeta ==
  /\ console.pc = "meta"
  /\ console' = [console EXCEPT !.pc = "mail"]
  /\ feed' = IF feed.text = <<>> THEN [feed EXCEPT !.undefined = FALSE, !.x = term.x]
             ELSE feed
  /\ UNCHANGED <<typist, term, mail, shell, job>>

-----------------------------------------------------------------------------
(* The shell.  A prompt waits for all that was printed to be shown.        *)
NewPrompt ==
  /\ shell.pc = "header"
  /\ Say(<<"name">>)
  /\ shell' = [shell EXCEPT !.pc = "meta", !.command = <<>>]
  /\ UNCHANGED <<typist, term, mail, console, job>>

(* kernel_stream_get: the metadata under the lock, the flag behind it. *)
Meta ==
  /\ shell.pc = "meta"
  /\ shell' = [shell EXCEPT !.pc = "flag", !.x = feed.x]
  /\ UNCHANGED <<typist, term, feed, mail, console, job>>

(* That the metadata were replaced in between is kept for the properties.  *)
Flag ==
  /\ shell.pc = "flag"
  /\ shell' = IF feed.undefined THEN [shell EXCEPT !.pc = "meta"]
              ELSE [shell EXCEPT !.pc = "prompt", !.torn = @ \/ shell.x # feed.x]
  /\ UNCHANGED <<typist, term, feed, mail, console, job>>

Prompt ==
  /\ shell.pc = "prompt"
  /\ Say(IF shell.x = 0 THEN <<"$", " ">> ELSE <<"\n", "$", " ">>)
  /\ shell' = [shell EXCEPT !.pc = "key"]
  /\ UNCHANGED <<typist, term, mail, console, job>>

(* Names are one character here. *)
ExitCommand == <<"q">>
ClearCommand == <<"l">>
ProgramCommand == <<"a">>

Idle == {j \in Jobs : job[j] = -1}

(* The command line without a final `&' is executed, if there is such a    *)
(* program and an entry for it.                                            *)
Execute(line, release) ==
  IF Word(line) = ProgramCommand /\ Idle # {}
  THEN /\ Say(<<"\n">>)
       /\ job' = [job EXCEPT ![Min(Idle)] = 0]
       /\ shell' = IF release THEN [shell EXCEPT !.pc = "header", !.mixed = TRUE]
                   ELSE [shell EXCEPT !.pc = "wait", !.fore = Min(Idle)]
  ELSE /\ Say(<<"\n", "'", "?">>)
       /\ shell' = [shell EXCEPT !.pc = "header"]
       /\ UNCHANGED job

Enter(line) ==
  \/ /\ line = <<>>
     /\ shell' = [shell EXCEPT !.pc = "header"]
     /\ UNCHANGED <<feed, job>>
  \/ /\ line # <<>> /\ Word(line) = ExitCommand
     /\ Say(<<"\n">>)
     /\ shell' = [shell EXCEPT !.pc = "ended"]
     /\ UNCHANGED job
  \/ /\ line # <<>> /\ Word(line) = ClearCommand
     /\ Say(<<"\n", "clear">>)
     /\ shell' = [shell EXCEPT !.pc = "header"]
     /\ UNCHANGED job
  \/ /\ line # <<>> /\ Word(line) \notin {ExitCommand, ClearCommand}
     /\ IF Last(line) = "&" THEN Execute(Front(line), TRUE) ELSE Execute(line, FALSE)

Backspace ==
  IF shell.command = <<>> THEN UNCHANGED <<shell, feed>>
  ELSE shell' = [shell EXCEPT !.command = Front(@)] /\ Say(<<"back">>)

Modifiers == {"alt", "alt up", "ctrl", "ctrl up"}

Modifier(key) ==
  shell' = CASE key = "alt"     -> [shell EXCEPT !.alt = TRUE]
             [] key = "alt up"  -> [shell EXCEPT !.alt = FALSE]
             [] key = "ctrl"    -> [shell EXCEPT !.ctrl = TRUE]
             [] key = "ctrl up" -> [shell EXCEPT !.ctrl = FALSE]

Break ==
  /\ shell' = [shell EXCEPT !.pc = "header"]
  /\ IF shell.command = <<>> THEN UNCHANGED feed ELSE Say(<<".">>)

Letter(key) ==
  IF Len(shell.command) = CommandLimit \/ shell.alt THEN UNCHANGED <<shell, feed>>
  ELSE shell' = [shell EXCEPT !.command = Append(@, key)] /\ Say(<<key>>)

Pressed(key) ==
  \/ key = "back" /\ Backspace /\ UNCHANGED job
  \/ key = "\n" /\ Enter(Trimmed(shell.command))
  \/ key \in Modifiers /\ Modifier(key) /\ UNCHANGED <<feed, job>>
  \/ key = "c" /\ shell.ctrl /\ Break /\ UNCHANGED job
  \/ /\ key \notin {"back", "\n"} \union Modifiers /\ ~ (key = "c" /\ shell.ctrl)
     /\ Letter(key) /\ UNCHANGED job

ShellKey ==
  /\ shell.pc = "key" /\ For("shell") # {}
  /\ mail' = [mail EXCEPT ![Min(For("shell"))] = NoMail]
  /\ Pressed(mail[Min(For("shell"))].key)
  /\ UNCHANGED <<typist, term, console>>

(* It waits for the end of the program, and sends its messages on. *)
Wait ==
  /\ shell.pc = "wait"
  /\ IF job[shell.fore] = -1
     THEN Say(<<"show">>) /\ shell' = [shell EXCEPT !.pc = "header"]
     ELSE shell' = [shell EXCEPT !.pc = "forward"] /\ UNCHANGED feed
  /\ UNCHANGED <<typist, term, mail, console, job>>

Forward ==
  /\ shell.pc = "forward"
  /\ shell' = [shell EXCEPT !.pc = "wait"]
  /\ mail' = IF For("shell") = {} THEN mail ELSE Forwarded(Min(For("shell")), "job")
  /\ UNCHANGED <<typist, term, feed, console, job>>

-----------------------------------------------------------------------------
(* Programs print, and end, when they are done or before.  They read their *)
(* messages, or these expire.                                              *)
JobSays(j) ==
  /\ job[j] >= 0 /\ job[j] < Len(typist.script)
  /\ Say(typist.script[job[j] + 1])
  /\ job' = [job EXCEPT ![j] = @ + 1]
  /\ UNCHANGED <<typist, term, mail, console, shell>>

JobEnds(j) ==
  /\ job[j] >= 0
  /\ job' = [job EXCEPT ![j] = -1]
  /\ UNCHANGED <<typist, term, feed, mail, console, shell>>

JobReads ==
  /\ \E i \in For("job") : mail' = [mail EXCEPT ![i] = NoMail]
  /\ UNCHANGED <<typist, term, feed, console, shell, job>>

(* wm_ipc_keyboard: a key goes to the console, whose window is active. *)
Type ==
  /\ typist.keys # <<>> /\ Vacant(mail) # {}
  /\ \E key \in Head(typist.keys) : mail' = Sent(mail, "console", key)
  /\ typist' = [typist EXCEPT !.keys = Tail(@)]
  /\ UNCHANGED <<term, feed, console, shell, job>>

-----------------------------------------------------------------------------
NewTerminal ==
  [cell |-> [p \in Grid |-> " "], on |-> {0}, x |-> 0, y |-> 0, lock |-> 0,
   kept |-> <<0, 0>>, clean |-> TRUE, astray |-> FALSE]

NoFeed   == [text |-> <<>>, undefined |-> FALSE, x |-> 0]
NewShell == [pc |-> "header", command |-> <<>>, alt |-> FALSE, ctrl |-> FALSE,
             x |-> 0, fore |-> Min(Jobs), mixed |-> FALSE, torn |-> FALSE]
NoTypist == [keys |-> <<>>, script |-> <<>>]

(* console_init, up to where the shell was executed. *)
ConsoleInit ==
  /\ typist \in Typists
  /\ term = NewTerminal
  /\ feed = NoFeed
  /\ mail = [i \in 1 .. MailLimit |-> NoMail]
  /\ console = [pc |-> "mail"]
  /\ shell = NewShell
  /\ job = [j \in Jobs |-> -1]

(* When the console has ended the collector closes its children. *)
Open == console.pc # "ended"

ConsoleNext ==
  /\ Open
  /\ \/ ConsoleMail \/ ConsoleStream \/ ConsoleMeta
     \/ NewPrompt \/ Meta \/ Flag \/ Prompt \/ ShellKey \/ Wait \/ Forward
     \/ \E j \in Jobs : JobSays(j) \/ JobEnds(j)
     \/ JobReads \/ Type

(* The console never waits, and the shell waits for a key or a program     *)
(* only: where it waits to be shown it goes round itself.                  *)
(* For each of these steps the condition says what weak fairness says.     *)
ConsoleGoesRound ==
  /\ []<>(Open => console.pc = "mail")
  /\ []<>(Open => console.pc = "stream")
  /\ \A at \in {"header", "meta", "flag", "prompt"} : []<>(Open => shell.pc # at)

ConsoleSpec == ConsoleInit /\ [][ConsoleNext]_consoleVars /\ ConsoleGoesRound

-----------------------------------------------------------------------------
(***************************************************************************)
(* Properties.  A program in the background prints when it likes, into the *)
(* command line too: the first three hold until one was started.           *)
(***************************************************************************)

(* The shell waits for a key, and all it and its programs printed is       *)
(* shown.                                                                  *)
AtPrompt == Open /\ shell.pc = "key" /\ feed.text = <<>> /\ ~ shell.mixed

(* What stands before the cursor is the prompt and the command as the      *)
(* shell has it, over the ends of lines and what scrolled, whatever was    *)
(* typed and erased (shell.c:50-158, terminal.c:42-149).                   *)
LineIsShown ==
  AtPrompt =>
    LET line == <<"$", " ">> \o shell.command IN
    \A k \in 1 .. Len(line) :
      At(term) - k \in Grid => term.cell[At(term) - k] = line[Len(line) - k + 1]

(* The cursor is shown, where it is and nowhere else, also when a program  *)
(* that hid it has ended on the way (shell.c:122: "enable cursor";         *)
(* terminal.c:109-126).                                                    *)
CursorComesBack == AtPrompt => term.lock = 0 /\ term.on = {At(term)}

(* A prompt begins a line, wherever the last program left the cursor: the  *)
(* metadata it is told by are no older than what was printed               *)
(* (shell.c:39-44, console.c:312-318), but for the one case that the       *)
(* console replaced them while the shell, which had copied the old ones,   *)
(* had not read the flag yet (stream.c:187-191).                           *)
PromptStartsLine == ~ shell.mixed /\ ~ shell.torn => ~ term.astray

(* What shell.c:43 says of a position at the beginning of a line, without  *)
(* that exception; it does not hold.                                       *)
PromptIsCurrent == ~ shell.mixed => ~ term.astray

(* The shell does not wait for ever for its output to be shown.            *)
(* (shell.c:41; console.c:81-319)                                          *)
PromptComes == shell.pc = "meta" ~> (shell.pc = "key" \/ ~ Open)
=============================================================================
