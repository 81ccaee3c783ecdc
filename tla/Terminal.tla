------------------------------- MODULE Terminal ------------------------------
(***************************************************************************)
(* What a session at a terminal uses: a stream, by the calls of the kernel *)
(* (Stream); a console that shows what a shell and its programs print into *)
(* one (Console); how a program formats what it prints (Format); how one   *)
(* that asks for a window, as the console does first, reads its            *)
(* description (Interface); and the disk that programs and their files are *)
(* read from (Vfs).  One of them is looked at at a time, the others rest.  *)
(***************************************************************************)
EXTENDS Stream, Console, Format, Interface, Vfs

VARIABLE scene          \* which of them

ConsoleRests ==
  /\ typist = NoTypist /\ term = NewTerminal /\ feed = NoFeed
  /\ mail = [i \in 1 .. MailLimit |-> NoMail]
  /\ console = [pc |-> "ended"] /\ shell = NewShell /\ job = [j \in Jobs |-> -1]

FormatRests ==
  format = [to |-> "none", parts |-> <<>>, i |-> 1, out |-> <<>>, string |-> <<>>, args |-> <<>>]

InterfaceRests == ui = [pc |-> "rest"]
DiskRests      == disk = [pc |-> "rest", asked |-> <<>>]

TerminalInit ==
  /\ Init
  /\ \/ /\ scene = "stream"
        /\ ConsoleRests /\ FormatRests /\ InterfaceRests /\ DiskRests
     \/ /\ scene = "console" /\ ConsoleInit
        /\ FormatRests /\ InterfaceRests /\ DiskRests
     \/ /\ scene = "format" /\ FormatInit
        /\ ConsoleRests /\ InterfaceRests /\ DiskRests
     \/ /\ scene = "interface" /\ InterfaceInit
        /\ ConsoleRests /\ FormatRests /\ DiskRests
     \/ /\ scene = "disk" /\ VfsInit
        /\ ConsoleRests /\ FormatRests /\ InterfaceRests

TerminalNext ==
  /\ \/ /\ scene = "stream" /\ Next
        /\ UNCHANGED <<consoleVars, formatVars, uiVars, vfsVars>>
     \/ /\ scene = "console" /\ ConsoleNext
        /\ UNCHANGED <<vars, formatVars, uiVars, vfsVars>>
     \/ /\ scene = "format" /\ FormatNext
        /\ UNCHANGED <<vars, consoleVars, uiVars, vfsVars>>
     \/ /\ scene = "interface" /\ InterfaceNext
        /\ UNCHANGED <<vars, consoleVars, formatVars, vfsVars>>
     \/ /\ scene = "disk" /\ VfsNext
        /\ UNCHANGED <<vars, consoleVars, formatVars, uiVars>>
  /\ UNCHANGED scene

TerminalVars == <<vars, consoleVars, formatVars, uiVars, vfsVars, scene>>
TerminalSpec == TerminalInit /\ [][TerminalNext]_TerminalVars /\ ConsoleGoesRound
=============================================================================
