SPECIFICATION TerminalSpec
CONSTANTS
  Task = {program, console}
  Byte = {a, b}
  Size = 3
  a = a
  b = b
  Strings <- MCStrings
  MetaData = {m}
  None = None
  Columns = 4
  Lines = 2
  Tab = 2
  CommandLimit = 4
  MailLimit = 3
  Jobs <- MCJobs
  Typists <- MCTypists
  Calls <- MCCalls
  Descriptions <- MCDescriptions
  Page = 4
  EntrySize = 2
  WordSize = 2
  NameLimit = 2
  Base = 100
  Directories <- MCDirectories
  Names <- MCNames
INVARIANTS
  MarkersAgree
  DefinedMeansShown
  LineIsShown
  CursorComesBack
  PromptStartsLine
  FormatsAsAsked
  InterfaceIsAsDescribed
  FilesAreRead
PROPERTIES
  BytesFlow
  PromptComes
CHECK_DEADLOCK FALSE
