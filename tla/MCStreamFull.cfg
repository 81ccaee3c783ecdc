SPECIFICATION Spec
CONSTANTS
  Task = {program, console}
  Byte = {a, b}
  Size = 3
  a = a
  b = b
  Strings <- MCStrings
  MetaData = {m, n}
  None = None
PROPERTIES
  MetaOnlyWhenEmpty
