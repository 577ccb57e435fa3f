\* Three invocations of either program, any of which may fail or be killed: all at
\* the same time, or two of them before or after the third.
CONSTANTS
  Process = {i1, i2, i3}
  NoFile = NoFile
  Empty = Empty
SPECIFICATION Spec
INVARIANTS
  KeysAgree
PROPERTIES
  NeverWrittenOver
  SuccessIsKept
CHECK_DEADLOCK FALSE
