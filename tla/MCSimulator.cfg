\* A buffer of four elements of which the arena holds two, and input without end: it wraps around,
\* overflows and leaves the arena.
SPECIFICATION Spec
CONSTANTS
  Capacity = 4
  IntBytes = 2
  Byte = {0, 1}
  Clobbered = Clobbered
  Remembered = 5
INVARIANTS
  TypeOK
  MutualExclusion
  CbIndicesAgree
  BufferIsNewestInput
  TerminalRestored
PROPERTIES
  ChannelSpec
  HaltEndsProcess
  ReadReturns
