SPECIFICATION CompilerSpec
CONSTANTS
  RomAddr <- MCRomAddr
  RamAddr <- MCRamAddr
  UartAddr = 16384
  Image = {}
  RamFill = {0}
  Junk = {0}
  UartByte = {}
  RxCapacity = 2
  DebugFlag = {FALSE}
  Program = {}
  spill_mask_size = 16
  Unit <- MCUnit
INVARIANTS
  MeansC
  OperandsInPlace
  StackCounted
  FrameHoldsSlots
  JumpsLand
  TextUntouched
PROPERTIES
  Terminates
CHECK_DEADLOCK FALSE
