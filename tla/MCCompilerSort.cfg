SPECIFICATION CompilerSpec
CONSTANTS
  RomAddr <- MCRomAddr
  RamAddr <- MCRamAddr
  UartAddr = 16384
  Image = {}
  RamFill = {0}
  Junk = {0}
  UartByte = {}
  RxCapacity = 2
  DebugFlag = {FALSE}
  Program = {}
  spill_mask_size = 16
  Unit <- MCSorting
INVARIANTS
  IncreasingOrder
CHECK_DEADLOCK FALSE
