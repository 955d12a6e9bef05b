\* 32-bit divisions go through 32 turns of some thirty instructions each.
SPECIFICATION RuntimeSpec
CONSTANTS
  RomAddr <- MCRomAddr
  RamAddr <- MCRamAddr
  UartAddr = 16384
  Image = {}
  RamFill = {0}
  Junk = {0}
  UartByte = {}
  RxCapacity = 2
  DebugFlag = {FALSE}
  Program = {}
  Task <- MCTask
INVARIANTS
  ResultIsC
  CallerUntouched
PROPERTIES
  CallReturns
