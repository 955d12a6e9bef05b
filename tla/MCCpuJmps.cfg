\* Jumps through the stack with every condition.
SPECIFICATION MachineSpec
CONSTANTS
  RomAddr <- MCRomAddr
  RamAddr <- MCRamAddr
  UartAddr = 16384
  Image <- MCImage
  RamFill = {0}
  Junk <- MCJunk
  UartByte = {}
  RxCapacity = 2
  DebugFlag = {FALSE}
  Program = {}
PROPERTIES
  JmpsIsUnconditional
