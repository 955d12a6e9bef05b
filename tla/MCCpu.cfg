\* Every pair of blocks as a program, and as images every block on its own, jumps
\* through the stack with every condition and what no assembler emits; with and
\* without -d. One byte value can be typed at any time, two bytes fit the UART buffer.
SPECIFICATION MachineSpec
CONSTANTS
  RomAddr <- MCRomAddr
  RamAddr <- MCRamAddr
  UartAddr = 16384
  Image <- MCImage
  RamFill = {165}
  Junk <- MCJunk
  UartByte = {7}
  RxCapacity = 2
  DebugFlag = {TRUE, FALSE}
  Program <- Programs
INVARIANTS
  TypeOK
  WordsRestored
  InSync
PROPERTIES
  ComparisonsOrder
  ComputesAsChips
  ReturnsHome
