SPECIFICATION Spec
CONSTANTS
  Sources <- MCSources
  CharsOf <- MCChars
  NumberOf <- MCNumbers
  NoSection = NoSection
  Nul = Nul
INVARIANTS ImageIsMicrocode
