CONSTANTS
  Alphabet <- TextAlphabet
  MaxLength = 10
  MaxDigits = 3
  Word = 256
SPECIFICATION ScanSpec
INVARIANTS
  AddressRead
  QuadsAccepted
  HexRead
CHECK_DEADLOCK FALSE
