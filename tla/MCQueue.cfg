CONSTANTS
  Size = 7
  Packets <- MCPackets
  MaxLen = 3
SPECIFICATION Spec
INVARIANTS
  TypeOK
  CursorsAgree
  WellFramed
  GetsFindsFrame
PROPERTIES
  PutsKeepsQueued
  ImplementsPacketFifo
