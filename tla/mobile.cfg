SPECIFICATION Spec
CONSTANTS
  Chats = {a, b}
  Servers = {p, q}
  None = None
  Budget = 3
SYMMETRY Symm
INVARIANTS
  TypeOK
  SelectIsGivenBack
  OneDriver
  HoldIsBeaten
PROPERTIES
  SetupKeepsHold
  HolderKeepsDevice
CHECK_DEADLOCK FALSE
