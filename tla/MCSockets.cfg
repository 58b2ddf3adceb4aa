CONSTANTS
  a = a
  b = b
  x = x
  y = y
  Objects = {a, b}
  Modes = {"STREAM", "DATAGRAM"}
  Fds = {x, y}
  Grow = 1
  MaxSockets = 2
  MaxDepth = 2
  NoObject = NoObject
  NoFd = NoFd
SPECIFICATION Spec
SYMMETRY MCSymmetry
INVARIANTS
  TypeOK
  FdsMatchSlots
  WritesArePolled
  ReleasesAreHandshakes
