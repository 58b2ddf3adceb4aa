CONSTANTS
  a = a
  b = b
  x = x
  y = y
  Objects = {a, b}
  Ips = {x, y}
  Master = Master
  None = None
  ExecDying = FALSE
  MaxDepth = 2
SPECIFICATION Spec
INVARIANT
  ConnectionsBelong
