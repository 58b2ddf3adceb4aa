CONSTANTS
  a = a
  b = b
  c = c
  x = x
  y = y
  Objects = {a, b, c}
  Ips = {x, y}
  Master = Master
  None = None
  ExecDying = FALSE
  MaxDepth = 3
SPECIFICATION FairSpec
INVARIANTS
  TypeOK
  LinksAgree
  SnoopersSnoop
  ClosedByOneFrame

  
