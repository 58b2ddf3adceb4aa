CONSTANTS
  a = a
  b = b
  f = f
  closure = closure
  Objects = {a, b}
  Functions = {f, closure}
  FunctionPointer = closure
  Delays <- MCDelays
  CycleSize = 2
  IntHalf = 2
  MaxCalls = 3
  Horizon = 4
  MaxLag = 2
  NoCall = NoCall
SPECIFICATION FairSpec
INVARIANTS
  TypeOK
  WheelKeepsTime
  HandlesFarApart
PROPERTIES
  KeepsPromise
  EveryCallLeaves
