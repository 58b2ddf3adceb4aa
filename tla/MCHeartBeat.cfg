CONSTANTS
  o1 = o1
  o2 = o2
  o3 = o3
  Objects = {o1, o2, o3}
  HasBeat = {o1, o2}
  Intervals <- MCIntervals
  ShortHalf = 4
  MaxOps = 4
  NoObject = NoObject
SPECIFICATION FairSpec
INVARIANTS
  TypeOK
  ListMatchesFlags
  WalkInBounds
  WalkOwesExactlyPending
  NobodyMissed
PROPERTIES
  BeatsOnTime
  EveryoneKeepsBeating
