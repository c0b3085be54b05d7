SPECIFICATION Spec
CONSTANTS
  a1 = a1
  a2 = a2
  a3 = a3
  b1 = b1
  b2 = b2
  t1 = t1
  t2 = t2
  r1 = r1
  r2 = r2
  r3 = r3
  r4 = r4
  n1 = n1
  n2 = n2
  None = None
  NoRow = NoRow
  Names = {n1, n2}
  Spans = {a1, a2, a3, b1, b2}
  Trajs = {t1, t2}
  TrajOf <- MCTrajOf
  Start <- MCStart
  End <- MCEnd
  Name <- MCName
  Requests = {r1, r2, r3, r4}
  Body <- RetriedBody
  MaxConcurrent = 3
INVARIANTS
  TypeOK
  WritersExclude
  NeverOvercounts
  WindowAttained
  NoOrphans
  AckedIsStored
PROPERTIES
  AllOrNothing
  SoloCommitHeals
  EveryRequestAnswered
