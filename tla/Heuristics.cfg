SPECIFICATION Spec
CONSTANTS
  x1 = x1
  x2 = x2
  x3 = x3
  l1 = l1
  l2 = l2
  y1 = y1
  t1 = t1
  t2 = t2
  r1 = r1
  r2 = r2
  Backfill = Backfill
  None = None
  Spans = {x1, x2, x3, l1, l2, y1}
  Trajs = {t1, t2}
  Requests = {r1, r2}
  TrajOf <- MCTrajOf
  Body <- MCBody
  Tools = {x1, x2, x3, y1}
  Llms = {l1, l2}
  Failed = {x1}
  Call <- MCCall
  Start <- MCStart
  Wordless = {}
  Apologetic = {l1}
  Doubtful = {l2}
  LoopThreshold = 3
  Slow <- MCSlow
INVARIANTS
  TypeOK
  NeverTorn
  HitsAreGrounded
  SeesItsBatch
PROPERTIES
  QuietEvaluationRepairs
  EveryTaskEnds
