SPECIFICATION Spec
CONSTANTS
  d1 = d1
  d2 = d2
  e1 = e1
  e2 = e2
  f1 = f1
  f2 = f2
  n1 = n1
  n2 = n2
  n3 = n3
  None = None
  Clear = Clear
  NoRow = NoRow
  Deliveries = {d1, d2}
  Edits = {e1, e2}
  Feedbacks = {f1, f2}
  MaxAttempts = 2
  Tags = {"good", "bad", "odd"}
  AllowedTags = {"good", "bad"}
  Notes = {n1, n2, n3}
  Mark <- MCMark
  Patch <- MCPatch
  Thumb <- MCThumb
  Foreign = {f2}
INVARIANTS
  TypeOK
  SignalsHaveSources
  NeverOvercounts
  AckedThumbShows
PROPERTIES
  UntouchedColumnsKept
