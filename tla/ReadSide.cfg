SPECIFICATION Spec

CONSTANTS
  A = A
  B = B
  None = None
  NoRun = NoRun
  Runs <- MCRuns
  Agents = {A, B}
  Names = {"alpha", "beta", "gamma"}
  Envs = {"prod", "dev"}
  Labels = {1, 2}
  Prompts = {"p"}
  Batches <- MCBatches
  Asked = {A}
  Touched = {2, 5}
  Calls <- MCCalls
  Findings <- MCFindings
  Outcomes <- MCOutcomes
  Histories <- MCHistories
  Filters <- MCFilters
  Ages <- MCAges
  Tags <- MCTags
  Step = 2
  Hour = 4
  Bars = 2
  Limit = 2
  Page = 2
  MinSample = 2
  Log2 <- MCLog2
  Decay <- MCDecay
  Start = 19
  MaxNow = 20
  MaxWrites = 2

INVARIANTS
  FiguresAgree
  PagingMissesNothing

CHECK_DEADLOCK FALSE
