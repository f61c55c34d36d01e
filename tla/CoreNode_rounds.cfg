SPECIFICATION FairSpec
CONSTANTS
  s = s
  p = p
  q = q
  o = o
  x = x
  y = y
  Nil = Nil
  MaxInt64 = 15
  ValNum = 21
  None = None
  Data = {x, y}
  ValidData = {x, y}
  Nodes <- MCNodes
  Validators <- MCNodes
  CommitteeAt <- FixedCommittee
  PowerOf <- MCPowerOf
  Proposer <- MCProposer
  DecidesProposal <- MCDecidesProposal
  SkipTimeoutCommit = FALSE
  watermark = 1
  Selves = {s}
  EnvVotes <- OneHeightVotes
  EnvCommits = {}
  EnvRsps = {}
  EnvReqs = {}
  MaxTocks = 1
  MaxRestarts = 0
  MaxSkipped = 0
  CommitMayFail = FALSE
  MayDrop = FALSE
INVARIANTS
  TypeOK
  NoPanic
  TrackedRounds
  PolkaNotAhead
  NoEquivocation
  PrecommitJustified
  LockRule
  LockJustified
  WakeUp
PROPERTIES
  NeverBack
  StepEnds
