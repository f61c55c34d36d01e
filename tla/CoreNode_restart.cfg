SPECIFICATION Spec
CONSTANTS
  s = s
  p = p
  q = q
  o = o
  x = x
  y = y
  Nil = Nil
  MaxInt64 = 15
  ValNum = 21
  None = None
  Data = {x, y}
  ValidData = {x, y}
  Nodes <- MCNodes
  Validators <- MCNodes
  CommitteeAt <- FixedCommittee
  PowerOf <- MCPowerOf
  Proposer <- MCProposer
  DecidesProposal <- MCDecidesProposal
  SkipTimeoutCommit = FALSE
  watermark = 300
  Selves = {s}
  EnvVotes <- RestartVotes
  EnvCommits <- RestartCommits
  EnvRsps = {}
  EnvReqs <- NegativeRound
  MaxTocks = 2
  MaxRestarts = 1
  MaxSkipped = 1
  CommitMayFail = TRUE
  MayDrop = FALSE
INVARIANTS
  NoPanic
  InStepWithApp
  WakeUp
  LastCommitIsEvidence
PROPERTIES
  NeverBack
CHECK_DEADLOCK FALSE
