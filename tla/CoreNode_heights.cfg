SPECIFICATION Spec
CONSTANTS
  s = s
  p = p
  q = q
  o = o
  x = x
  y = y
  Nil = Nil
  MaxInt64 = 15
  ValNum = 21
  None = None
  Data = {x, y}
  ValidData = {x, y}
  Nodes <- MCNodes
  Validators <- MCNodes
  CommitteeAt <- ChangingCommittee
  PowerOf <- MCPowerOf
  Proposer <- MCProposer
  DecidesProposal <- MCDecidesProposal
  SkipTimeoutCommit = TRUE
  watermark = 300
  Selves = {s, q, o}
  EnvVotes <- TwoHeightVotes
  EnvCommits <- TwoHeightCommits
  EnvRsps <- TwoHeightRsps
  EnvReqs = {}
  MaxTocks = 1
  MaxRestarts = 0
  MaxSkipped = 0
  CommitMayFail = FALSE
  MayDrop = TRUE
INVARIANTS
  NoPanic
  WakeUp
  LastCommitIsEvidence
  CommitsAreFinal
  AnswersAreEvidence
