SPECIFICATION FairSpec
CONSTANTS
  None = None
  a = a
  b = b
  f = f
  o = o
  x = x
  y = y
  Nil = Nil
  MaxInt64 = 15
  ValNum = 21
  Data = {x, y}
  ValidData = {x, y}
  Nodes = {a, b, f, o}
  Validators = {a, b, f, o}
  PowerOf <- MCPowerOf
  CommitteeAt <- MCCommitteeAt
  Proposer <- MCProposer
  DecidesProposal <- MCDecidesProposal
  SkipTimeoutCommit = FALSE
  watermark = 300
  Cores = {a, b}
  FaultyVotes <- EarlyCommit
  FaultyCommits <- UnsignedCommits
  MayReround = FALSE
  OwnFirst = TRUE
  MaxRound = 1
  MaxHeight = 2
  TheHeight = 1
PROPERTIES
  CatchUp
CHECK_DEADLOCK FALSE
