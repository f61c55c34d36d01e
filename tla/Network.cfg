SPECIFICATION Spec
CONSTANTS
  None = None
  a = a
  b = b
  f = f
  o = o
  x = x
  y = y
  Nil = Nil
  MaxInt64 = 15
  ValNum = 21
  Data = {x, y}
  ValidData = {x, y}
  Nodes = {a, b, f, o}
  Validators = {a, b, f, o}
  PowerOf <- FirstProposerHeavy
  CommitteeAt <- MCCommitteeAt
  Proposer <- MCProposer
  DecidesProposal <- MCDecidesProposal
  SkipTimeoutCommit = FALSE
  watermark = 300
  Cores = {a, b}
  FaultyVotes <- SplitVotes
  FaultyCommits = {}
  MayReround = TRUE
  OwnFirst = TRUE
  MaxRound = 1
  MaxHeight = 1
  TheHeight = 1
INVARIANTS
  CommitsAreChosen
  CoresAgree
PROPERTIES
  ImplementsVoting
CHECK_DEADLOCK FALSE
