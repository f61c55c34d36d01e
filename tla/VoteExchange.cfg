SPECIFICATION Spec
CONSTANTS
  v1 = v1
  v2 = v2
  v3 = v3
  f = f
  x = x
  y = y
  Nil = Nil
  MaxInt64 = 15
  ValNum = 4
  None = None
  Nodes = {v1, v2, v3, f}
  Validators = {v1, v2, v3, f}
  PowerOf <- MCPowerOf
  Data = {x, y}
  Ballots <- MCBallots
  Honest = {v1, v2, v3}
INVARIANTS
  SumIsPower
  MajorityIsExact
  MajoritiesAgree
  FetchBringsEveryVoter
  FetchBringsHonestVotes
  HonestListsPass
PROPERTIES
  MajorityIsStable
