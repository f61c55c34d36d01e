SPECIFICATION Spec
CONSTANTS
  v1 = v1
  v2 = v2
  v3 = v3
  f = f
  Nil = Nil
  MaxInt64 = 15
  None = None
  Nodes = {v1, v2, v3, f}
  Validators = {v1, v2, v3, f}
  PowerOf <- MCPowerOf
  Data = {x, y}
  Faulty = {f}
  Rounds = {0, 1}
SYMMETRY Symmetry
INVARIANTS
  Inv
  Agreement
