\* The coordination ref is deleted and created again..
SPECIFICATION Spec
CONSTANTS
  Worker = {w1, w2}
  Commit = {c0, c1, c2}
  Root = c0
  NoCommit = NoCommit
  Ref = {coordination, witness}
  Coordination = coordination
  Witness = witness
  Deletable = {coordination}
  Plan = {p1}
  MaxInflight = 0
VIEW FenceView
SYMMETRY Symmetry
INVARIANT NoResurrection
