\* Nobody deletes a ref.
SPECIFICATION Spec
CONSTANTS
  Worker = {w1, w2}
  Commit = {c0, c1, c2, c3}
  Root = c0
  NoCommit = NoCommit
  Ref = {coordination}
  Coordination = coordination
  Witness = witness
  Deletable = {}
  Plan = {p1}
  MaxInflight = 1
VIEW View
SYMMETRY Symmetry
INVARIANTS SingleWinner NeverReturns WinnerIsAncestor
PROPERTIES StaleTokenStops ImplementsRegister
