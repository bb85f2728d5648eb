\* One claimant alone; an answer gets lost.
SPECIFICATION Spec
CONSTANTS
  Worker = {w1}
  Commit = {c0, c1}
  Root = c0
  NoCommit = NoCommit
  Ref = {coordination}
  Coordination = coordination
  Witness = witness
  Deletable = {}
  Plan = {p1}
  MaxInflight = 1

PROPERTY LossIsReal
