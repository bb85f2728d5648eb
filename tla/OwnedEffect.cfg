\* One owner, one lease: is it still the owner when the rerun is requested?
\* (clocks agree)
SPECIFICATION Spec
CONSTANTS
  Lease = {l1, l2}
  NoLease = NoLease
  Owner = {a, b}
  Effect = {x}
  Ttl = {1}
  MaxSkew = 0
  MaxClock = 2
  MaxChecks = 2
PROPERTY EffectWhileOwned
