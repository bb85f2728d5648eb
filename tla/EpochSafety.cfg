\* Three leases of one effect, two owners whose clocks may be one apart.
SPECIFICATION Spec
CONSTANTS
  Lease = {l1, l2, l3}
  NoLease = NoLease
  Owner = {a, b}
  Effect = {x}
  Ttl = {1}
  MaxSkew = 1
  MaxClock = 2
  MaxChecks = 2
SYMMETRY Symmetry
INVARIANTS HandoverOrder HandoverInTime MutualView SoleOwner
