SPECIFICATION BeforeSpec
CONSTANTS
\* JobEvidence: two failed jobs.
  Failed = {1, 2}
  MaxLines <- Lines
  LineKind = {"lost", "shutdown", "unavailable", "curl", "unresolved", "read_timeout", "killed", "assertion", "quoted"}
  Copies = 1
  Instant = {1, 8}
  Step <- Steps
  LastTry = 2
\* ExternalRoot: one execution among roots of two epochs, claims and
\* tombstones; the refs are anybody's.  A page holds one attestation fewer
\* than can be made.
  Commit = {c0, c1, c2}
  Root = c0
  NoCommit = NoCommit
  Ref = {}
  Plan = {p1}
  Executor = {x1}
  Epoch = {1, 2}
  MaxAttestations = 3
  MaxRoots = 4
\* Contract: two gates and one executor; what is issued at the first moment
\* has run out at the last one.
  Gate = {g1, g2}
  Boundary = {x1}
  Revision = {r1}
  Bundle = {b1}
  Term = 1
  Skew = 1
  LastNow = 2
\* ArtifactListing: one lookup; more artifacts than two pages hold.
  Reader = {"first"}
  ArtifactName = {"of the attempt", "other"}
  Wanted <- Taken
  PageSize = 2
  MaxPages = 2
  MaxUploads = 5
SYMMETRY Symmetry
INVARIANTS NoRival LatestRootOnly FloorHolds ClosedHistoryEnds AdmittedOnBasis AdmittedInTerm AcceptedIsReported AllowIsEvidenced SelectiveAgrees
CHECK_DEADLOCK FALSE
