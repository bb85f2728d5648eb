SPECIFICATION AfterSpec
CONSTANTS
\* FlakyHistory: two runs, of one revision or of two, each run again once
\* (MCAfter: all revisions name their artifacts after attempts, or none does).
  LastSha = 2
  Manifest <- Entries
  CleanShas = 1
  HistoryRuns = 2
  LastCi = 2
  LastAttempt = 2
  MaxReports = 2
  LastSecond = 1
\* FlakyIssues: two analyses of one test.
  Analyst = {a1, a2}
  Test = {"t"}
  Verdict = {"RELEASED_HEALTHY", "INVESTIGATE", "DO_NOT_QUARANTINE"}
  MaxChanges = 1
  Page = 1
  LastIssue = 2
  LastComment = 3
  LastAnalysis = 2
\* SelectiveRerun: one execution, three attempts of which the policy allows two.
  Executor = {e1}
  LastRun = 3
  MaxFails = 2
  MaxTries = 2
\* RetryPolicy
  MaxSteps = 2
\* OutcomeRecord: two names, two jobs before and two after.
  Name = {n1, n2}
  MaxPrevious = 2
  MaxCurrent = 2
\* RerunHistory: three runs and a fourth attempt, or fewer runs and more
\* attempts; one request for jobs fails.
  PastJob = {"a", "b"}
  Kinds <- JobEndings
  Learnable = {"a"}
  MinSamples = 1
  MaxCandidates = 1
  MaxUnread = 1
  LastPast = 3
  LastTick = 4
INVARIANTS ClaimsHaveWitnesses RecoveriesAreReal ActiveIsEarned ReleasedIsHealthy ShadowLooksBack IssuesUnique CommentUnique SettledAsSeen OneRerunPerEpoch RecoveryIsRerun BacktestIsEarned
PROPERTY OnlyMissingStepProves
CHECK_DEADLOCK FALSE
