SPECIFICATION Spec
CONSTANTS
  Scripts <- MCScripts
  NumRuns = 2
  MaxAttach = 1
  MaxDump = 1
  MaxMishaps = 1
INVARIANT TypeOK
INVARIANT TraceSurvivesCleanup
INVARIANT RetxFromSender
INVARIANT OneFreshSamplePerRun
INVARIANT LocalNeverStale
PROPERTY InvocationEnds
