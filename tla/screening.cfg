SPECIFICATION Spec
CONSTANTS
  Candidates = {1}
  MandatoryReads = {"get_orders"}
  OptionalReads = {"get_run_summary"}
  MAX_TURNS = 2
  MAX_TOOL_CALLS = 2
  MaxBatch = 1
  Actors = {"worker", "operator"}
  AdvisoryReads = {"get_orders", "get_news"}
  ADVISORY_MAX_TURNS = 3
  MaxCycles = 2
  MaxCrashes = 1
INVARIANTS ScreeningTypeOK EvidenceBeforeVerdict AuditFollowsCalls
  CompletedReadEverything OpenReviewsWereInterrupted OpenAdvisoryIsUnderWay
PROPERTIES ClosedReviewIsFinal AdvisoryIsFinal SubmitsWhatWasAllowed
CHECK_DEADLOCK FALSE
