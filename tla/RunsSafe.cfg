\* One run of any scenario; requests come in any order.
CONSTANTS
  Runs = {r1}
  TTL = 1
  MaxTime = 3
  MaxVersion = 3
  MaxEvents = 12
SPECIFICATION Spec
INVARIANTS
  TypeOK
  CallsAreAuthorized
  DriftStopsExecution
  ExecutesOnce
  VerifiedIsReal
  LedgerFollowsState
PROPERTIES
  EndedRunsStay
  RunsKeepThePromise
\* the clock and the ledger are bounded
CHECK_DEADLOCK FALSE
