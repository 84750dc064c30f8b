SPECIFICATION FairSpec
CONSTANTS
  Ids = {"a", "b"}
  Callers = {c1}
  MaxObjects = 2
  RetryCount = 1
  Environments <- MCEnvironments
INVARIANTS TypeOK IOKeepsHandle ConnectedHasHandle RemovedIsClosed PanicOnlyWhenStopping
PROPERTY FailedIsRetried
CHECK_DEADLOCK FALSE
