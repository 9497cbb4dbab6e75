\* Two sessions race in startUpdate(), with each other, the worker and the
\* destructor, under fair scheduling.
SPECIFICATION FairSpec
CONSTANTS
  r1 = r1
  r2 = r2
  r3 = r3
  None = None
  Requests = {r1, r2}
  Uris = {"bad", ""}
INVARIANTS
  WorkerOwned
  BusyNotLeaked
  SubscribersUpToDate
PROPERTIES
  EveryRequestAnswered
  ShutdownCompletes
