\* Clients that wait for every answer: sessions follow one another, workers and
\* the destructor still run concurrently with them.
SPECIFICATION SerialSpec
CONSTANTS
  r1 = r1
  r2 = r2
  r3 = r3
  None = None
  Requests = {r1, r2, r3}
  Uris = {"good", "bad", "install-fail", ""}
SYMMETRY RequestSymmetry
INVARIANTS
  NeverAborts
  WorkflowsNotInterleaved
