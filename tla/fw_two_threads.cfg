\* Two overlapping requests, against report_bmc_api.md line 577.
SPECIFICATION Spec
CONSTANTS
  r1 = r1
  r2 = r2
  r3 = r3
  None = None
  Requests = {r1, r2}
  Uris = {"good"}
INVARIANTS
  OneWorkflowAtATime
