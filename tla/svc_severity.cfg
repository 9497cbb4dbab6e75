\* A GPU that is warm first and injected later, against thermal-policy.md line 42.
SPECIFICATION Spec
CONSTANTS
  g1 = g1
  g2 = g2
  f1 = f1
  f2 = f2
  p1 = p1
  p2 = p2
  n1 = n1
  c1 = c1
  c2 = c2
  c3 = c3
  NoSnapshot = NoSnapshot
  CpuCount = 1
  GpuTempNoise <- Quiet
  GpuPowerNoise <- Quiet
  NvmeTempNoise <- Quiet
  Gpus = {g1}
  Fans = {f1}
  Psus = {p1}
  Nvmes = {n1}
  Baseline <- OneGpu
  Sessions = {c1}
  Budget = 6900
INVARIANTS
  CriticalAbove90
