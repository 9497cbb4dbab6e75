\* Faults, cycles and shutdown under fair scheduling; three sessions inject, clear and
\* inject again, with or without a cycle in between.
SPECIFICATION FairSpec
CONSTANTS
  g1 = g1
  g2 = g2
  f1 = f1
  f2 = f2
  p1 = p1
  p2 = p2
  n1 = n1
  c1 = c1
  c2 = c2
  c3 = c3
  NoSnapshot = NoSnapshot
  CpuCount = 1
  GpuTempNoise <- Quiet
  GpuPowerNoise <- Quiet
  NvmeTempNoise <- Quiet
  Gpus = {g1}
  Fans = {f1}
  Psus = {}
  Nvmes = {}
  Baseline <- HotGpu
  Sessions = {c1, c2, c3}
  Budget = 6900
PROPERTIES
  FaultReported
  OverTempCooled
  StopCompletes
