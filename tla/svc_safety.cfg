\* Three sessions disturb the control loop at any point of a cycle; one GPU, whose
\* budget an injected fault exceeds once the fans run fast: the cap comes and goes.
SPECIFICATION Spec
CONSTANTS
  g1 = g1
  g2 = g2
  f1 = f1
  f2 = f2
  p1 = p1
  p2 = p2
  n1 = n1
  c1 = c1
  c2 = c2
  c3 = c3
  NoSnapshot = NoSnapshot
  CpuCount = 1
  GpuTempNoise <- Warming
  GpuPowerNoise <- Quiet
  NvmeTempNoise <- Quiet
  Gpus = {g1}
  Fans = {f1}
  Psus = {p1}
  Nvmes = {n1}
  Baseline <- OneGpu
  Sessions = {c1, c2, c3}
  Budget = 3640
SYMMETRY SessionSymmetry
INVARIANTS
  HardwareConsistent
  NoSpuriousReport
  IdleMeansSettled
  WakeupNotLost
  CapMatchesTelemetry
