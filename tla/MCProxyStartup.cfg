SPECIFICATION Spec
CONSTANTS
  Procs = {p1, p2, p3}
  Providers = {copilot}
  Ports = {a, b}
  MaxAlive = 2
  MaxSaves = 1
  None = None
SYMMETRY Symmetry
CHECK_DEADLOCK FALSE
INVARIANT ProvidersKept
INVARIANT BackupIsOriginal
INVARIANT KeyAgreement
PROPERTY KeyPersists
