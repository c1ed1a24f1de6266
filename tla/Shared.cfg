SPECIFICATION MCSpec
CONSTANTS
  Procs = {p1, p2, p3}
  None = None
  CanRemoveOpenFile = FALSE
  Jobs = {a, b}
  Phones = {phone}
  Emulator = avd
  NoDevice = NoDevice
  Serials = {phone}
  Discover = TRUE
  BootEmulator = TRUE
  AdbFails = TRUE
  KillAfterJob = TRUE
  GradleSlots = 1
  MaxUses = 2
INVARIANTS
  LeasesAreExclusive
PROPERTIES
  PhasesRun
  OrphanNeverBlocks
  OneAfterTheOther
