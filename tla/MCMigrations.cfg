SPECIFICATION MigrationsSpec
CONSTANTS
  MaxInterrupts = 2
  MaxDowngrades = 3
INVARIANTS MigrationsTypeOK DriftHasCause FailureAtomic
PROPERTY UpgradeArrives
