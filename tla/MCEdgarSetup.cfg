SPECIFICATION MCSpec
CONSTANTS
    Setups <- MCSetups
    NoSetup = NoSetup
    Absent = Absent
    Partial = Partial
    MaxInterruptions = 2
INVARIANTS InstalledAsRequested SecretStaysPrivate
PROPERTIES DryRunChangesNothing RetriesSucceed
