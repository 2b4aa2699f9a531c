CONSTANTS
    Objects <- MCObjects
    Schema <- MCSchema
    Migrations <- MCMigrations
    Ledger = "schema_migration"
    Found <- MCFound
    MaxFaults = 2
SPECIFICATION Spec
INVARIANTS
    TypeOK
    FailuresHealUntilRecorded
