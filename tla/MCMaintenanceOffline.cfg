CONSTANT MigrationScript = FALSE
SPECIFICATION Spec
INVARIANT Offline
