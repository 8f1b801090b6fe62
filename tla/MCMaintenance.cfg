CONSTANT MigrationScript = TRUE
SPECIFICATION HookSpec
INVARIANTS MaintenanceInv OfflineButForWatchdog NothingLeftStopped HookInv EngineFiltered
PROPERTIES ServicesComeBack ServicesAsBefore FilterComesBack ReloadEndsWatchdog
