\* Three admin connections, two of which may compete for the snapshot.
SPECIFICATION RSFairSpec
CONSTANT Clients = {a1, a2, a3}
CHECK_DEADLOCK FALSE
INVARIANTS RSTypeOK StoreClosesCleanly
PROPERTIES NoneBeginsAfterStop ShutdownCompletes
