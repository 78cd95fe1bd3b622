\* The relay is told to stop while listen() still looks up its host's name.
SPECIFICATION RSSpec
CONSTANT Clients = {a1}
CHECK_DEADLOCK FALSE
INVARIANT NothingListensBehindTheStore
