\* no_dest_go with callbacks serialised on the extension's thread.
CONSTANT Serialized = TRUE

SPECIFICATION Spec

INVARIANTS
    TypeOK
    StartDoneOnceAfterAll

PROPERTIES
    EventuallyStarted
