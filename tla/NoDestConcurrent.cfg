\* no_dest_go with callbacks run on any context, as spec 4.4 allows.
\* A lost ext.counter++ leaves A in start for ever, so the behaviour may stop.
CONSTANT Serialized = FALSE

SPECIFICATION Spec

CHECK_DEADLOCK FALSE

PROPERTIES
    EventuallyStarted
