\* value.go under concurrent resolve, pinned C calls, unref and the collector.
CONSTANTS
    v1 = v1
    v2 = v2
    g1 = g1
    g2 = g2
    NoObj = NoObj
    Values <- MCValues
    Goroutines <- MCGoroutines

SPECIFICATION Spec

INVARIANTS
    TypeOK
    NoUseAfterFinalize
    FinalizedOnceAfterUnref

PROPERTIES
    ValuesEventuallyFinalized
