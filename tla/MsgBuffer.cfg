\* Both loopback extensions; the video client waits for each answer.
CONSTANTS
    d1 = d1
    d2 = d2
    v1 = v1
    v2 = v2
    Nil = Nil
    DataCmds <- MCDataCmds
    VideoCmds <- MCVideoCmds
    VideoPipelined = FALSE

SPECIFICATION Spec

INVARIANTS
    TypeOK
    NoPanic
    PayloadIntact

PROPERTIES
    VideoCmdsAnswered
