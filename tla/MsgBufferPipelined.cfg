\* Both loopback extensions; the video client sends both commands at once.
CONSTANTS
    d1 = d1
    d2 = d2
    v1 = v1
    v2 = v2
    Nil = Nil
    DataCmds <- MCDataCmds
    VideoCmds <- MCVideoCmds
    VideoPipelined = TRUE

SPECIFICATION Spec

INVARIANTS
    NoPanic
