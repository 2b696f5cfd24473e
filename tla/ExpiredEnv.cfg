\* expired_ten_go with the 3 s sleep outlasting the app close.
CONSTANTS
    SleepOutlastsClose = TRUE
    k1 = k1
    k2 = k2
    k3 = k3
    ClientCmds <- MCClientCmds

SPECIFICATION Spec

INVARIANTS
    TypeOK
    ClientGetsName

PROPERTIES
    EventuallyQuiescent
