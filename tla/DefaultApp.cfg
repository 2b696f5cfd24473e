\* default_app_go with defaultExtension and httpExtension; NewApp may fail,
\* and the endpoint signals start. Beside it close_app_go, whose NewApp may
\* fail too and whose 5 s sleep outlasts the app's start.
CONSTANTS
    d = d
    h = h
    k1 = k1
    k2 = k2
    Exts <- MCExts
    Kind <- MCKind
    ClientCmds <- MCClientCmds
    Dest <- MCDest
    NewAppMayFail = TRUE
    EndpointSignalsStart = TRUE
    CloseAfterRunStarts = TRUE
    CNewAppMayFail = TRUE

SPECIFICATION MCSpec

INVARIANTS
    TypeOK
    ExitAfterCleanDeinit

PROPERTIES
    ExtLifecycleRefined
    CloseAppExits
    ProcessEnds
