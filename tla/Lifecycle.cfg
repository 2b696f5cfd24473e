\* two_exaxission_one_group_cmd_go under the native lifecycle driver.
CONSTANTS
    k1 = k1
    k2 = k2
    ClientCmds <- MCClientCmds

SPECIFICATION Spec

INVARIANTS
    TypeOK
    NoPanic

PROPERTIES
    LifecycleRefined
