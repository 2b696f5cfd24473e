\* three_extension_cmd_go relay with two concurrent client commands, and the
\* return_result_go, handle_error_go and transfer_pointer_go relays.
CONSTANTS
    k1 = k1
    k2 = k2
    ClientCmds <- MCClientCmds

SPECIFICATION MCSpec

INVARIANTS
    TypeOK
    NoPanic
    RelayedUnchanged
    RelayResults

PROPERTIES
    PendingCallsRefined
    RelayCallsRefined
