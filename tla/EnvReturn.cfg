\* ReturnResult and ReturnResultDirectly from two goroutines; no symmetry,
\* since the run checks a liveness property.
CONSTANTS
  g1 = g1
  g2 = g2
  c1 = c1
  c2 = c2
  Nil = Nil
  Callers <- MCCallers
  Cmds <- MCCmds
SPECIFICATION Spec
INVARIANTS
  TypeOK
  NoUseAfterFinalize
  HandleOwnership
PROPERTIES
  EventuallyNoLeak
