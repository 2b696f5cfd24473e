CONSTANT DeliverPhases <- DeliverWhileStopping
SPECIFICATION Spec
INVARIANTS
  TypeOK
  NoPanic
  StopAfterDrain
PROPERTIES
  EventuallyAllDeinited
  StartSettles
