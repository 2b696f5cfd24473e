\* spec.md 4.5: message handlers only while Started. The stuck states this
\* rule produces are what the run is about, so deadlock is not reported.
CONSTANT DeliverPhases <- DeliverOnlyStarted
SPECIFICATION Spec
CHECK_DEADLOCK FALSE
PROPERTIES
  EventuallyAllDeinited
