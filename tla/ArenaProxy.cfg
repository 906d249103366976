\* Two connections, each with a request and the generation of an earlier one
\* in the queue at once: four callers, one restart, one file error.
SPECIFICATION FairSpec
CONSTANTS
  Clients = {c1, c2}
  MaxRestarts = 1
  MaxIoErrors = 1
  NoCopy = NoCopy
INVARIANTS
  TypeOK
  NoLostUpdate
  AckedIsDurable
  FairDecision
PROPERTIES
  RefinesDecision
  WorkEnds
