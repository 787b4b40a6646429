\* Two throwable items, two keys and three padlocks.
SPECIFICATION FairSpec
CONSTANTS
  Items <- Things
  Padlocks <- Locks
  Type <- Types
  LifeTime = 4
  TimeSteps = {1, 3}
  None = None
INVARIANTS
  FlagsAgree
  LabelsUpToDate
PROPERTIES
  ImplementsItemLife
  ThrownBreaks
