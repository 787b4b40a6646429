\* Two events of the game, one engine thread, at most two crashes, on both platforms.
SPECIFICATION FairSpec
CONSTANTS
  Ids <- FourRequests
  Others = {"mixer"}
  None = "nobody"
  MaxEvents = 2
  MaxCrashes = 2
INVARIANTS
  OneAtATime
  AuthorsAreTold
\* A process that has ended does nothing more, and a crash handler may wait for ever (Stuck).
CHECK_DEADLOCK FALSE
PROPERTIES
  MainCrashIsTold
  EveryEndingComes
