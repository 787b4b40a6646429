\* Two clients that register, ask for dumps and end while the server is stopped.
SPECIFICATION FairServerSpec
CONSTANTS
  c1 = c1
  c2 = c2
  NoClient = NoClient
  Clients = {c1, c2}
  MaxRequests <- TwoDumps
INVARIANTS
  InfosAreValid
  AnswersAreFresh
  NothingOutlivesServer
  FirstRequestKept
PROPERTIES
  FirstRequestAnswered
  ShutdownEnds
CHECK_DEADLOCK FALSE
