\* The game as shipped, its nine levels and endings, for players and developers.
\* A developer can crash the program (DebugRenderingWorks), hence no deadlock check.
SPECIFICATION FairSpec
CONSTANTS
  NumLevels = 9
  Ending <- GameEnding
  IntroFrames = 2
  CreditsFrames = 3
  FrameTicks = 2
  TimeSteps <- StepTicks
  Inputs <- DeveloperInputs
  MaxContacts = 2
CHECK_DEADLOCK FALSE
INVARIANTS
  ScreenMatchesState
  NeverCrashes
PROPERTIES
  MoviesKeepTime
  MoviesEnd
  ImplementsCampaign
