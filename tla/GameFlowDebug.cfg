\* The debug displays of the README, switched on and carried into the intro.
SPECIFICATION Spec
CONSTANTS
  NumLevels = 3
  Ending <- ThreeEndings
  IntroFrames = 1
  CreditsFrames = 1
  FrameTicks = 2
  TimeSteps <- StepTicks
  Inputs <- DeveloperInputs
  MaxContacts = 2
INVARIANTS
  DebugRenderingWorks
CHECK_DEADLOCK FALSE
