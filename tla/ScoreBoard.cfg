\* Two levels, the first with a boss that can be won after death.
SPECIFICATION Spec
CONSTANTS
  NumLevels = 2
  Late = {0}
  TimeSteps = {1, 2}
  MaxContacts = 2
  MaxTime = 8
INVARIANTS
  NoAttemptLost
