\* One level without a boss, one lethal contact per physics step: nothing is
\* counted twice.
SPECIFICATION Spec
CONSTANTS
  NumLevels = 1
  Late = {}
  TimeSteps = {1}
  MaxContacts = 1
  MaxTime = 4
INVARIANTS
  TotalOfThisGame
