\* Mr Wright with three posters and two sequences.
SPECIFICATION FairSpec
CONSTANTS
  Hung <- ThreeGlyphs
  Lengths <- TwoThenAll
  Interval = 3
  TimeSteps = {1, 2}
  Timers <- Uninitialised
  Away = 0
INVARIANTS
  GlyphsKept
  TellsHowFar
PROPERTIES
  ImplementsCombination
  PersistenceWins
