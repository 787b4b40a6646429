\* Two boss levels, each with two audio zones, a guard and Bertha's body.
SPECIFICATION FairSpec
CONSTANTS
  voice = voice
  black = black
  hint = hint
  Null = Null
  Clips = {voice, black, hint}
  TimeSteps <- Ticks
  NumLevels = 2
  Hits = 2
  BossWords <- Words
  Zones = {"entrance", "cupboard"}
  ZoneWords <- Hints
  Killers = {"guard", "bertha"}
INVARIANTS
  WonMeansBeaten
PROPERTIES
  VictoryHolds
  VictoryEndsLevel
  ImplementsSpeech
