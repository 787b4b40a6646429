\* What the comment in Game::LoadLevel says of players who have died.
SPECIFICATION Spec
CONSTANTS
  voice = voice
  black = black
  hint = hint
  Null = Null
  Clips = {voice, black, hint}
  TimeSteps <- Ticks
  NumLevels = 2
  Hits = 1
  BossWords <- Words
  Zones = {}
  ZoneWords <- Hints
  Killers = {"guard", "bertha"}
PROPERTIES
  DeadDoNotAdvance
