SPECIFICATION TFairSpec
CONSTANTS
  Keys = {"a"}
  Letters = {"a"}
  Queue = 1
  SIZE = 3
  HEIGHT = 3
  UP = 2
  PERIOD = 2
  MaxBehind = 2
INVARIANTS
    LettersSound
PROPERTIES
    GameGoesOn
    PressTakesEffect
