CONSTANTS
  NumDS = 3
  Passes = 3
  Crossover = 50
  Draws = {1, 100}
  RunFreq = 2
SPECIFICATION FairSpec
INVARIANTS NoFault NoSharedElement ReadyForTest
PROPERTY Initialised
