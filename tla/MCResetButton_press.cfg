SPECIFICATION ButtonSpec
CONSTANTS
  Modulus = 9
  Ticks <- MCTicks
  Lag = 1
  Shutdown = 13
  MaxSteps = 1
  MaxCuts = 1
  MaxFaults = 1
INVARIANTS FactoryNeedsHold WarmMeansShort
PROPERTIES PressReboots ReleaseReboots
