\* Both programs, every cut of the stream, one fault.
\* A program whose answer has been cut waits for ever.
CONSTANTS
  Greetings <- MCGreetings
  BufLen = 20
  Garbage <- MCGarbage
  Reached = {7, 19}
  Traffic <- MCTraffic
  MaxFaults = 1
  MaxParts = 2
SPECIFICATION Spec
INVARIANTS LogHasNoGap
PROPERTIES FileIsAnswer KeepsPolling
CHECK_DEADLOCK FALSE
