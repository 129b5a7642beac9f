\* One browser; def stands for every other writer of the entry.
\* "redirect" disables what "server" does, and serial uses less of it.
CONSTANTS
  Operators = {"o1"}
  Modes = {"off", "server", "client"}
  Values = {0, 1}
  Factory <- MCFactory
SPECIFICATION Spec
INVARIANTS TypeOK
PROPERTIES ServedAsShown LookingAround
