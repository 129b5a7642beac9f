\* Two operators on the network and reboot pages and def, and one loss of power
\* or one file wan cannot open.
\* The model stops when the bounds are used up.
CONSTANTS
  Operators = {o1, o2}
  Ips = {"ip1", "ip2"}
  Servers = {"dns1", "dns2"}
  Leases <- MCLeases
  Factory <- MCFactory
  WlanServers = {"dnsw"}
  MaxTasks = 4
  MaxCuts = 1
SYMMETRY MCSymmetry
SPECIFICATION Spec
INVARIANTS SettledNetwork
PROPERTIES SavedIsInEffect UntouchedPage
CHECK_DEADLOCK FALSE
