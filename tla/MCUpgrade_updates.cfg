\* An archive and a plain image that collide in one partition, two faults.
\* The device stops for good when the bounds are used up or it cannot boot.
CONSTANTS
  None = None
  kernel = kernel
  fsys1 = fsys1
  fsys2 = fsys2
  boots = boots
  sum0 = sum0
  pack = pack
  single = single
  zero = zero
  Operators = {o1, o2}
  Partitions = {"kr", "fs"}
  Blocks = 2
  Images = {kernel, fsys1, fsys2, boots, sum0}
  Header <- MCHeader
  Fits = {kernel, fsys1, fsys2, boots, sum0}
  ZeroSum = {sum0}
  Uploads = {pack, single, zero}
  Tars = {pack}
  Contents <- MCContents
  MaxRequests = 4
  MaxFaults = 2
  MaxCuts = 1
SYMMETRY MCSymmetry
SPECIFICATION Spec
INVARIANTS WholeUnlessHurt
PROPERTIES UpdateInstalls
CHECK_DEADLOCK FALSE
