\* Three limiters with every fault, so that a late store makes two that did not race collide.
SPECIFICATION Spec
CONSTANTS
  a = a
  b = b
  c = c
  Jobs <- MCJobs
  MaxTries = 2
  Faults = {"directory", "caps", "attach"}
SYMMETRY MCJobSymmetry
INVARIANTS TypeOK SeparateUnlessRaced NoDirectoryLeft
