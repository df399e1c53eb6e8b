\* Two children at a time besides those an earlier engine left; every program may meddle.
SPECIFICATION Spec
CONSTANTS
  a = a
  b = b
  c = c
  Jobs <- MCJobs
  Meddlers <- MCJobs
  MaxActive = 2
  MaxStarts = 2
SYMMETRY MCJobSymmetry
INVARIANTS TypeOK OutputIsOwn SetupFailsOnlyOverlapped
