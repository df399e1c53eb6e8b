\* Two children at a time.
SPECIFICATION Spec
CONSTANTS
  a = a
  b = b
  c = c
  Jobs <- MCJobs
  Meddlers = {}
  MaxActive = 2
  MaxStarts = 1
SYMMETRY MCJobSymmetry
INVARIANT SetupSucceeds
