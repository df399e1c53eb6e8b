\* Three commands of which the middle one ends.
SPECIFICATION FairSpec
CONSTANTS
  N = 3
  Ends = {2}
  Capacity = 1
INVARIANTS TypeOK EndsClosed
PROPERTIES PipelineReturns ChildrenEnd
