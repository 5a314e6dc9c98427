SPECIFICATION FairSpec
CONSTANTS
  VUs = {v1, v2}
  Total <- MCTotal
  Expected <- MCExpected
INVARIANTS IdleIffParked LanesConserved
PROPERTIES Terminates ImplementsLanes
