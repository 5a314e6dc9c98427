SPECIFICATION CountsSpec
CONSTANTS
  VUs = {v1, v2}
  Modes <- AllModes
  Iterations = 2
  MaxIters = 2
  MaxVUs = 2
  Total <- MCTotal
  Want <- MCWant
  RampMaxIters = 1
INVARIANTS LanesConserved GaugeExact NoLostWakeup
PROPERTIES ImplementsBudget ExecutorReturns
