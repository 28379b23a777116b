\* The code's costs, but a threshold of 1/2 for 1/100: a pair that moves a
\* third of what the heaviest moves is light.
CONSTANTS
  N = 4
  Inputs <- MCInputs
  MoveThreshold = 2
  ClMoveCost = 90
  RegMoveCost = 800
SPECIFICATION Spec
INVARIANT FollowsStaticDecision
CHECK_DEADLOCK FALSE
