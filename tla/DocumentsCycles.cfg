SPECIFICATION Spec
CONSTANTS
  Types <- MCTypes
  RootTypes <- MCRootTypes
  Directives <- MCDirectives
  Values <- MCValues
  MaxDepth = 6
  MaxSteps = 24
  Selections <- MCSelections
  Inputs <- MCInputs
INVARIANT CyclesAreReported
CHECK_DEADLOCK FALSE
