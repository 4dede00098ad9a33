SPECIFICATION Spec
CONSTANTS
  Types <- CrossedTypes
  RootTypes <- CrossedRootTypes
  Directives <- MCDirectives
  Values <- MCValues
  MaxDepth = 6
  MaxSteps = 24
  Selections <- CrossedSelections
  Inputs <- CrossedInputs
INVARIANT MergedFieldsAgree
CHECK_DEADLOCK FALSE
