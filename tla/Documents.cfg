SPECIFICATION Spec
CONSTANTS
  Types <- MCTypes
  RootTypes <- MCRootTypes
  Directives <- MCDirectives
  Values <- MCValues
  MaxDepth = 6
  MaxSteps = 24
  Selections <- MCSelections
  Inputs <- MCInputs
INVARIANTS MergedFieldsAgree ValidExecutes InputsConform
CHECK_DEADLOCK FALSE
