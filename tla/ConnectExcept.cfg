SPECIFICATION Spec
CONSTANTS
  Bundles <- ExceptPortBundles
  Inputs <- V4Inputs
  PortSpec = 1
INVARIANT ExceptedNotDenied
CHECK_DEADLOCK FALSE
