SPECIFICATION Spec
CONSTANTS
  Bundles <- ExceptBundles
  Inputs <- V6Inputs
  PortSpec = 1
INVARIANT V6NotMatched
CHECK_DEADLOCK FALSE
