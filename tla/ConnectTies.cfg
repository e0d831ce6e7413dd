SPECIFICATION Spec
CONSTANTS
  Bundles <- CarveOutBundles
  Inputs <- V4Inputs
  PortSpec = 1
INVARIANT NoTies
CHECK_DEADLOCK FALSE
