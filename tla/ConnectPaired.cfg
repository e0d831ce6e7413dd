SPECIFICATION Spec
CONSTANTS
  Bundles <- PairedBundles
  Inputs <- V4Inputs
  PortSpec = 1
INVARIANT WouldHaveBlocked
CHECK_DEADLOCK FALSE
