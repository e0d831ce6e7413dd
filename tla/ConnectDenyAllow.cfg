SPECIFICATION Spec
CONSTANTS
  Bundles <- DenyAllowBundles
  Inputs <- V4Inputs
  PortSpec = 1
INVARIANT DenyBeatsAllow
CHECK_DEADLOCK FALSE
