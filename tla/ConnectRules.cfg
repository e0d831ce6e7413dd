SPECIFICATION Spec
CONSTANTS
  Bundles <- MCBundles
  Inputs <- AllInputs
  PortSpec = 1
INVARIANTS TypeOK DenialAttributed DenyListComplete DenyRuleExact
CHECK_DEADLOCK FALSE
