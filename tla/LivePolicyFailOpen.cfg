SPECIFICATION Spec
CONSTANTS
  Action <- MCActions
  Rule <- MCRules
  Bundle <- MCOpenBundles
  NoBundle = NoBundle
  Hook = {h1}
  Pinning = FALSE
  MaxFaults = 0
INVARIANT OpenAllowsUntilLive
