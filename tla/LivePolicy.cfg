SPECIFICATION FairSpec
CONSTANTS
  Action <- MCActions
  Rule <- MCRules
  Bundle <- MCBundles
  NoBundle = NoBundle
  Hook = {h1}
  Pinning = TRUE
  MaxFaults = 2
INVARIANTS TypeOK PolicyNotTorn HolderMatchesKernel VerdictIsThePolicys
PROPERTIES LiveMapsFrozen SwapsWholePolicies StoreReachesKernel
