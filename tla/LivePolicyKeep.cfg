SPECIFICATION FairSpec
CONSTANTS
  Action <- MCActions
  Rule <- MCRules
  Bundle <- MCClosedBundles
  NoBundle = NoBundle
  Hook = {}
  Pinning = FALSE
  MaxFaults = 2
PROPERTY FailedReloadKeepsPolicy
