SPECIFICATION RegistrySpec
CONSTANTS
  Targets = {1, 2, 3}
  Foreign = {9}
  Plugins = 2
  Priorities = {0, 10}
  ChainMax = 2
  PendingMax = 4
CHECK_DEADLOCK FALSE
INVARIANT JumpsHaveChains
INVARIANT ChainsKeepTheOutermost
INVARIANT WriteFailureTakesAllBack
INVARIANT StrictIsAllOrExit
