SPECIFICATION DeploySpec
CONSTANTS
    Builds <- MCBuilds
    Hosts <- MCHosts
    MaxBuilds = 2
    OldDisks <- MCOldDisks
    MaxInstalls = 1
INVARIANTS FreshMedium InstallClaims BuildReachesTarget
CHECK_DEADLOCK FALSE
