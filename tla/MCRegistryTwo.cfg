SPECIFICATION Spec
CONSTANTS
    v1 = v1
    v2 = v2
    d1 = d1
    o1 = o1
    o2 = o2
    Operators = {o1, o2}
    Versions = {v1, v2}
    Deployments = {d1}
    DeploymentOf <- BothDeployed
    NoDeployment = NoDeployment
    NoVersion = NoVersion
    Empty = Empty
    Garbled = Garbled
    MaxHistory = 2
PROPERTIES
    VersionsKept
CHECK_DEADLOCK FALSE
