SPECIFICATION Spec
CONSTANTS
    name = name
    owner = owner
    search = search
    shellhw = shellhw
    edge = edge
    Values = {name, owner}
    Services <- MCServices
    Packages = {edge}
    Profiles <- MCProfiles
INVARIANTS TransformClaim RollbackClaim
