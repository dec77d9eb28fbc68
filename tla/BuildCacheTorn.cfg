SPECIFICATION Spec
CONSTANTS
    Builders = {b1}
    Versions = {v1, v2}
    MirrorVersions = {v1}
    MaxStamp = 0
    Features = {"fail"}
    None = None
INVARIANTS
    UsedIsWhole
