SPECIFICATION Spec
CONSTANTS
    Builders = {b1, b2}
    Versions = {v1, v2}
    MirrorVersions = {}
    MaxStamp = 0
    Features = {}
    None = None
INVARIANTS
    UsedIsOfKey
