SPECIFICATION Spec
CONSTANTS
    Builders = {b1, b2}
    Versions = {v1, v2}
    MirrorVersions = {v2}
    MaxStamp = 1
    Features = {"fail", "space"}
    None = None
SYMMETRY Symmetry
INVARIANTS
    CacheSound
    UnpackedIsKeyed
