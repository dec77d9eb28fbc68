SPECIFICATION Spec
CONSTANTS
    Builders = {b1}
    Versions = {v1, v2, v3}
    MirrorVersions = {v1}
    MaxStamp = 2
    Features = {"fail", "space", "live", "dev"}
    None = None
INVARIANTS
    OneCacheFile
    MatchedFilePresent
