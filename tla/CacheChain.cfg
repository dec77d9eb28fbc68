SPECIFICATION Spec
CONSTANTS
    a = a
    b = b
    c = c
    Packages = {a, b, c}
    Graphs <- Uses
    Recipes <- Caching
    Versions = {v1, v2}
    None = None
INVARIANTS
    CachedIsFresh
    NoNeedlessBuild
PROPERTY CacheIsTransparent
SYMMETRY Alike
CONSTRAINT OnePart
