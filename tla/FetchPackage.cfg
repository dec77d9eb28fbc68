SPECIFICATION MCSpec
CONSTANTS
    Builders = {p1, p2}
    MaxRev = 2
    NumUrls = 2
    MaxFaults = 2
    None = None
    Floating = Floating
INVARIANTS
    UnpackedWhole
    HandsOnWanted
    ArchiveIsNamed
PROPERTIES
    Recovers
