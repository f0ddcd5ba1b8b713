\* Two builders and five scripts between them, any command failing.
CONSTANTS
    Builders = {b1, b2}
    MaxRuns = 5
    None = None
SYMMETRY BuilderSymmetry
SPECIFICATION Spec
INVARIANTS
    IInv
    HostSpared
    NothingMountedLeft
    MountPointFreed
PROPERTIES
    ImagesAsPromised
    OwnImageOnly
CHECK_DEADLOCK FALSE
