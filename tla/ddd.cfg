\* Three launches from two directories; three commands stand for the seven of lines 225-231.
CONSTANTS
    Launches = {l1, l2, l3}
    Dirs = {d1, d2}
    NumCommands = 3
SYMMETRY Symmetry
SPECIFICATION Spec
INVARIANTS
    IInv
    SoloReadsOwn
    NothingLeftBehind
CHECK_DEADLOCK FALSE
