\* Two launches sourced in one shell, as scripts/debian-rootfs/README.md shows.
CONSTANTS
    Requests <- RootfsThenInitrd
    Modes = {"sourced"}
    DefaultTerminal = "tmux"
    Texts <- MCTexts
    TmuxTexts <- MCTmuxTexts
    Directories <- MCDirectories
    AndroidTrees <- MCAndroidTrees
    Qcow2 <- MCQcow2
    MaxLaunches = 2
SPECIFICATION Spec
INVARIANTS
    InitrdHonoured
CHECK_DEADLOCK FALSE
