\* --dtb, executed as README.md:147 shows.
CONSTANTS
    Requests <- DtbRequests
    Modes = {"executed"}
    DefaultTerminal = "tmux"
    Texts <- MCTexts
    TmuxTexts <- MCTmuxTexts
    Directories <- MCDirectories
    AndroidTrees <- MCAndroidTrees
    Qcow2 <- MCQcow2
    MaxLaunches = 1
SPECIFICATION Spec
INVARIANTS
    DtbHonoured
CHECK_DEADLOCK FALSE
