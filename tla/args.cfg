\* Every command line, twice, sourced or executed.
CONSTANTS
    Requests <- MCRequests
    Modes = {"sourced", "executed"}
    DefaultTerminal = "tmux"
    Texts <- MCTexts
    TmuxTexts <- MCTmuxTexts
    Directories <- MCDirectories
    AndroidTrees <- MCAndroidTrees
    Qcow2 <- MCQcow2
    MaxLaunches = 2
SPECIFICATION Spec
INVARIANTS
    IInv
    QemuAsAsked
    PaneRoles
    PanesAgree
    SourcedErrorIsHarmless
    SingleWordsReachPanes
CHECK_DEADLOCK FALSE
