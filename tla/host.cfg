\* Two launches, every terminal, sourced or executed, drawn ports that clash.
CONSTANTS
    Launches = {l1, l2}
    RandomPorts = {14000}
    CliPort = 12880
    Terminals = {"window", "cli-qemu", "cli-gdb", "tmux", "bad"}
    Debuggers = {"attach", "other"}
    Modes = {"sourced", "executed"}
    Nesting = {TRUE, FALSE}
    None = None
    Idle = Idle
SYMMETRY LaunchSymmetry
SPECIFICATION Spec
INVARIANTS
    IInv
    SoloInv
    TmuxLeavesNothing
    CleanupReaps
    SoloPanesStart
    SoloDebugsOwn
PROPERTY
    SoloUndisturbed
CHECK_DEADLOCK FALSE
