\* Two sourced tmux launches, inside and outside a tmux client, under fairness.
CONSTANTS
    Launches = {l1, l2}
    RandomPorts = {14000}
    CliPort = 12880
    Terminals = {"tmux"}
    Debuggers = {"attach"}
    Modes = {"sourced"}
    Nesting = {TRUE, FALSE}
    None = None
    Idle = Idle
SPECIFICATION FairSpec
PROPERTY
    QuitTearsDown
CHECK_DEADLOCK FALSE
