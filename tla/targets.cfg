\* Two runs of run.sh and a pair of x86 scripts on one host, under fairness.
CONSTANTS
    Runs = {r1, r2}
    X86 = {x}
    None = None
    Idle = Idle
SPECIFICATION FairSpec
INVARIANTS
    IInv
    QemuGoesWithGdb
    WholeSession
    SocketStays
PROPERTIES
    DebugsPresentSession
    QuitEndsSession
CHECK_DEADLOCK FALSE
