\* One run of run.sh.
CONSTANTS
    Runs = {r1}
    X86 = {}
    None = None
    Idle = Idle
SPECIFICATION Spec
INVARIANT
    GracefulQuit
CHECK_DEADLOCK FALSE
