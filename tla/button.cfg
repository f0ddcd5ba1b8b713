\* A click and a terminal of the user's, up to two commands in each, under fairness.
CONSTANTS
    Clicks = {run}
    Others = {shell}
    MaxRuns = 2
    None = None
SPECIFICATION FairSpec
INVARIANTS
    IInv
    NoListenerLeaks
    DisposesFinishedOnly
    FloatsFresh
PROPERTIES
    AutoCloses
CHECK_DEADLOCK FALSE
