\* Every script with up to two arguments, of three characters or variables together.
CONSTANTS
    MaxChars = 3
    MaxArgs = 2
    Values <- MCValues
SPECIFICATION Spec
INVARIANTS
    PathAndArgArrive
CHECK_DEADLOCK FALSE
