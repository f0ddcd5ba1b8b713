\* Every initial value of the two settings, and three edits of either or both.
CONSTANT MaxEdits = 3
SPECIFICATION FairSpec
INVARIANTS
    IInv
    ButtonsMatchSettings
PROPERTIES
    NeverBackwards
    Converges
CHECK_DEADLOCK FALSE
