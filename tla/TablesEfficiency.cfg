SPECIFICATION Spec
CONSTANTS
    Size = 3
    CellRange = {3, 4, 5}
    CellValues = {2, 4, 5}
    AxisValues = {1, 4, 6}
    Inputs = {0, 1, 2, 3, 5, 6, 7}
    MaxEdits = 3
INVARIANTS
    EfficiencyActsWhereItIsPut
CHECK_DEADLOCK FALSE
