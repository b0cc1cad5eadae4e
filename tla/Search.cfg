SPECIFICATION Spec
CONSTANTS
    Values = {0, 1, 2}
    Implicit = 0
    MaxLength = 5
    MaxBlock = 6
INVARIANTS TypeOK Found
PROPERTIES  Returns
CHECK_DEADLOCK FALSE
