\* The radius is half a cell: neighbours on both sides of a boundary do not hear
\* each other.
CONSTANTS
    Connections = {c1, c2}
    Entities = {e1, e2}
    Spaces = {s1, s2}
    Grids = {s1}
    Dimensions = 2
    Positions <- Near
    CellSize = 2
    Radius = 1
    ExactDistance = TRUE
    MaxEpoch = 2
    None = None
SPECIFICATION Spec
INVARIANTS
    NobodyNearIsCutOff
