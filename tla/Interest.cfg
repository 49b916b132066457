\* Two connections with an entity each in a grid whose radius is one cell,
\* and a space without a grid.
CONSTANTS
    Connections = {c1, c2}
    Entities = {e1, e2}
    Spaces = {s1, s2}
    Grids = {s1}
    Dimensions = 2
    Positions <- Near
    CellSize = 2
    Radius = 2
    ExactDistance = TRUE
    MaxEpoch = 2
    None = None
SPECIFICATION Spec
INVARIANTS
    IndexesAgree
    NobodyFarIsReached
    NobodyNearIsCutOff
