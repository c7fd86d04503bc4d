SPECIFICATION Spec
CONSTANTS
    None = None
    a = a
    b = b
    first = r1
    second = r2
    Graphs = {g1, g2}
    Nodes = {a, b}
    MaxNodes = 2
    MaxEdges = 1
    MaxDepth = 2
    PathLimit = 1
    Requests = {r1, r2, r3}
    Inputs <- MCInputs
VIEW MCView
SYMMETRY MCSymmetry
INVARIANTS
    GraphInv
    RepliesAreRecent
PROPERTIES
    ImplementsContract
CHECK_DEADLOCK FALSE
