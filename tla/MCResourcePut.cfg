\* The same instance: a PUT replaces a version that its client never saw.
SPECIFICATION Spec
CONSTANTS
    n1 = n1
    n2 = n2
    c1 = c1
    c2 = c2
    Ids = {1, 2}
    Names = {n1, n2}
    Blank = Blank
    Descriptions = {"x", "y"}
    Clients = {c1, c2}
    MaxWrites = 2
SYMMETRY Interchangeable
INVARIANTS
    NoLostUpdate
CHECK_DEADLOCK FALSE
