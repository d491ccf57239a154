CONSTANTS
    None = None
    c1 = c1
    c2 = c2
    Conns = {c1, c2}
    Capacity = 1
    Kinds <- DropKinds
    Max <- DropBounds
SPECIFICATION FairSpec
PROPERTIES
    CommittedEditIsPushed
