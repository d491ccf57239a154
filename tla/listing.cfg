CONSTANTS
    PerPage = 2
    LastPage = 2
    Bound <- PagingBounds
SPECIFICATION Spec
INVARIANTS
    TypeOK
    LossBounded
    NeverOverflows
