CONSTANTS
    None = None
    c1 = c1
    c2 = c2
    Conns = {c1, c2}
    Capacity = 1
    Kinds <- CallKinds
    Max <- CallBounds
SPECIFICATION FairSpec
INVARIANTS
    TypeOK
    IInv
    Tracked
    ReadYourWrites
    StatusFollows
PROPERTIES
    Answered
    AnsweredEditIsTried
CHECK_DEADLOCK FALSE
