CONSTANTS
    None = None
    r1 = r1
    r2 = r2
    p1 = p1
    p2 = p2
    p3 = p3
    p4 = p4
    p5 = p5
    v1 = v1
    v2 = v2
    home = home
    mail = mail
    top = top
    sub = sub
    Rids = {r1, r2}
    Pids = {p1, p2}
    Keys = {home}
    TypeOf <- OneA
    Values = {v1, v2}
    Attrs = {1}
    Zones = {top}
    InZone <- OneZone
    Length <- OneLength
    Max <- EditBounds
SPECIFICATION Spec
INVARIANTS
    CalmRunPushesAll
