SPECIFICATION FairSpec
CONSTANTS
    Caller = {c1, c2}
    Renamer = {c1}
    Remover = {c2}
    Bounded = {c1, c2}
    Name = {n1, n2}
    InitName = n1
    Zone = {z1}
    Path = {p1, p2}
    Outside = {"reexport"}
    MaxOrphans = 0
    NoPath = NoPath
    NoName = NoName
    Nobody = Nobody
PROPERTY EveryCallReturns
