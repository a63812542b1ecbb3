SPECIFICATION Spec
CONSTANTS
    Caller = {c1}
    Renamer = {}
    Remover = {c1}
    Bounded = {}
    Name = {n1, n2}
    InitName = n1
    Zone = {z1, z2}
    Path = {p1, p2}
    Outside = {"add"}
    MaxOrphans = 0
    NoPath = NoPath
    NoName = NoName
    Nobody = Nobody
INVARIANT HandleReachesNamedZone
