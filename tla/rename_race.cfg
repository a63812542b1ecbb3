SPECIFICATION Spec
CONSTANTS
    Caller = {c1, c2}
    Renamer = {c1, c2}
    Remover = {}
    Bounded = {}
    Name = {n1, n2}
    InitName = n1
    Zone = {z1, z2}
    Path = {p1, p2}
    Outside = {}
    MaxOrphans = 0
    NoPath = NoPath
    NoName = NoName
    Nobody = Nobody
INVARIANT HandleOnTarget
