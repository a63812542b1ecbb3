SPECIFICATION UnlockedSpec
CONSTANTS
    Kinds <- AllKinds
    Caller = {c1, c2}
    Renamer = {c1}
    Remover = {}
    Bounded = {c2}
    Name = {n1, n2}
    InitName = n1
    Zone = {z1, z2}
    Path = {p1, p2, p3}
    Outside = {"add"}
    MaxOrphans = 1
    NoPath = NoPath
    NoName = NoName
    Nobody = Nobody
SYMMETRY Symmetry
INVARIANTS
    HandleOnTarget
    NoRace
PROPERTY ImplementsLocked
