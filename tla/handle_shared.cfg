SPECIFICATION Spec
CONSTANTS
    Caller = {c1, c2}
    Renamer = {c1, c2}
    Remover = {c1, c2}
    Bounded = {c1, c2}
    Name = {n1, n2}
    InitName = n1
    Zone = {z1, z2}
    Path = {p1, p2, p3}
    Outside = {"add", "remove", "rename"}
    MaxOrphans = 1
    NoPath = NoPath
    NoName = NoName
    Nobody = Nobody
SYMMETRY EqualCallers
INVARIANTS
    TypeOK
    AddressesDesignated
    LookupsAreCurrent
    MutexHeld
PROPERTY
    CachedUntilRename
