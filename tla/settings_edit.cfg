CONSTANTS
    Kinds <- AllKinds
    Servers <- Versions
    Unmentioned = {"reset", "kept"}
    Fault = {"garbled", "upgrade", "edit"}
    Contested = {"Description", "Rules"}
    MaxChanges = 1
SPECIFICATION Spec
INVARIANTS TypeOK RefusedForCause ReadIntact
PROPERTIES EditKeepsTheRest OnlyUnsentLost
