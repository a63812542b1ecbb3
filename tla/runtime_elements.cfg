SPECIFICATION Spec
CONSTANTS
    Kinds <- AllKinds
    Element = {e1}
    Zone = {z1, z2}
    Second = 2
    HalfRange = 4
    Durations <- Timeouts
    OtherCodes = {"INVALID_ZONE", "UNKNOWN_SOURCE"}
    Caps = {"ResetToDefaults"}
    Outside = {"edit", "restart"}
    MaxWire = 2
    MaxAge = 5
    Nowhere = Nowhere
    Never = Never
SYMMETRY Symmetry
INVARIANTS
    TypeOK
    EndsInTime
    AnswersHold
    CausesTold
PROPERTY NotCutShort
