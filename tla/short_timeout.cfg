SPECIFICATION Spec
CONSTANTS
    Kinds = {"element"}
    Element = {e1}
    Zone = {z1}
    Second = 2
    HalfRange = 4
    Durations <- HalfSecond
    OtherCodes = {"INVALID_ZONE", "UNKNOWN_SOURCE"}
    Caps = {"ResetToDefaults"}
    Outside = {}
    MaxWire = 1
    MaxAge = 6
    Nowhere = Nowhere
    Never = Never
INVARIANT PositiveTimeoutEnds
