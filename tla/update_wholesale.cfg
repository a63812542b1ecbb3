CONSTANTS
    Kinds = {"zone"}
    Servers <- Versions
    Unmentioned = {"reset", "kept"}
    Fault = {}
    Contested = {}
    MaxChanges = 1
SPECIFICATION Spec
PROPERTY UpdateReplaces
