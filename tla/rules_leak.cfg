SPECIFICATION Spec
CONSTANTS
    Watcher = {w1}
    Iface = {zone, policy}
    Foreign = {}
    RawCap = 1
    OutCap = 1
    MaxSignals = 1
    Fault = {"add"}
SYMMETRY Symmetry
CHECK_DEADLOCK FALSE
INVARIANT TornDown
