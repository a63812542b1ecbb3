SPECIFICATION Spec
CONSTANTS
    Watcher = {w1, w2}
    Iface = {zone, policy}
    Foreign = {other}
    RawCap = 1
    OutCap = 1
    MaxSignals = 2
    Fault = {"add", "remove", "hangup"}
SYMMETRY Symmetry
CHECK_DEADLOCK FALSE
INVARIANTS RulesCoverWatchers EachSignalOnce
PROPERTY ImplementsStream
