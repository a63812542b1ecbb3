SPECIFICATION ReloadFairSpec
CONSTANTS
    Watcher = {w1}
    Iface = {zone}
    Foreign = {other}
    RawCap = 1
    OutCap = 2
    MaxSignals = 4
    Fault = {"add", "remove", "hangup"}
    ReloadCap = 1
    Reloads <- AllButSecond
CHECK_DEADLOCK FALSE
INVARIANTS
    TypeOK
    RelayTypeOK
    InOrderUntilOverflow
    EachReloadOnce
PROPERTIES
    WatchEnds
    HangupEnds
    OwedArrives
    RelayEnds
    ReloadsArrive
