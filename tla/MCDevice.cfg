SPECIFICATION MCSpec
CONSTANTS
    Nothing = Nothing
    Daemon = Daemon
    Cli = Cli
    MaxCursor = 2
    MaxStops = 2
    menu = menu
    watcher = watcher
    a = a
    b = b
    x = x
    y = y
    Programs = {menu, watcher}
    Clips = {a, b}
    MaxItems = 1
    ReplayWindow = 0
    MaxTime = 1
    MaxKills = 1
    Shared = {a, b}
    FromOthers = {x, y}
    ClearItem = ClearItem
    Arrivals <- MCArrivals
    PageMax = 2
    MaxSeals = 2
    MaxTroubles = 2
INVARIANTS KeysAreKept SavesAreAtomic ReportedIsKept NothingIsLost
PROPERTIES ImplementsOutbox QueuedGetsSent
CHECK_DEADLOCK FALSE
