SPECIFICATION Spec
CONSTANTS
    netwatch = netwatch  watchdog = watchdog  network = network  openvpn = openvpn
    Services = {netwatch, watchdog, network}
    Blocking = {network}
    OneShot = {}
    Late = {netwatch}
    DelayFactor = 2
    DelayMax = 3
    InhibitTimeout = 3
    MaxCounter = 2
    Debug = FALSE
    PowerCuts = TRUE
    Empty = Empty
INVARIANTS WatchedFailureReboots BackoffKept
PROPERTIES InhibitedPanicsDoNotReboot
