SPECIFICATION Spec
CONSTANTS
    Threads = {t1, t2}
    Ips = {ip1}
    Widgets = {w1,w2}
    IpMax = 2
    IpWindow = 2
    WidgetMax = 1
    WidgetWindow = 1
    TicksPerSecond = 2
    PruneAbove = 0
    PruneFloor = 2
    Horizon = 4
SYMMETRY Symmetry
INVARIANT TypeOK
INVARIANT FloodBound
INVARIANT RetryAfterIsClose
PROPERTY RefusedMeansSpent
PROPERTY PruneDropsExpired
