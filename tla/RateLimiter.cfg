\* Two clients, two requests in any two ticks, over five ticks.
CONSTANTS
    Clients = {a, b}
    Limit = 2
    Window = 2
    MaxTime = 4
SPECIFICATION LimiterSpec
INVARIANT LimiterTypeOK
INVARIANT WindowsBounded
PROPERTY ImplementsSlidingWindow
