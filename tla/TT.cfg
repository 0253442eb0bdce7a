SPECIFICATION TradesSpec
CONSTANTS
    w1 = w1
    w2 = w2
    s1 = s1
    s2 = s2
    Workers <- MCWorkers
    Traded <- MCTraded
    Singled = 1
    MaxTrades = 2
    MaxAborts = 1
SYMMETRY Symmetry
INVARIANT WidgetsAgree
PROPERTY StatsDontGoBack
