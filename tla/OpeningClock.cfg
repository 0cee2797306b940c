SPECIFICATION WithoutConsole
CONSTANTS
    u1 = u1
    Users = {u1}
    None = None
    MaxItems = 2
    StartPrice <- MCStartPrice
    RowIsSold <- MCRowIsSold
    RowBuyerId <- MCRowBuyerId
    LimitTime = 60
    Budget = 5000
    Prices = {4000}
    Percents = {5}
    Cuts = {20}
    Reductions = {10}
    MaxCalls = 1
    ClockFloor = 1
PROPERTIES
    OpensWithFullClock
