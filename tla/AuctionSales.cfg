SPECIFICATION Spec
CONSTANTS
    u1 = u1
    u2 = u2
    Users = {u1, u2}
    None = None
    MaxItems = 2
    StartPrice <- MCStartPrice
    RowIsSold <- MCRowIsSold
    RowBuyerId <- MCRowBuyerId
    LimitTime = 60
    Budget = 5000
    Prices = {2000, 4000}
    Percents = {5}
    Cuts = {30}
    Reductions = {50}
    MaxCalls = 1
    ClockFloor = 0
INVARIANTS
    TypeOK
    LeaderCanPay
    ReportedBudgetNotNegative
    SoldToLeader
    BudgetConserved
PROPERTIES
    SettledIsFinal
    ImplementsEnglishAuction
