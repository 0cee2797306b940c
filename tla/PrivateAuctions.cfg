CONSTANTS
    seller = seller
    guest = guest
    a1 = a1
    a2 = a2
    People = {seller, guest}
    Registered <- SellerOnly
    TestUsers = 2
    MaxLogins = 2
    MaxSeeds = 1
    Auctions = {a1, a2}
    Host <- SellersOwn
    Codes = {1, 2}
    FirstCode = 1
    MaxEntries = 2
    MaxReads = 1
    MaxPatches = 1
    MaxRequests = 5
SPECIFICATION PrivateSpec
SYMMETRY AnyAuction
INVARIANTS
    TwinsOnlyFromOverlap
    TestAccountsApart
    LostOnlyToOverlappingEntry
    ShownOnlyIfAllowed
    EnteredSeesAll
