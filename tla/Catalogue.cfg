CONSTANTS
    seller = seller
    buyer = buyer
    Lists <- TwoLists
    Users = {seller, buyer}
    Nobody = Nobody
    Seller = seller
    Stock = 1
    StartPrice = 1
    Prices = {2}
    Listings = 2
    MaxAuctions = 3
    MaxItems = 2
    MaxCalls = 3
    MaxRuns = 2
    MaxSteps = 3
SPECIFICATION CatalogueSpec
INVARIANTS
    RowKeepsTheSale
    PurchasesWereWon
    PagesMissOnlyIfRemoved
    PagesRepeatOnlyIfAdded
