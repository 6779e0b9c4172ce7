SPECIFICATION FairSpec
CONSTANTS
    Terms <- MCTerms
    Brands <- MCBrands
    Routes <- MCRoutes
    Strategies = {"s1"}
    Asin = "asin"
    Sources = {1}
    Destinations = {1, 2}
    MaxOrders = 1
    MaxPromotions = 2
    MinTraffic = 1
    MaxEdits = 4
    Histories <- MCHistories
    MinBid = 1
    MaxBid = 3
PROPERTIES ProtectionHolds
CHECK_DEADLOCK FALSE
