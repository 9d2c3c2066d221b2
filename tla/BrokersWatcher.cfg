CONSTANTS
    NaN = NaN
    PqpBuyPv = 1500
    PqpSellPv = 800
    ApBuyPv = 2000
    MaxPqpEvents = 3
    MaxApEvents = 2
    EventLists <- MCEventLists
    Tickers = {"A"}
    Prices = {300, 700}
    DcMain = DcMain
    DcBlanzac = DcBlanzac
    Gyantal = Gyantal

SPECIFICATION Spec

INVARIANT TypeOK
INVARIANT EveryOrderOnce
INVARIANT SimulationNeverSubmits
INVARIANT OneCachedPricePerTicker
INVARIANT WithinPortfolioValue
PROPERTY CachedOrdersGoOut

\* The process may end, and both strategies may be through.
CHECK_DEADLOCK FALSE
