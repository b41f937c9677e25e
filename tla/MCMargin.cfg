CONSTANTS
    m1 = m1
    m2 = m2
    t1 = t1
    t2 = t2
    w1 = w1
    w2 = w2
    Members = {m1, m2}
    Trades = {t1, t2}
    Terms <- TwoTrades
    Rate = 1
    Prices = {2, 5}
    Opening <- Seeded
    Replicas = {w1, w2}
    Sites <- AllSites
    Deposits = {5}
    MaxTicks = 1
    MaxDeposits = 1
    MaxFaults = 1
SPECIFICATION FairSpec
INVARIANTS AloneIsCurrent ShortfallIsCalled LedgerIsExplained AloneCollateralNotOverdrawn
PROPERTY EverythingIsHandled
CHECK_DEADLOCK FALSE
