SPECIFICATION FairSpec
CONSTANTS
    m1 = m1
    m2 = m2
    m3 = m3
    n1 = n1
    n2 = n2
    Trades = {t1}
    Workers = {w1, w2}
    Members <- MCMembers
    Instruments <- MCInstruments
    Listed <- MCListed
    WithAccounts <- MCWithAccounts
    Deals <- MCDeals
    MaxTime = 1
    MaxFaults = 2
INVARIANTS
    DecisionIsWhole
    SoundIsNovated
PROPERTIES
    DefaultedGetsNoLeg
    KeepsNovation
    EventuallyDecided
