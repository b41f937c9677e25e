CONSTANTS
    m1 = m1
    m2 = m2
    m3 = m3
    x = x
    y = y
    t1 = t1
    t2 = t2
    c1 = c1
    c2 = c2
    CCP = CCP
    Members = {m1, m2, m3}
    Instruments = {x, y}
    Trades = {t1, t2}
    Cycles = {c1, c2}
    MaxTime = 1
    Contract <- Contracts
    Unit = 4
    Quotes = {0, 1}
    TermSets <- AllTerms
SPECIFICATION Spec
SYMMETRY Symmetry
INVARIANTS LegsMoveTogether CycleBalances NetsExactly
INVARIANTS LaterCyclesStartAfresh MarksWhatItSaw
