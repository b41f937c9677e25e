-------------------------- MODULE MCTradeIngestion --------------------------
(* One trade, two workers.   A trade may be sound, have a seller without    *)
(* accounts, be too small for a margin, or name a delisted instrument.      *)
EXTENDS TradeIngestion

CONSTANTS m1, m2, m3, n1, n2

Deal(seller, instrument, quantity, marginal) ==
    [buyer |-> m1, seller |-> seller, instrument |-> instrument,
     quantity |-> quantity, marginal |-> marginal]

MCMembers == {m1, m2, m3}
MCInstruments == {n1, n2}
MCListed == {n1}
MCWithAccounts == {m1, m2}
MCDeals == {Deal(m2, n1, 1, FALSE), Deal(m3, n1, 1, FALSE),
            Deal(m2, n1, 1, TRUE), Deal(m2, n2, 1, FALSE),
            Deal(m2, n1, 0, FALSE)}
=============================================================================
