---------------------------- MODULE NettingProofs ----------------------------
(***************************************************************************)
(* Proofs about Netting for any sets of members, instruments, trades and   *)
(* cycles and any clock bound: first which legs a cycle reads, marks and   *)
(* settles, then what its obligations and instructions add up to.          *)
(***************************************************************************)
EXTENDS Netting, Sums

(* A trade has two legs, and a leg is one of the two of its trade. *)
LEMMA LegPair ==
    /\ \A t \in Trades : <<t, "BUY">> \in Legs /\ <<t, "SELL">> \in Legs
    /\ \A l \in Legs : /\ l[1] \in Trades
                       /\ l = <<l[1], "BUY">> \/ l = <<l[1], "SELL">>
  BY DEF Legs, Sides

(* The inductive invariant holds before the first novation. *)
LEMMA InitIInv == Init => IInv
<1>1. SUFFICES ASSUME Init PROVE IInv
  OBVIOUS
<1>2. 0 \in Times
  BY NettingAssumption DEF Times
<1>3. RowsTypeOK
  BY <1>1, <1>2 DEF Init, RowsTypeOK, PCs
<1>4. \A t \in Trades : TradeInv(t)
  BY <1>1, LegPair DEF Init, TradeInv
<1>5. \A c \in Cycles, l \in Legs : CycleLegInv(c, l)
  BY <1>1 DEF Init, CycleLegInv
<1>6. \A c \in Cycles, t \in Trades : CycleTradeInv(c, t)
  BY <1>1 DEF Init, CycleTradeInv
<1>7. \A c \in Cycles : HistoryInv(c)
  BY <1>1 DEF Init, HistoryInv
<1> QED
  BY <1>3, <1>4, <1>5, <1>6, <1>7 DEF IInv

-----------------------------------------------------------------------------
(* Steps that touch neither legs nor cycles. *)

(* Steps that write no leg and no cycle keep the invariant. *)
LEMMA QuietStep ==
    ASSUME IInv,
           \/ Tick \/ PublishPrices \/ UNCHANGED vars
           \/ \E t \in Trades : BeginNovation(t) \/ Reject(t)
           \/ \E t \in Trades, s \in Times : RollBackNovation(t, s)
    PROVE  IInv'
<1> DEFINE Still == UNCHANGED <<leg, novated_at, cycleVars>>
<1>1. Still
  BY DEF Tick, PublishPrices, BeginNovation, Reject, RollBackNovation,
         novation, cycleVars, vars
<1>2. RowsTypeOK'
  <2>1. clock' \in Times
    BY NettingAssumption DEF IInv, RowsTypeOK, Tick, PublishPrices,
       BeginNovation, Reject, RollBackNovation, vars, Times
  <2>2. trade' \in [Trades -> {"submitted", "novated", "rejected"}]
    BY DEF IInv, RowsTypeOK, Tick, PublishPrices, BeginNovation, Reject,
       RollBackNovation, vars, novation
  <2>3. begun' \in [Trades -> SUBSET Times]
    BY DEF IInv, RowsTypeOK, Tick, PublishPrices, BeginNovation, Reject,
       RollBackNovation, vars, novation
  <2> QED
    BY <1>1, <2>1, <2>2, <2>3 DEF IInv, RowsTypeOK, cycleVars
<1>3. \A t \in Trades : TradeInv(t)'
  <2>1. SUFFICES ASSUME NEW t \in Trades PROVE TradeInv(t)'
    OBVIOUS
  <2>2. TradeInv(t) /\ RowsTypeOK
    BY DEF IInv
  <2>3. begun'[t] # {} => trade'[t] = "submitted"
    BY <2>2 DEF TradeInv, RowsTypeOK, Tick, PublishPrices, BeginNovation,
       Reject, RollBackNovation, vars, novation
  <2>4. trade'[t] = "novated" <=> trade[t] = "novated"
    BY <2>2 DEF TradeInv, RowsTypeOK, Tick, PublishPrices, BeginNovation,
       Reject, RollBackNovation, vars, novation
  <2> QED
    BY <1>1, <2>2, <2>3, <2>4 DEF TradeInv
<1>4. /\ \A c \in Cycles, l \in Legs : CycleLegInv(c, l)'
      /\ \A c \in Cycles, t \in Trades : CycleTradeInv(c, t)'
      /\ \A c \in Cycles : HistoryInv(c)'
  BY <1>1 DEF IInv, CycleLegInv, CycleTradeInv, HistoryInv, cycleVars
<1> QED
  BY <1>2, <1>3, <1>4 DEF IInv

-----------------------------------------------------------------------------
(* A committed novation: no cycle knows the new legs yet. *)

(* A novation opens both legs at one time. *)
LEMMA NovateStep ==
    ASSUME IInv, NEW t \in Trades, NEW s \in Times, Novate(t, s)
    PROVE  IInv'
<1>1. /\ RowsTypeOK
      /\ UNCHANGED <<clock, cycleVars>>
      /\ leg' = [l \in Legs |-> IF l[1] = t THEN "open" ELSE leg[l]]
      /\ novated_at' = [l \in Legs |-> IF l[1] = t THEN s ELSE novated_at[l]]
      /\ trade' = [trade EXCEPT ![t] = "novated"]
      /\ begun' = [begun EXCEPT ![t] = {}]
  BY DEF IInv, Novate, NovatedAt, Legs
<1>2. \A l \in Legs : l[1] = t => leg[l] = "none"
  <2>1. trade[t] = "submitted" /\ TradeInv(t)
    BY DEF IInv, TradeInv, Novate
  <2>2. leg[<<t, "BUY">>] = "none" /\ leg[<<t, "SELL">>] = "none"
    BY <2>1 DEF TradeInv
  <2>3. ASSUME NEW l \in Legs, l[1] = t
        PROVE  leg[l] = "none"
    <3>1. l = <<t, "BUY">> \/ l = <<t, "SELL">>
      BY <2>3, LegPair
    <3> QED
      BY <2>2, <3>1
  <2> QED
    BY <2>3
<1>3. RowsTypeOK'
  BY <1>1 DEF RowsTypeOK, cycleVars
<1>4. \A u \in Trades : TradeInv(u)'
  <2>1. SUFFICES ASSUME NEW u \in Trades PROVE TradeInv(u)'
    OBVIOUS
  <2>2. TradeInv(u) /\ <<u, "BUY">> \in Legs /\ <<u, "SELL">> \in Legs
    BY LegPair DEF IInv
  <2> QED
    BY <1>1, <2>2 DEF TradeInv, RowsTypeOK
<1>5. \A c \in Cycles, l \in Legs : CycleLegInv(c, l)'
  <2>1. SUFFICES ASSUME NEW c \in Cycles, NEW l \in Legs
                 PROVE  CycleLegInv(c, l)'
    OBVIOUS
  <2>2. CycleLegInv(c, l)
    BY DEF IInv
  <2>3. CASE l[1] = t
    <3>1. leg[l] = "none"
      BY <1>2, <2>3
    <3>2. l \notin known[c] /\ l \notin positions[c] /\ l \notin marked[c]
      BY <2>2, <3>1 DEF CycleLegInv
    <3> QED
      BY <1>1, <3>2 DEF CycleLegInv, cycleVars
  <2>4. CASE l[1] # t
    <3>1. leg'[l] = leg[l] /\ novated_at'[l] = novated_at[l]
      BY <1>1, <2>4
    <3> QED
      BY <1>1, <2>2, <3>1 DEF CycleLegInv, cycleVars
  <2> QED
    BY <2>3, <2>4
<1>6. /\ \A c \in Cycles, u \in Trades : CycleTradeInv(c, u)'
      /\ \A c \in Cycles : HistoryInv(c)'
  BY <1>1 DEF IInv, CycleTradeInv, HistoryInv, cycleVars
<1> QED
  BY <1>3, <1>4, <1>5, <1>6 DEF IInv

-----------------------------------------------------------------------------
(* The steps of a cycle. *)

(* What a WHERE clause selects contains both legs of a trade or none. *)
LEMMA EligiblePairs ==
    ASSUME IInv, NEW cut \in Times, NEW t \in Trades
    PROVE  <<t, "BUY">> \in Eligible(cut) <=> <<t, "SELL">> \in Eligible(cut)
  BY LegPair DEF IInv, TradeInv, Eligible

(* A cycle takes the open legs up to its cut-off. *)
LEMMA FetchStep ==
    ASSUME IInv, NEW c \in Cycles, NEW cut \in Times, FetchPositions(c, cut)
    PROVE  IInv'
<1>1. /\ RowsTypeOK
      /\ pc[c] = "idle"
      /\ UNCHANGED <<clock, trade, begun, leg, novated_at, marked>>
      /\ pc' = [pc EXCEPT ![c] = "fetched"]
      /\ cut_off_time' = [cut_off_time EXCEPT ![c] = cut]
      /\ positions' = [positions EXCEPT ![c] = Eligible(cut)]
      /\ known' = [known EXCEPT ![c] = {l \in Legs : leg[l] # "none"}]
      /\ before' = [before EXCEPT ![c] = {d \in Cycles : pc[d] = "confirmed"}]
  BY DEF IInv, FetchPositions, novation
<1>2. RowsTypeOK'
  BY <1>1 DEF RowsTypeOK, PCs, Eligible
<1>3. \A t \in Trades : TradeInv(t)'
  BY <1>1 DEF IInv, TradeInv
<1>4. \A d \in Cycles, l \in Legs : CycleLegInv(d, l)'
  <2>1. SUFFICES ASSUME NEW d \in Cycles, NEW l \in Legs
                 PROVE  CycleLegInv(d, l)'
    OBVIOUS
  <2>2. CycleLegInv(d, l)
    BY DEF IInv
  <2>3. CASE d = c
    <3>1. l \notin marked'[c] /\ pc'[c] = "fetched"
      BY <1>1, <2>2, <2>3 DEF CycleLegInv, RowsTypeOK
    <3>2. /\ l \in known'[c] <=> leg[l] # "none"
          /\ l \in positions'[c] <=> leg[l] = "open" /\ novated_at[l] <= cut
          /\ cut_off_time'[c] = cut
      BY <1>1 DEF RowsTypeOK, Eligible
    <3>3. /\ leg[l] \in {"none", "open", "netted"}
          /\ novated_at[l] <= cut \/ novated_at[l] > cut
      BY <1>1, NettingAssumption DEF RowsTypeOK, Times
    <3> QED
      BY <1>1, <2>3, <3>1, <3>2, <3>3 DEF CycleLegInv
  <2>4. CASE d # c
    BY <1>1, <2>2, <2>4 DEF CycleLegInv, RowsTypeOK
  <2> QED
    BY <2>3, <2>4
<1>5. \A d \in Cycles, t \in Trades : CycleTradeInv(d, t)'
  <2>1. SUFFICES ASSUME NEW d \in Cycles, NEW t \in Trades
                 PROVE  CycleTradeInv(d, t)'
    OBVIOUS
  <2>2. CycleTradeInv(d, t)
    BY DEF IInv
  <2> QED
    BY <1>1, <2>2, EligiblePairs DEF CycleTradeInv, RowsTypeOK
<1>6. \A d \in Cycles : HistoryInv(d)'
  <2>1. SUFFICES ASSUME NEW d \in Cycles PROVE HistoryInv(d)'
    OBVIOUS
  <2>2. HistoryInv(d)
    BY DEF IInv
  <2>3. CASE d = c
    <3>1. \A e \in Cycles : pc[e] = "confirmed" =>
              /\ e # c /\ pc'[e] = "confirmed"
              /\ positions'[e] = positions[e]
              /\ \A l \in positions[e] : leg[l] = "netted"
      BY <1>1 DEF IInv, CycleLegInv, RowsTypeOK
    <3>2. \A l \in positions'[c] : leg[l] = "open"
      BY <1>1 DEF RowsTypeOK, Eligible
    <3> QED
      BY <1>1, <2>3, <3>1, <3>2 DEF HistoryInv, RowsTypeOK
  <2>4. CASE d # c
    <3>1. before'[d] = before[d] /\ pc'[d] = pc[d]
          /\ positions'[d] = positions[d]
      BY <1>1, <2>4 DEF RowsTypeOK
    <3>2. \A e \in before[d] : e # c /\ e \in Cycles
      BY <1>1, <2>2 DEF HistoryInv, RowsTypeOK
    <3>3. \A e \in before[d] : pc'[e] = pc[e] /\ positions'[e] = positions[e]
      BY <1>1, <3>2 DEF RowsTypeOK
    <3> QED
      BY <2>2, <3>1, <3>3 DEF HistoryInv
  <2> QED
    BY <2>3, <2>4
<1> QED
  BY <1>2, <1>3, <1>4, <1>5, <1>6 DEF IInv

(* A cycle closes legs, and only those it took. *)
LEMMA MarkStep ==
    ASSUME IInv, NEW c \in Cycles, MarkTradesClosed(c)
    PROVE  IInv'
<1>1. /\ RowsTypeOK
      /\ pc[c] = "priced"
      /\ UNCHANGED <<clock, trade, begun, leg, novated_at, cut_off_time,
                     positions, known, before>>
      /\ pc' = [pc EXCEPT ![c] = "marked"]
      /\ marked' = [marked EXCEPT ![c] = Eligible(cut_off_time[c])]
  BY DEF IInv, MarkTradesClosed, ToMark, novation
<1>2. RowsTypeOK'
  BY <1>1 DEF RowsTypeOK, PCs, Eligible
<1>3. \A t \in Trades : TradeInv(t)'
  BY <1>1 DEF IInv, TradeInv
<1>4. \A d \in Cycles, l \in Legs : CycleLegInv(d, l)'
  <2>1. SUFFICES ASSUME NEW d \in Cycles, NEW l \in Legs
                 PROVE  CycleLegInv(d, l)'
    OBVIOUS
  <2>2. CycleLegInv(d, l)
    BY DEF IInv
  <2>3. CASE d = c
    <3>1. l \in marked'[c] <=>
            leg[l] = "open" /\ novated_at[l] <= cut_off_time[c]
      BY <1>1 DEF RowsTypeOK, Eligible
    <3>2. leg[l] \in {"none", "open", "netted"} /\ pc'[c] = "marked"
      BY <1>1 DEF RowsTypeOK
    <3>3. ~(novated_at[l] <= cut_off_time[c]
            /\ novated_at[l] > cut_off_time[c])
      BY <1>1, NettingAssumption DEF RowsTypeOK, Times
    <3> QED
      BY <1>1, <2>2, <2>3, <3>1, <3>2, <3>3 DEF CycleLegInv
  <2>4. CASE d # c
    BY <1>1, <2>2, <2>4 DEF CycleLegInv, RowsTypeOK
  <2> QED
    BY <2>3, <2>4
<1>5. \A d \in Cycles, t \in Trades : CycleTradeInv(d, t)'
  <2>1. SUFFICES ASSUME NEW d \in Cycles, NEW t \in Trades
                 PROVE  CycleTradeInv(d, t)'
    OBVIOUS
  <2>2. CycleTradeInv(d, t) /\ cut_off_time[c] \in Times
    BY <1>1 DEF IInv, RowsTypeOK
  <2> QED
    BY <1>1, <2>2, EligiblePairs DEF CycleTradeInv, RowsTypeOK
<1>6. \A d \in Cycles : HistoryInv(d)'
  BY <1>1 DEF IInv, HistoryInv, RowsTypeOK
<1> QED
  BY <1>2, <1>3, <1>4, <1>5, <1>6 DEF IInv

(* A cycle is confirmed after its legs were closed. *)
LEMMA ConfirmStep ==
    ASSUME IInv, NEW c \in Cycles, Confirm(c)
    PROVE  IInv'
<1>1. /\ RowsTypeOK
      /\ pc[c] = "marked"
      /\ UNCHANGED <<clock, trade, begun, novated_at, cut_off_time,
                     positions, marked, known, before>>
      /\ pc' = [pc EXCEPT ![c] = "confirmed"]
      /\ leg' = [l \in Legs |-> IF l \in marked[c] THEN "netted" ELSE leg[l]]
  BY DEF IInv, Confirm, ClosedStatus
<1>2. RowsTypeOK'
  BY <1>1 DEF RowsTypeOK, PCs
<1>3. \A t \in Trades : TradeInv(t)'
  <2>1. SUFFICES ASSUME NEW t \in Trades PROVE TradeInv(t)'
    OBVIOUS
  <2>2. /\ TradeInv(t) /\ CycleTradeInv(c, t)
        /\ <<t, "BUY">> \in Legs /\ <<t, "SELL">> \in Legs
    BY LegPair DEF IInv
  <2>3. /\ CycleLegInv(c, <<t, "BUY">>) /\ CycleLegInv(c, <<t, "SELL">>)
    BY <2>2 DEF IInv
  <2>4. /\ leg'[<<t, "BUY">>] = leg'[<<t, "SELL">>]
        /\ leg'[<<t, "BUY">>] # "none" <=> leg[<<t, "BUY">>] # "none"
    BY <1>1, <2>2, <2>3 DEF TradeInv, CycleTradeInv, CycleLegInv
  <2> QED
    BY <1>1, <2>2, <2>4 DEF TradeInv
<1>4. \A d \in Cycles, l \in Legs : CycleLegInv(d, l)'
  <2>1. SUFFICES ASSUME NEW d \in Cycles, NEW l \in Legs
                 PROVE  CycleLegInv(d, l)'
    OBVIOUS
  <2>2. CycleLegInv(d, l) /\ CycleLegInv(c, l)
    BY DEF IInv
  <2>3. /\ leg[l] = "netted" => leg'[l] = "netted"
        /\ leg[l] # "none" => leg'[l] # "none"
        /\ l \in marked[c] => leg'[l] = "netted"
    BY <1>1
  <2>4. CASE d = c
    BY <1>1, <2>2, <2>3, <2>4 DEF CycleLegInv, RowsTypeOK
  <2>5. CASE d # c
    BY <1>1, <2>2, <2>3, <2>5 DEF CycleLegInv, RowsTypeOK
  <2> QED
    BY <2>4, <2>5
<1>5. \A d \in Cycles, t \in Trades : CycleTradeInv(d, t)'
  BY <1>1 DEF IInv, CycleTradeInv
<1>6. \A d \in Cycles : HistoryInv(d)'
  BY <1>1 DEF IInv, HistoryInv, RowsTypeOK
<1> QED
  BY <1>2, <1>3, <1>4, <1>5, <1>6 DEF IInv

(* Reading the prices, and the rollback, change nothing but the pc. *)
LEMMA PcStep ==
    ASSUME IInv, NEW c \in Cycles, EnrichWithPrices(c) \/ RollBackCycle(c)
    PROVE  IInv'
<1>1. /\ RowsTypeOK
      /\ pc[c] \in Running
      /\ UNCHANGED <<clock, trade, begun, leg, novated_at, cut_off_time,
                     positions, marked, known, before>>
      /\ \E p \in {"priced", "failed"} : pc' = [pc EXCEPT ![c] = p]
  BY DEF IInv, EnrichWithPrices, RollBackCycle, Running, novation
<1>2. RowsTypeOK'
  BY <1>1 DEF RowsTypeOK, PCs
<1>3. \A t \in Trades : TradeInv(t)'
  BY <1>1 DEF IInv, TradeInv
<1>4. \A d \in Cycles, l \in Legs : CycleLegInv(d, l)'
  BY <1>1 DEF IInv, CycleLegInv, RowsTypeOK, Running
<1>5. \A d \in Cycles, t \in Trades : CycleTradeInv(d, t)'
  BY <1>1 DEF IInv, CycleTradeInv
<1>6. \A d \in Cycles : HistoryInv(d)'
  BY <1>1 DEF IInv, HistoryInv, RowsTypeOK, Running
<1> QED
  BY <1>2, <1>3, <1>4, <1>5, <1>6 DEF IInv

-----------------------------------------------------------------------------
(* The inductive invariant is preserved. *)
LEMMA NextIInv == IInv /\ [Next]_vars => IInv'
<1>1. SUFFICES ASSUME IInv, [Next]_vars PROVE IInv'
  OBVIOUS
<1>2. CASE Tick \/ PublishPrices \/ UNCHANGED vars
  BY <1>1, <1>2, QuietStep
<1>3. CASE \E t \in Trades : BeginNovation(t) \/ Reject(t)
  BY <1>1, <1>3, QuietStep
<1>4. CASE \E t \in Trades, s \in Times : RollBackNovation(t, s)
  BY <1>1, <1>4, QuietStep
<1>5. CASE \E t \in Trades, s \in Times : Novate(t, s)
  BY <1>1, <1>5, NovateStep
<1>6. CASE \E c \in Cycles, cut \in Times : FetchPositions(c, cut)
  BY <1>1, <1>6, FetchStep
<1>7. CASE \E c \in Cycles : MarkTradesClosed(c)
  BY <1>1, <1>7, MarkStep
<1>8. CASE \E c \in Cycles : Confirm(c)
  BY <1>1, <1>8, ConfirmStep
<1>9. CASE \E c \in Cycles : EnrichWithPrices(c) \/ RollBackCycle(c)
  BY <1>1, <1>9, PcStep
<1> QED
  BY <1>1, <1>2, <1>3, <1>4, <1>5, <1>6, <1>7, <1>8, <1>9 DEF Next, Advance

(* The rows of novation and netting keep the invariant in every            *)
(* interleaving of novations, cycles, rollbacks and price updates.         *)
THEOREM NettingInvariant == Spec => []IInv
<1>1. Init => IInv
  BY InitIInv
<1>2. IInv /\ [Next]_vars => IInv'
  BY NextIInv
<1> QED
  BY <1>1, <1>2, PTL DEF Spec

(* The two legs of a trade are created, aggregated and netted together: the*)
(* CCP is never left with one side of a trade in a cycle.                  *)
THEOREM LegsStayTogether == Spec => []LegsMoveTogether
<1>1. IInv => LegsMoveTogether
  BY DEF IInv, TradeInv, CycleTradeInv, LegsMoveTogether
<1> QED
  BY <1>1, NettingInvariant, PTL

(* A leg that a confirmed cycle has turned into obligations is not open. *)
THEOREM PositionsEndNetted == Spec => []PositionsAreNetted
<1>1. IInv => PositionsAreNetted
  BY DEF IInv, RowsTypeOK, CycleLegInv, PositionsAreNetted, Confirmed
<1> QED
  BY <1>1, NettingInvariant, PTL

(* Cycles that follow one another settle disjoint sets of legs. *)
THEOREM SequentialCyclesAreDisjoint == Spec => []LaterCyclesStartAfresh
<1>1. IInv => LaterCyclesStartAfresh
  BY DEF IInv, HistoryInv, LaterCyclesStartAfresh, Confirmed
<1> QED
  BY <1>1, NettingInvariant, PTL

(* The UPDATE closes no leg that existed when the cycle read the positions *)
(* and that the cycle did not read.                                        *)
THEOREM MarksOnlyWhatItSaw == Spec => []MarksWhatItSaw
<1>1. IInv => MarksWhatItSaw
  BY DEF IInv, RowsTypeOK, CycleLegInv, MarksWhatItSaw
<1> QED
  BY <1>1, NettingInvariant, PTL

-----------------------------------------------------------------------------
(* The netting algorithm, as sums over legs. *)

(* The columns that never change, and the prices, have their types. *)
DataTypeOK ==
    /\ terms \in TermSets
    /\ quote \in [Instruments -> Quotes]
    /\ priced \in [Cycles -> [Instruments -> Quotes]]

Mine(S, m, n) == {l \in S : Member(l) = m /\ Instrument(l) = n}
Signed == [l \in Legs |-> IF l[2] = "BUY" THEN Quantity(l) ELSE -Quantity(l)]
NetBalance(S, m, n) == SumFunctionOnSet(Signed, Mine(S, m, n))

(* A leg has a member, an instrument and a quantity. *)
LEMMA LegColumns ==
    ASSUME DataTypeOK, NEW l \in Legs
    PROVE  /\ Member(l) \in Members /\ Instrument(l) \in Instruments
           /\ Quantity(l) \in Int /\ Signed[l] \in Int
<1>1. l[1] \in Trades /\ terms[l[1]] \in TermType
  BY LegPair, NettingAssumption DEF DataTypeOK
<1> QED
  BY <1>1 DEF Member, Instrument, Quantity, Signed, TermType

(* A price is a number, zero where there is none yet. *)
LEMMA PricesAreNumbers ==
    ASSUME DataTypeOK, NEW c \in Cycles, NEW n \in Instruments
    PROVE  priced[c][n] \in Int
<1>1. priced[c] \in [Instruments -> Quotes]
  BY DEF DataTypeOK
<1>2. priced[c][n] \in Quotes
  BY <1>1
<1>3. \A q \in Quotes : q \in Int
  BY NettingAssumption
<1> QED
  BY <1>2, <1>3, Zenon

(* There are finitely many legs. *)
LEMMA LegsAreFinite ==
    ASSUME NEW S \in SUBSET Legs PROVE IsFiniteSet(S)
<1>1. {"BUY", "SELL"} = {"BUY"} \cup {"SELL"} /\ IsFiniteSet({"BUY"})
  BY FS_Singleton
<1>2. IsFiniteSet(Sides)
  BY <1>1, FS_AddElement DEF Sides
<1>3. IsFiniteSet(Legs)
  BY <1>2, NettingAssumption, FS_Product DEF Legs
<1> QED
  BY <1>3, FS_Subset

(* Grouping by side in SQL keeps, for a member and an instrument, the      *)
(* quantity of the legs on that side.                                      *)
LEMMA TotalIsQuantity ==
    ASSUME DataTypeOK, NEW S \in SUBSET Legs, NEW m, NEW n, NEW side
    PROVE  Total(Aggregate(S), <<m, n>>, side)
             = SumFunctionOnSet([l \in Legs |-> Quantity(l)],
                                {l \in Mine(S, m, n) : l[2] = side})
<1> DEFINE g == [member |-> m, instrument |-> n, side |-> side]
           q == [l \in Legs |-> Quantity(l)]
           sum(h) == SumFunction([l \in {l \in S : GroupOf(l) = h} |->
                                     Quantity(l)])
           same == {l \in Mine(S, m, n) : l[2] = side}
           of == {r \in Aggregate(S) : r.group = g}
           total == [r \in of |-> r.total_quantity]
<1> SUFFICES Total(Aggregate(S), <<m, n>>, side) = SumFunctionOnSet(q, same)
  OBVIOUS
<1>1. {l \in S : GroupOf(l) = g} = same
  BY DEF GroupOf, Mine
<1>2. Total(Aggregate(S), <<m, n>>, side) = SumFunctionOnSet(total, of)
  BY DEF Total, SumFunction
<1>3. Aggregate(S) = {[group |-> h, total_quantity |-> sum(h)] :
                         h \in {GroupOf(l) : l \in S}}
  BY DEF Aggregate
<1>4. /\ same \subseteq Legs /\ IsFiniteSet(same)
      /\ \A l \in same : q[l] \in Int
  BY LegsAreFinite, LegColumns DEF Mine
<1>5. sum(g) = SumFunctionOnSet(q, same)
  <2> DEFINE q2 == [l \in same |-> Quantity(l)]
  <2>1. sum(g) = SumFunctionOnSet(q2, same)
    BY <1>1, Zenon DEF SumFunction
  <2>2. \A l \in same : q2[l] = q[l]
    BY <1>4
  <2> HIDE DEF q2, q, same, sum
  <2> QED
    BY <1>4, <2>1, <2>2, SumOfEqual
<1>6. SumFunctionOnSet(q, same) \in Int
  <2> HIDE DEF q, same
  <2> QED
    BY <1>4, SumInt
<1>7. CASE same = {}
  <2>1. of = {}
    <3> HIDE DEF sum
    <3> QED
      BY <1>1, <1>3, <1>7
  <2> HIDE DEF of, same, total, q
  <2> QED
    BY <1>2, <1>7, <2>1, SumEmpty, Zenon
<1>8. CASE same # {}
  <2> DEFINE row == [group |-> g, total_quantity |-> sum(g)]
  <2>1. of = {row}
    <3>1. \E l \in S : GroupOf(l) = g
      BY <1>1, <1>8
    <3> HIDE DEF sum, g
    <3> QED
      BY <1>3, <3>1
  <2>2. total[row] = sum(g)
    <3>1. row \in of /\ row.total_quantity = sum(g)
      BY <2>1
    <3> HIDE DEF sum, row, of
    <3> QED
      BY <3>1
  <2> HIDE DEF of, total, row, sum, q, same
  <2>3. SumFunctionOnSet(total, {row}) = total[row]
    BY <1>5, <1>6, <2>2, SumOfOne
  <2> QED
    BY <1>2, <1>5, <2>1, <2>2, <2>3, Zenon
<1> QED
  BY <1>7, <1>8

(* Netting in Python then gives the balance of the legs themselves. *)
LEMMA NetIsBalance ==
    ASSUME DataTypeOK, NEW S \in SUBSET Legs, NEW m, NEW n
    PROVE  Net(Aggregate(S), <<m, n>>) = NetBalance(S, m, n)
           /\ NetBalance(S, m, n) \in Int
<1> DEFINE q == [l \in Legs |-> Quantity(l)]
           buys == {l \in Mine(S, m, n) : l[2] = "BUY"}
           sells == {l \in Mine(S, m, n) : l[2] = "SELL"}
<1>1. /\ Total(Aggregate(S), <<m, n>>, "BUY") = SumFunctionOnSet(q, buys)
      /\ Total(Aggregate(S), <<m, n>>, "SELL") = SumFunctionOnSet(q, sells)
  BY TotalIsQuantity
<1>2. /\ buys \subseteq Legs /\ sells \subseteq Legs /\ buys \cap sells = {}
      /\ buys \cup sells = Mine(S, m, n)
  BY LegPair DEF Mine
<1>3. /\ IsFiniteSet(buys) /\ IsFiniteSet(sells)
      /\ \A l \in Legs : q[l] \in Int /\ Signed[l] \in Int
  BY <1>2, LegsAreFinite, LegColumns
<1>4. /\ \A l \in buys : Signed[l] = q[l]
      /\ \A l \in sells : Signed[l] = (-1) * q[l]
  BY <1>2, <1>3 DEF Signed
<1> HIDE DEF q, buys, sells
<1>5. SumFunctionOnSet(Signed, buys) = SumFunctionOnSet(q, buys)
  BY <1>2, <1>3, <1>4, SumOfEqual
<1>6. SumFunctionOnSet(Signed, sells) = (-1) * SumFunctionOnSet(q, sells)
  BY <1>2, <1>3, <1>4, SumScaled
<1>7. SumFunctionOnSet(Signed, buys \cup sells)
        = SumFunctionOnSet(Signed, buys) + SumFunctionOnSet(Signed, sells)
  BY <1>2, <1>3, SumUnion
<1>8. SumFunctionOnSet(q, buys) \in Int /\ SumFunctionOnSet(q, sells) \in Int
  BY <1>2, <1>3, SumInt
<1>9. NetBalance(S, m, n) = SumFunctionOnSet(q, buys) - SumFunctionOnSet(q, sells)
  <2>1. NetBalance(S, m, n) = SumFunctionOnSet(Signed, buys \cup sells)
    BY <1>2, Zenon DEF NetBalance
  <2> QED
    BY <1>5, <1>6, <1>7, <1>8, <2>1
<1> QED
  BY <1>1, <1>8, <1>9 DEF Net

(* What a member owes in an instrument, if its balance there is not zero. *)
Owes(S, price, m, n) ==
    [member |-> m, instrument |-> n, net_quantity |-> NetBalance(S, m, n),
     net_amount |-> NetBalance(S, m, n) * price[n],
     settlement_amount |-> Abs(NetBalance(S, m, n) * price[n])]

(* A member without legs has no balance. *)
LEMMA FlatIsZero ==
    ASSUME NEW S, NEW m, NEW n, Mine(S, m, n) = {}
    PROVE  NetBalance(S, m, n) = 0
  BY SumEmpty, Zenon DEF NetBalance

(* The obligations are the balances that are not zero. *)
LEMMA ObligationsAre ==
    ASSUME DataTypeOK, NEW S \in SUBSET Legs, NEW price
    PROVE  calculate_net_obligations(Aggregate(S), price)
             = {Owes(S, price, k[1], k[2]) :
                   k \in {k \in Members \X Instruments :
                             NetBalance(S, k[1], k[2]) # 0}}
<1> DEFINE keys == {<<r.group.member, r.group.instrument>> :
                       r \in Aggregate(S)}
           open == {k \in Members \X Instruments :
                       NetBalance(S, k[1], k[2]) # 0}
<1>1. keys = {<<Member(l), Instrument(l)>> : l \in S}
  <2> DEFINE sum(h) == SumFunction([l \in {l \in S : GroupOf(l) = h} |->
                                       Quantity(l)])
  <2>0. Aggregate(S) = {[group |-> h, total_quantity |-> sum(h)] :
                           h \in {GroupOf(l) : l \in S}}
    BY DEF Aggregate
  <2> HIDE DEF sum
  <2>1. \A r \in Aggregate(S) : \E l \in S : r.group = GroupOf(l)
    BY <2>0
  <2>2. ASSUME NEW l \in S
        PROVE  \E r \in Aggregate(S) : r.group = GroupOf(l)
    <3> DEFINE row == [group |-> GroupOf(l), total_quantity |-> sum(GroupOf(l))]
    <3>1. row \in Aggregate(S)
      BY <2>0
    <3>2. row.group = GroupOf(l)
      OBVIOUS
    <3> QED
      BY <3>1, <3>2
  <2>3. \A l \in S : /\ GroupOf(l).member = Member(l)
                     /\ GroupOf(l).instrument = Instrument(l)
    BY DEF GroupOf
  <2> QED
    BY <2>1, <2>2, <2>3
<1>2. \A k \in keys : /\ k \in Members \X Instruments
                      /\ Net(Aggregate(S), k) = NetBalance(S, k[1], k[2])
  <2>1. ASSUME NEW k \in keys
        PROVE  /\ k \in Members \X Instruments /\ k = <<k[1], k[2]>>
    <3>1. PICK l \in S : k = <<Member(l), Instrument(l)>>
      BY <1>1
    <3> QED
      BY <3>1, LegColumns
  <2>2. \A m, n : Net(Aggregate(S), <<m, n>>) = NetBalance(S, m, n)
    BY NetIsBalance
  <2> HIDE DEF keys
  <2>3. ASSUME NEW k \in keys
        PROVE  Net(Aggregate(S), k) = NetBalance(S, k[1], k[2])
    BY <2>1, <2>2, Zenon
  <2> QED
    BY <2>1, <2>3
<1>3. \A k \in open : k \in keys
  <2>1. ASSUME NEW k \in open PROVE k \in keys
    <3>1. /\ NetBalance(S, k[1], k[2]) # 0 /\ k = <<k[1], k[2]>>
      OBVIOUS
    <3>2. Mine(S, k[1], k[2]) # {}
      BY <3>1, FlatIsZero, Zenon
    <3>3. PICK l \in S : Member(l) = k[1] /\ Instrument(l) = k[2]
      BY <3>2 DEF Mine
    <3> QED
      BY <1>1, <3>1, <3>3
  <2> QED
    BY <2>1
<1> DEFINE net(k) == Net(Aggregate(S), k)
           owes(k) == [member |-> k[1], instrument |-> k[2],
                       net_quantity |-> net(k),
                       net_amount |-> net(k) * price[k[2]],
                       settlement_amount |-> Abs(net(k) * price[k[2]])]
<1>4. calculate_net_obligations(Aggregate(S), price)
        = {owes(k) : k \in {k \in keys : net(k) # 0}}
  BY DEF calculate_net_obligations
<1>5. \A k \in keys : owes(k) = Owes(S, price, k[1], k[2])
  <2> HIDE DEF keys
  <2> QED
    BY <1>2 DEF Owes
<1>6. {k \in keys : net(k) # 0} = open
  <2> HIDE DEF keys
  <2> QED
    BY <1>2, <1>3
<1> SUFFICES calculate_net_obligations(Aggregate(S), price)
               = {Owes(S, price, k[1], k[2]) : k \in open}
  OBVIOUS
<1>7. \A k \in open : owes(k) = Owes(S, price, k[1], k[2])
  <2> HIDE DEF keys, open, owes
  <2> QED
    BY <1>3, <1>5
<1> HIDE DEF keys, open, owes, net
<1> QED
  BY <1>4, <1>6, <1>7

(* One side of a trade per leg: over all members, what an instrument's     *)
(* legs add up to is nothing, if they come in pairs.                       *)
Paired(S) == \A t \in Trades : <<t, "BUY">> \in S <=> <<t, "SELL">> \in S

(* The quantities of whole trades cancel in each instrument. *)
LEMMA TradesCancel ==
    ASSUME DataTypeOK, NEW S \in SUBSET Legs, NEW n, Paired(S)
    PROVE  SumFunctionOnSet(Signed, {l \in S : Instrument(l) = n}) = 0
<1> DEFINE of == {l \in S : Instrument(l) = n}
           key == [l \in Legs |-> l[1]]
           each == [t \in Trades |->
                       SumFunctionOnSet(Signed, Group(of, key, t))]
<1>1. /\ IsFiniteSet(of) /\ IsFiniteSet(Trades) /\ of \subseteq Legs
      /\ \A l \in of : Signed[l] \in Int /\ key[l] \in Trades
  BY LegsAreFinite, LegColumns, NettingAssumption, LegPair
<1>2. ASSUME NEW t \in Trades PROVE each[t] = 0
  <2>1. /\ <<t, "BUY">> \in Legs /\ <<t, "SELL">> \in Legs
        /\ <<t, "BUY">> # <<t, "SELL">>
    BY LegPair
  <2>2. /\ Instrument(<<t, "BUY">>) = Instrument(<<t, "SELL">>)
        /\ Signed[<<t, "BUY">>] = Quantity(<<t, "BUY">>)
        /\ Signed[<<t, "SELL">>] = -Quantity(<<t, "BUY">>)
        /\ Quantity(<<t, "BUY">>) \in Int
    BY <2>1, LegColumns DEF Signed, Instrument, Quantity
  <2>3. Group(of, key, t) \in {{}, {<<t, "BUY">>, <<t, "SELL">>}}
    <3>1. \A l \in Group(of, key, t) : l \in {<<t, "BUY">>, <<t, "SELL">>}
      BY LegPair DEF Group
    <3>2. <<t, "BUY">> \in Group(of, key, t)
            <=> <<t, "SELL">> \in Group(of, key, t)
      BY <2>1, <2>2 DEF Group, Paired
    <3> HIDE DEF of, key
    <3> QED
      BY <3>1, <3>2
  <2>4. each[t] = SumFunctionOnSet(Signed, Group(of, key, t))
    OBVIOUS
  <2> HIDE DEF of, key, each
  <2>5. CASE Group(of, key, t) = {}
    BY <2>4, <2>5, SumEmpty, Zenon
  <2>6. CASE Group(of, key, t) = {<<t, "BUY">>, <<t, "SELL">>}
    <3>1. SumFunctionOnSet(Signed, {<<t, "BUY">>, <<t, "SELL">>})
            = Signed[<<t, "BUY">>] + Signed[<<t, "SELL">>]
      <4>1. Signed[<<t, "BUY">>] \in Int /\ Signed[<<t, "SELL">>] \in Int
        BY <2>1, LegColumns
      <4> QED
        BY <2>1, <4>1, SumOfTwo
    <3>2. each[t] = Signed[<<t, "BUY">>] + Signed[<<t, "SELL">>]
      BY <2>4, <2>6, <3>1, Zenon
    <3> QED
      BY <2>2, <3>2
  <2> QED
    BY <2>3, <2>5, <2>6
<1>3. \A t \in Trades : each[t] = SumFunctionOnSet(Signed, Group(of, key, t))
  OBVIOUS
<1> SUFFICES SumFunctionOnSet(Signed, of) = 0
  OBVIOUS
<1> HIDE DEF of, key, each
<1>4. SumFunctionOnSet(each, Trades) = 0
  BY <1>1, <1>2, SumOfZeros
<1>5. SumFunctionOnSet(each, Trades) = SumFunctionOnSet(Signed, of)
  BY <1>1, <1>3, SumGroups
<1> QED
  BY <1>4, <1>5

(* The members whose balance in n is not zero, and what they have together.*)
Parties(S, n) == {m \in Members : NetBalance(S, m, n) # 0}

(* They are finitely many, and together they have nothing. *)
LEMMA BalancesCancel ==
    ASSUME DataTypeOK, NEW S \in SUBSET Legs, NEW n, Paired(S)
    PROVE  /\ IsFiniteSet(Parties(S, n))
           /\ SumFunctionOnSet([m \in Members |-> NetBalance(S, m, n)],
                               Parties(S, n)) = 0
<1> DEFINE of == {l \in S : Instrument(l) = n}
           key == [l \in Legs |-> Member(l)]
           all == {key[l] : l \in of}
           balance == [m \in Members |-> NetBalance(S, m, n)]
<1>1. /\ IsFiniteSet(of) /\ of \subseteq Legs
      /\ \A l \in of : Signed[l] \in Int /\ key[l] \in Members
  BY LegsAreFinite, LegColumns
<1>2. all \subseteq Members /\ \A l \in of : key[l] \in all
  BY <1>1
<1>3. IsFiniteSet(all)
  <2> HIDE DEF of, key
  <2> QED
    BY <1>1, FiniteImage
<1>4. \A m \in Members : Group(of, key, m) = Mine(S, m, n)
  BY DEF Group, Mine
<1>5. \A m \in all : balance[m] = SumFunctionOnSet(Signed, Group(of, key, m))
  <2> HIDE DEF of, key, all
  <2>1. \A m \in all : balance[m] = NetBalance(S, m, n)
    BY <1>2
  <2> HIDE DEF balance
  <2> QED
    BY <1>2, <1>4, <2>1, Zenon DEF NetBalance
<1>6. Parties(S, n) \subseteq all
  <2>1. ASSUME NEW m \in Parties(S, n) PROVE m \in all
    <3>1. m \in Members /\ Mine(S, m, n) # {}
      BY FlatIsZero DEF Parties
    <3>2. PICK l \in S : Member(l) = m /\ Instrument(l) = n
      BY <3>1 DEF Mine
    <3> QED
      BY <3>2
  <2> QED
    BY <2>1
<1>7. /\ \A m \in Members : balance[m] \in Int
      /\ \A m \in all \ Parties(S, n) : balance[m] = 0
  BY <1>2, NetIsBalance DEF Parties
<1> SUFFICES /\ IsFiniteSet(Parties(S, n))
             /\ SumFunctionOnSet(balance, Parties(S, n)) = 0
  OBVIOUS
<1>8. SumFunctionOnSet(Signed, of) = 0
  BY TradesCancel
<1> HIDE DEF of, key, all, balance
<1>9. SumFunctionOnSet(balance, all) = SumFunctionOnSet(Signed, of)
  BY <1>1, <1>2, <1>3, <1>5, SumGroups
<1>10. SumFunctionOnSet(balance, all) = SumFunctionOnSet(balance, Parties(S, n))
  <2>1. \A m \in Parties(S, n) : balance[m] \in Int
    BY <1>7 DEF Parties
  <2> QED
    BY <1>3, <1>6, <1>7, <2>1, SumWithin
<1>11. IsFiniteSet(Parties(S, n))
  BY <1>3, <1>6, FS_Subset
<1> QED
  BY <1>8, <1>9, <1>10, <1>11

-----------------------------------------------------------------------------
(* What a cycle computes from what it read, before any rounding. *)
Owed(c) == calculate_net_obligations(Aggregate(positions[c]), priced[c])

(* What a confirmed cycle has written, and that no other cycle writes. *)
ResultInv ==
    /\ DataTypeOK
    /\ DOMAIN obligations = Cycles /\ DOMAIN instructions = Cycles
    /\ \A c \in Cycles :
         IF pc[c] = "confirmed"
         THEN /\ obligations[c] = {ObligationRow(o) : o \in Owed(c)}
              /\ instructions[c] = {InstructionFor(o) : o \in Owed(c)}
         ELSE obligations[c] = {} /\ instructions[c] = {}

(* The columns of a trade never change, so what a SELECT sums does not. *)
LEMMA AggregateStays ==
    ASSUME terms' = terms PROVE \A S : Aggregate(S)' = Aggregate(S)
  BY DEF Aggregate, GroupOf, Member, Instrument, Quantity

(* No statement writes them. *)
LEMMA DataTypeStep ==
    ASSUME DataTypeOK, [Next]_vars PROVE DataTypeOK' /\ terms' = terms
<1>1. terms' = terms
  BY DEF Next, Tick, PublishPrices, BeginNovation, Reject, Novate,
     RollBackNovation, FetchPositions, Advance, EnrichWithPrices,
     MarkTradesClosed, Confirm, RollBackCycle, novation, vars
<1>2. quote' \in [Instruments -> Quotes]
  BY DEF DataTypeOK, Next, Tick, PublishPrices, BeginNovation, Reject, Novate,
     RollBackNovation, FetchPositions, Advance, EnrichWithPrices,
     MarkTradesClosed, Confirm, RollBackCycle, vars
<1>3. priced' \in [Cycles -> [Instruments -> Quotes]]
  BY DEF DataTypeOK, Next, Tick, PublishPrices, BeginNovation, Reject, Novate,
     RollBackNovation, FetchPositions, Advance, EnrichWithPrices,
     MarkTradesClosed, Confirm, RollBackCycle, vars, cycleVars
<1> QED
  BY <1>1, <1>2, <1>3 DEF DataTypeOK

(* Rows are written by the commit of their cycle and by nothing else. *)
LEMMA ResultStep ==
    ASSUME IInv, ResultInv, [Next]_vars PROVE ResultInv'
<1>1. DataTypeOK' /\ (\A S : Aggregate(S)' = Aggregate(S)) /\ RowsTypeOK
  BY DataTypeStep, AggregateStays DEF ResultInv, IInv
<1>2. ASSUME UNCHANGED <<obligations, instructions>>,
             \A d \in Cycles : /\ pc'[d] = "confirmed" <=> pc[d] = "confirmed"
                               /\ pc[d] = "confirmed" =>
                                    /\ positions'[d] = positions[d]
                                    /\ priced'[d] = priced[d]
      PROVE  ResultInv'
  <2>1. ASSUME NEW d \in Cycles, pc[d] = "confirmed"
        PROVE  Owed(d)' = Owed(d)
    BY <1>1, <1>2, <2>1 DEF Owed
  <2> QED
    BY <1>1, <1>2, <2>1 DEF ResultInv
<1>3. ASSUME NEW c \in Cycles, Confirm(c) PROVE ResultInv'
  <2>1. /\ pc' = [pc EXCEPT ![c] = "confirmed"]
        /\ UNCHANGED <<positions, priced>>
        /\ obligations' = [obligations EXCEPT ![c] =
                              {ObligationRow(o) : o \in Owed(c)}]
        /\ instructions' = [instructions EXCEPT ![c] =
                               {InstructionFor(o) : o \in Owed(c)}]
    BY <1>3 DEF Confirm, Owed
  <2>2. \A d \in Cycles : Owed(d)' = Owed(d)
    BY <1>1, <2>1 DEF Owed
  <2>3. /\ DOMAIN obligations' = Cycles /\ DOMAIN instructions' = Cycles
        /\ \A d \in Cycles \ {c} : /\ pc'[d] = pc[d]
                                   /\ obligations'[d] = obligations[d]
                                   /\ instructions'[d] = instructions[d]
    BY <2>1, <1>1 DEF ResultInv, RowsTypeOK
  <2>4. /\ pc'[c] = "confirmed"
        /\ obligations'[c] = {ObligationRow(o) : o \in Owed(c)}
        /\ instructions'[c] = {InstructionFor(o) : o \in Owed(c)}
    BY <2>1, <1>1 DEF ResultInv, RowsTypeOK
  <2> QED
    BY <1>1, <2>1, <2>2, <2>3, <2>4 DEF ResultInv
<1>4. ASSUME NEW c \in Cycles,
             \/ EnrichWithPrices(c) \/ MarkTradesClosed(c) \/ RollBackCycle(c)
             \/ \E cut \in Times : FetchPositions(c, cut)
      PROVE  ResultInv'
  BY <1>1, <1>2, <1>4 DEF EnrichWithPrices, MarkTradesClosed, RollBackCycle,
     FetchPositions, RowsTypeOK, Running, ResultInv, DataTypeOK
<1>5. CASE UNCHANGED cycleVars
  BY <1>2, <1>5 DEF cycleVars
<1> QED
  BY <1>3, <1>4, <1>5 DEF Next, Advance, Tick, PublishPrices, BeginNovation,
     Reject, Novate, RollBackNovation, vars

(* What a confirmed cycle wrote stays what its positions and prices gave. *)
LEMMA ResultInvariant == Spec => []ResultInv
<1>1. Init => ResultInv
  <2> SUFFICES ASSUME Init PROVE ResultInv
    OBVIOUS
  <2>1. DataTypeOK
    BY NettingAssumption DEF Init, DataTypeOK, NoPrice
  <2> QED
    BY <2>1 DEF Init, ResultInv
<1>2. IInv /\ ResultInv /\ [Next]_vars => ResultInv'
  BY ResultStep
<1> QED
  BY <1>1, <1>2, NettingInvariant, PTL DEF Spec

-----------------------------------------------------------------------------
(* What a NUMERIC(28, 8) column keeps of a product. *)

(* The nearest number of grains is at most half a grain away. *)
LEMMA NearestGrainIsNear ==
    ASSUME NEW n \in Nat
    PROVE  LET q == NearestGrain(n)
           IN  /\ q \in Nat
               /\ -Unit <= 2 * (Unit * q) - 2 * n
               /\ 2 * (Unit * q) - 2 * n <= Unit
<1> DEFINE x == 2 * n + Unit
           y == 2 * Unit
           q == x \div y
<1>1. x \in Nat /\ y \in Nat \ {0} /\ Unit \in Nat
  BY NettingAssumption
<1>2. q \in Nat /\ y * q <= x /\ x < y * q + y
  <2> HIDE DEF x, y
  <2>1. /\ x \div y \in Int /\ x % y \in 0..(y - 1)
        /\ x = y * (x \div y) + (x % y)
    BY <1>1
  <2>2. x \div y \in Nat
    BY <1>1
  <2> QED
    BY <2>1, <2>2, <1>1
<1>3. y * q = 2 * (Unit * q) /\ Unit * q \in Nat
  <2>1. q \in Nat
    BY <1>2
  <2> HIDE DEF q
  <2> QED
    BY <2>1, <1>1
<1>4. NearestGrain(n) = q
  BY DEF NearestGrain
<1> HIDE DEF q
<1>5. /\ 2 * (Unit * q) <= 2 * n + Unit
      /\ 2 * n + Unit < 2 * (Unit * q) + 2 * Unit
  BY <1>1, <1>2, <1>3
<1> QED
  BY <1>1, <1>2, <1>3, <1>4, <1>5 DEF q

(* A rounded number keeps its sign, and its magnitude rounds as it does. *)
LEMMA RoundedType ==
    /\ \A n \in Int : Rounded(n) \in Int /\ Rounded(Abs(n)) = Abs(Rounded(n))
    /\ \A n \in Nat : Rounded(n) \in Nat
    /\ \A n \in Int : n <= 0 => Rounded(n) <= 0
<1>1. \A n \in Nat : Rounded(n) = NearestGrain(n) /\ NearestGrain(n) \in Nat
  BY NearestGrainIsNear DEF Rounded
<1>2. ASSUME NEW n \in Int, n < 0
      PROVE  Rounded(n) = -NearestGrain(-n) /\ -n \in Nat
  BY <1>2 DEF Rounded
<1>3. NearestGrain(0) = 0
  <2>1. /\ NearestGrain(0) \in Nat
        /\ 2 * (Unit * NearestGrain(0)) - 2 * 0 <= Unit
    BY NearestGrainIsNear
  <2>2. Unit \in Nat /\ Unit >= 1
    BY NettingAssumption
  <2>3. ASSUME NearestGrain(0) >= 1 PROVE FALSE
    <3>1. Unit * 1 <= Unit * NearestGrain(0)
      BY <2>1, <2>2, <2>3
    <3>2. Unit * 1 = Unit /\ Unit * NearestGrain(0) \in Nat
      BY <2>1, <2>2
    <3> QED
      BY <2>1, <2>2, <3>1, <3>2
  <2> QED
    BY <2>1, <2>3
<1>4. ASSUME NEW n \in Int, n < 0
      PROVE  /\ Rounded(n) \in Int /\ Rounded(n) <= 0
             /\ Rounded(Abs(n)) = Abs(Rounded(n))
  <2>1. Abs(n) = -n /\ -n \in Nat /\ Rounded(n) = -NearestGrain(-n)
    BY <1>2, <1>4 DEF Abs
  <2>2. NearestGrain(-n) \in Nat /\ Rounded(-n) = NearestGrain(-n)
    BY <1>1, <2>1
  <2> QED
    BY <2>1, <2>2 DEF Abs
<1>5. ASSUME NEW n \in Nat
      PROVE  Abs(n) = n /\ Abs(Rounded(n)) = Rounded(n)
  BY <1>1, <1>5 DEF Abs
<1> QED
  BY <1>1, <1>3, <1>4, <1>5

(* A rounded number is at most half a grain from the number. *)
LEMMA RoundedIsNear ==
    ASSUME NEW n \in Int
    PROVE  /\ -Unit <= (2 * Unit) * Rounded(n) - 2 * n
           /\ (2 * Unit) * Rounded(n) - 2 * n <= Unit
<1>1. Unit \in Nat /\ Rounded(n) \in Int
  BY NettingAssumption, RoundedType
<1>2. CASE n \in Nat
  <2>1. Rounded(n) = NearestGrain(n)
    BY <1>2 DEF Rounded
  <2>2. (2 * Unit) * Rounded(n) = 2 * (Unit * Rounded(n))
    BY <1>1
  <2>3. Unit * Rounded(n) \in Int
    BY <1>1
  <2> QED
    BY <1>1, <1>2, <2>1, <2>2, <2>3, NearestGrainIsNear
<1>3. CASE n < 0
  <2> DEFINE q == NearestGrain(-n)
  <2>1. Rounded(n) = -q /\ -n \in Nat
    BY <1>3 DEF Rounded
  <2>2. /\ q \in Nat
        /\ -Unit <= 2 * (Unit * q) - 2 * (-n)
        /\ 2 * (Unit * q) - 2 * (-n) <= Unit
    BY <2>1, NearestGrainIsNear
  <2> HIDE DEF q
  <2>3. (2 * Unit) * (-q) = -(2 * (Unit * q)) /\ Unit * q \in Int
    BY <1>1, <2>2
  <2> QED
    BY <1>1, <2>1, <2>2, <2>3
<1> QED
  BY <1>2, <1>3

(* Numbers that cancel, each rounded for itself, cancel to within half a   *)
(* grain for each of them.                                                 *)
LEMMA RoundedSum ==
    ASSUME NEW P, IsFiniteSet(P), NEW due, NEW row,
           \A m \in P : due[m] \in Int /\ row[m] = Rounded(due[m]),
           SumFunctionOnSet(due, P) = 0
    PROVE  /\ SumFunctionOnSet(row, P) \in Int
           /\ -Cardinality(P) <= 2 * SumFunctionOnSet(row, P)
           /\ 2 * SumFunctionOnSet(row, P) <= Cardinality(P)
<1> DEFINE total == SumFunctionOnSet(row, P)
           size == Cardinality(P)
           up == [m \in P |-> (2 * Unit) * row[m]]
           down == [m \in P |-> (-2) * due[m]]
           error == [m \in P |-> up[m] + down[m]]
<1>1. /\ Unit \in Nat \ {0} /\ size \in Nat /\ 2 * Unit \in Int /\ -2 \in Int
      /\ \A m \in P : row[m] \in Int
  BY NettingAssumption, RoundedType, FS_CardinalityType
<1>2. total \in Int
  BY <1>1, SumInt
<1>3. ASSUME NEW m \in P
      PROVE  /\ up[m] \in Int /\ down[m] \in Int /\ error[m] = up[m] + down[m]
             /\ error[m] \in Int /\ -Unit <= error[m] /\ error[m] <= Unit
  <2>1. /\ up[m] = (2 * Unit) * row[m] /\ up[m] \in Int
        /\ down[m] = -(2 * due[m]) /\ down[m] \in Int
    BY <1>1
  <2>2. /\ -Unit <= (2 * Unit) * row[m] - 2 * due[m]
        /\ (2 * Unit) * row[m] - 2 * due[m] <= Unit
    BY RoundedIsNear
  <2>3. error[m] = up[m] + down[m]
    OBVIOUS
  <2> HIDE DEF up, down, error
  <2> QED
    BY <1>1, <2>1, <2>2, <2>3
<1>4. /\ \A m \in P : up[m] = (2 * Unit) * row[m]
      /\ \A m \in P : down[m] = (-2) * due[m]
  OBVIOUS
<1> HIDE DEF up, down, error
<1>5. SumFunctionOnSet(up, P) = (2 * Unit) * total
  BY <1>1, <1>4, SumScaled
<1>6. SumFunctionOnSet(down, P) = 0
  <2>1. SumFunctionOnSet(down, P) = (-2) * SumFunctionOnSet(due, P)
    <3>1. \A m \in P : due[m] \in Int /\ down[m] = (-2) * due[m]
      BY <1>4
    <3>2. -2 \in Int
      OBVIOUS
    <3> QED
      BY <3>1, <3>2, SumScaled
  <2> QED
    BY <2>1
<1>7. SumFunctionOnSet(error, P)
        = SumFunctionOnSet(up, P) + SumFunctionOnSet(down, P)
  BY <1>3, SumPlus
<1>8. /\ -(Unit * size) <= SumFunctionOnSet(error, P)
      /\ SumFunctionOnSet(error, P) <= Unit * size
  BY <1>1, <1>3, SumBounded
<1> HIDE DEF total, size
<1>9. (2 * Unit) * total = Unit * (2 * total)
  BY <1>1, <1>2
<1>10. /\ Unit * (2 * total) <= Unit * size
       /\ Unit * (2 * total) >= Unit * (-size)
  BY <1>1, <1>2, <1>5, <1>6, <1>7, <1>8, <1>9
<1>11. 2 * total <= size /\ 2 * total >= -size
  BY <1>1, <1>2, <1>10
<1> QED
  BY <1>1, <1>2, <1>11 DEF total, size

(* There are as many rows as what they are made of, if no two are alike. *)
LEMMA AsMany ==
    ASSUME NEW P, IsFiniteSet(P), NEW h,
           \A x, y \in P : h[x] = h[y] => x = y
    PROVE  Cardinality({h[x] : x \in P}) = Cardinality(P)
<1> DEFINE T == {h[x] : x \in P}
           f == [x \in P |-> h[x]]
<1>1. f \in Bijection(P, T)
  BY DEF Bijection, Injection, Surjection, IsInjective
<1> QED
  BY <1>1, FS_Bijection DEF ExistsBijection

-----------------------------------------------------------------------------
(* Every member with an open balance in an instrument has one obligation in*)
(* a confirmed cycle, of that quantity, and a flat member has none.        *)
LEMMA ExactNets ==
    ASSUME IInv, ResultInv PROVE NetsExactly
<1> SUFFICES ASSUME NEW c \in Confirmed, NEW m \in Members, NEW n \in Instruments
             PROVE  {o.net_quantity : o \in {o \in obligations[c] :
                                       o.member = m /\ o.instrument = n}}
                      = {SumFunction([l \in {l \in positions[c] :
                             Member(l) = m /\ Instrument(l) = n} |->
                                 IF l[2] = "BUY" THEN Quantity(l)
                                 ELSE -Quantity(l)])} \ {0}
  BY DEF NetsExactly
<1> DEFINE S == positions[c]
           signed == [l \in Mine(S, m, n) |->
                         IF l[2] = "BUY" THEN Quantity(l) ELSE -Quantity(l)]
<1>1. S \in SUBSET Legs /\ c \in Cycles /\ pc[c] = "confirmed" /\ DataTypeOK
  BY DEF Confirmed, IInv, RowsTypeOK, ResultInv
<1>2. SumFunction(signed) = NetBalance(S, m, n)
  <2>1. /\ IsFiniteSet(Mine(S, m, n))
        /\ \A l \in Mine(S, m, n) : signed[l] = Signed[l]
    BY <1>1, LegsAreFinite DEF Mine, Signed
  <2>2. SumFunction(signed) = SumFunctionOnSet(signed, Mine(S, m, n))
    BY DEF SumFunction
  <2> HIDE DEF signed, S
  <2>3. SumFunctionOnSet(signed, Mine(S, m, n))
          = SumFunctionOnSet(Signed, Mine(S, m, n))
    BY <2>1, SumOfEqual
  <2> QED
    BY <2>2, <2>3, Zenon DEF NetBalance
<1>3. /\ obligations[c] = {ObligationRow(o) : o \in Owed(c)}
      /\ Owed(c) = {Owes(S, priced[c], k[1], k[2]) :
                       k \in {k \in Members \X Instruments :
                                 NetBalance(S, k[1], k[2]) # 0}}
  BY <1>1, ObligationsAre DEF ResultInv, Owed
<1> HIDE DEF S
<1>4. \A o \in obligations[c] :
        /\ NetBalance(S, o.member, o.instrument) # 0
        /\ o.net_quantity = NetBalance(S, o.member, o.instrument)
  <2>1. ASSUME NEW o \in obligations[c]
        PROVE  /\ NetBalance(S, o.member, o.instrument) # 0
               /\ o.net_quantity = NetBalance(S, o.member, o.instrument)
    <3>1. PICK k \in Members \X Instruments :
             /\ NetBalance(S, k[1], k[2]) # 0
             /\ o = ObligationRow(Owes(S, priced[c], k[1], k[2]))
      BY <1>3
    <3>2. /\ o.member = k[1] /\ o.instrument = k[2]
          /\ o.net_quantity = NetBalance(S, k[1], k[2])
      BY <3>1 DEF Owes, ObligationRow
    <3> QED
      BY <3>1, <3>2
  <2> QED
    BY <2>1
<1>5. NetBalance(S, m, n) # 0 =>
        \E o \in obligations[c] : o.member = m /\ o.instrument = n
  <2> SUFFICES ASSUME NetBalance(S, m, n) # 0
               PROVE  \E o \in obligations[c] : o.member = m /\ o.instrument = n
    OBVIOUS
  <2>1. <<m, n>> \in {k \in Members \X Instruments :
                         NetBalance(S, k[1], k[2]) # 0}
    OBVIOUS
  <2>2. ObligationRow(Owes(S, priced[c], m, n)) \in obligations[c]
    BY <1>3, <2>1
  <2>3. /\ ObligationRow(Owes(S, priced[c], m, n)).member = m
        /\ ObligationRow(Owes(S, priced[c], m, n)).instrument = n
    BY DEF Owes, ObligationRow
  <2> QED
    BY <2>2, <2>3
<1>6. {o.net_quantity : o \in {o \in obligations[c] :
                                 o.member = m /\ o.instrument = n}}
        = {NetBalance(S, m, n)} \ {0}
  BY <1>4, <1>5
<1>7. {l \in S : Member(l) = m /\ Instrument(l) = n} = Mine(S, m, n)
  BY DEF Mine
<1> QED
  BY <1>2, <1>6, <1>7, Zenon DEF S

(* The legs a cycle reads come in pairs, whatever its cut-off. *)
LEMMA PositionsArePaired ==
    ASSUME IInv, NEW c \in Cycles
    PROVE  positions[c] \in SUBSET Legs /\ Paired(positions[c])
  BY DEF IInv, RowsTypeOK, CycleTradeInv, Paired

(* The obligations of an instrument, and its instructions, one per party.  *)
LEMMA OnePerParty ==
    ASSUME IInv, ResultInv, NEW c \in Confirmed, NEW n \in Instruments
    PROVE  /\ {o \in obligations[c] : o.instrument = n}
                = {ObligationRow(Owes(positions[c], priced[c], m, n)) :
                      m \in Parties(positions[c], n)}
           /\ {x \in instructions[c] : x.instrument = n}
                = {InstructionFor(Owes(positions[c], priced[c], m, n)) :
                      m \in Parties(positions[c], n)}
<1> DEFINE S == positions[c]
           price == priced[c]
           open == {k \in Members \X Instruments :
                       NetBalance(S, k[1], k[2]) # 0}
<1>1. S \in SUBSET Legs /\ c \in Cycles /\ pc[c] = "confirmed" /\ DataTypeOK
  BY DEF Confirmed, IInv, RowsTypeOK, ResultInv
<1>2. /\ obligations[c] = {ObligationRow(o) : o \in Owed(c)}
      /\ instructions[c] = {InstructionFor(o) : o \in Owed(c)}
      /\ Owed(c) = {Owes(S, price, k[1], k[2]) : k \in open}
  BY <1>1, ObligationsAre DEF ResultInv, Owed
<1> HIDE DEF S, price
<1>3. \A k : Owes(S, price, k[1], k[2]).instrument = k[2]
  BY DEF Owes
<1>4. \A m : Owes(S, price, m, n).instrument = n
  BY DEF Owes
<1>5. \A o \in Owed(c) : /\ ObligationRow(o).instrument = o.instrument
                         /\ InstructionFor(o).instrument = o.instrument
  <2>1. \A k : ObligationRow(Owes(S, price, k[1], k[2])).instrument = k[2]
    BY DEF ObligationRow, Owes
  <2>2. \A o : InstructionFor(o).instrument = o.instrument
    BY DEF InstructionFor
  <2> QED
    BY <1>2, <1>3, <2>1, <2>2
<1>6. \A m \in Parties(S, n) : <<m, n>> \in open
  BY DEF Parties
<1>7. \A k \in open : k[2] = n => k[1] \in Parties(S, n)
  BY DEF Parties
<1>8. {o \in Owed(c) : o.instrument = n}
        = {Owes(S, price, m, n) : m \in Parties(S, n)}
  <2>1. ASSUME NEW o \in Owed(c), o.instrument = n
        PROVE  \E m \in Parties(S, n) : o = Owes(S, price, m, n)
    <3>1. PICK k \in open : o = Owes(S, price, k[1], k[2])
      BY <1>2
    <3>2. k[2] = n
      BY <1>3, <2>1, <3>1
    <3> QED
      BY <1>7, <3>1, <3>2
  <2>2. ASSUME NEW m \in Parties(S, n)
        PROVE  Owes(S, price, m, n) \in Owed(c)
    <3>1. <<m, n>> \in open
      BY <1>6
    <3> HIDE DEF open
    <3> QED
      BY <1>2, <3>1
  <2> QED
    BY <1>4, <2>1, <2>2
<1>9. /\ {o \in obligations[c] : o.instrument = n}
           = {ObligationRow(o) : o \in {o \in Owed(c) : o.instrument = n}}
      /\ {x \in instructions[c] : x.instrument = n}
           = {InstructionFor(o) : o \in {o \in Owed(c) : o.instrument = n}}
  BY <1>2, <1>5
<1>10. /\ {o \in obligations[c] : o.instrument = n}
            = {ObligationRow(Owes(S, price, m, n)) : m \in Parties(S, n)}
       /\ {x \in instructions[c] : x.instrument = n}
            = {InstructionFor(Owes(S, price, m, n)) : m \in Parties(S, n)}
  BY <1>8, <1>9
<1> QED
  BY <1>10 DEF S, price

(* What the members owe in an instrument sums to zero, and the amounts to  *)
(* what the house account is paid beyond what it pays.                     *)
LEMMA HouseIsFlat ==
    ASSUME IInv, ResultInv PROVE CycleBalances
<1> SUFFICES ASSUME NEW c \in Confirmed, NEW n \in Instruments
             PROVE  LET owed == {o \in obligations[c] : o.instrument = n}
                        paid == {x \in instructions[c] : x.instrument = n}
                        amount == [x \in paid |-> x.amount]
                        total == SumFunction([o \in owed |-> o.net_amount])
                    IN  /\ SumFunction([o \in owed |-> o.net_quantity]) = 0
                        /\ -Cardinality(owed) <= 2 * total
                        /\ 2 * total <= Cardinality(owed)
                        /\ SumFunctionOnSet(amount, {x \in paid : x.to = CCP})
                             - SumFunctionOnSet(amount,
                                                {x \in paid : x.from = CCP})
                             = total
  BY DEF CycleBalances
<1> DEFINE S == positions[c]
           price == priced[c]
           P == Parties(S, n)
           ob == [m \in Members |-> ObligationRow(Owes(S, price, m, n))]
           ins == [m \in Members |-> InstructionFor(Owes(S, price, m, n))]
           owed == {o \in obligations[c] : o.instrument = n}
           paid == {x \in instructions[c] : x.instrument = n}
           amount == [x \in paid |-> x.amount]
           quantities == [o \in owed |-> o.net_quantity]
           amounts == [o \in owed |-> o.net_amount]
           balance == [m \in Members |-> NetBalance(S, m, n)]
           due == [m \in Members |-> price[n] * NetBalance(S, m, n)]
           row == [m \in Members |-> Rounded(due[m])]
<1>1. /\ S \in SUBSET Legs /\ Paired(S) /\ DataTypeOK /\ price[n] \in Int
      /\ P \subseteq Members
  <2>1. c \in Cycles /\ DataTypeOK
    BY DEF Confirmed, ResultInv
  <2> QED
    BY <2>1, PositionsArePaired, PricesAreNumbers DEF Parties
<1>2. IsFiniteSet(P) /\ SumFunctionOnSet(balance, P) = 0
  <2> HIDE DEF S
  <2> QED
    BY <1>1, BalancesCancel
<1>3. /\ owed = {ob[m] : m \in P}
      /\ paid = {ins[m] : m \in P}
  <2>1. /\ owed = {ObligationRow(Owes(S, price, m, n)) : m \in P}
        /\ paid = {InstructionFor(Owes(S, price, m, n)) : m \in P}
    BY OnePerParty
  <2>2. \A m \in P : /\ ob[m] = ObligationRow(Owes(S, price, m, n))
                     /\ ins[m] = InstructionFor(Owes(S, price, m, n))
    BY <1>1
  <2> HIDE DEF P, ob, ins, owed, paid
  <2> QED
    BY <2>1, <2>2
<1>4. \A m \in Members : /\ balance[m] \in Int /\ due[m] \in Int
                         /\ due[m] = price[n] * balance[m]
                         /\ row[m] = Rounded(due[m])
  <2>1. \A m \in Members : NetBalance(S, m, n) \in Int
    BY <1>1, NetIsBalance
  <2> HIDE DEF S
  <2> QED
    BY <1>1, <2>1
<1>5. \A m \in Members : /\ ob[m].member = m
                         /\ ob[m].net_quantity = balance[m]
                         /\ ob[m].net_amount = Rounded(due[m])
                         /\ ins[m].amount = Rounded(Abs(due[m]))
                         /\ ins[m].to = IF due[m] > 0 THEN CCP ELSE m
                         /\ ins[m].from = IF due[m] > 0 THEN m ELSE CCP
  <2>1. \A m \in Members : NetBalance(S, m, n) * price[n] = due[m]
    <3>1. \A m \in Members : NetBalance(S, m, n) \in Int
      BY <1>1, NetIsBalance
    <3> HIDE DEF S
    <3> QED
      BY <1>1, <3>1
  <2>2. \A m \in Members : Owes(S, price, m, n) =
            [member |-> m, instrument |-> n, net_quantity |-> balance[m],
             net_amount |-> due[m], settlement_amount |-> Abs(due[m])]
    BY <2>1 DEF Owes
  <2> HIDE DEF S, price, balance, due
  <2> QED
    <3>1. ASSUME NEW m \in Members
          PROVE  LET o == Owes(S, price, m, n)
                 IN  /\ ObligationRow(o).member = m
                     /\ ObligationRow(o).net_quantity = balance[m]
                     /\ ObligationRow(o).net_amount = Rounded(due[m])
                     /\ o.net_amount = due[m]
                     /\ o.settlement_amount = Abs(due[m])
                     /\ o.member = m
      BY <2>2 DEF ObligationRow
    <3> QED
      BY <3>1 DEF InstructionFor, MemberPays
<1>6. \A m1, m2 \in P : /\ ob[m1] = ob[m2] => m1 = m2
                        /\ ins[m1] = ins[m2] => m1 = m2
  <2> HIDE DEF ob, ins, P
  <2> QED
    BY <1>1, <1>5, NettingAssumption
<1> HIDE DEF S, price, P, ob, ins, owed, paid, balance, due, row
<1>7. SumFunction(quantities) = 0
  <2>1. /\ \A m \in P : quantities[ob[m]] = balance[m] /\ balance[m] \in Int
    BY <1>1, <1>3, <1>4, <1>5
  <2> HIDE DEF quantities
  <2>2. SumFunctionOnSet(quantities, {ob[m] : m \in P})
          = SumFunctionOnSet(balance, P)
    BY <1>2, <1>6, <2>1, SumImage
  <2>3. SumFunction(quantities) = SumFunctionOnSet(quantities, owed)
    BY DEF SumFunction, quantities
  <2> QED
    BY <1>2, <1>3, <2>2, <2>3, Zenon
<1>8. SumFunctionOnSet(due, P) = 0
  <2>1. \A m \in P : balance[m] \in Int /\ due[m] = price[n] * balance[m]
    BY <1>1, <1>4
  <2>2. SumFunctionOnSet(due, P) = price[n] * SumFunctionOnSet(balance, P)
    BY <1>1, <1>2, <2>1, SumScaled
  <2> QED
    BY <1>1, <1>2, <2>2
<1>9. \A m \in P : row[m] \in Int /\ due[m] \in Int /\ row[m] = Rounded(due[m])
  BY <1>1, <1>4, RoundedType
<1>10. SumFunction(amounts) = SumFunctionOnSet(row, P)
  <2>1. \A m \in P : amounts[ob[m]] = row[m]
    BY <1>1, <1>3, <1>4, <1>5
  <2> HIDE DEF amounts
  <2>2. SumFunctionOnSet(amounts, {ob[m] : m \in P}) = SumFunctionOnSet(row, P)
    BY <1>2, <1>6, <1>9, <2>1, SumImage
  <2>3. SumFunction(amounts) = SumFunctionOnSet(amounts, owed)
    BY DEF SumFunction, amounts
  <2> QED
    BY <1>3, <2>2, <2>3, Zenon
<1>11. /\ SumFunctionOnSet(row, P) \in Int
       /\ -Cardinality(P) <= 2 * SumFunctionOnSet(row, P)
       /\ 2 * SumFunctionOnSet(row, P) <= Cardinality(P)
  BY <1>2, <1>8, <1>9, RoundedSum
<1>12. Cardinality(owed) = Cardinality(P)
  BY <1>2, <1>3, <1>6, AsMany
<1> DEFINE Payers == {m \in P : due[m] > 0}
           Payees == {m \in P : ~(due[m] > 0)}
<1>13. /\ {x \in paid : x.to = CCP} = {ins[m] : m \in Payers}
       /\ {x \in paid : x.from = CCP} = {ins[m] : m \in Payees}
  BY <1>1, <1>3, <1>5, NettingAssumption
<1>14. /\ IsFiniteSet(Payers) /\ IsFiniteSet(Payees)
       /\ Payers \cup Payees = P /\ Payers \cap Payees = {}
       /\ Payers \subseteq P /\ Payees \subseteq P
  BY <1>2, FS_Subset
<1>15. /\ \A m \in Payers : amount[ins[m]] = row[m]
       /\ \A m \in Payees : amount[ins[m]] = (-1) * row[m]
  <2>1. \A m \in P : amount[ins[m]] = Abs(row[m])
    BY <1>1, <1>3, <1>5, <1>9, RoundedType
  <2>2. \A m \in P : due[m] > 0 => row[m] >= 0
    BY <1>9, RoundedType
  <2>3. \A m \in P : ~(due[m] > 0) => row[m] <= 0
    BY <1>9, RoundedType
  <2> HIDE DEF amount
  <2> QED
    BY <1>9, <2>1, <2>2, <2>3 DEF Abs
<1> HIDE DEF amount, Payers, Payees
<1>16. SumFunctionOnSet(amount, {ins[m] : m \in Payers})
         = SumFunctionOnSet(row, Payers)
  <2>1. \A m1, m2 \in Payers : ins[m1] = ins[m2] => m1 = m2
    BY <1>6, <1>14
  <2> QED
    BY <1>9, <1>14, <1>15, <2>1, SumImage
<1>17. SumFunctionOnSet(amount, {ins[m] : m \in Payees})
         = (-1) * SumFunctionOnSet(row, Payees)
  <2> DEFINE minus == [m \in Payees |-> (-1) * row[m]]
  <2>1. /\ \A m1, m2 \in Payees : ins[m1] = ins[m2] => m1 = m2
        /\ \A m \in Payees : minus[m] = (-1) * row[m] /\ row[m] \in Int
        /\ \A m \in Payees : amount[ins[m]] \in Int
                             /\ minus[m] = amount[ins[m]]
    BY <1>6, <1>9, <1>14, <1>15
  <2> HIDE DEF minus
  <2>2. SumFunctionOnSet(amount, {ins[m] : m \in Payees})
          = SumFunctionOnSet(minus, Payees)
    BY <1>14, <2>1, SumImage
  <2>3. SumFunctionOnSet(minus, Payees) = (-1) * SumFunctionOnSet(row, Payees)
    <3>1. -1 \in Int
      OBVIOUS
    <3> QED
      BY <1>14, <2>1, <3>1, SumScaled
  <2> QED
    BY <2>2, <2>3, Zenon
<1>18. SumFunctionOnSet(row, P)
         = SumFunctionOnSet(row, Payers) + SumFunctionOnSet(row, Payees)
  <2>1. \A m \in Payers \cup Payees : row[m] \in Int
    BY <1>9, <1>14
  <2>2. SumFunctionOnSet(row, Payers \cup Payees)
          = SumFunctionOnSet(row, Payers) + SumFunctionOnSet(row, Payees)
    BY <1>14, <2>1, SumUnion
  <2> QED
    BY <1>14, <2>2, Zenon
<1>19. /\ SumFunctionOnSet(row, Payers) \in Int
       /\ SumFunctionOnSet(row, Payees) \in Int
  BY <1>9, <1>14, SumInt
<1>20. SumFunctionOnSet(amount, {ins[m] : m \in Payers})
         - SumFunctionOnSet(amount, {ins[m] : m \in Payees})
         = SumFunctionOnSet(row, P)
  BY <1>16, <1>17, <1>18, <1>19
<1>21. /\ -Cardinality(owed) <= 2 * SumFunction(amounts)
       /\ 2 * SumFunction(amounts) <= Cardinality(owed)
       /\ SumFunctionOnSet(amount, {x \in paid : x.to = CCP})
            - SumFunctionOnSet(amount, {x \in paid : x.from = CCP})
            = SumFunction(amounts)
  BY <1>10, <1>11, <1>12, <1>13, <1>20, Zenon
<1> QED
  BY <1>7, <1>21, Zenon DEF owed, paid, amount

(* In every confirmed cycle, whatever it overlapped with, the obligations  *)
(* of an instrument sum to zero in quantity and, rounded one by one into   *)
(* their columns, to within half a grain each in amount; the house account *)
(* takes in, beyond what it pays out, exactly that sum (netting.py:207-259)*)
(* for any number of trades and members, any prices and any grain.         *)
THEOREM CyclesBalance == Spec => []CycleBalances
  BY HouseIsFlat, NettingInvariant, ResultInvariant, PTL

(* What netting.py:86-103 computes from the rows of the SELECT is the      *)
(* balance of the legs themselves, in every confirmed cycle.               *)
THEOREM NetsAreExact == Spec => []NetsExactly
  BY ExactNets, NettingInvariant, ResultInvariant, PTL

(* The rows that a cycle writes have the types of their tables. *)
THEOREM NettingTypes == Spec => []TypeOK
<1>1. IInv /\ ResultInv => TypeOK
  <2> SUFFICES ASSUME IInv, ResultInv PROVE TypeOK
    OBVIOUS
  <2>1. ASSUME NEW c \in Cycles, pc[c] = "confirmed"
        PROVE  obligations[c] \subseteq Obligation
               /\ instructions[c] \subseteq Instruction
    <3> DEFINE S == positions[c]
    <3>1. /\ S \in SUBSET Legs /\ DataTypeOK
          /\ obligations[c] = {ObligationRow(o) : o \in Owed(c)}
          /\ instructions[c] = {InstructionFor(o) : o \in Owed(c)}
          /\ Owed(c) = calculate_net_obligations(Aggregate(S), priced[c])
      BY <2>1 DEF IInv, RowsTypeOK, ResultInv, Owed
    <3> HIDE DEF S
    <3>2. \A m, n : NetBalance(S, m, n) \in Int
      BY <3>1, NetIsBalance
    <3>3. \A n \in Instruments : priced[c][n] \in Int
      BY <3>1, PricesAreNumbers
    <3>4. \A m \in Members, n \in Instruments :
             Owes(S, priced[c], m, n) \in Obligation
      <4>1. \A i, j \in Int : i * j \in Int /\ Abs(i * j) \in Nat
        BY DEF Abs
      <4> QED
        BY <3>2, <3>3, <4>1 DEF Owes, Obligation
    <3>5. Owed(c) \subseteq Obligation
      BY <3>1, <3>4, ObligationsAre
    <3>6. \A o \in Obligation : ObligationRow(o) \in Obligation
      BY RoundedType DEF Obligation, ObligationRow
    <3>7. \A o \in Obligation : InstructionFor(o) \in Instruction
      <4>1. \A o \in Obligation : /\ Abs(o.net_quantity) \in Nat
                                  /\ Rounded(o.settlement_amount) \in Nat
        BY RoundedType DEF Obligation, Abs
      <4> QED
        BY <4>1, NettingAssumption
           DEF Obligation, Instruction, InstructionFor, ContractType
    <3> QED
      BY <3>1, <3>5, <3>6, <3>7
  <2> QED
    BY <2>1 DEF IInv, RowsTypeOK, ResultInv, DataTypeOK, TypeOK
<1> QED
  BY <1>1, NettingInvariant, ResultInvariant, PTL
=============================================================================
