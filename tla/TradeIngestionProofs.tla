------------------------ MODULE TradeIngestionProofs ------------------------
(***************************************************************************)
(* Proofs about TradeIngestion for any number of trades and workers, any   *)
(* defaults and faults: a trade is decided once and whole, what a decision *)
(* may rest on, and that Netting's novation is what the service does.      *)
(* Then proofs about Intake, which has the gateway in front of it, for any *)
(* threads, keys, external ids and failures as well: first what the gateway*)
(* tells its clients, then what becomes of their trades.                   *)
(***************************************************************************)
EXTENDS Intake, FiniteSetTheorems, SequenceTheorems, TLAPS

(* The trade is decided whole or untouched. *)
Whole(t) ==
    /\ t \in processed <=> trade[t] # "submitted"
    /\ trade[t] = "novated" =>
         /\ \A side \in Sides : leg[<<t, side>>] = "open"
                                /\ locks[<<t, side>>] = 1
         /\ events[t] = <<"trade.novated">>
    /\ trade[t] # "novated" =>
         \A side \in Sides : leg[<<t, side>>] = "none"
                             /\ locks[<<t, side>>] = 0
    /\ trade[t] = "rejected" => events[t] = <<"trade.rejected">>
    /\ trade[t] = "submitted" => events[t] = <<>>

(* Why a trade may be rejected; once a reason, always a reason. *)
Excused(t) ==
    \/ t \in hit \/ ~Sound(t)
    \/ \E side \in Sides : Party(t, side) \in defaulted

(* A worker that holds the key of a trade is the one that will decide it. *)
Alone(v, w) ==
    v # w /\ pc[v] \in HoldsKey /\ pc[w] \in HoldsKey => job[v] # job[w]

Place(w) ==
    /\ pc[w] # "written" => written[w] = <<>>
    /\ pc[w] = "written" => written[w] \in {NovationWrites, RejectionWrites}
    /\ pc[w] \in HoldsKey => job[w] \notin processed
    /\ pc[w] \in {"failed", "ack"} => job[w] \in processed \cup hit
    /\ gone[w] \subseteq defaulted

(* What the checks passed so far have established. *)
Passed(w) ==
    /\ pc[w] \in {"buyer_ok", "validated"} =>
         Party(job[w], "BUY") \notin gone[w]
    /\ pc[w] = "validated" => Party(job[w], "SELL") \notin gone[w]
    /\ pc[w] = "written" /\ written[w] = NovationWrites =>
         \A side \in Sides : Party(job[w], side) \notin gone[w]
    /\ pc[w] = "refused" => Excused(job[w])
    /\ pc[w] = "written" /\ written[w] = RejectionWrites => Excused(job[w])

IInv ==
    /\ TypeOK
    /\ \A t \in Trades : Whole(t)
    /\ \A t \in Trades : trade[t] = "rejected" => Excused(t)
    /\ acked \subseteq processed \cup hit
    /\ \A w \in Workers : Place(w) /\ Passed(w)
    /\ \A v, w \in Workers : Alone(v, w)

-----------------------------------------------------------------------------
(* The writes of a transaction. *)

(* The writes of the two transactions, and that they differ. *)
LEMMA WritesTyped ==
    /\ NovationWrites \in Seq(Writes) /\ RejectionWrites \in Seq(Writes)
    /\ <<>> \in Seq(Writes) /\ NovationWrites # RejectionWrites
    /\ NovationWrites # <<>> /\ RejectionWrites # <<>>
<1>1. /\ \A n \in 1..6 : NovationWrites[n] \in Writes
      /\ \A n \in 1..2 : RejectionWrites[n] \in Writes
  BY DEF Writes, NovationWrites, RejectionWrites
<1>2. NovationWrites \in Seq(Writes)
  BY <1>1 DEF NovationWrites
<1>3. RejectionWrites \in Seq(Writes)
  BY <1>1 DEF RejectionWrites
<1>4. Len(NovationWrites) = 6 /\ Len(RejectionWrites) = 2 /\ Len(<<>>) = 0
  BY DEF NovationWrites, RejectionWrites
<1>5. <<>> \in Seq(Writes)
  OBVIOUS
<1>6. NovationWrites # RejectionWrites
  BY <1>4
<1>7. NovationWrites # <<>> /\ RejectionWrites # <<>>
  BY <1>4
<1> QED
  BY <1>2, <1>3, <1>5, <1>6, <1>7

(* What a novation writes, and does not. *)
LEMMA NovationHas ==
    ASSUME NEW w \in Workers, written[w] = NovationWrites
    PROVE  /\ ~Has(w, "rejected", "-") /\ ~Has(w, "trade.rejected", "-")
           /\ Has(w, "trade.novated", "-")
           /\ \A side \in Sides : Has(w, "leg", side) /\ Has(w, "lock", side)
  BY DEF Has, NovationWrites, Write, Sides

(* What a rejection writes, and does not. *)
LEMMA RejectionHas ==
    ASSUME NEW w \in Workers, written[w] = RejectionWrites
    PROVE  /\ Has(w, "rejected", "-") /\ Has(w, "trade.rejected", "-")
           /\ ~Has(w, "trade.novated", "-")
           /\ \A side : ~Has(w, "leg", side) /\ ~Has(w, "lock", side)
  BY DEF Has, RejectionWrites, Write

(* A leg is a trade and a side. *)
LEMMA LegSides ==
    /\ \A t \in Trades, side \in Sides : <<t, side>> \in Legs
    /\ \A l \in Legs : l[1] \in Trades /\ l[2] \in Sides /\ l = <<l[1], l[2]>>
  BY DEF Legs

(* What becomes visible at the commit of a novation, and of a rejection. *)
LEMMA AppliedNovation ==
    ASSUME TypeOK, NEW w \in Workers, Applied(w), written[w] = NovationWrites,
           events[job[w]] = <<>>
    PROVE  /\ trade' = [trade EXCEPT ![job[w]] = "novated"]
           /\ leg' = [l \in Legs |-> IF l[1] = job[w] THEN "open" ELSE leg[l]]
           /\ novated_at' = [l \in Legs |-> IF l[1] = job[w] THEN start[w]
                                            ELSE novated_at[l]]
           /\ locks' = [l \in Legs |-> IF l[1] = job[w] THEN locks[l] + 1
                                       ELSE locks[l]]
           /\ events' = [events EXCEPT ![job[w]] = <<"trade.novated">>]
           /\ processed' = processed \cup {job[w]}
<1>1. /\ ~Has(w, "rejected", "-") /\ ~Has(w, "trade.rejected", "-")
      /\ Has(w, "trade.novated", "-")
      /\ \A l \in Legs : Has(w, "leg", l[2]) /\ Has(w, "lock", l[2])
  BY NovationHas, LegSides
<1>2. <<>> \o <<"trade.novated">> \o <<>> = <<"trade.novated">>
  OBVIOUS
<1>3. events' = [events EXCEPT ![job[w]] = <<"trade.novated">>]
  BY <1>1, <1>2 DEF Applied
<1> QED
  BY <1>1, <1>3 DEF Applied, NovatedAt

(* A rejection becomes visible: a status and an event, no leg. *)
LEMMA AppliedRejection ==
    ASSUME TypeOK, NEW w \in Workers, Applied(w), written[w] = RejectionWrites,
           events[job[w]] = <<>>
    PROVE  /\ trade' = [trade EXCEPT ![job[w]] = "rejected"]
           /\ UNCHANGED <<leg, novated_at, locks>>
           /\ events' = [events EXCEPT ![job[w]] = <<"trade.rejected">>]
           /\ processed' = processed \cup {job[w]}
<1>1. /\ Has(w, "rejected", "-") /\ Has(w, "trade.rejected", "-")
      /\ ~Has(w, "trade.novated", "-")
      /\ \A l \in Legs : ~Has(w, "leg", l[2]) /\ ~Has(w, "lock", l[2])
  BY RejectionHas
<1>2. <<>> \o <<>> \o <<"trade.rejected">> = <<"trade.rejected">>
  OBVIOUS
<1>3. events' = [events EXCEPT ![job[w]] = <<"trade.rejected">>]
  BY <1>1, <1>2 DEF Applied
<1>4. UNCHANGED <<leg, novated_at, locks>>
  BY <1>1 DEF Applied, TypeOK
<1> QED
  BY <1>1, <1>3, <1>4 DEF Applied

-----------------------------------------------------------------------------
(* Steps that commit nothing. *)

(* Parties and soundness depend on the terms of a trade alone. *)
LEMMA TermsStay ==
    ASSUME terms' = terms
    PROVE  /\ \A t, side : Party(t, side)' = Party(t, side)
           /\ \A t : Sound(t)' = Sound(t)
  BY DEF Party, Sound

(* A reason to reject a trade does not go away. *)
LEMMA ExcuseStays ==
    ASSUME terms' = terms, defaulted \subseteq defaulted', hit \subseteq hit',
           NEW t, Excused(t)
    PROVE  Excused(t)'
  BY TermsStay DEF Excused

(* If one worker moves and no row changes, the others are where they were. *)
LEMMA WorkerMoves ==
    ASSUME IInv, NEW w \in Workers,
           UNCHANGED <<terms, rows>>,
           defaulted \subseteq defaulted', hit \subseteq hit',
           acked' \subseteq processed \cup hit',
           \A v \in Workers \ {w} :
               /\ pc'[v] = pc[v] /\ job'[v] = job[v]
               /\ written'[v] = written[v] /\ gone'[v] = gone[v],
           pc'[w] \in HoldsKey =>
               /\ job'[w] = job[w]
               /\ pc[w] \in HoldsKey \/ ~KeyIsHeld(job[w]),
           TypeOK', Place(w)', Passed(w)'
    PROVE  IInv'
<1>1. /\ \A t, side : Party(t, side)' = Party(t, side)
      /\ \A t : Excused(t) => Excused(t)'
  BY TermsStay, ExcuseStays
<1>2. /\ \A t \in Trades : Whole(t)'
      /\ \A t \in Trades : trade'[t] = "rejected" => Excused(t)'
      /\ acked' \subseteq processed' \cup hit'
  BY <1>1 DEF IInv, Whole, rows
<1>3. ASSUME NEW v \in Workers \ {w} PROVE Place(v)' /\ Passed(v)'
  <2>1. Place(v) /\ Passed(v) /\ processed' = processed
    BY DEF IInv, rows
  <2>2. /\ pc'[v] = pc[v] /\ job'[v] = job[v]
        /\ written'[v] = written[v] /\ gone'[v] = gone[v]
    OBVIOUS
  <2>3. Place(v)'
    BY <2>1, <2>2 DEF Place
  <2>4. Passed(v)'
    BY <1>1, <2>1, <2>2 DEF Passed
  <2> QED
    BY <2>3, <2>4
<1>4. \A u, v \in Workers : Alone(u, v)'
  BY DEF IInv, Alone, KeyIsHeld
<1> QED
  BY <1>2, <1>3, <1>4 DEF IInv

(* The clock, and defaults, which only add to the reasons. *)
LEMMA EnvironmentStep ==
    ASSUME IInv, Tick \/ (\E m \in Members : Default(m)) \/ UNCHANGED vars
    PROVE  IInv'
<1>1. /\ UNCHANGED <<terms, rows, dead, acked, workerVars, faults, hit>>
      /\ defaulted \subseteq defaulted' /\ TypeOK'
  BY IngestionAssumption DEF IInv, TypeOK, Tick, Default, vars, rows,
     workerVars, Times
<1>2. /\ \A t, side : Party(t, side)' = Party(t, side)
      /\ \A t : Excused(t) => Excused(t)'
  BY <1>1, TermsStay, ExcuseStays
<1>3. \A w \in Workers : Place(w)' /\ Passed(w)'
  BY <1>1, <1>2 DEF IInv, Place, Passed, workerVars, rows
<1>4. /\ \A t \in Trades : Whole(t)'
      /\ \A t \in Trades : trade'[t] = "rejected" => Excused(t)'
      /\ acked' \subseteq processed' \cup hit'
      /\ \A v, w \in Workers : Alone(v, w)'
  BY <1>1, <1>2 DEF IInv, Whole, Alone, rows, workerVars
<1> QED
  BY <1>1, <1>3, <1>4 DEF IInv

(* A record is handed over: the worker had none. *)
LEMMA PollStep ==
    ASSUME IInv, NEW w \in Workers, NEW t \in Trades, Poll(w, t)
    PROVE  IInv'
<1>1. TypeOK /\ Place(w) /\ Passed(w)
  BY DEF IInv
<1>2. /\ UNCHANGED <<terms, rows>> /\ defaulted \subseteq defaulted'
      /\ hit \subseteq hit' /\ acked' \subseteq processed \cup hit'
      /\ \A v \in Workers \ {w} :
           /\ pc'[v] = pc[v] /\ job'[v] = job[v]
           /\ written'[v] = written[v] /\ gone'[v] = gone[v]
      /\ pc'[w] = "polled"
  BY <1>1 DEF IInv, TypeOK, Poll
<1>3. TypeOK'
  BY <1>1 DEF TypeOK, Poll, rows, PCs
<1>4. Place(w)'
  BY <1>1, <1>2 DEF Place, TypeOK, Poll, HoldsKey
<1>5. Passed(w)'
  BY <1>2 DEF Passed
<1> QED
  BY <1>2, <1>3, <1>4, <1>5, WorkerMoves DEF HoldsKey

(* The transaction begins, and with it what it may see. *)
LEMMA BeginStep ==
    ASSUME IInv, NEW w \in Workers, Begin(w)
    PROVE  IInv'
<1>1. TypeOK /\ Place(w) /\ Passed(w)
  BY DEF IInv
<1>2. /\ UNCHANGED <<terms, rows>> /\ defaulted \subseteq defaulted'
      /\ hit \subseteq hit' /\ acked' \subseteq processed \cup hit'
      /\ \A v \in Workers \ {w} :
           /\ pc'[v] = pc[v] /\ job'[v] = job[v]
           /\ written'[v] = written[v] /\ gone'[v] = gone[v]
      /\ pc'[w] = "begun"
  BY <1>1 DEF IInv, TypeOK, Begin
<1>3. TypeOK'
  BY <1>1 DEF TypeOK, Begin, rows, PCs, InTransaction
<1>4. Place(w)'
  BY <1>1, <1>2 DEF Place, TypeOK, Begin, HoldsKey
<1>5. Passed(w)'
  BY <1>2 DEF Passed
<1> QED
  BY <1>2, <1>3, <1>4, <1>5, WorkerMoves DEF HoldsKey

(* A worker's transaction, or its work on a record, is over, and it        *)
(* committed nothing.                                                      *)
LEMMA LeaveStep ==
    ASSUME IInv, NEW w \in Workers, NEW label \in {"idle", "failed", "ack"},
           Leave(w, label), UNCHANGED <<clock, terms, defaulted, rows>>,
           dead' \subseteq Trades, faults' \in 0..MaxFaults,
           hit \subseteq hit', hit' \subseteq Trades,
           acked' \subseteq processed \cup hit',
           label # "idle" => job[w] \in processed \cup hit'
    PROVE  IInv'
<1>1. TypeOK /\ Place(w)
  BY DEF IInv
<1>2. /\ \A v \in Workers \ {w} :
           /\ pc'[v] = pc[v] /\ job'[v] = job[v]
           /\ written'[v] = written[v] /\ gone'[v] = gone[v]
      /\ pc'[w] = label /\ written'[w] = <<>> /\ gone'[w] = {}
      /\ job' = job
  BY <1>1 DEF TypeOK, Leave
<1>3. TypeOK'
  <2>1. /\ clock' \in Times /\ terms' \in [Trades -> Deals]
        /\ defaulted' \subseteq Members
        /\ trade' \in [Trades -> {"submitted", "novated", "rejected"}]
        /\ leg' \in [Legs -> {"none", "open"}]
        /\ novated_at' \in [Legs -> Times] /\ locks' \in [Legs -> Nat]
        /\ events' \in [Trades -> Seq({"trade.novated", "trade.rejected"})]
        /\ processed' \subseteq Trades /\ job' \in [Workers -> Trades]
    BY <1>1, <1>2 DEF TypeOK, rows
  <2>2. acked' \subseteq Trades
    BY <1>1 DEF TypeOK
  <2>3. 0 \in Times
    BY IngestionAssumption DEF Times
  <2>4. /\ pc' \in [Workers -> PCs] /\ start' \in [Workers -> Times]
        /\ gone' \in [Workers -> SUBSET Members]
    BY <1>1, <2>3 DEF TypeOK, Leave, PCs
  <2>5. written' \in [Workers -> Seq(Writes)]
    BY <1>1, WritesTyped DEF TypeOK, Leave
  <2> QED
    BY <2>1, <2>2, <2>4, <2>5 DEF TypeOK
<1>4. Place(w)'
  BY <1>2 DEF Place, HoldsKey, rows
<1>5. Passed(w)'
  BY <1>2 DEF Passed
<1>6. pc'[w] \notin HoldsKey
  BY <1>2 DEF HoldsKey
<1> QED
  BY <1>2, <1>3, <1>4, <1>5, <1>6, WorkerMoves

(* A worker goes on in its transaction, alone with its trade. *)
LEMMA GotoStep ==
    ASSUME IInv, NEW w \in Workers, NEW label \in HoldsKey,
           NEW new \in Seq(Writes),
           Goto(w, label), written' = [written EXCEPT ![w] = new],
           UNCHANGED <<clock, terms, defaulted, rows, dead, acked>>,
           faults' \in 0..MaxFaults, hit \subseteq hit', hit' \subseteq Trades,
           job[w] \notin processed,
           pc[w] \in HoldsKey \/ ~KeyIsHeld(job[w]),
           IF label = "written" THEN new \in {NovationWrites, RejectionWrites}
                                ELSE new = <<>>,
           label \in {"buyer_ok", "validated"} =>
               Party(job[w], "BUY") \notin gone[w],
           label = "validated" => Party(job[w], "SELL") \notin gone[w],
           new = NovationWrites =>
               \A side \in Sides : Party(job[w], side) \notin gone[w],
           label = "refused" \/ new = RejectionWrites => Excused(job[w])'
    PROVE  IInv'
<1>1. TypeOK /\ Place(w)
  BY DEF IInv
<1>2. /\ \A v \in Workers \ {w} :
           /\ pc'[v] = pc[v] /\ job'[v] = job[v]
           /\ written'[v] = written[v] /\ gone'[v] = gone[v]
      /\ pc'[w] = label /\ written'[w] = new /\ gone' = gone /\ job' = job
  BY <1>1 DEF TypeOK, Goto
<1>3. TypeOK'
  <2>1. /\ clock' \in Times /\ terms' \in [Trades -> Deals]
        /\ defaulted' \subseteq Members
        /\ trade' \in [Trades -> {"submitted", "novated", "rejected"}]
        /\ leg' \in [Legs -> {"none", "open"}]
        /\ novated_at' \in [Legs -> Times] /\ locks' \in [Legs -> Nat]
        /\ events' \in [Trades -> Seq({"trade.novated", "trade.rejected"})]
        /\ processed' \subseteq Trades /\ dead' \subseteq Trades
        /\ acked' \subseteq Trades /\ job' \in [Workers -> Trades]
    BY <1>1, <1>2 DEF TypeOK, rows
  <2>2. /\ pc' \in [Workers -> PCs] /\ start' \in [Workers -> Times]
        /\ gone' \in [Workers -> SUBSET Members]
    BY <1>1 DEF TypeOK, Goto, PCs, InTransaction
  <2>3. written' \in [Workers -> Seq(Writes)]
    BY <1>1 DEF TypeOK
  <2> QED
    BY <2>1, <2>2, <2>3 DEF TypeOK
<1>4. Place(w)'
  BY <1>1, <1>2 DEF Place, HoldsKey, rows
<1>5. Passed(w)'
  <2>1. \A t, side : Party(t, side)' = Party(t, side)
    BY TermsStay
  <2> QED
    BY <1>2, <2>1 DEF Passed
<1>6. acked' \subseteq processed \cup hit'
  BY DEF IInv
<1> QED
  BY <1>2, <1>3, <1>4, <1>5, <1>6, WorkerMoves

(* The steps that leave: a copy of a record that was decided, the dead     *)
(* letter, the offset, a statement that fails and a process that dies.     *)
LEMMA LeavingSteps ==
    ASSUME IInv, NEW w \in Workers,
           \/ SkipDuplicate(w) \/ SendToDlq(w) \/ Ack(w)
           \/ StatementFails(w) \/ Crash(w)
    PROVE  IInv'
<1>1. TypeOK /\ Place(w) /\ acked \subseteq processed \cup hit
  BY DEF IInv
<1>2. job[w] \in Trades /\ hit \subseteq Trades /\ dead \subseteq Trades
  BY <1>1 DEF TypeOK
<1>3. /\ faults \in 0..MaxFaults
      /\ faults < MaxFaults => faults + 1 \in 0..MaxFaults
  BY <1>1, IngestionAssumption DEF TypeOK
<1>4. CASE SkipDuplicate(w)
  BY <1>1, <1>2, <1>3, <1>4, LeaveStep DEF SkipDuplicate
<1>5. CASE SendToDlq(w)
  BY <1>1, <1>2, <1>3, <1>5, LeaveStep DEF SendToDlq, Place
<1>6. CASE Ack(w)
  BY <1>1, <1>2, <1>3, <1>6, LeaveStep DEF Ack, Place
<1>7. CASE StatementFails(w)
  BY <1>1, <1>2, <1>3, <1>7, LeaveStep DEF StatementFails, Fail
<1>8. CASE Crash(w)
  BY <1>1, <1>2, <1>3, <1>8, LeaveStep DEF Crash
<1> QED
  BY <1>4, <1>5, <1>6, <1>7, <1>8

(* The steps that go on inside the transaction. *)
LEMMA GoingSteps ==
    ASSUME IInv, NEW w \in Workers,
           \/ InsertMarker(w) \/ CheckBuyer(w) \/ CheckSeller(w)
           \/ novate_trade(w) \/ CannotNovate(w) \/ _reject_trade(w)
           \/ \E n \in 0..Len(NovationWrites) : NovationFails(w, n)
    PROVE  IInv'
<1> DEFINE t == job[w]
<1>1. TypeOK /\ Place(w) /\ Passed(w) /\ Whole(t) /\ t \in Trades
      /\ gone[w] \subseteq defaulted
  BY DEF IInv, TypeOK, Place
<1>2. /\ faults \in 0..MaxFaults
      /\ faults < MaxFaults => faults + 1 \in 0..MaxFaults
  BY <1>1, IngestionAssumption DEF TypeOK
<1>3. hit \subseteq Trades /\ hit \cup {t} \subseteq Trades
  BY <1>1 DEF TypeOK
<1>4. written[w] = <<>> => written = [written EXCEPT ![w] = <<>>]
  BY <1>1 DEF TypeOK
<1>5. terms[t].buyer = Party(t, "BUY") /\ terms[t].seller = Party(t, "SELL")
      /\ Sides = {"BUY", "SELL"}
  BY DEF Party, Sides
<1>6. ASSUME terms' = terms, defaulted' = defaulted, hit \subseteq hit', job' = job,
             Excused(t)
      PROVE  Excused(t)'
  BY <1>6, TermsStay, ExcuseStays DEF Excused
<1>7. CASE InsertMarker(w)
  <2>1. /\ Goto(w, "marked") /\ pc[w] = "begun" /\ t \notin processed
        /\ ~KeyIsHeld(t) /\ written' = [written EXCEPT ![w] = <<>>]
        /\ UNCHANGED <<clock, terms, defaulted, rows, dead, acked, faults, hit>>
    BY <1>1, <1>4, <1>7 DEF InsertMarker, Place
  <2> QED
    BY <1>2, <1>3, <2>1, GotoStep, WritesTyped DEF HoldsKey
<1>8. CASE CheckBuyer(w)
  <2>1. PICK label \in {"buyer_ok", "refused"} :
          /\ Goto(w, label)
          /\ label = "buyer_ok" => Active(Party(t, "BUY"))
          /\ label = "refused" => ~Sound(t) \/ ~Active(Party(t, "BUY"))
    BY <1>5, <1>8 DEF CheckBuyer, Sound
  <2>2. /\ pc[w] = "marked" /\ t \notin processed
        /\ written' = [written EXCEPT ![w] = <<>>]
        /\ UNCHANGED <<clock, terms, defaulted, rows, dead, acked, faults, hit>>
    BY <1>1, <1>4, <1>8 DEF CheckBuyer, Place, HoldsKey
  <2>3. label = "buyer_ok" => Party(t, "BUY") \notin gone[w]
    BY <1>1, <2>1 DEF Active
  <2>4. label = "refused" => Excused(t)'
    BY <1>5, <1>6, <2>1, <2>2 DEF Excused, Active, Goto
  <2> QED
    BY <1>2, <1>3, <2>1, <2>2, <2>3, <2>4, GotoStep, WritesTyped DEF HoldsKey
<1>9. CASE CheckSeller(w)
  <2>1. PICK label \in {"validated", "refused"} :
          /\ Goto(w, label)
          /\ label = "validated" => Active(Party(t, "SELL"))
          /\ label = "refused" => ~Sound(t) \/ ~Active(Party(t, "SELL"))
    BY <1>5, <1>9 DEF CheckSeller, Sound
  <2>2. /\ pc[w] = "buyer_ok" /\ t \notin processed
        /\ written' = [written EXCEPT ![w] = <<>>]
        /\ UNCHANGED <<clock, terms, defaulted, rows, dead, acked, faults, hit>>
    BY <1>1, <1>4, <1>9 DEF CheckSeller, Place, HoldsKey
  <2>3. /\ Party(t, "BUY") \notin gone[w]
        /\ label = "validated" => Party(t, "SELL") \notin gone[w]
    BY <1>1, <2>1, <2>2 DEF Active, Passed
  <2>4. label = "refused" => Excused(t)'
    BY <1>5, <1>6, <2>1, <2>2 DEF Excused, Active, Goto
  <2> QED
    BY <1>2, <1>3, <2>1, <2>2, <2>3, <2>4, GotoStep, WritesTyped DEF HoldsKey
<1>10. CASE novate_trade(w)
  <2>1. /\ Goto(w, "written") /\ pc[w] = "validated" /\ t \notin processed
        /\ written' = [written EXCEPT ![w] = NovationWrites]
        /\ UNCHANGED <<clock, terms, defaulted, rows, dead, acked, faults, hit>>
    BY <1>1, <1>10 DEF novate_trade, Place, HoldsKey
  <2>2. \A side \in Sides : Party(t, side) \notin gone[w]
    BY <1>1, <1>5, <2>1 DEF Passed
  <2> QED
    BY <1>2, <1>3, <2>1, <2>2, GotoStep, WritesTyped DEF HoldsKey
<1>11. CASE CannotNovate(w)
  <2>1. /\ Goto(w, "refused") /\ pc[w] = "validated" /\ t \notin processed
        /\ written' = [written EXCEPT ![w] = <<>>]
        /\ UNCHANGED <<clock, terms, defaulted, rows, dead, acked, faults, hit>>
    BY <1>1, <1>11 DEF CannotNovate, Place, HoldsKey, RolledBackToSavepoint
  <2>2. ~Sound(t)
    BY <1>1, <1>11, <2>1 DEF CannotNovate, Whole, CannotLock, Sound
  <2>3. Excused(t)'
    BY <1>6, <2>1, <2>2 DEF Excused, Goto
  <2> QED
    BY <1>2, <1>3, <2>1, <2>3, GotoStep, WritesTyped DEF HoldsKey
<1>12. CASE _reject_trade(w)
  <2>1. /\ Goto(w, "written") /\ pc[w] = "refused" /\ t \notin processed
        /\ written[w] = <<>> /\ Excused(t)
        /\ UNCHANGED <<clock, terms, defaulted, rows, dead, acked, faults, hit>>
    BY <1>1, <1>12 DEF _reject_trade, Place, Passed, HoldsKey
  <2>2. <<>> \o RejectionWrites = RejectionWrites
    BY WritesTyped
  <2>3. written' = [written EXCEPT ![w] = RejectionWrites]
    BY <1>12, <2>1, <2>2 DEF _reject_trade
  <2>4. Excused(t)'
    BY <1>6, <2>1 DEF Goto
  <2> QED
    BY <1>2, <1>3, <2>1, <2>3, <2>4, GotoStep, WritesTyped DEF HoldsKey
<1>13. CASE \E n \in 0..Len(NovationWrites) : NovationFails(w, n)
  <2>1. /\ Goto(w, "refused") /\ pc[w] = "validated" /\ t \notin processed
        /\ written' = [written EXCEPT ![w] = <<>>]
        /\ faults < MaxFaults /\ faults' = faults + 1 /\ hit' = hit \cup {t}
        /\ UNCHANGED <<clock, terms, defaulted, rows, dead, acked>>
    BY <1>1, <1>13
       DEF NovationFails, Fail, Place, HoldsKey, RolledBackToSavepoint
  <2>2. Excused(t)'
    BY <2>1 DEF Excused, Goto
  <2> QED
    BY <1>2, <1>3, <2>1, <2>2, GotoStep, WritesTyped DEF HoldsKey
<1> QED
  BY <1>7, <1>8, <1>9, <1>10, <1>11, <1>12, <1>13

-----------------------------------------------------------------------------
(* The commit.                                                             *)

(* A trade on which a worker is about to commit was not decided before. *)
LEMMA Undecided ==
    ASSUME IInv, NEW w \in Workers, pc[w] \in HoldsKey
    PROVE  /\ job[w] \in Trades /\ job[w] \notin processed
           /\ trade[job[w]] = "submitted" /\ events[job[w]] = <<>>
           /\ \A side \in Sides : leg[<<job[w], side>>] = "none"
                                  /\ locks[<<job[w], side>>] = 0
<1>1. job[w] \in Trades /\ Whole(job[w]) /\ Place(w)
  BY DEF IInv, TypeOK
<1> QED
  BY <1>1 DEF Whole, Place

(* The commit of a decision, acknowledged or not, keeps the invariant. *)
LEMMA CommitStep ==
    ASSUME IInv, NEW w \in Workers, NEW label \in {"ack", "failed"},
           pc[w] = "written", Applied(w), Leave(w, label),
           UNCHANGED <<clock, terms, defaulted, dead, acked>>,
           faults' \in 0..MaxFaults, hit \subseteq hit', hit' \subseteq Trades
    PROVE  IInv'
<1> DEFINE t == job[w]
<1>1. TypeOK /\ Place(w) /\ Passed(w) /\ (\A u \in Trades : Whole(u))
  BY DEF IInv
<1>2. /\ t \in Trades /\ t \notin processed
      /\ trade[t] = "submitted" /\ events[t] = <<>>
      /\ \A side \in Sides : leg[<<t, side>>] = "none" /\ locks[<<t, side>>] = 0
  BY Undecided DEF HoldsKey
<1>3. written[w] \in {NovationWrites, RejectionWrites}
  BY <1>1 DEF Place
<1>4. /\ \A v \in Workers \ {w} :
           /\ pc'[v] = pc[v] /\ job'[v] = job[v]
           /\ written'[v] = written[v] /\ gone'[v] = gone[v]
      /\ pc'[w] = label /\ written'[w] = <<>> /\ gone'[w] = {}
      /\ job' = job
  BY <1>1 DEF TypeOK, Leave
<1>5. /\ \A u, side : Party(u, side)' = Party(u, side)
      /\ \A u : Excused(u) => Excused(u)'
  BY TermsStay, ExcuseStays
<1>6. processed' = processed \cup {t}
  BY DEF Applied
<1>7. /\ trade' \in [Trades -> {"submitted", "novated", "rejected"}]
      /\ leg' \in [Legs -> {"none", "open"}]
      /\ novated_at' \in [Legs -> Times] /\ locks' \in [Legs -> Nat]
      /\ events' \in [Trades -> Seq({"trade.novated", "trade.rejected"})]
      /\ \A u \in Trades : Whole(u)'
      /\ \A u \in Trades : trade'[u] = "rejected" => Excused(u)'
  <2>1. CASE written[w] = NovationWrites
    <3>1. /\ trade' = [trade EXCEPT ![t] = "novated"]
          /\ leg' = [l \in Legs |-> IF l[1] = t THEN "open" ELSE leg[l]]
          /\ novated_at' = [l \in Legs |-> IF l[1] = t THEN start[w]
                                           ELSE novated_at[l]]
          /\ locks' = [l \in Legs |-> IF l[1] = t THEN locks[l] + 1
                                      ELSE locks[l]]
          /\ events' = [events EXCEPT ![t] = <<"trade.novated">>]
      BY <1>1, <1>2, <2>1, AppliedNovation
    <3>2. /\ trade' \in [Trades -> {"submitted", "novated", "rejected"}]
          /\ leg' \in [Legs -> {"none", "open"}]
          /\ novated_at' \in [Legs -> Times] /\ locks' \in [Legs -> Nat]
          /\ events' \in [Trades -> Seq({"trade.novated", "trade.rejected"})]
      BY <1>1, <3>1 DEF TypeOK
    <3>3. ASSUME NEW u \in Trades PROVE Whole(u)'
      <4>1. \A side \in Sides :
              /\ <<u, side>> \in Legs /\ <<u, side>>[1] = u
              /\ leg'[<<u, side>>] = IF u = t THEN "open" ELSE leg[<<u, side>>]
              /\ locks'[<<u, side>>] = IF u = t THEN locks[<<u, side>>] + 1
                                              ELSE locks[<<u, side>>]
        BY <3>1, LegSides
      <4>2. trade'[u] = (IF u = t THEN "novated" ELSE trade[u])
            /\ events'[u] = (IF u = t THEN <<"trade.novated">> ELSE events[u])
        BY <1>1, <3>1 DEF TypeOK
      <4>3. CASE u = t
        BY <1>2, <1>6, <4>1, <4>2, <4>3 DEF Whole
      <4>4. CASE u # t
        BY <1>1, <1>6, <4>1, <4>2, <4>4 DEF Whole
      <4> QED
        BY <4>3, <4>4
    <3>4. \A u \in Trades : trade'[u] = "rejected" => Excused(u)'
      BY <1>1, <1>5, <3>1 DEF IInv, TypeOK
    <3> QED
      BY <3>2, <3>3, <3>4
  <2>2. CASE written[w] = RejectionWrites
    <3>1. /\ trade' = [trade EXCEPT ![t] = "rejected"]
          /\ UNCHANGED <<leg, novated_at, locks>>
          /\ events' = [events EXCEPT ![t] = <<"trade.rejected">>]
      BY <1>1, <1>2, <2>2, AppliedRejection
    <3>2. /\ trade' \in [Trades -> {"submitted", "novated", "rejected"}]
          /\ leg' \in [Legs -> {"none", "open"}]
          /\ novated_at' \in [Legs -> Times] /\ locks' \in [Legs -> Nat]
          /\ events' \in [Trades -> Seq({"trade.novated", "trade.rejected"})]
      BY <1>1, <3>1 DEF TypeOK
    <3>3. ASSUME NEW u \in Trades PROVE Whole(u)'
      <4>1. trade'[u] = (IF u = t THEN "rejected" ELSE trade[u])
            /\ events'[u] = (IF u = t THEN <<"trade.rejected">> ELSE events[u])
        BY <1>1, <3>1 DEF TypeOK
      <4>2. CASE u = t
        BY <1>2, <1>6, <3>1, <4>1, <4>2 DEF Whole
      <4>3. CASE u # t
        BY <1>1, <1>6, <3>1, <4>1, <4>3 DEF Whole
      <4> QED
        BY <4>2, <4>3
    <3>4. Excused(t)
      BY <1>1, <2>2 DEF Passed
    <3>5. \A u \in Trades : trade'[u] = "rejected" => Excused(u)'
      BY <1>1, <1>5, <3>1, <3>4 DEF IInv, TypeOK
    <3> QED
      BY <3>2, <3>3, <3>5
  <2> QED
    BY <1>3, <2>1, <2>2
<1>8. TypeOK'
  <2>1. 0 \in Times
    BY IngestionAssumption DEF Times
  <2>2. /\ pc' \in [Workers -> PCs] /\ start' \in [Workers -> Times]
        /\ gone' \in [Workers -> SUBSET Members]
    BY <1>1, <2>1 DEF TypeOK, Leave, PCs
  <2>3. written' \in [Workers -> Seq(Writes)]
    BY <1>1, WritesTyped DEF TypeOK, Leave
  <2> QED
    BY <1>1, <1>2, <1>4, <1>6, <1>7, <2>2, <2>3 DEF TypeOK
<1>9. ASSUME NEW v \in Workers PROVE Place(v)' /\ Passed(v)'
  <2>1. CASE v = w
    BY <1>4, <1>6, <2>1 DEF Place, Passed, HoldsKey
  <2>2. CASE v # w
    <3>1. Place(v) /\ Passed(v) /\ Alone(v, w)
      BY DEF IInv
    <3>2. /\ pc'[v] = pc[v] /\ job'[v] = job[v]
          /\ written'[v] = written[v] /\ gone'[v] = gone[v]
      BY <1>4, <2>2
    <3>3. pc[v] \in HoldsKey => job[v] # t
      BY <2>2, <3>1 DEF Alone, HoldsKey
    <3>4. Place(v)'
      BY <1>6, <3>1, <3>2, <3>3 DEF Place
    <3>5. Passed(v)'
      BY <1>5, <3>1, <3>2 DEF Passed
    <3> QED
      BY <3>4, <3>5
  <2> QED
    BY <2>1, <2>2
<1>10. \A u, v \in Workers : Alone(u, v)'
  BY <1>4 DEF IInv, Alone, HoldsKey
<1>11. acked' \subseteq processed' \cup hit'
  BY <1>6 DEF IInv
<1> QED
  BY <1>7, <1>8, <1>9, <1>10, <1>11 DEF IInv

-----------------------------------------------------------------------------
(* The inductive invariant holds at the start, ... *)
LEMMA InitIInv ==
    Init => IInv
<1> SUFFICES ASSUME Init PROVE IInv
  OBVIOUS
<1>1. TypeOK
  BY IngestionAssumption, WritesTyped
     DEF Init, TypeOK, Times, PCs
<1>2. \A t \in Trades, side \in Sides :
        leg[<<t, side>>] = "none" /\ locks[<<t, side>>] = 0
  BY LegSides DEF Init
<1>3. \A t \in Trades : Whole(t)
  BY <1>2 DEF Init, Whole
<1> QED
  BY <1>1, <1>3 DEF Init, IInv, Place, Passed, Alone, HoldsKey

(* ... each step keeps it, ... *)
LEMMA NextIInv ==
    IInv /\ [Next]_vars => IInv'
<1> SUFFICES ASSUME IInv, [Next]_vars PROVE IInv'
  OBVIOUS
<1>1. CASE Tick \/ (\E m \in Members : Default(m)) \/ UNCHANGED vars
  BY <1>1, EnvironmentStep
<1>2. CASE \E w \in Workers, t \in Trades : Poll(w, t)
  BY <1>2, PollStep
<1>3. ASSUME NEW w \in Workers, Handle(w) \/ Trouble(w) PROVE IInv'
  <2>1. CASE Begin(w)
    BY <2>1, BeginStep
  <2>2. CASE \/ SkipDuplicate(w) \/ SendToDlq(w) \/ Ack(w)
             \/ StatementFails(w) \/ Crash(w)
    BY <2>2, LeavingSteps
  <2>3. CASE \/ InsertMarker(w) \/ CheckBuyer(w) \/ CheckSeller(w)
             \/ novate_trade(w) \/ CannotNovate(w) \/ _reject_trade(w)
             \/ \E n \in 0..Len(NovationWrites) : NovationFails(w, n)
    BY <2>3, GoingSteps
  <2>4. CASE Commit(w)
    BY <2>4, CommitStep DEF Commit, IInv, TypeOK
  <2>5. CASE CommitUnanswered(w)
    <3>1. faults' \in 0..MaxFaults /\ hit \subseteq hit' /\ hit' \subseteq Trades
      BY <2>5, IngestionAssumption DEF CommitUnanswered, Fail, IInv, TypeOK
    <3> QED
      BY <2>5, <3>1, CommitStep DEF CommitUnanswered, Fail
  <2> QED
    BY <1>3, <2>1, <2>2, <2>3, <2>4, <2>5 DEF Handle, Trouble
<1> QED
  BY <1>1, <1>2, <1>3 DEF Next

(* ... and so it always holds. *)
LEMMA Invariance ==
    Spec => []IInv
<1> QED
  BY InitIInv, NextIInv, PTL DEF Spec

(* consumer.py, novation.py: the rows, the events, the offsets and the     *)
(* workers have their types.                                               *)
THEOREM IngestionTypes ==
    Spec => []TypeOK
<1>1. IInv => TypeOK
  BY DEF IInv
<1> QED
  BY <1>1, Invariance, PTL

(* process_trade decides a trade whole or not at all (novation.py:313-320):*)
(* whichever workers are handed copies of its record, and wherever they    *)
(* fail, both legs, both locks and the event are there, or none is.        *)
THEOREM DecisionsAreWhole ==
    Spec => []DecisionIsWhole
<1>1. IInv => DecisionIsWhole
  <2> SUFFICES ASSUME IInv, NEW t \in Trades
               PROVE  LET legs == {leg[<<t, side>>] : side \in Sides}
                          locked == {locks[<<t, side>>] : side \in Sides}
                      IN
                      /\ t \in processed <=> trade[t] # "submitted"
                      /\ \/ /\ trade[t] = "novated" /\ legs = {"open"}
                            /\ locked = {1} /\ events[t] = <<"trade.novated">>
                         \/ /\ trade[t] = "rejected" /\ legs = {"none"}
                            /\ locked = {0} /\ events[t] = <<"trade.rejected">>
                         \/ /\ trade[t] = "submitted" /\ legs = {"none"}
                            /\ locked = {0} /\ events[t] = <<>>
    BY DEF DecisionIsWhole
  <2>1. Whole(t) /\ trade[t] \in {"submitted", "novated", "rejected"}
    BY DEF IInv, TypeOK
  <2>2. "BUY" \in Sides
    BY DEF Sides
  <2>3. CASE trade[t] = "novated"
    BY <2>1, <2>2, <2>3 DEF Whole
  <2>4. CASE trade[t] = "rejected"
    BY <2>1, <2>2, <2>4 DEF Whole
  <2>5. CASE trade[t] = "submitted"
    BY <2>1, <2>2, <2>5 DEF Whole
  <2> QED
    BY <2>1, <2>3, <2>4, <2>5
<1> QED
  BY <1>1, Invariance, PTL

(* A trade that nothing speaks against is novated by the time its record   *)
(* is acknowledged (consumer.py:45-49).                                    *)
THEOREM SoundTradesAreNovated ==
    Spec => []SoundIsNovated
<1>1. IInv => SoundIsNovated
  <2> SUFFICES ASSUME IInv, NEW t \in acked \ hit, Sound(t),
                      \A side \in Sides : Active(Party(t, side))
               PROVE  trade[t] = "novated"
    BY DEF SoundIsNovated
  <2>1. t \in Trades /\ t \in processed
    BY DEF IInv, TypeOK
  <2>2. trade[t] \in {"novated", "rejected"}
    BY <2>1 DEF IInv, TypeOK, Whole
  <2>3. ~Excused(t)
    BY DEF Excused, Active
  <2> QED
    BY <2>1, <2>2, <2>3 DEF IInv
<1> QED
  BY <1>1, Invariance, PTL

-----------------------------------------------------------------------------
(* What others see of a step.                                              *)

(* The end of a transaction that decides its trade. *)
Decides(w) ==
    /\ pc[w] = "written" /\ Applied(w)
    /\ \E label \in {"ack", "failed"} : Leave(w, label)
    /\ UNCHANGED <<clock, terms, defaulted>>

(* Every other step of a worker changes no row, and no other worker. *)
Moves(w) ==
    /\ UNCHANGED <<clock, terms, rows>>
    /\ \A v \in Workers \ {w} :
         pc'[v] = pc[v] /\ job'[v] = job[v] /\ start'[v] = start[v]
    /\ \/ pc'[w] \notin InTransaction
       \/ /\ pc[w] \in InTransaction /\ pc'[w] \in InTransaction
          /\ job'[w] = job[w] /\ start'[w] = start[w]
       \/ /\ pc[w] \notin InTransaction /\ pc'[w] \in InTransaction
          /\ job'[w] = job[w] /\ start'[w] = clock

(* The steps as Netting sees them: time, a decision, a transaction that    *)
(* begins or ends.                                                         *)
LEMMA StepKinds ==
    ASSUME IInv, Next
    PROVE  \/ Tick
           \/ UNCHANGED <<clock, terms, rows, workerVars>>
           \/ \E w \in Workers : Decides(w) \/ Moves(w)
<1>1. TypeOK
  BY DEF IInv
<1>2. CASE \E m \in Members : Default(m)
  BY <1>2 DEF Default
<1>3. ASSUME NEW w \in Workers, NEW t \in Trades, Poll(w, t) PROVE Moves(w)
  BY <1>1, <1>3 DEF TypeOK, Poll, Moves, InTransaction, HoldsKey
<1>4. ASSUME NEW w \in Workers, Handle(w) \/ Trouble(w)
      PROVE  Decides(w) \/ Moves(w)
  <2>1. ASSUME NEW label \in {"idle", "failed", "ack"}, Leave(w, label),
               UNCHANGED <<clock, terms, rows>>
        PROVE  Moves(w)
    BY <1>1, <2>1 DEF TypeOK, Leave, Moves, InTransaction, HoldsKey
  <2>2. ASSUME NEW label \in HoldsKey, Goto(w, label), pc[w] \in InTransaction,
               UNCHANGED <<clock, terms, rows>>
        PROVE  Moves(w)
    BY <1>1, <2>2 DEF TypeOK, Goto, Moves, InTransaction
  <2>3. CASE Begin(w)
    BY <1>1, <2>3 DEF TypeOK, Begin, Moves, InTransaction, HoldsKey
  <2>4. CASE \/ SkipDuplicate(w) \/ SendToDlq(w) \/ Ack(w)
             \/ StatementFails(w) \/ Crash(w)
    BY <2>1, <2>4
       DEF SkipDuplicate, SendToDlq, Ack, StatementFails, Crash, Fail
  <2>5. CASE \/ InsertMarker(w) \/ novate_trade(w) \/ CannotNovate(w)
             \/ _reject_trade(w)
             \/ \E n \in 0..Len(NovationWrites) : NovationFails(w, n)
    BY <2>2, <2>5 DEF InsertMarker, novate_trade, CannotNovate, _reject_trade,
       NovationFails, Fail, InTransaction, HoldsKey
  <2>6. CASE CheckBuyer(w)
    <3>1. \E label \in {"buyer_ok", "refused"} : Goto(w, label)
      BY <2>6 DEF CheckBuyer
    <3> QED
      BY <2>2, <2>6, <3>1 DEF CheckBuyer, InTransaction, HoldsKey
  <2>7. CASE CheckSeller(w)
    <3>1. \E label \in {"validated", "refused"} : Goto(w, label)
      BY <2>7 DEF CheckSeller
    <3> QED
      BY <2>2, <2>7, <3>1 DEF CheckSeller, InTransaction, HoldsKey
  <2>8. CASE Commit(w) \/ CommitUnanswered(w)
    BY <2>8 DEF Commit, CommitUnanswered, Fail, Decides
  <2> QED
    BY <1>4, <2>3, <2>4, <2>5, <2>6, <2>7, <2>8 DEF Handle, Trouble
<1> QED
  BY <1>2, <1>3, <1>4 DEF Next

(* A default that was committed before the novating transaction began keeps*)
(* its member from getting a leg (novation.py:47-48, waterfall.py:55).     *)
THEOREM DefaultedGetNoLegs ==
    Spec => DefaultedGetsNoLeg
<1> DEFINE Kept == \A t \in Trades :
             trade[t] = "submitted" /\ trade'[t] = "novated" =>
               \E w \in Workers :
                 /\ job[w] = t /\ pc[w] = "written" /\ pc'[w] # "written"
                 /\ \A side \in Sides : Party(t, side) \notin gone[w]
<1>1. ASSUME IInv, [Next]_vars PROVE [Kept]_vars
  <2> SUFFICES ASSUME NEW t \in Trades, Next,
                      trade[t] = "submitted", trade'[t] = "novated"
               PROVE  \E w \in Workers :
                        /\ job[w] = t /\ pc[w] = "written" /\ pc'[w] # "written"
                        /\ \A side \in Sides : Party(t, side) \notin gone[w]
    BY <1>1
  <2>1. trade' # trade
    OBVIOUS
  <2>2. PICK w \in Workers : Decides(w)
    BY <1>1, <2>1, StepKinds DEF Tick, rows, Moves
  <2>3. /\ TypeOK /\ Place(w) /\ Passed(w)
        /\ job[w] \in Trades /\ events[job[w]] = <<>>
    BY <1>1, <2>2, Undecided DEF IInv, Decides, HoldsKey
  <2>4. pc[w] = "written" /\ pc'[w] # "written"
    BY <2>2, <2>3 DEF Decides, Leave, TypeOK
  <2>5. written[w] \in {NovationWrites, RejectionWrites}
    BY <2>3, <2>4 DEF Place
  <2>6. CASE written[w] = NovationWrites
    <3>1. trade' = [trade EXCEPT ![job[w]] = "novated"]
      BY <2>2, <2>3, <2>6, AppliedNovation DEF Decides
    <3>2. job[w] = t
      BY <2>3, <3>1 DEF TypeOK
    <3> QED
      BY <2>3, <2>4, <2>6, <3>2 DEF Passed
  <2>7. CASE written[w] = RejectionWrites
    <3>1. trade' = [trade EXCEPT ![job[w]] = "rejected"]
      BY <2>2, <2>3, <2>7, AppliedRejection DEF Decides
    <3> QED
      BY <2>3, <3>1 DEF TypeOK
  <2> QED
    BY <2>5, <2>6, <2>7
<1>2. Spec => [][Kept]_vars
  BY <1>1, Invariance, PTL DEF Spec
<1> QED
  BY <1>2 DEF DefaultedGetsNoLeg

-----------------------------------------------------------------------------
(* Netting's novation is what this service does.                           *)

(* The image of begun: when the transactions on an undecided trade began. *)
Begun(t) ==
    IF trade[t] # "submitted" THEN {}
    ELSE {start[w] : w \in {w \in Workers : pc[w] \in InTransaction
                                            /\ job[w] = t}}
NettingBegun == [t \in Trades |-> Begun(t)]
NettingDeals == [t \in Trades |-> NettingTerms(t)]

(* Netting's novation actions, and its stutter, on the image. *)
LEMMA NettingStutters ==
    ASSUME UNCHANGED <<clock, NettingDeals, trade, NettingBegun, leg, novated_at>>
    PROVE  UNCHANGED N!vars
  BY DEF NettingBegun, Begun, NettingDeals, N!vars, N!novation, N!cycleVars

(* Time passes in both. *)
LEMMA NettingTicks ==
    ASSUME clock < MaxTime, clock' = clock + 1,
           UNCHANGED <<NettingDeals, trade, NettingBegun, leg, novated_at>>
    PROVE  N!Next
<1>1. N!Tick
  BY DEF NettingBegun, Begun, NettingDeals, N!Tick, N!novation, N!cycleVars
<1> QED
  BY <1>1 DEF N!Next

(* A transaction that begins is a novation begun. *)
LEMMA NettingBegins ==
    ASSUME NEW t \in Trades, trade[t] = "submitted",
           NettingBegun' = [NettingBegun EXCEPT ![t] = @ \cup {clock}],
           UNCHANGED <<clock, NettingDeals, trade, leg, novated_at>>
    PROVE  N!Next
<1>1. N!BeginNovation(t)
  BY DEF NettingBegun, Begun, NettingDeals, N!BeginNovation, N!cycleVars
<1> QED
  BY <1>1 DEF N!Next

(* A transaction that ends without effect is a novation rolled back. *)
LEMMA NettingRollsBack ==
    ASSUME NEW t \in Trades, NEW s \in Times, s \in NettingBegun[t],
           NettingBegun' = [NettingBegun EXCEPT ![t] = @ \ {s}],
           UNCHANGED <<clock, NettingDeals, trade, leg, novated_at>>
    PROVE  N!Next
<1>1. N!RollBackNovation(t, s)
  BY DEF NettingBegun, Begun, NettingDeals, N!RollBackNovation, N!cycleVars
<1> QED
  BY <1>1 DEF N!Next, N!Times, Times

(* A rejection of Netting. *)
LEMMA NettingRejects ==
    ASSUME NEW t \in Trades, NettingBegun[t] # {},
           trade' = [trade EXCEPT ![t] = "rejected"],
           NettingBegun' = [NettingBegun EXCEPT ![t] = {}],
           UNCHANGED <<clock, NettingDeals, leg, novated_at>>
    PROVE  N!Next
<1>1. N!Reject(t)
  BY DEF NettingBegun, Begun, NettingDeals, N!Reject, N!cycleVars
<1> QED
  BY <1>1 DEF N!Next

(* A novation of Netting, at the start of its transaction. *)
LEMMA NettingNovates ==
    ASSUME NEW t \in Trades, NEW s \in Times, s \in NettingBegun[t],
           trade' = [trade EXCEPT ![t] = "novated"],
           NettingBegun' = [NettingBegun EXCEPT ![t] = {}],
           leg' = [l \in Legs |-> IF l[1] = t THEN "open" ELSE leg[l]],
           novated_at' = [l \in Legs |-> IF l[1] = t THEN s ELSE novated_at[l]],
           UNCHANGED <<clock, NettingDeals>>
    PROVE  N!Next
<1>1. N!Novate(t, s)
  BY DEF NettingBegun, Begun, NettingDeals, N!Novate, N!NovatedAt, N!cycleVars,
     N!Legs, N!Sides, Legs, Sides
<1> QED
  BY <1>1 DEF N!Next, N!Times, Times

(* The initial states map to initial states. *)
LEMMA NettingInit ==
    Init => N!Init
<1> SUFFICES ASSUME Init PROVE N!Init
  OBVIOUS
<1>1. NettingDeals \in [Trades -> [buyer : Members, seller : Members,
                                  instrument : Instruments,
                                  quantity : Nat \ {0}]]
  BY IngestionAssumption DEF Init, NettingDeals, NettingTerms, DealType
<1>2. NettingBegun = [t \in Trades |-> {}]
  BY DEF Init, NettingBegun, Begun, InTransaction, HoldsKey
<1>3. \A x : <<>> = [c \in {} |-> x]
  OBVIOUS
<1>4. /\ clock = 0 /\ trade = [t \in Trades |-> "submitted"]
      /\ leg = [l \in N!Legs |-> "none"] /\ novated_at = [l \in N!Legs |-> 0]
  BY DEF Init, Legs, Sides, N!Legs, N!Sides
<1> QED
  BY <1>1, <1>2, <1>3, <1>4
     DEF N!Init, N!NoPrice, NettingBegun, Begun, NettingDeals

(* The transactions on u of the workers other than w, and w's own. *)
BegunBut(w, u) ==
    {start[v] : v \in {v \in Workers \ {w} : pc[v] \in InTransaction
                                            /\ job[v] = u}}
Own(w, u) == IF pc[w] \in InTransaction /\ job[w] = u THEN {start[w]} ELSE {}

(* The transactions begun on a trade: those of w, and those of the others. *)
LEMMA BegunSplits ==
    ASSUME NEW w \in Workers, NEW u \in Trades
    PROVE  /\ NettingBegun[u] = IF trade[u] # "submitted" THEN {}
                                ELSE BegunBut(w, u) \cup Own(w, u)
           /\ NettingBegun'[u] = IF trade'[u] # "submitted" THEN {}
                                 ELSE BegunBut(w, u)' \cup Own(w, u)'
<1>1. {start[v] : v \in {v \in Workers : pc[v] \in InTransaction /\ job[v] = u}}
        = BegunBut(w, u) \cup Own(w, u)
  BY DEF BegunBut, Own
<1>2. {start'[v] : v \in {v \in Workers : pc'[v] \in InTransaction
                                         /\ job'[v] = u}}
        = BegunBut(w, u)' \cup Own(w, u)'
  BY DEF BegunBut, Own
<1> QED
  BY <1>1, <1>2 DEF NettingBegun, Begun

(* A step of one worker leaves the transactions of the others alone. *)
LEMMA OthersKeepBegun ==
    ASSUME NEW w \in Workers,
           \A v \in Workers \ {w} :
               pc'[v] = pc[v] /\ job'[v] = job[v] /\ start'[v] = start[v]
    PROVE  \A u : BegunBut(w, u)' = BegunBut(w, u)
  BY DEF BegunBut

(* A worker that decides nothing takes a step of Netting, or none. *)
LEMMA MovesMap ==
    ASSUME IInv, NEW w \in Workers, Moves(w)
    PROVE  [N!Next]_(N!vars)
<1>1. PICK t \in Trades, s \in Times : t = job[w] /\ s = start[w]
  BY DEF IInv, TypeOK
<1>2. UNCHANGED <<clock, NettingDeals, trade, leg, novated_at>>
  BY DEF Moves, rows, NettingDeals, NettingTerms
<1>3. \A u \in Trades :
        /\ NettingBegun[u] = IF trade[u] # "submitted" THEN {}
                             ELSE BegunBut(w, u) \cup Own(w, u)
        /\ NettingBegun'[u] = IF trade[u] # "submitted" THEN {}
                              ELSE BegunBut(w, u) \cup Own(w, u)'
  <2>1. trade' = trade /\ \A u : BegunBut(w, u)' = BegunBut(w, u)
    BY <1>2, OthersKeepBegun DEF Moves
  <2>2. ASSUME NEW u \in Trades
        PROVE  /\ NettingBegun[u] = IF trade[u] # "submitted" THEN {}
                                    ELSE BegunBut(w, u) \cup Own(w, u)
               /\ NettingBegun'[u] = IF trade'[u] # "submitted" THEN {}
                                     ELSE BegunBut(w, u)' \cup Own(w, u)'
    BY BegunSplits
  <2> QED
    BY <2>1, <2>2
<1>4. /\ NettingBegun = [u \in Trades |-> NettingBegun[u]]
      /\ NettingBegun' = [u \in Trades |-> NettingBegun'[u]]
  BY DEF NettingBegun
<1>5. ASSUME \A u \in Trades : NettingBegun'[u] = NettingBegun[u]
      PROVE  [N!Next]_(N!vars)
  BY <1>2, <1>4, <1>5, NettingStutters
<1>6. CASE \A u \in Trades : Own(w, u)' = Own(w, u)
  BY <1>3, <1>5, <1>6
<1>7. CASE trade[t] # "submitted" /\ \A u \in Trades \ {t} : Own(w, u)' = Own(w, u)
  BY <1>3, <1>5, <1>7
<1>8. CASE /\ pc[w] \notin InTransaction /\ pc'[w] \in InTransaction
           /\ job'[w] = t /\ start'[w] = clock
  <2>1. \A u \in Trades : /\ Own(w, u) = {}
                          /\ Own(w, u)' = IF u = t THEN {clock} ELSE {}
    BY <1>1, <1>8 DEF Own
  <2>2. CASE trade[t] = "submitted"
    <3>1. \A u \in Trades : NettingBegun'[u] =
            IF u = t THEN NettingBegun[u] \cup {clock} ELSE NettingBegun[u]
      BY <1>3, <2>1, <2>2
    <3>2. NettingBegun' = [NettingBegun EXCEPT ![t] = @ \cup {clock}]
      BY <1>4, <3>1
    <3> QED
      BY <1>2, <2>2, <3>2, NettingBegins
  <2> QED
    BY <1>7, <2>1, <2>2
<1>9. CASE pc[w] \in InTransaction /\ pc'[w] \notin InTransaction
  <2>1. \A u \in Trades : /\ Own(w, u) = IF u = t THEN {s} ELSE {}
                          /\ Own(w, u)' = {}
    BY <1>1, <1>9 DEF Own
  <2>2. CASE trade[t] = "submitted" /\ s \notin BegunBut(w, t)
    <3>1. \A u \in Trades : NettingBegun'[u] =
            IF u = t THEN NettingBegun[u] \ {s} ELSE NettingBegun[u]
      <4>1. NettingBegun'[t] = NettingBegun[t] \ {s}
        BY <1>3, <2>1, <2>2
      <4>2. ASSUME NEW u \in Trades \ {t}
            PROVE  NettingBegun'[u] = NettingBegun[u]
        BY <1>3, <2>1, <4>2
      <4> QED
        BY <4>1, <4>2
    <3>2. NettingBegun' = [NettingBegun EXCEPT ![t] = @ \ {s}]
      BY <1>4, <3>1
    <3>3. s \in NettingBegun[t]
      BY <1>3, <2>1, <2>2
    <3> QED
      BY <1>2, <3>2, <3>3, NettingRollsBack
  <2>3. CASE s \in BegunBut(w, t)
    <3>1. ASSUME NEW u \in Trades PROVE NettingBegun'[u] = NettingBegun[u]
      BY <1>3, <2>1, <2>3
    <3> QED
      BY <1>5, <3>1
  <2> QED
    BY <1>7, <2>1, <2>2, <2>3
<1>10. CASE pc[w] \notin InTransaction /\ pc'[w] \notin InTransaction
  BY <1>6, <1>10 DEF Own
<1>11. CASE /\ pc[w] \in InTransaction /\ pc'[w] \in InTransaction
            /\ job'[w] = job[w] /\ start'[w] = start[w]
  BY <1>6, <1>11 DEF Own
<1> QED
  BY <1>1, <1>8, <1>9, <1>10, <1>11 DEF Moves

(* A commit of a worker is a novation or a rejection of Netting. *)
LEMMA DecidesMap ==
    ASSUME IInv, NEW w \in Workers, Decides(w)
    PROVE  [N!Next]_(N!vars)
<1>0. PICK t \in Trades, s \in Times : t = job[w] /\ s = start[w]
  BY DEF IInv, TypeOK
<1>1. TypeOK /\ Place(w)
  BY DEF IInv
<1>2. /\ trade[t] = "submitted" /\ events[t] = <<>>
  BY <1>0, Undecided DEF Decides, HoldsKey
<1>3. UNCHANGED <<clock, NettingDeals>>
  BY DEF Decides, NettingDeals, NettingTerms
<1>4. \E kind \in {"novated", "rejected"} : trade' = [trade EXCEPT ![t] = kind]
  BY <1>0 DEF Decides, Applied
<1>5. /\ \A v \in Workers \ {w} :
           pc'[v] = pc[v] /\ job'[v] = job[v] /\ start'[v] = start[v]
      /\ pc'[w] \notin InTransaction
  BY <1>1 DEF Decides, Leave, TypeOK, InTransaction, HoldsKey
<1>6. s \in NettingBegun[t]
  BY <1>0, <1>2, BegunSplits DEF Own, Decides, InTransaction, HoldsKey
<1>7. NettingBegun' = [NettingBegun EXCEPT ![t] = {}]
  <2>1. NettingBegun'[t] = {}
    BY <1>1, <1>2, <1>4, BegunSplits DEF TypeOK
  <2>2. ASSUME NEW u \in Trades \ {t} PROVE NettingBegun'[u] = NettingBegun[u]
    <3>1. trade'[u] = trade[u] /\ Own(w, u)' = {} /\ Own(w, u) = {}
      BY <1>0, <1>1, <1>4, <1>5 DEF TypeOK, Own
    <3>2. BegunBut(w, u)' = BegunBut(w, u)
      BY <1>5, OthersKeepBegun
    <3> QED
      BY <3>1, <3>2, BegunSplits
  <2>3. /\ NettingBegun = [u \in Trades |-> NettingBegun[u]]
        /\ NettingBegun' = [u \in Trades |-> NettingBegun'[u]]
    BY DEF NettingBegun
  <2> QED
    BY <1>2, <2>1, <2>2, <2>3
<1>8. CASE written[w] = NovationWrites
  <2>1. /\ trade' = [trade EXCEPT ![t] = "novated"]
        /\ leg' = [l \in Legs |-> IF l[1] = t THEN "open" ELSE leg[l]]
        /\ novated_at' = [l \in Legs |-> IF l[1] = t THEN s
                                         ELSE novated_at[l]]
    BY <1>1, <1>2, <1>8, <1>0, AppliedNovation DEF Decides
  <2> QED
    BY <1>3, <1>6, <1>7, <2>1, NettingNovates
<1>9. CASE written[w] = RejectionWrites
  <2>1. /\ trade' = [trade EXCEPT ![t] = "rejected"]
        /\ UNCHANGED <<leg, novated_at>>
    BY <1>1, <1>2, <1>9, <1>0, AppliedRejection DEF Decides
  <2> QED
    BY <1>3, <1>6, <1>7, <2>1, NettingRejects
<1> QED
  BY <1>1, <1>8, <1>9 DEF Place, Decides

(* Whatever the workers do with copies of a record, Netting's novation is  *)
(* all the other services see of it: two legs at once, with the start of   *)
(* one transaction on the trade, or a rejection (novation.py:87-170).      *)
THEOREM IngestionKeepsNovation ==
    Spec => KeepsNovation
<1>1. ASSUME IInv, [Next]_vars PROVE [N!Next]_(N!vars)
  <2>1. CASE UNCHANGED vars
    <3>1. UNCHANGED <<clock, NettingDeals, trade, NettingBegun, leg, novated_at>>
      BY <2>1 DEF vars, rows, workerVars, NettingDeals, NettingTerms,
         NettingBegun, Begun
    <3> QED
      BY <3>1, NettingStutters
  <2>2. CASE UNCHANGED <<clock, terms, rows, workerVars>>
    <3>1. UNCHANGED <<clock, NettingDeals, trade, NettingBegun, leg, novated_at>>
      BY <2>2 DEF rows, workerVars, NettingDeals, NettingTerms,
         NettingBegun, Begun
    <3> QED
      BY <3>1, NettingStutters
  <2>3. CASE Tick
    <3>1. UNCHANGED <<NettingDeals, trade, NettingBegun, leg, novated_at>>
      BY <2>3 DEF Tick, rows, workerVars, NettingDeals, NettingTerms,
         NettingBegun, Begun
    <3> QED
      BY <2>3, <3>1, NettingTicks DEF Tick
  <2>4. CASE \E w \in Workers : Decides(w) \/ Moves(w)
    BY <1>1, <2>4, DecidesMap, MovesMap
  <2> QED
    BY <1>1, <2>1, <2>2, <2>3, <2>4, StepKinds
<1> QED
  BY <1>1, NettingInit, Invariance, PTL DEF Spec, KeepsNovation, N!Spec

-----------------------------------------------------------------------------
(* POST /trades: what the gateway tells its clients.                       *)

(* TypeOK counts the ids up to MaxRequests, which only serves TLC. *)
AnyRow == [id : Nat, ext : Externals]

GatewayTypes ==
    /\ submitted \subseteq AnyRow
    /\ marker \in [Keys -> Nat]
    /\ inserts \in Nat
    /\ req \in [Handlers -> Api!Requests \cup {Api!NoRequest}]
    /\ hpc \in [Handlers -> Api!Statements]
    /\ row \in [Handlers -> SUBSET AnyRow]
    /\ holds \in [Handlers -> BOOLEAN]
    /\ due \in [Handlers -> Nat]

(* What a handler has done when it is at a statement. *)
Stands(h) ==
    /\ hpc[h] \in {"check", "mark"} \/ holds[h] => req[h].key \in Keys
    /\ hpc[h] \in {"idle", "check", "insert"} => row[h] = {}
    /\ hpc[h] \in {"mark", "commit", "respond"} =>
         \E t \in AnyRow : row[h] = {t}
    /\ hpc[h] = "respond" => row[h] \subseteq submitted
    /\ holds[h] => hpc[h] = "commit" /\ marker[req[h].key] = 0
    /\ due[h] # 0 => hpc[h] = "check" /\ marker[req[h].key] = due[h]

AllStand == \A h \in Handlers : Stands(h)

(* The unique key of processed_events lets one transaction write a key.    *)
OneHolder ==
    \A g, h \in Handlers :
        holds[g] /\ holds[h] /\ req[g].key = req[h].key => g = h

AnswersInv ==
    /\ GatewayTypes
    /\ AllStand
    /\ OneHolder
    /\ Api!AcceptedIsDurable
    /\ Api!RepeatIsAnswered

-----------------------------------------------------------------------------
(* No request has arrived. *)
LEMMA AnswersBegin == Api!Init => AnswersInv
  BY DEF Api!Init, AnswersInv, GatewayTypes, AllStand, Stands, OneHolder,
     Api!AcceptedIsDurable, Api!RepeatIsAnswered, Api!Requests,
     Api!Statements

(* The end of a request leaves nothing behind. *)
LEMMA RequestEnds ==
    ASSUME GatewayTypes, NEW h \in Handlers, Api!Finish(h)
    PROVE  /\ req' = [req EXCEPT ![h] = Api!NoRequest]
           /\ req' \in [Handlers -> Api!Requests \cup {Api!NoRequest}]
           /\ hpc' \in [Handlers -> Api!Statements]
           /\ row' \in [Handlers -> SUBSET AnyRow]
           /\ holds' \in [Handlers -> BOOLEAN]
           /\ due' \in [Handlers -> Nat]
           /\ hpc'[h] = "idle" /\ row'[h] = {}
           /\ ~holds'[h] /\ due'[h] = 0
           /\ \A g \in Handlers \ {h} :
                /\ req'[g] = req[g] /\ hpc'[g] = hpc[g]
                /\ row'[g] = row[g]
                /\ holds'[g] = holds[g] /\ due'[g] = due[g]
  BY DEF GatewayTypes, Api!Finish, Api!RolledBack, Api!Goto, Api!Statements

(* A step that adds rows to the tables, for a key only where it has none,  *)
(* leaves the other handlers where they are.                               *)
LEMMA OthersKept ==
    ASSUME AllStand, NEW g \in Handlers,
           UNCHANGED <<req[g], hpc[g], row[g], holds[g], due[g]>>,
           submitted \subseteq submitted',
           \A k \in Keys : marker[k] # 0 => marker'[k] = marker[k],
           holds[g] => marker'[req[g].key] = 0
    PROVE  Stands(g)'
  BY DEF AllStand, Stands

(* Each statement keeps the columns what they are. *)
LEMMA TypesStep ==
    GatewayTypes /\ AllStand /\ [Api!Next]_(Api!vars) => GatewayTypes'
<1>1. SUFFICES ASSUME GatewayTypes, AllStand, [Api!Next]_(Api!vars)
               PROVE  GatewayTypes'
  OBVIOUS
<1>2. ASSUME NEW h \in Handlers, Api!Accept(h) PROVE GatewayTypes'
  <2>1. PICK r \in Api!Requests :
          /\ req' = [req EXCEPT ![h] = r]
          /\ due' = [due EXCEPT
                ![h] = IF r.key = NoKey THEN 0 ELSE marker[r.key]]
          /\ Api!Goto(h, IF r.key = NoKey THEN "insert" ELSE "check")
    BY <1>2 DEF Api!Accept
  <2>2. r.key \in Keys \cup {NoKey}
    BY DEF Api!Requests
  <2>3. (IF r.key = NoKey THEN 0 ELSE marker[r.key]) \in Nat
    BY <1>1, <2>2 DEF GatewayTypes
  <2> QED
    BY <1>1, <1>2, <2>1, <2>3 DEF Api!Accept, Api!Goto, GatewayTypes,
       Api!Statements, Api!database
<1>3. ASSUME NEW h \in Handlers, Api!Check(h) \/ Api!Respond(h) \/ Api!Fail(h)
      PROVE  GatewayTypes'
  <2>1. UNCHANGED <<submitted, marker, inserts>>
    BY <1>3 DEF Api!Check, Api!Respond, Api!Fail, Api!database
  <2>2. CASE Api!Finish(h)
    BY <1>1, <2>1, <2>2, RequestEnds DEF GatewayTypes
  <2>3. CASE Api!Goto(h, "insert") /\ UNCHANGED <<req, row, holds, due>>
    BY <1>1, <2>1, <2>3 DEF GatewayTypes, Api!Goto, Api!Statements
  <2> QED
    BY <1>3, <2>2, <2>3 DEF Api!Check, Api!Respond, Api!Fail
<1>4. ASSUME NEW h \in Handlers, Api!Insert(h) PROVE GatewayTypes'
  <2>1. UNCHANGED <<submitted, marker>> /\ inserts' = inserts + 1
    BY <1>4 DEF Api!Insert, Api!database
  <2>2. CASE Api!Finish(h)
    BY <1>1, <2>1, <2>2, RequestEnds DEF GatewayTypes
  <2>3. CASE /\ req[h].known
             /\ row' = [row EXCEPT
                    ![h] = @ \cup {[id |-> inserts', ext |-> req[h].ext]}]
             /\ Api!Goto(h, IF req[h].key = NoKey THEN "commit" ELSE "mark")
             /\ UNCHANGED <<req, holds, due>>
    <3>1. req[h].ext \in Externals
      BY <1>1, <2>3 DEF GatewayTypes, Api!Requests, Api!NoRequest
    <3>2. [id |-> inserts', ext |-> req[h].ext] \in AnyRow
      BY <1>1, <2>1, <3>1 DEF GatewayTypes, AnyRow
    <3>3. row' \in [Handlers -> SUBSET AnyRow]
      BY <1>1, <2>3, <3>2 DEF GatewayTypes
    <3> QED
      BY <1>1, <2>1, <2>3, <3>3 DEF GatewayTypes, Api!Goto, Api!Statements
  <2> QED
    BY <1>4, <2>2, <2>3 DEF Api!Insert
<1>5. ASSUME NEW h \in Handlers, Api!Mark(h) PROVE GatewayTypes'
  BY <1>1, <1>5 DEF Api!Mark, Api!Goto, GatewayTypes, Api!Statements,
     Api!database
<1>6. ASSUME NEW h \in Handlers, Api!Commit(h) PROVE GatewayTypes'
  <2>1. PICK t \in AnyRow : row[h] = {t}
    BY <1>1, <1>6 DEF Api!Commit, AllStand, Stands
  <2>2. (CHOOSE u \in row[h] : TRUE) = t
    BY <2>1
  <2>3. marker' \in [Keys -> Nat]
    BY <1>1, <1>6, <2>1, <2>2 DEF Api!Commit, Api!MarkerAfter,
       GatewayTypes, AnyRow
  <2> QED
    BY <1>1, <1>6, <2>1, <2>3 DEF Api!Commit, Api!Store, Api!Goto, GatewayTypes,
       Api!Statements
<1> QED
  BY <1>1, <1>2, <1>3, <1>4, <1>5, <1>6
     DEF Api!Next, Api!submit_trade, Api!vars, Api!database, GatewayTypes

(* A key on record is left alone: who writes one holds its unique key, and *)
(* found no row when it took it.                                           *)
LEMMA KeysKept ==
    ASSUME GatewayTypes, AllStand, [Api!Next]_(Api!vars)
    PROVE  \A k \in Keys : marker[k] # 0 => marker'[k] = marker[k]
<1>1. ASSUME NEW h \in Handlers, Api!Commit(h)
      PROVE  \A k \in Keys : marker[k] # 0 => marker'[k] = marker[k]
  BY <1>1 DEF Api!Commit, Api!MarkerAfter, AllStand, Stands, GatewayTypes
<1> QED
  BY <1>1 DEF Api!Next, Api!submit_trade, Api!Accept, Api!Check, Api!Insert,
     Api!Mark, Api!Respond, Api!Fail, Api!vars, Api!database

(* What a commit does to the key that its request carries. *)
LEMMA KeyWritten ==
    ASSUME GatewayTypes, AllStand, NEW h \in Handlers, Api!Commit(h)
    PROVE  /\ \E t \in row[h] : row[h] = {t}
           /\ \A k \in Keys :
                \/ marker'[k] = marker[k]
                \/ /\ holds[h] /\ k = req[h].key
                   /\ \E t \in row[h] : marker'[k] = t.id
<1>1. PICK t \in AnyRow : row[h] = {t}
  BY DEF Api!Commit, AllStand, Stands
<1>2. (CHOOSE u \in row[h] : TRUE) = t
  BY <1>1
<1> QED
  BY <1>1, <1>2 DEF Api!Commit, Api!MarkerAfter, GatewayTypes

(* Each statement leaves the handler where it may be. *)
LEMMA PlacesStep ==
    ASSUME GatewayTypes, AllStand, OneHolder, Api!AcceptedIsDurable, Api!Next
    PROVE  AllStand' /\ OneHolder'
<1> USE DEF GatewayTypes
<1>1. GatewayTypes' /\ \A k \in Keys : marker[k] # 0 => marker'[k] = marker[k]
  BY TypesStep, KeysKept
<1>2. ASSUME NEW h \in Handlers,
             \A g \in Handlers \ {h} :
               UNCHANGED <<req[g], hpc[g], row[g], holds[g], due[g]>>,
             submitted \subseteq submitted', marker' = marker, Stands(h)',
             \A g \in Handlers \ {h} :
               ~(holds'[h] /\ holds[g] /\ req[g].key = req'[h].key)
      PROVE  AllStand' /\ OneHolder'
  <2>1. \A g \in Handlers : holds[g] => marker'[req[g].key] = 0
    BY <1>2 DEF AllStand, Stands
  <2>2. AllStand'
    BY <1>1, <1>2, <2>1, OthersKept DEF AllStand
  <2>3. OneHolder'
    BY <1>2 DEF OneHolder
  <2> QED
    BY <2>2, <2>3
<1>3. ASSUME NEW h \in Handlers, Api!Accept(h) PROVE AllStand' /\ OneHolder'
  <2>1. PICK r \in Api!Requests :
          /\ req' = [req EXCEPT ![h] = r]
          /\ due' = [due EXCEPT
                ![h] = IF r.key = NoKey THEN 0 ELSE marker[r.key]]
          /\ Api!Goto(h, IF r.key = NoKey THEN "insert" ELSE "check")
    BY <1>3 DEF Api!Accept
  <2>2. /\ hpc[h] = "idle" /\ UNCHANGED <<submitted, marker, row, holds>>
        /\ row[h] = {} /\ ~holds[h]
    BY <1>3 DEF Api!Accept, AllStand, Stands, Api!database
  <2>3. r.key \in Keys \cup {NoKey}
    BY DEF Api!Requests
  <2>4. Stands(h)'
    BY <2>1, <2>2, <2>3 DEF Stands, Api!Goto
  <2> QED
    BY <1>2, <2>1, <2>2, <2>4 DEF Api!Goto
<1>4. ASSUME NEW h \in Handlers, Api!Finish(h),
             submitted' = submitted, marker' = marker
      PROVE  AllStand' /\ OneHolder'
  <2>1. /\ hpc'[h] = "idle" /\ row'[h] = {} /\ ~holds'[h] /\ due'[h] = 0
        /\ \A g \in Handlers \ {h} :
             UNCHANGED <<req[g], hpc[g], row[g], holds[g], due[g]>>
    BY <1>4, RequestEnds
  <2>2. Stands(h)'
    BY <2>1 DEF Stands
  <2> QED
    BY <1>2, <1>4, <2>1, <2>2
<1>5. ASSUME NEW h \in Handlers, Api!Check(h) PROVE AllStand' /\ OneHolder'
  <2>1. UNCHANGED <<submitted, marker>> /\ hpc[h] = "check"
    BY <1>5 DEF Api!Check, Api!database
  <2>2. CASE Api!Finish(h)
    BY <1>4, <2>1, <2>2
  <2>3. CASE /\ Api!Found(h) = {} /\ Api!Goto(h, "insert")
             /\ UNCHANGED <<req, row, holds, due>>
    <3>1. req[h].key \in Keys /\ row[h] = {} /\ ~holds[h]
      BY <2>1 DEF AllStand, Stands
    <3>2. marker[req[h].key] = 0
      BY <2>3, <3>1 DEF Api!Found, Api!AcceptedIsDurable
    <3>3. due[h] = 0
      BY <3>2 DEF AllStand, Stands
    <3>4. Stands(h)'
      BY <2>3, <3>1, <3>3 DEF Stands, Api!Goto
    <3> QED
      BY <1>2, <2>1, <2>3, <3>1, <3>4 DEF Api!Goto
  <2> QED
    BY <1>5, <2>2, <2>3 DEF Api!Check
<1>6. ASSUME NEW h \in Handlers, Api!Insert(h) PROVE AllStand' /\ OneHolder'
  <2>1. UNCHANGED <<submitted, marker>> /\ hpc[h] = "insert"
    BY <1>6 DEF Api!Insert, Api!database
  <2>2. CASE Api!Finish(h)
    BY <1>4, <2>1, <2>2
  <2>3. CASE /\ req[h].known
             /\ row' = [row EXCEPT
                    ![h] = @ \cup {[id |-> inserts', ext |-> req[h].ext]}]
             /\ Api!Goto(h, IF req[h].key = NoKey THEN "commit" ELSE "mark")
             /\ UNCHANGED <<req, holds, due>>
    <3>1. row[h] = {} /\ ~holds[h] /\ due[h] = 0
      BY <2>1 DEF AllStand, Stands
    <3>2. /\ row'[h] = {[id |-> inserts', ext |-> req[h].ext]}
          /\ row'[h] \subseteq AnyRow
      BY <1>1, <2>3, <3>1
    <3>3. req[h].key \in Keys \cup {NoKey}
      BY DEF Api!Requests, Api!NoRequest
    <3>4. Stands(h)'
      BY <2>3, <3>1, <3>2, <3>3 DEF Stands, Api!Goto
    <3> QED
      BY <1>2, <2>1, <2>3, <3>1, <3>4 DEF Api!Goto
  <2> QED
    BY <1>6, <2>2, <2>3 DEF Api!Insert
<1>7. ASSUME NEW h \in Handlers, Api!Mark(h) PROVE AllStand' /\ OneHolder'
  <2>1. /\ UNCHANGED <<submitted, marker, req, row, due>> /\ hpc[h] = "mark"
        /\ hpc' = [hpc EXCEPT ![h] = "commit"]
        /\ holds' = [holds EXCEPT ![h] = marker[req[h].key] = 0]
        /\ \A g \in Handlers \ {h} : ~(holds[g] /\ req[g].key = req[h].key)
    BY <1>7 DEF Api!Mark, Api!Goto, Api!database
  <2>2. Stands(h)'
    BY <2>1 DEF AllStand, Stands
  <2> QED
    BY <1>2, <2>1, <2>2
<1>8. ASSUME NEW h \in Handlers, Api!Commit(h) PROVE AllStand' /\ OneHolder'
  <2>1. /\ UNCHANGED <<req, row, due>> /\ hpc[h] = "commit"
        /\ hpc' = [hpc EXCEPT ![h] = "respond"]
        /\ holds' = [holds EXCEPT ![h] = FALSE]
        /\ submitted' = submitted \cup row[h]
    BY <1>8 DEF Api!Commit, Api!Store, Api!Goto
  <2>2. Stands(h)'
    BY <2>1 DEF AllStand, Stands
  <2>3. ASSUME NEW g \in Handlers \ {h}, holds[g]
        PROVE  marker'[req[g].key] = 0
    <3>1. req[g].key \in Keys /\ marker[req[g].key] = 0
      BY <2>3 DEF AllStand, Stands
    <3>2. ~(holds[h] /\ req[g].key = req[h].key)
      BY <2>3 DEF OneHolder
    <3> QED
      BY <1>8, <3>1, <3>2, KeyWritten
  <2>4. ASSUME NEW g \in Handlers \ {h} PROVE Stands(g)'
    BY <1>1, <2>1, <2>3, OthersKept
  <2>5. OneHolder'
    BY <2>1 DEF OneHolder
  <2> QED
    BY <2>2, <2>4, <2>5 DEF AllStand
<1>9. ASSUME NEW h \in Handlers, Api!Respond(h) \/ Api!Fail(h)
      PROVE  AllStand' /\ OneHolder'
  BY <1>4, <1>9 DEF Api!Respond, Api!Fail, Api!database
<1> QED
  BY <1>3, <1>5, <1>6, <1>7, <1>8, <1>9 DEF Api!Next, Api!submit_trade

(* What a client is told is on record, and stays there. *)
LEMMA RepliesStep ==
    ASSUME GatewayTypes, AllStand, OneHolder, Api!AcceptedIsDurable,
           Api!RepeatIsAnswered, Api!Next
    PROVE  Api!AcceptedIsDurable' /\ Api!RepeatIsAnswered'
<1> USE DEF GatewayTypes
<1>1. ASSUME UNCHANGED <<submitted, announced, marker>>, NEW h \in Handlers,
             \/ replies' = replies
             \/ \E t \in submitted : Api!Reply(h, 201, t.id)
                                  /\ (due[h] # 0 => t.id = due[h])
             \/ due[h] = 0 /\ (Api!Reply(h, 409, 0) \/ Api!Reply(h, 422, 0))
      PROVE  Api!AcceptedIsDurable' /\ Api!RepeatIsAnswered'
  <2>1. \A r \in replies' \ replies :
          /\ r.code = 201 => r.trade \in announced
          /\ r.due # 0 => r.code = 201 /\ r.trade = r.due
    BY <1>1 DEF Api!Reply, Api!AcceptedIsDurable
  <2> QED
    BY <1>1, <2>1 DEF Api!AcceptedIsDurable, Api!RepeatIsAnswered
<1>2. ASSUME NEW h \in Handlers, Api!Check(h)
      PROVE  Api!AcceptedIsDurable' /\ Api!RepeatIsAnswered'
  <2>1. due[h] # 0 => marker[req[h].key] = due[h]
    BY DEF AllStand, Stands
  <2>2. UNCHANGED <<submitted, announced, marker>>
    BY <1>2 DEF Api!Check, Api!database
  <2> QED
    BY <1>1, <1>2, <2>1, <2>2 DEF Api!Check, Api!Found
<1>3. ASSUME NEW h \in Handlers, Api!Insert(h)
      PROVE  Api!AcceptedIsDurable' /\ Api!RepeatIsAnswered'
  <2>1. due[h] = 0
    BY <1>3 DEF Api!Insert, AllStand, Stands
  <2> QED
    BY <1>1, <1>3, <2>1 DEF Api!Insert, Api!database
<1>4. ASSUME NEW h \in Handlers, Api!Respond(h)
      PROVE  Api!AcceptedIsDurable' /\ Api!RepeatIsAnswered'
  <2>1. due[h] = 0 /\ row[h] \subseteq submitted
    BY <1>4 DEF Api!Respond, AllStand, Stands
  <2> QED
    BY <1>1, <1>4, <2>1 DEF Api!Respond, Api!database
<1>5. ASSUME NEW h \in Handlers, Api!Commit(h)
      PROVE  Api!AcceptedIsDurable' /\ Api!RepeatIsAnswered'
  <2>1. /\ submitted' = submitted \cup row[h] /\ replies' = replies
        /\ announced' = announced \cup {t.id : t \in row[h]}
    BY <1>5 DEF Api!Commit, Api!Store
  <2>2. \A k \in Keys : marker'[k] \in announced' \cup {0}
    BY <1>5, <2>1, KeyWritten DEF Api!AcceptedIsDurable
  <2> QED
    BY <2>1, <2>2 DEF Api!AcceptedIsDurable, Api!RepeatIsAnswered
<1>6. ASSUME NEW h \in Handlers, Api!Accept(h) \/ Api!Mark(h) \/ Api!Fail(h)
      PROVE  Api!AcceptedIsDurable' /\ Api!RepeatIsAnswered'
  BY <1>1, <1>6 DEF Api!Accept, Api!Mark, Api!Fail, Api!database
<1> QED
  BY <1>2, <1>3, <1>4, <1>5, <1>6 DEF Api!Next, Api!submit_trade

-----------------------------------------------------------------------------
(* What the statements of all handlers preserve together. *)
LEMMA AnswersStep == AnswersInv /\ [Api!Next]_(Api!vars) => AnswersInv'
<1>1. CASE Api!Next
  BY <1>1, TypesStep, PlacesStep, RepliesStep DEF AnswersInv
<1>2. CASE UNCHANGED Api!vars
  BY <1>2 DEF AnswersInv, GatewayTypes, AllStand, Stands, OneHolder,
     Api!AcceptedIsDurable, Api!RepeatIsAnswered, Api!vars, Api!database
<1> QED
  BY <1>1, <1>2

(* Every step of the intake is one of the gateway, or none.                *)
LEMMA AnswersInvariance ==
    IntakeSpec => []AnswersInv /\ [][Api!Next]_(Api!vars)
<1>1. IntakeInit => AnswersInv
  BY AnswersBegin DEF IntakeInit
<1>2. [IntakeNext]_intakeVars => [Api!Next]_(Api!vars)
  BY DEF IntakeNext, Request, Ingest, intakeVars, apiVars, Api!vars,
     Api!database
<1> QED
  BY <1>1, <1>2, AnswersStep, PTL DEF IntakeSpec

(* A 201 is about a trade that is committed with its event, and so is every*)
(* key on record (main.py:87-103), for any number of handlers, requests and*)
(* failures.                                                               *)
THEOREM AcceptedStays == IntakeSpec => []AcceptedIsDurable
<1>1. AnswersInv => AcceptedIsDurable
  BY DEF AnswersInv, AcceptedIsDurable
<1> QED
  BY AnswersInvariance, <1>1, PTL

(* A request that repeats a key on record gets the trade on record         *)
(* (main.py:81-84), whatever is lost or rolled back meanwhile.             *)
THEOREM RepeatsAnswered == IntakeSpec => []RepeatIsAnswered
<1>1. AnswersInv => RepeatIsAnswered
  BY DEF AnswersInv, RepeatIsAnswered
<1> QED
  BY AnswersInvariance, <1>1, PTL

(* The trade a key stands for never changes: ON CONFLICT DO NOTHING        *)
(* (main.py:166), and the unique key serialises those that write one.      *)
THEOREM KeysStay == IntakeSpec => KeyNeverMoves
<1>1. AnswersInv /\ [Api!Next]_(Api!vars)
        => [\A k \in Keys : marker[k] # 0 => marker'[k] = marker[k]]_(Api!vars)
  BY KeysKept DEF AnswersInv
<1> QED
  BY AnswersInvariance, <1>1, PTL DEF KeyNeverMoves, Api!KeyNeverMoves

-----------------------------------------------------------------------------
(* Intake: this service behind the gateway.                                *)

(* The row that a thread is about to commit, and the threads that may      *)
(* still insert one.                                                       *)
Pending(h) == IF hpc[h] \in {"mark", "commit"} THEN row[h] ELSE {}
Waiting == {h \in Handlers : hpc[h] \in {"check", "insert"}}

(* Every insert takes a number and costs a request: no number is too big.  *)
GatewayInv ==
    /\ inserts \in Nat /\ requests \in 0..MaxRequests
    /\ inserts + Cardinality(Waiting) <= requests
    /\ hpc \in [Handlers -> Api!Statements]
    /\ row \in [Handlers -> SUBSET Api!TradeRows]
    /\ req \in [Handlers -> Api!Requests \cup {Api!NoRequest}]
    /\ \A h \in Waiting : req[h] \in Api!Requests
    /\ \A h \in Handlers : hpc[h] \in {"idle", "check", "insert"} => row[h] = {}
    /\ submitted \subseteq Api!TradeRows
    /\ announced = {x.id : x \in submitted}

(* Trades that are committed or about to be share no external id and no    *)
(* number.                                                                 *)
Apart(x, y) == x.ext # y.ext /\ x.id # y.id

RowsApart ==
    /\ \A x, y \in submitted : x = y \/ Apart(x, y)
    /\ \A h \in Handlers : \A x \in Pending(h) :
         /\ \A y \in submitted : Apart(x, y)
         /\ \A y \in Pending(h) : x = y
         /\ \A g \in Handlers \ {h} : \A y \in Pending(g) : Apart(x, y)
    /\ \A x \in submitted : x.id <= inserts
    /\ \A h \in Handlers : \A x \in Pending(h) : x.id <= inserts

(* Only trades that the gateway has committed are worked on or decided. *)
Traced ==
    /\ processed \subseteq announced
    /\ \A w \in Workers : pc[w] # "idle" => job[w] \in announced

IntakeInv == IInv /\ GatewayInv /\ RowsApart /\ Traced

(* How many threads may still insert when one of them goes elsewhere. *)
LEMMA WaitingMoves ==
    ASSUME IsFiniteSet(Handlers), NEW h \in Handlers,
           Waiting' \ {h} = Waiting \ {h}
    PROVE  /\ Cardinality(Waiting) \in Nat
           /\ Cardinality(Waiting')
                = Cardinality(Waiting) + (IF h \in Waiting' THEN 1 ELSE 0)
                                       - (IF h \in Waiting THEN 1 ELSE 0)
<1> DEFINE S == Waiting
           T == Waiting'
<1>1. IsFiniteSet(S) /\ IsFiniteSet(T)
  <2>1. S \subseteq Handlers /\ T \subseteq Handlers
    BY DEF Waiting
  <2> QED
    BY <2>1, FS_Subset
<1> HIDE DEF S, T
<1>2. ASSUME NEW U, IsFiniteSet(U)
      PROVE  /\ Cardinality(U) \in Nat
             /\ h \in U => Cardinality(U \ {h}) = Cardinality(U) - 1
             /\ h \notin U => Cardinality(U \ {h}) = Cardinality(U)
  <2>1. Cardinality(U) \in Nat
    BY <1>2, FS_CardinalityType
  <2> QED
    BY <1>2, <2>1, FS_RemoveElement
<1>3. S \ {h} = T \ {h}
  BY DEF S, T
<1>4. /\ Cardinality(S) \in Nat
      /\ h \in S => Cardinality(S \ {h}) = Cardinality(S) - 1
      /\ h \notin S => Cardinality(S \ {h}) = Cardinality(S)
  BY <1>1, <1>2
<1>5. /\ Cardinality(T) \in Nat
      /\ h \in T => Cardinality(S \ {h}) = Cardinality(T) - 1
      /\ h \notin T => Cardinality(S \ {h}) = Cardinality(T)
  BY <1>1, <1>2, <1>3
<1>6. /\ Cardinality(S) \in Nat
      /\ Cardinality(T) = Cardinality(S) + (IF h \in T THEN 1 ELSE 0)
                                         - (IF h \in S THEN 1 ELSE 0)
  BY <1>4, <1>5
<1> QED
  BY <1>6 DEF S, T

(* Before a first request there is nothing. *)
LEMMA GatewayBegins ==
    ASSUME IntakeAssumption, IntakeInit
    PROVE  GatewayInv /\ RowsApart /\ Traced
<1>1. Waiting = {} /\ \A h \in Handlers : Pending(h) = {}
  BY DEF IntakeInit, Api!Init, Waiting, Pending
<1>2. MaxRequests \in Nat /\ Cardinality(Waiting) = 0
  BY <1>1, FS_EmptySet DEF IntakeAssumption, Api!GatewayAssumption
<1>3. GatewayInv
  BY <1>1, <1>2 DEF IntakeInit, Api!Init, GatewayInv, Api!Statements
<1>4. RowsApart
  BY <1>1 DEF IntakeInit, Api!Init, RowsApart
<1>5. Traced
  BY DEF IntakeInit, Init, Traced
<1> QED
  BY <1>3, <1>4, <1>5

(* A thread that ends its request ... *)
LEMMA Finishes ==
    ASSUME IntakeAssumption, GatewayInv, NEW h \in Handlers, Api!Finish(h),
           UNCHANGED <<submitted, announced, requests>>,
           inserts' = inserts \/ (h \in Waiting /\ inserts' = inserts + 1)
    PROVE  /\ GatewayInv'
           /\ Pending(h)' = {}
           /\ \A g \in Handlers \ {h} : Pending(g)' = Pending(g)
<1>1. /\ hpc' = [hpc EXCEPT ![h] = "idle"] /\ row' = [row EXCEPT ![h] = {}]
      /\ req' = [req EXCEPT ![h] = Api!NoRequest]
  BY DEF Api!Finish, Api!RolledBack, Api!Goto
<1>2. inserts' \in Nat /\ inserts' + Cardinality(Waiting') <= requests
  <2>1. Waiting' \ {h} = Waiting \ {h} /\ h \notin Waiting'
    BY <1>1 DEF Waiting, GatewayInv
  <2>2. /\ Cardinality(Waiting) \in Nat
        /\ Cardinality(Waiting')
             = Cardinality(Waiting) - (IF h \in Waiting THEN 1 ELSE 0)
    BY <2>1, WaitingMoves DEF IntakeAssumption
  <2> QED
    BY <2>2 DEF GatewayInv
<1>3. Waiting' \subseteq Waiting /\ h \notin Waiting'
  BY <1>1 DEF Waiting, GatewayInv
<1>4. \A g \in Waiting' : req'[g] \in Api!Requests
  BY <1>1, <1>3 DEF GatewayInv
<1> QED
  BY <1>1, <1>2, <1>4 DEF GatewayInv, Pending, Api!Statements

(* ... keeps its rows apart from the others'. *)
LEMMA FinishedApart ==
    ASSUME RowsApart, GatewayInv, NEW h \in Handlers,
           UNCHANGED submitted, inserts' \in {inserts, inserts + 1},
           Pending(h)' \subseteq Pending(h),
           \A g \in Handlers \ {h} : Pending(g)' = Pending(g)
    PROVE  RowsApart'
<1>1. \A g \in Handlers : Pending(g)' \subseteq Pending(g)
  OBVIOUS
<1>2. inserts \in Nat /\ \A n \in Nat : n <= inserts => n <= inserts'
  BY DEF GatewayInv
<1>3. /\ \A x \in submitted : x.id \in Nat
      /\ \A g \in Handlers : \A x \in Pending(g) : x.id \in Nat
  <2>1. \A x \in Api!TradeRows : x.id \in Nat
    BY DEF Api!TradeRows
  <2> QED
    BY <2>1 DEF GatewayInv, Pending
<1>4. /\ \A x \in submitted' : x.id <= inserts'
      /\ \A g \in Handlers : \A x \in Pending(g)' : x.id <= inserts'
  BY <1>1, <1>2, <1>3 DEF RowsApart
<1>5. \A g \in Handlers : \A x \in Pending(g)' :
         /\ \A y \in submitted' : Apart(x, y)
         /\ \A y \in Pending(g)' : x = y
         /\ \A k \in Handlers \ {g} : \A y \in Pending(k)' : Apart(x, y)
  BY <1>1 DEF RowsApart
<1>6. \A x, y \in submitted' : x = y \/ Apart(x, y)
  BY DEF RowsApart
<1> QED
  BY <1>4, <1>5, <1>6 DEF RowsApart, Apart

(* A request may insert one row. *)
LEMMA AcceptStep ==
    ASSUME IntakeAssumption, GatewayInv, RowsApart, NEW h \in Handlers,
           Api!Accept(h)
    PROVE  GatewayInv' /\ RowsApart'
<1>1. PICK r \in Api!Requests :
         /\ req' = [req EXCEPT ![h] = r]
         /\ Api!Goto(h, IF r.key = NoKey THEN "insert" ELSE "check")
  BY DEF Api!Accept
<1>2. PICK to \in {"check", "insert"} : hpc' = [hpc EXCEPT ![h] = to]
  BY <1>1 DEF Api!Goto
<1>3. /\ hpc[h] = "idle" /\ requests < MaxRequests /\ requests' = requests + 1
      /\ UNCHANGED <<submitted, announced, inserts, row>>
  BY DEF Api!Accept, Api!database
<1>4. requests' \in 0..MaxRequests /\ inserts + Cardinality(Waiting') <= requests'
  <2>1. Waiting' \ {h} = Waiting \ {h} /\ h \notin Waiting /\ h \in Waiting'
    BY <1>2, <1>3 DEF Waiting, GatewayInv
  <2>2. /\ Cardinality(Waiting) \in Nat
        /\ Cardinality(Waiting') = Cardinality(Waiting) + 1
    BY <2>1, WaitingMoves DEF IntakeAssumption
  <2> QED
    BY <1>3, <2>2 DEF GatewayInv, IntakeAssumption, Api!GatewayAssumption
<1>5. \A g \in Waiting' : req'[g] \in Api!Requests
  <2>1. ASSUME NEW g \in Waiting', g # h PROVE req'[g] \in Api!Requests
    <3>1. g \in Waiting
      BY <1>2, <2>1 DEF GatewayInv, Waiting
    <3> QED
      BY <1>1, <2>1, <3>1 DEF GatewayInv
  <2> QED
    BY <2>1, <1>1, <1>2 DEF GatewayInv, Waiting
<1>6. GatewayInv'
  <2>1. /\ hpc' \in [Handlers -> Api!Statements]
        /\ \A g \in Handlers : hpc'[g] \in {"idle", "check", "insert"}
                                 => row'[g] = {}
    BY <1>2, <1>3 DEF GatewayInv, Api!Statements
  <2>2. req' \in [Handlers -> Api!Requests \cup {Api!NoRequest}]
    BY <1>1 DEF GatewayInv
  <2> QED
    BY <1>3, <1>4, <1>5, <2>1, <2>2 DEF GatewayInv
<1>7. \A g \in Handlers : Pending(g)' = Pending(g)
  BY <1>2, <1>3 DEF Pending, GatewayInv
<1> QED
  BY <1>3, <1>6, <1>7, FinishedApart

(* A request that goes on without an insert, or ends. *)
LEMMA GoOnStep ==
    ASSUME IntakeAssumption, GatewayInv, RowsApart, NEW h \in Handlers,
           Api!Check(h) \/ Api!Mark(h) \/ Api!Respond(h) \/ Api!Fail(h)
    PROVE  GatewayInv' /\ RowsApart'
<1>1. UNCHANGED <<submitted, announced, inserts, requests>>
  BY DEF Api!Check, Api!Mark, Api!Respond, Api!Fail, Api!database
<1>2. CASE Api!Finish(h)
  BY <1>1, <1>2, Finishes, FinishedApart
<1>3. ASSUME UNCHANGED <<row, req>>,
             \/ hpc[h] = "check" /\ hpc' = [hpc EXCEPT ![h] = "insert"]
             \/ hpc[h] = "mark" /\ hpc' = [hpc EXCEPT ![h] = "commit"]
      PROVE  GatewayInv' /\ RowsApart'
  <2>1. Waiting' = Waiting
    BY <1>3 DEF GatewayInv, Waiting
  <2>2. GatewayInv'
    BY <1>1, <1>3, <2>1 DEF GatewayInv, Api!Statements
  <2>3. \A g \in Handlers : Pending(g)' = Pending(g)
    BY <1>3 DEF Pending, GatewayInv
  <2> QED
    BY <1>1, <2>2, <2>3, FinishedApart
<1> QED
  BY <1>2, <1>3 DEF Api!Check, Api!Mark, Api!Respond, Api!Fail, Api!Goto

(* _insert_trade: a number of its own, and an external id that neither a   *)
(* committed row has nor, since it waits for them, an uncommitted one.     *)
LEMMA InsertStep ==
    ASSUME IntakeAssumption, GatewayInv, RowsApart, NEW h \in Handlers,
           Api!Insert(h)
    PROVE  GatewayInv' /\ RowsApart'
<1> DEFINE x == [id |-> inserts + 1, ext |-> req[h].ext]
<1>1. /\ hpc[h] = "insert" /\ ~Api!Waits(h) /\ inserts' = inserts + 1
      /\ UNCHANGED <<submitted, announced, requests>>
  BY DEF Api!Insert, Api!database
<1>2. h \in Waiting /\ row[h] = {} /\ req[h].ext \in Externals
  BY <1>1 DEF Waiting, GatewayInv, Api!Requests
<1>3. CASE Api!Finish(h)
  BY <1>1, <1>2, <1>3, Finishes, FinishedApart
<1>4. ASSUME \A y \in submitted : y.ext # req[h].ext,
             row' = [row EXCEPT ![h] = {x}], UNCHANGED req,
             NEW to \in {"mark", "commit"}, hpc' = [hpc EXCEPT ![h] = to]
      PROVE  GatewayInv' /\ RowsApart'
  <2>1. inserts' + Cardinality(Waiting') <= requests
    <3>1. Waiting' \ {h} = Waiting \ {h} /\ h \notin Waiting'
      BY <1>4 DEF Waiting, GatewayInv
    <3>2. /\ Cardinality(Waiting) \in Nat
          /\ Cardinality(Waiting') = Cardinality(Waiting) - 1
      BY <1>2, <3>1, WaitingMoves DEF IntakeAssumption
    <3> QED
      BY <1>1, <3>2 DEF GatewayInv
  <2>2. x \in Api!TradeRows
    <3>1. Waiting' \subseteq Handlers /\ IsFiniteSet(Handlers)
      BY DEF Waiting, IntakeAssumption
    <3>2. Cardinality(Waiting') \in Nat
      BY <3>1, FS_Subset, FS_CardinalityType
    <3>3. inserts + 1 \in 1..MaxRequests
      BY <1>1, <2>1, <3>2
         DEF GatewayInv, IntakeAssumption, Api!GatewayAssumption
    <3> QED
      BY <1>2, <3>3 DEF Api!TradeRows
  <2>3. /\ Pending(h)' = {x} /\ Pending(h) = {}
        /\ \A g \in Handlers \ {h} : Pending(g)' = Pending(g)
    BY <1>1, <1>4 DEF Pending, GatewayInv
  <2>4. GatewayInv'
    <3>1. /\ hpc' \in [Handlers -> Api!Statements]
          /\ row' \in [Handlers -> SUBSET Api!TradeRows]
          /\ \A g \in Handlers : hpc'[g] \in {"idle", "check", "insert"}
                                   => row'[g] = {}
      BY <1>4, <2>2 DEF GatewayInv, Api!Statements
    <3>2. Waiting' \subseteq Waiting
      BY <1>4 DEF Waiting, GatewayInv
    <3>3. \A g \in Waiting' : req'[g] \in Api!Requests
      BY <1>4, <3>2 DEF GatewayInv
    <3> QED
      BY <1>1, <1>4, <2>1, <3>1, <3>3 DEF GatewayInv
  <2>5. /\ \A y \in submitted : y.id \in Nat /\ y.id <= inserts
        /\ \A g \in Handlers : \A y \in Pending(g) :
             y.id \in Nat /\ y.id <= inserts
    <3>1. \A y \in Api!TradeRows : y.id \in Nat
      BY DEF Api!TradeRows
    <3>2. \A g \in Handlers : Pending(g) \subseteq Api!TradeRows
      BY DEF Pending, GatewayInv
    <3> QED
      BY <3>1, <3>2 DEF GatewayInv, RowsApart
  <2>6. /\ \A y \in submitted : Apart(x, y)
        /\ \A g \in Handlers \ {h} : \A y \in Pending(g) :
             Apart(x, y) /\ Apart(y, x)
    <3>1. inserts \in Nat
      BY DEF GatewayInv
    <3>2. \A g \in Handlers \ {h} : \A y \in Pending(g) : y.ext # req[h].ext
      BY <1>1 DEF Api!Waits, Pending
    <3> QED
      BY <1>4, <2>5, <3>1, <3>2 DEF Apart
  <2>7. RowsApart'
    <3>1. \A g \in Handlers : \A y \in Pending(g)' :
            /\ \A z \in submitted' : Apart(y, z)
            /\ \A z \in Pending(g)' : y = z
            /\ \A k \in Handlers \ {g} : \A z \in Pending(k)' : Apart(y, z)
      <4>1. ASSUME NEW g \in Handlers, g # h, NEW y \in Pending(g)'
            PROVE  /\ \A z \in submitted' : Apart(y, z)
                   /\ \A z \in Pending(g)' : y = z
                   /\ \A k \in Handlers \ {g} : \A z \in Pending(k)' :
                        Apart(y, z)
        BY <1>1, <4>1, <2>3, <2>6 DEF RowsApart
      <4>2. /\ \A z \in submitted' : Apart(x, z)
            /\ \A k \in Handlers \ {h} : \A z \in Pending(k)' : Apart(x, z)
        BY <1>1, <2>3, <2>6
      <4> QED
        BY <2>3, <4>1, <4>2
    <3>2. inserts' \in Nat /\ \A n \in Nat : n <= inserts => n <= inserts'
      BY <1>1 DEF GatewayInv
    <3>3. /\ \A y \in submitted' : y.id <= inserts'
          /\ \A g \in Handlers : \A y \in Pending(g)' : y.id <= inserts'
      BY <1>1, <2>3, <2>5, <3>2
    <3> QED
      BY <1>1, <3>1, <3>3 DEF RowsApart, Apart
  <2> QED
    BY <2>4, <2>7
<1> HIDE DEF x
<1>5. \/ Api!Finish(h)
      \/ /\ \A y \in submitted : y.ext # req[h].ext
         /\ row' = [row EXCEPT ![h] = {x}] /\ UNCHANGED req
         /\ \E to \in {"mark", "commit"} : hpc' = [hpc EXCEPT ![h] = to]
  <2>1. row[h] \cup {x} = {x}
    BY <1>2
  <2> QED
    BY <1>1, <2>1 DEF Api!Insert, Api!Goto, x
<1> QED
  BY <1>3, <1>4, <1>5

(* The commit shows at most one trade, unlike every one before it. *)
LEMMA GatewayCommits ==
    ASSUME GatewayInv, RowsApart, NEW h \in Handlers, Api!Commit(h)
    PROVE  /\ GatewayInv' /\ RowsApart' /\ announced \subseteq announced'
           /\ \/ submitted' = submitted
              \/ \E x \in Api!TradeRows :
                   /\ submitted' = submitted \cup {x}
                   /\ \A y \in submitted : Apart(x, y)
<1>1. /\ hpc[h] = "commit" /\ hpc' = [hpc EXCEPT ![h] = "respond"]
      /\ submitted' = submitted \cup row[h]
      /\ announced' = announced \cup {x.id : x \in row[h]}
      /\ UNCHANGED <<inserts, req, row, requests>>
  BY DEF Api!Commit, Api!Store, Api!Goto
<1>2. /\ Pending(h) = row[h] /\ Pending(h)' = {}
      /\ \A g \in Handlers \ {h} : Pending(g)' = Pending(g)
  BY <1>1 DEF Pending, GatewayInv
<1>3. row[h] \subseteq Api!TradeRows
  BY DEF GatewayInv
<1>4. GatewayInv'
  <2>1. Waiting' = Waiting
    BY <1>1 DEF Waiting, GatewayInv
  <2>2. announced' = {x.id : x \in submitted'}
    BY <1>1 DEF GatewayInv
  <2> QED
    BY <1>1, <1>3, <2>1, <2>2 DEF GatewayInv, Api!Statements
<1>5. RowsApart'
  <2>1. \A x, y \in submitted' : x = y \/ Apart(x, y)
    <3>1. \A x \in row[h], y \in submitted : Apart(x, y) /\ Apart(y, x)
      BY <1>2 DEF RowsApart, Apart
    <3> QED
      BY <1>1, <1>2, <3>1 DEF RowsApart
  <2>2. \A g \in Handlers : \A x \in Pending(g)' :
          /\ \A y \in submitted' : Apart(x, y)
          /\ \A y \in Pending(g)' : x = y
          /\ \A k \in Handlers \ {g} : \A y \in Pending(k)' : Apart(x, y)
          /\ x.id <= inserts
    BY <1>1, <1>2 DEF RowsApart
  <2>3. \A x \in submitted' : x.id <= inserts
    BY <1>1, <1>2 DEF RowsApart
  <2> QED
    BY <1>1, <2>1, <2>2, <2>3 DEF RowsApart, Apart
<1>6. ASSUME NEW x \in row[h]
      PROVE  x \in Api!TradeRows /\ row[h] = {x} /\ \A y \in submitted : Apart(x, y)
  BY <1>2, <1>3 DEF RowsApart
<1> QED
  BY <1>1, <1>4, <1>5, <1>6

(* The gateway keeps its rows apart, and takes back no event. *)
LEMMA GatewayStep ==
    ASSUME IntakeAssumption, GatewayInv, RowsApart, Api!Next
    PROVE  /\ GatewayInv' /\ RowsApart' /\ announced \subseteq announced'
           /\ \/ submitted' = submitted
              \/ \E x \in Api!TradeRows :
                   /\ submitted' = submitted \cup {x}
                   /\ \A y \in submitted : Apart(x, y)
<1>1. PICK h \in Handlers :
        Api!Accept(h) \/ Api!submit_trade(h) \/ Api!Fail(h)
  BY DEF Api!Next
<1>2. CASE Api!Accept(h)
  BY <1>2, AcceptStep DEF Api!Accept, Api!database
<1>3. CASE Api!Check(h) \/ Api!Mark(h) \/ Api!Respond(h) \/ Api!Fail(h)
  BY <1>3, GoOnStep DEF Api!Check, Api!Mark, Api!Respond, Api!Fail, Api!database
<1>4. CASE Api!Insert(h)
  BY <1>4, InsertStep DEF Api!Insert, Api!database
<1>5. CASE Api!Commit(h)
  BY <1>5, GatewayCommits
<1> QED
  BY <1>1, <1>2, <1>3, <1>4, <1>5 DEF Api!submit_trade

(* A worker that has a record goes on with its trade, and processes no other.*)
LEMMA WorksOnItsTrade ==
    ASSUME IInv, NEW w \in Workers, Handle(w) \/ Trouble(w)
    PROVE  /\ pc[w] # "idle" /\ job' = job
           /\ \A v \in Workers \ {w} : pc'[v] = pc[v]
           /\ processed' \subseteq processed \cup {job[w]}
<1>1. pc \in [Workers -> PCs]
  BY DEF IInv, TypeOK
<1>2. ASSUME NEW label, Leave(w, label)
      PROVE  job' = job /\ \A v \in Workers \ {w} : pc'[v] = pc[v]
  BY <1>1, <1>2 DEF Leave
<1>3. ASSUME NEW label, Goto(w, label)
      PROVE  job' = job /\ \A v \in Workers \ {w} : pc'[v] = pc[v]
  BY <1>1, <1>3 DEF Goto
<1>4. CASE Begin(w)
  BY <1>1, <1>4 DEF Begin, rows
<1>5. CASE SkipDuplicate(w) \/ SendToDlq(w) \/ Ack(w) \/ StatementFails(w)
           \/ Crash(w)
  BY <1>2, <1>5 DEF SkipDuplicate, SendToDlq, Ack, StatementFails, Crash, rows,
     InTransaction, HoldsKey
<1>6. CASE Commit(w) \/ CommitUnanswered(w)
  BY <1>2, <1>6 DEF Commit, CommitUnanswered, Applied
<1>7. CASE InsertMarker(w) \/ novate_trade(w) \/ CannotNovate(w)
           \/ _reject_trade(w)
  BY <1>3, <1>7 DEF InsertMarker, novate_trade, CannotNovate, _reject_trade, rows
<1>8. CASE CheckBuyer(w) \/ CheckSeller(w)
  <2>1. \E label \in {"buyer_ok", "validated", "refused"} : Goto(w, label)
    BY <1>8 DEF CheckBuyer, CheckSeller
  <2> QED
    BY <1>3, <1>8, <2>1 DEF CheckBuyer, CheckSeller, rows
<1>9. CASE \E n \in 0..Len(NovationWrites) : NovationFails(w, n)
  BY <1>3, <1>9 DEF NovationFails, rows
<1> QED
  BY <1>4, <1>5, <1>6, <1>7, <1>8, <1>9 DEF Handle, Trouble

(* A step of the workers, or of their environment. *)
LEMMA IngestStep ==
    ASSUME IntakeAssumption, IntakeInv, Ingest
    PROVE  Next /\ Traced'
<1>1. \A t \in Published : t \in announced
  BY DEF Published
<1>2. Next
  <2>1. announced \subseteq Trades
    BY DEF IntakeInv, GatewayInv, IntakeAssumption, Api!TradeRows
  <2> QED
    BY <1>1, <2>1 DEF Ingest, Receive, Next
<1>3. announced' = announced
  BY DEF Ingest, apiVars
<1>4. TypeOK
  BY DEF IntakeInv, IInv
<1>5. CASE Tick \/ \E m \in Members : Default(m)
  BY <1>2, <1>3, <1>5 DEF Tick, Default, rows, workerVars, IntakeInv, Traced
<1>6. CASE \E w \in Workers : Receive(w)
  BY <1>1, <1>2, <1>3, <1>4, <1>6 DEF Receive, Poll, rows, IntakeInv, Traced, TypeOK
<1>7. ASSUME NEW w \in Workers, Handle(w) \/ Trouble(w)
      PROVE  Traced'
  <2>1. /\ pc[w] # "idle" /\ job' = job
        /\ \A v \in Workers \ {w} : pc'[v] = pc[v]
        /\ processed' \subseteq processed \cup {job[w]}
    BY <1>7, WorksOnItsTrade DEF IntakeInv
  <2> QED
    BY <1>3, <2>1 DEF IntakeInv, Traced
<1> QED
  BY <1>2, <1>5, <1>6, <1>7 DEF Ingest

(* What the two services keep together. *)
LEMMA IntakeInvariance ==
    ASSUME IntakeAssumption
    PROVE  IntakeSpec => []IntakeInv
<1>1. IntakeInit => IntakeInv
  BY InitIInv, GatewayBegins DEF IntakeInit, IntakeInv
<1>2. IntakeInv /\ [IntakeNext]_intakeVars => IntakeInv'
  <2> SUFFICES ASSUME IntakeInv, [IntakeNext]_intakeVars PROVE IntakeInv'
    OBVIOUS
  <2>1. ASSUME UNCHANGED vars PROVE IInv'
    BY <2>1, NextIInv DEF IntakeInv
  <2>2. ASSUME UNCHANGED apiVars PROVE GatewayInv' /\ RowsApart'
    <3>1. UNCHANGED <<submitted, announced, inserts, req, hpc, row, requests>>
      BY <2>2 DEF apiVars
    <3>2. Waiting' = Waiting /\ \A h : Pending(h)' = Pending(h)
      BY <3>1 DEF Waiting, Pending
    <3> QED
      BY <3>1, <3>2 DEF IntakeInv, GatewayInv, RowsApart, Apart
  <2>3. ASSUME UNCHANGED vars, announced \subseteq announced' PROVE Traced'
    BY <2>3 DEF vars, rows, workerVars, IntakeInv, Traced
  <2>4. CASE Request
    BY <2>1, <2>3, <2>4, GatewayStep DEF Request, IntakeInv
  <2>5. CASE Ingest
    BY <2>2, <2>5, IngestStep, NextIInv DEF Ingest, IntakeInv
  <2>6. CASE UNCHANGED intakeVars
    BY <2>1, <2>2, <2>3, <2>6 DEF intakeVars, apiVars, IntakeInv
  <2> QED
    BY <2>4, <2>5, <2>6 DEF IntakeNext
<1> QED
  BY <1>1, <1>2, PTL DEF IntakeSpec

(* The trades with an external id are none or one ... *)
LEMMA OfOne ==
    ASSUME IntakeAssumption, IntakeInv, NEW e \in Externals, NEW x \in Of(e)
    PROVE  /\ Of(e) = {x} /\ x.id \in Trades
           /\ OpenLegs(e) = {l \in Legs : leg[l] = "open" /\ l[1] = x.id}
<1>1. x \in submitted /\ x \in Api!TradeRows
  BY DEF Of, IntakeInv, GatewayInv
<1>2. Of(e) = {x}
  BY <1>1 DEF Of, IntakeInv, RowsApart, Apart
<1>3. x.id \in Trades
  BY <1>1 DEF Api!TradeRows, IntakeAssumption
<1> QED
  BY <1>2, <1>3 DEF OpenLegs

(* ... and so are the trades of its legs. *)
LEMMA LegsOfOne ==
    ASSUME IntakeAssumption, IntakeInv, NEW e \in Externals, NEW x \in Of(e)
    PROVE  OpenLegs(e) = IF trade[x.id] = "novated" THEN {x.id} \X Sides ELSE {}
<1>1. /\ x.id \in Trades
      /\ OpenLegs(e) = {l \in Legs : leg[l] = "open" /\ l[1] = x.id}
  BY OfOne
<1>2. Whole(x.id)
  BY <1>1 DEF IntakeInv, IInv
<1>3. {x.id} \X Sides = {l \in Legs : l[1] = x.id}
  BY <1>1 DEF Legs
<1>4. \A l \in Legs : l[1] = x.id => \E side \in Sides : l = <<x.id, side>>
  BY DEF Legs
<1>5. CASE trade[x.id] = "novated"
  <2>1. \A l \in Legs : l[1] = x.id => leg[l] = "open"
    BY <1>2, <1>4, <1>5 DEF Whole
  <2> QED
    BY <1>1, <1>3, <1>5, <2>1
<1>6. CASE trade[x.id] # "novated"
  <2>1. \A l \in Legs : l[1] = x.id => leg[l] # "open"
    BY <1>2, <1>4, <1>6 DEF Whole
  <2> QED
    BY <1>1, <1>6, <2>1
<1> QED
  BY <1>5, <1>6

(* What a client repeats, with a key or without, after a lost answer, a    *)
(* crash or in a race, gets at most one pair of legs with margin locked    *)
(* once for each; and no leg is of a trade that the gateway rolled back    *)
(* (main.py:79-103, novation.py:313-320).                                  *)
THEOREM OnePairPerExternalId ==
    ASSUME IntakeAssumption
    PROVE  IntakeSpec => []OnePairForAll
<1>1. IntakeInv => OnePairForAll
  <2> SUFFICES ASSUME IntakeInv PROVE OnePairForAll
    OBVIOUS
  <2>1. ASSUME NEW l \in Legs, leg[l] = "open"
        PROVE  \E e \in Externals : l \in OpenLegs(e)
    <3>1. l[1] \in Trades /\ \E side \in Sides : l = <<l[1], side>>
      BY DEF Legs
    <3>2. trade[l[1]] = "novated"
      BY <2>1, <3>1 DEF IntakeInv, IInv, Whole
    <3>3. l[1] \in announced
      BY <3>1, <3>2 DEF IntakeInv, IInv, Whole, Traced
    <3>4. PICK x \in submitted : x.id = l[1]
      BY <3>3 DEF IntakeInv, GatewayInv
    <3>5. x.ext \in Externals
      BY <3>4 DEF IntakeInv, GatewayInv, Api!TradeRows
    <3> QED
      BY <2>1, <3>4, <3>5 DEF OpenLegs, Of
  <2>2. ASSUME NEW e \in Externals, OpenLegs(e) # {}
        PROVE  \E t \in Trades :
                 /\ OpenLegs(e) = {t} \X Sides
                 /\ \A l \in OpenLegs(e) : locks[l] = 1
    <3>1. PICK x \in Of(e) : TRUE
      BY <2>2 DEF OpenLegs
    <3>2. x.id \in Trades
      BY <3>1, OfOne
    <3>3. OpenLegs(e) = {x.id} \X Sides /\ trade[x.id] = "novated"
      BY <2>2, LegsOfOne
    <3>4. \A l \in {x.id} \X Sides : locks[l] = 1
      BY <3>2, <3>3 DEF IntakeInv, IInv, Whole
    <3> QED
      BY <3>2, <3>3, <3>4
  <2> QED
    BY <2>1, <2>2 DEF OnePairForAll
<1> QED
  BY <1>1, IntakeInvariance, PTL

(* The image of the two services in TradeOutcome. *)
Status == [e \in Externals |-> IF Of(e) = {} THEN "unknown"
                               ELSE trade[TheOnly(Of(e)).id]]
LegCount == [e \in Externals |-> Cardinality(OpenLegs(e))]

(* The only element of a set that has one. *)
LEMMA OnlyOne ==
    \A x : TheOnly({x}) = x
  BY DEF TheOnly

(* TradeOutcome's steps on the image. *)
LEMMA OutcomeStutters ==
    ASSUME UNCHANGED <<Status, LegCount>>
    PROVE  UNCHANGED Outcome!vars
  BY DEF Status, LegCount, Outcome!vars

(* A request becomes a trade. *)
LEMMA OutcomeSubmits ==
    ASSUME NEW e \in Externals, Status[e] = "unknown",
           Status' = [Status EXCEPT ![e] = "submitted"], UNCHANGED LegCount
    PROVE  Outcome!Next
<1>1. Outcome!Submit(e)
  BY DEF Status, LegCount, Outcome!Submit
<1> QED
  BY <1>1 DEF Outcome!Next

(* A trade gets its legs. *)
LEMMA OutcomeNovates ==
    ASSUME NEW e \in Externals, Status[e] = "submitted",
           Status' = [Status EXCEPT ![e] = "novated"],
           LegCount' = [LegCount EXCEPT ![e] = 2]
    PROVE  Outcome!Next
<1>1. Outcome!Novate(e)
  BY DEF Status, LegCount, Outcome!Novate
<1> QED
  BY <1>1 DEF Outcome!Next

(* A trade is refused. *)
LEMMA OutcomeRejects ==
    ASSUME NEW e \in Externals, Status[e] = "submitted",
           Status' = [Status EXCEPT ![e] = "rejected"], UNCHANGED LegCount
    PROVE  Outcome!Next
<1>1. Outcome!Reject(e)
  BY DEF Status, LegCount, Outcome!Reject
<1> QED
  BY <1>1 DEF Outcome!Next

(* As long as no trade is committed, decided or given a leg, nothing is to *)
(* be seen.                                                                *)
LEMMA NothingToSee ==
    ASSUME UNCHANGED <<submitted, trade, leg>>
    PROVE  UNCHANGED <<Status, LegCount>>
<1>1. \A e : Of(e)' = Of(e)
  BY DEF Of
<1>2. \A e : OpenLegs(e)' = OpenLegs(e)
  BY <1>1 DEF OpenLegs
<1> QED
  BY <1>1, <1>2 DEF Status, LegCount

(* A commit of the gateway submits a trade. *)
LEMMA CommitSubmits ==
    ASSUME IntakeAssumption, IntakeInv, UNCHANGED <<trade, leg>>,
           NEW x \in Api!TradeRows, submitted' = submitted \cup {x},
           \A y \in submitted : Apart(x, y)
    PROVE  Outcome!Next
<1>1. /\ x.ext \in Externals /\ x.id \in Trades /\ x.id \notin announced
  BY DEF Api!TradeRows, IntakeAssumption, IntakeInv, GatewayInv, Apart
<1>2. Of(x.ext) = {} /\ Of(x.ext)' = {x}
  BY DEF Of, Apart
<1>3. \A e \in Externals \ {x.ext} : Of(e)' = Of(e)
  BY DEF Of
<1>4. trade[x.id] = "submitted" /\ \A l \in Legs : l[1] = x.id => leg[l] = "none"
  <2>1. x.id \notin processed /\ Whole(x.id)
    BY <1>1 DEF IntakeInv, Traced, IInv
  <2>2. \A l \in Legs : l[1] = x.id => \E side \in Sides : l = <<x.id, side>>
    BY DEF Legs
  <2> QED
    BY <2>1, <2>2 DEF Whole
<1>5. OpenLegs(x.ext) = {} /\ OpenLegs(x.ext)' = {}
  BY <1>2, <1>4 DEF OpenLegs
<1>6. \A e \in Externals \ {x.ext} : OpenLegs(e)' = OpenLegs(e)
  BY <1>3 DEF OpenLegs
<1>7. UNCHANGED LegCount
  BY <1>5, <1>6 DEF LegCount
<1>8. /\ Status[x.ext] = "unknown"
      /\ Status' = [Status EXCEPT ![x.ext] = "submitted"]
  <2>1. Status[x.ext] = "unknown" /\ Status'[x.ext] = "submitted"
    BY <1>1, <1>2, <1>4, OnlyOne DEF Status
  <2>2. \A e \in Externals \ {x.ext} : Status'[e] = Status[e]
    BY <1>3 DEF Status
  <2> QED
    BY <2>1, <2>2 DEF Status
<1> QED
  BY <1>1, <1>7, <1>8, OutcomeSubmits

(* A decision is seen by the client of its trade only ... *)
LEMMA DecisionIsSeen ==
    ASSUME IntakeAssumption, IntakeInv, NEW x \in submitted, UNCHANGED submitted,
           NEW kind, trade' = [trade EXCEPT ![x.id] = kind]
    PROVE  /\ x.ext \in Externals /\ x \in Of(x.ext)
           /\ Status[x.ext] = trade[x.id]
           /\ Status' = [Status EXCEPT ![x.ext] = kind]
<1>1. x.ext \in Externals /\ x.id \in Trades
  BY DEF IntakeInv, GatewayInv, Api!TradeRows, IntakeAssumption
<1>2. /\ Of(x.ext) = {x} /\ \A e : Of(e)' = Of(e)
  BY <1>1, OfOne DEF Of
<1>3. /\ Status[x.ext] = trade[x.id]
      /\ Status'[x.ext] = kind
  BY <1>1, <1>2, OnlyOne DEF Status, IntakeInv, IInv, TypeOK
<1>4. ASSUME NEW e \in Externals \ {x.ext} PROVE Status'[e] = Status[e]
  <2>1. CASE Of(e) = {}
    BY <1>2, <2>1 DEF Status
  <2>2. ASSUME NEW y \in Of(e) PROVE Status'[e] = Status[e]
    <3>1. Of(e) = {y} /\ y.id \in Trades
      BY OfOne
    <3>2. y.id # x.id
      BY <1>4 DEF Of, IntakeInv, RowsApart, Apart
    <3>3. trade'[y.id] = trade[y.id]
      BY <3>1, <3>2 DEF IntakeInv, IInv, TypeOK
    <3> QED
      BY <1>2, <3>1, <3>3, OnlyOne DEF Status
  <2> QED
    BY <2>1, <2>2
<1> QED
  BY <1>1, <1>2, <1>3, <1>4 DEF Status

(* ... and so are the two legs of a novation. *)
LEMMA LegsAreSeen ==
    ASSUME IntakeAssumption, IntakeInv, NEW x \in submitted, UNCHANGED submitted,
           leg' = [l \in Legs |-> IF l[1] = x.id THEN "open" ELSE leg[l]]
    PROVE  LegCount' = [LegCount EXCEPT ![x.ext] = 2]
<1>1. /\ x.ext \in Externals /\ x.id \in Trades /\ x \in Of(x.ext)
  BY DEF IntakeInv, GatewayInv, Api!TradeRows, IntakeAssumption, Of
<1>2. Of(x.ext) = {x} /\ \A e : Of(e)' = Of(e)
  BY <1>1, OfOne DEF Of
<1>3. OpenLegs(x.ext)' = {<<x.id, "BUY">>, <<x.id, "SELL">>}
  <2>1. OpenLegs(x.ext)' = {l \in Legs : l[1] = x.id}
    BY <1>2 DEF OpenLegs
  <2> QED
    BY <1>1, <2>1 DEF Legs, Sides
<1>4. Cardinality(OpenLegs(x.ext)') = 2
  <2> DEFINE buy == <<x.id, "BUY">>
             sell == <<x.id, "SELL">>
  <2>1. buy # sell /\ OpenLegs(x.ext)' = {buy} \cup {sell}
    BY <1>3
  <2> HIDE DEF buy, sell
  <2>2. /\ IsFiniteSet({buy}) /\ Cardinality({buy}) = 1
        /\ sell \notin {buy}
    BY <2>1, FS_Singleton
  <2>3. Cardinality({buy} \cup {sell}) = 2
    BY <2>2, FS_AddElement
  <2> QED
    BY <2>1, <2>3
<1>5. ASSUME NEW e \in Externals \ {x.ext}
      PROVE  OpenLegs(e)' = OpenLegs(e)
  <2>1. \A y \in Of(e) : y.id # x.id
    BY <1>5 DEF Of, IntakeInv, RowsApart, Apart
  <2> QED
    BY <1>2, <2>1 DEF OpenLegs
<1> QED
  BY <1>1, <1>4, <1>5 DEF LegCount

(* A commit of a worker novates or rejects a trade. *)
LEMMA DecisionMaps ==
    ASSUME IntakeAssumption, IntakeInv, NEW w \in Workers, Decides(w),
           UNCHANGED submitted
    PROVE  Outcome!Next
<1>1. /\ TypeOK /\ Place(w) /\ pc[w] = "written"
      /\ trade[job[w]] = "submitted" /\ events[job[w]] = <<>>
  BY Undecided DEF Decides, HoldsKey, IntakeInv, IInv
<1>2. PICK x \in submitted : x.id = job[w]
  BY <1>1 DEF IntakeInv, Traced, GatewayInv
<1>3. CASE written[w] = NovationWrites
  <2>1. /\ trade' = [trade EXCEPT ![x.id] = "novated"]
        /\ leg' = [l \in Legs |-> IF l[1] = x.id THEN "open" ELSE leg[l]]
    BY <1>1, <1>2, <1>3, AppliedNovation DEF Decides
  <2>2. /\ x.ext \in Externals /\ Status[x.ext] = "submitted"
        /\ Status' = [Status EXCEPT ![x.ext] = "novated"]
    BY <1>1, <1>2, <2>1, DecisionIsSeen
  <2>3. LegCount' = [LegCount EXCEPT ![x.ext] = 2]
    BY <2>1, LegsAreSeen
  <2> QED
    BY <2>2, <2>3, OutcomeNovates
<1>4. CASE written[w] = RejectionWrites
  <2>1. /\ trade' = [trade EXCEPT ![x.id] = "rejected"]
        /\ UNCHANGED leg
    BY <1>1, <1>2, <1>4, AppliedRejection DEF Decides
  <2>2. /\ x.ext \in Externals /\ Status[x.ext] = "submitted"
        /\ Status' = [Status EXCEPT ![x.ext] = "rejected"]
    BY <1>1, <1>2, <2>1, DecisionIsSeen
  <2>3. UNCHANGED LegCount
    <3>1. \A e : OpenLegs(e)' = OpenLegs(e)
      BY <2>1 DEF OpenLegs, Of
    <3> QED
      BY <3>1 DEF LegCount
  <2> QED
    BY <2>2, <2>3, OutcomeRejects
<1> QED
  BY <1>1, <1>3, <1>4 DEF Place

(* To the client of an external id, the two services are TradeOutcome: at  *)
(* most one of its requests becomes a trade, which is decided once, by two *)
(* legs or none (main.py:79-103, novation.py:313-320).                     *)
THEOREM IntakeKeepsOutcome ==
    ASSUME IntakeAssumption
    PROVE  IntakeSpec => KeepsOutcome
<1>1. IntakeInit => Outcome!Init
  <2> SUFFICES ASSUME IntakeInit PROVE Outcome!Init
    OBVIOUS
  <2>1. \A e \in Externals : Of(e) = {} /\ OpenLegs(e) = {}
    BY DEF IntakeInit, Api!Init, Of, OpenLegs
  <2>2. /\ Status = [e \in Externals |-> "unknown"]
        /\ LegCount = [e \in Externals |-> 0]
    BY <2>1, FS_EmptySet DEF Status, LegCount
  <2> QED
    BY <2>2 DEF Status, LegCount, Outcome!Init
<1>2. ASSUME IntakeInv, [IntakeNext]_intakeVars
      PROVE  [Outcome!Next]_(Outcome!vars)
  <2>1. CASE UNCHANGED <<submitted, trade, leg>>
    BY <2>1, NothingToSee, OutcomeStutters
  <2>2. CASE Request
    <3>1. UNCHANGED <<trade, leg>>
      BY <2>2 DEF Request, vars, rows
    <3>2. \/ submitted' = submitted
          \/ \E x \in Api!TradeRows :
               /\ submitted' = submitted \cup {x}
               /\ \A y \in submitted : Apart(x, y)
      BY <1>2, <2>2, GatewayStep DEF Request, IntakeInv
    <3> QED
      BY <1>2, <2>1, <3>1, <3>2, CommitSubmits
  <2>3. CASE Ingest
    <3>1. Next /\ IInv /\ submitted' = submitted
      BY <1>2, <2>3, IngestStep DEF Ingest, apiVars, IntakeInv
    <3>2. CASE \E w \in Workers : Decides(w)
      BY <1>2, <3>1, <3>2, DecisionMaps
    <3>3. CASE ~ \E w \in Workers : Decides(w)
      <4>1. UNCHANGED <<trade, leg>>
        BY <3>1, <3>3, StepKinds DEF Tick, Moves, rows
      <4> QED
        BY <2>1, <3>1, <4>1
    <3> QED
      BY <3>2, <3>3
  <2>4. CASE UNCHANGED intakeVars
    BY <2>1, <2>4 DEF intakeVars, apiVars, vars, rows
  <2> QED
    BY <1>2, <2>2, <2>3, <2>4 DEF IntakeNext
<1> QED
  BY <1>1, <1>2, IntakeInvariance, PTL DEF IntakeSpec, KeepsOutcome, Outcome!Spec
=============================================================================
