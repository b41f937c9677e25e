------------------------------ MODULE Netting ------------------------------
(***************************************************************************)
(* Novation and multilateral netting, which meet in the table              *)
(* novated_trades: trade-ingestion splits a submitted trade into two legs  *)
(* against the CCP (novation.py), the netting engine aggregates the open   *)
(* legs, inserts obligations and settlement instructions and marks the legs*)
(* netted (netting.py), and the price oracle publishes the quotes in       *)
(* between.                                                                *)
(*                                                                         *)
(* Every transaction runs at READ COMMITTED: each STATEMENT sees what is   *)
(* committed when it starts.  The variables below hold committed rows, and *)
(* a cycle is cut into one action per statement that reads rows others     *)
(* write: the SELECT of the positions, the SELECT of the prices, the UPDATE*)
(* of the legs, the COMMIT.                                                *)
(*                                                                         *)
(* novated_at has DEFAULT now(), which PostgreSQL evaluates to the START of*)
(* the transaction, while the row becomes visible at its COMMIT.           *)
(*                                                                         *)
(* Nothing serializes cycles: the HTTP handler runs in a thread pool, the  *)
(* Kafka consumer in a thread of its own, and no lock is taken before the  *)
(* UPDATE.                                                                 *)
(*                                                                         *)
(* Quantities, prices and amounts are NUMERIC(28, 8) columns and stand here*)
(* as numbers of grains, the units of their last decimal.                  *)
(***************************************************************************)
EXTENDS Integers, FiniteSets, Functions

CONSTANTS
    Members,    \* the members that trade, the house account not among them
    Instruments, Trades, Cycles,
    CCP,        \* the house account (LEI CCP000000000000000)
    MaxTime,    \* bound on the clock
    Contract,   \* Contract[n]: the columns of instrument n that settle it
    Unit,       \* grains to a unit, 10^8 in the schema
    Quotes,     \* prices that may be quoted; 0 stands for "no price feed yet"
    TermSets    \* which economic terms the trades may have together

Sides == {"BUY", "SELL"}
Legs == Trades \X Sides
Times == 0..MaxTime

TermType == [buyer : Members, seller : Members, instrument : Instruments,
             quantity : Nat \ {0}]

(* "physical" is settled as "dvp"; a chain_id is NULL or an adapter's key. *)
ContractType == [settlement_type : {"cash", "dvp"},
                 chain_id : {"null", "registered"}]

ASSUME NettingAssumption ==
    /\ MaxTime \in Nat
    /\ IsFiniteSet(Trades)
    /\ CCP \notin Members
    /\ Contract \in [Instruments -> ContractType]
    /\ Unit \in Nat \ {0}
    /\ 0 \in Quotes /\ Quotes \subseteq Nat
    /\ TermSets \subseteq [Trades -> TermType]

VARIABLES
    clock,
    terms,          \* terms[t]: the columns of the trade that never change
    trade,          \* trade[t]: trades.status
    begun,          \* begun[t]: start times of transactions now novating t
    leg,            \* leg[l]: novated_trades.status, "none" before the row
    novated_at,     \* novated_at[l], once the row exists
    quote,          \* quote[n]: the latest price_feeds row
    pc,             \* pc[c]: how far the cycle is
    cut_off_time,   \* cut_off_time[c]
    positions,      \* positions[c]: the legs its SELECT aggregated
    priced,         \* priced[c]: the prices its SELECT returned
    marked,         \* marked[c]: the legs its UPDATE changed (and locks)
    obligations,    \* obligations[c]: committed net_obligations rows
    instructions,   \* instructions[c]: committed settlement_instructions rows
    \* --- history, read by properties only ---
    known,          \* known[c]: the legs that existed when c read them
    before          \* before[c]: the cycles confirmed when c read the legs

novation == <<terms, trade, begun, leg, novated_at>>
cycleVars == <<pc, cut_off_time, positions, priced, marked, obligations,
               instructions, known, before>>
vars == <<clock, novation, quote, cycleVars>>

Member(l) == IF l[2] = "BUY" THEN terms[l[1]].buyer ELSE terms[l[1]].seller
Instrument(l) == terms[l[1]].instrument
Quantity(l) == terms[l[1]].quantity

Obligation == [member : Members, instrument : Instruments,
               net_quantity : Int, net_amount : Int, settlement_amount : Nat]
Instruction == [from : Members \cup {CCP}, to : Members \cup {CCP},
                instrument : Instruments, quantity : Nat, amount : Nat,
                settlement_type : {"cash", "dvp"},
                chain_id : {"null", "registered"}]

(* "failed" is the caller's view: the transaction left no row behind. *)
PCs == {"idle", "fetched", "priced", "marked", "confirmed", "failed"}
Running == {"fetched", "priced", "marked"}

TypeOK ==
    /\ clock \in Times
    /\ terms \in TermSets
    /\ trade \in [Trades -> {"submitted", "novated", "rejected"}]
    /\ begun \in [Trades -> SUBSET Times]
    /\ leg \in [Legs -> {"none", "open", "netted"}]
    /\ novated_at \in [Legs -> Times]
    /\ quote \in [Instruments -> Quotes]
    /\ pc \in [Cycles -> PCs]
    /\ cut_off_time \in [Cycles -> Times]
    /\ positions \in [Cycles -> SUBSET Legs]
    /\ priced \in [Cycles -> [Instruments -> Quotes]]
    /\ marked \in [Cycles -> SUBSET Legs]
    /\ \A c \in Cycles : /\ obligations[c] \subseteq Obligation
                         /\ instructions[c] \subseteq Instruction
    /\ known \in [Cycles -> SUBSET Legs]
    /\ before \in [Cycles -> SUBSET Cycles]

NoPrice == [n \in Instruments |-> 0]

Init ==
    /\ clock = 0
    /\ terms \in TermSets
    /\ trade = [t \in Trades |-> "submitted"]
    /\ begun = [t \in Trades |-> {}]
    /\ leg = [l \in Legs |-> "none"]
    /\ novated_at = [l \in Legs |-> 0]
    /\ quote = NoPrice
    /\ pc = [c \in Cycles |-> "idle"]
    /\ cut_off_time = [c \in Cycles |-> 0]
    /\ positions = [c \in Cycles |-> {}]
    /\ priced = [c \in Cycles |-> NoPrice]
    /\ marked = [c \in Cycles |-> {}]
    /\ obligations = [c \in Cycles |-> {}]
    /\ instructions = [c \in Cycles |-> {}]
    /\ known = [c \in Cycles |-> {}]
    /\ before = [c \in Cycles |-> {}]

Tick ==
    /\ clock < MaxTime
    /\ clock' = clock + 1
    /\ UNCHANGED <<novation, quote, cycleVars>>

-----------------------------------------------------------------------------
(* Novation.  The record of t may be handled by several workers at a time  *)
(* (redelivery after a rebalance): all of them insert the same key into    *)
(* processed_events, so one of them holds it and the others wait for it.   *)

(* handle_message: the transaction starts at process_if_new. *)
BeginNovation(t) ==
    /\ trade[t] = "submitted"
    /\ begun' = [begun EXCEPT ![t] = @ \cup {clock}]
    /\ UNCHANGED <<clock, terms, trade, leg, novated_at, quote, cycleVars>>

(* DEFAULT now() gives both legs the start of their transaction. *)
NovatedAtByWallClock(s) ==      \* mutant: clock_timestamp() for now()
    [side \in Sides |-> IF side = "BUY" THEN s ELSE clock]
NovatedAt(s) == [side \in Sides |-> s]

(* process_trade, its commit: both legs appear, the marker of the event    *)
(* with them, and the workers that waited for the marker skip the record.  *)
Novate(t, s) ==
    /\ s \in begun[t]
    /\ trade' = [trade EXCEPT ![t] = "novated"]
    /\ begun' = [begun EXCEPT ![t] = {}]
    /\ leg' = [l \in Legs |-> IF l[1] = t THEN "open" ELSE leg[l]]
    /\ novated_at' = [l \in Legs |-> IF l[1] = t THEN NovatedAt(s)[l[2]]
                                     ELSE novated_at[l]]
    /\ UNCHANGED <<clock, terms, quote, cycleVars>>

(* Any exception in validation or novation: _reject_trade, then the commit.*)
Reject(t) ==
    /\ begun[t] # {}
    /\ trade' = [trade EXCEPT ![t] = "rejected"]
    /\ begun' = [begun EXCEPT ![t] = {}]
    /\ UNCHANGED <<clock, terms, leg, novated_at, quote, cycleVars>>

(* The worker dies, or the rejection itself fails and the record goes to   *)
(* the dead letters: everything it wrote, its marker included, is undone.  *)
RollBackNovation(t, s) ==
    /\ s \in begun[t]
    /\ begun' = [begun EXCEPT ![t] = @ \ {s}]
    /\ UNCHANGED <<clock, terms, trade, leg, novated_at, quote, cycleVars>>

(* price-oracle: one transaction inserts a price for every instrument. *)
PublishPrices ==
    /\ quote' \in [Instruments -> Quotes \ {0}]
    /\ UNCHANGED <<clock, novation, cycleVars>>

-----------------------------------------------------------------------------
(* The netting algorithm.                                                  *)

(* GROUP BY member_id, instrument_id, side *)
GroupOf(l) == [member |-> Member(l), instrument |-> Instrument(l),
               side |-> l[2]]

AnyRowOfGroup(S) ==             \* mutant: one row per group, no SUM
    { [group |-> g, total_quantity |->
         Quantity(CHOOSE l \in S : GroupOf(l) = g)] :
      g \in {GroupOf(l) : l \in S} }
Aggregate(S) ==
    { [group |-> g, total_quantity |->
         SumFunction([l \in {l \in S : GroupOf(l) = g} |-> Quantity(l)])] :
      g \in {GroupOf(l) : l \in S} }

Abs(n) == IF n < 0 THEN -n ELSE n

(* data["buy_qty"], data["sell_qty"] and net_qty of the key k. *)
Total(rows, k, side) ==
    LET of == {r \in rows : r.group = [member |-> k[1], instrument |-> k[2],
                                       side |-> side]}
    IN  SumFunction([r \in of |-> r.total_quantity])
Net(rows, k) == Total(rows, k, "BUY") - Total(rows, k, "SELL")

(* The amounts are exact products of two Decimals, of sixteen decimals:    *)
(* numbers of grains times Unit.                                           *)
calculate_net_obligations(rows, price) ==
    LET keys == {<<r.group.member, r.group.instrument>> : r \in rows}
    IN  { [member |-> k[1], instrument |-> k[2],
           net_quantity |-> Net(rows, k),
           net_amount |-> Net(rows, k) * price[k[2]],
           settlement_amount |-> Abs(Net(rows, k) * price[k[2]])] :
          k \in {k \in keys : Net(rows, k) # 0} }

(* What a product becomes in a NUMERIC(28, 8) column: the nearest number of*)
(* grains, halves away from zero.                                          *)
NearestGrain(n) == (2 * n + Unit) \div (2 * Unit)
Rounded(n) == IF n < 0 THEN -NearestGrain(-n) ELSE NearestGrain(n)

(* The row of net_obligations that the INSERT makes of an obligation.      *)
ObligationRow(o) ==
    [o EXCEPT !.net_amount = Rounded(@), !.settlement_amount = Rounded(@)]

(* A member with a positive amount pays the CCP, else the CCP pays it; the *)
(* test is on the product, before any rounding.                            *)
MemberAlwaysPays(o) == TRUE     \* mutant: the test of the sign is dropped
MemberPays(o) == o.net_amount > 0

(* The INSERT takes the settlement_type of the instrument, and no chain_id.*)
InstructionFor(o) ==
    [from |-> IF MemberPays(o) THEN o.member ELSE CCP,
     to |-> IF MemberPays(o) THEN CCP ELSE o.member,
     instrument |-> o.instrument,
     quantity |-> Abs(o.net_quantity),
     amount |-> Rounded(o.settlement_amount),
     settlement_type |-> Contract[o.instrument].settlement_type,
     chain_id |-> "null"]

-----------------------------------------------------------------------------
(* run_netting_cycle.                                                      *)

(* status = 'open' AND novated_at <= cut_off_time *)
EligibleWhateverStatus(cut) ==  \* mutant: the status test is dropped
    {l \in Legs : leg[l] # "none" /\ novated_at[l] <= cut}
Eligible(cut) == {l \in Legs : leg[l] = "open" /\ novated_at[l] <= cut}

(* The cycle row is inserted and the positions are read.  The cut-off is   *)
(* the caller's, past or future; the handlers default it to the clock.     *)
FetchPositions(c, cut) ==
    /\ pc[c] = "idle"
    /\ pc' = [pc EXCEPT ![c] = "fetched"]
    /\ cut_off_time' = [cut_off_time EXCEPT ![c] = cut]
    /\ positions' = [positions EXCEPT ![c] = Eligible(cut)]
    /\ known' = [known EXCEPT ![c] = {l \in Legs : leg[l] # "none"}]
    /\ before' = [before EXCEPT ![c] = {d \in Cycles : pc[d] = "confirmed"}]
    /\ UNCHANGED <<clock, novation, quote, priced, marked, obligations,
                   instructions>>

(* _enrich_with_prices: one SELECT for all instruments of the positions. *)
EnrichWithPrices(c) ==
    /\ pc[c] = "fetched"
    /\ pc' = [pc EXCEPT ![c] = "priced"]
    /\ priced' = [priced EXCEPT ![c] = quote]
    /\ UNCHANGED <<clock, novation, quote, cut_off_time, positions, marked,
                   obligations, instructions, known, before>>

MarkAllOpen(c) ==               \* mutant: no cut-off in the UPDATE
    {l \in Legs : leg[l] = "open"}
ToMark(c) == Eligible(cut_off_time[c])

(* The UPDATE waits for every other transaction that changed one of its    *)
(* rows; when that one commits, the row is no longer open and is skipped.  *)
WaitsForRows(c) ==
    \E d \in Cycles \ {c} : pc[d] = "marked" /\ marked[d] \cap ToMark(c) # {}

(* _mark_trades_closed *)
MarkTradesClosed(c) ==
    /\ pc[c] = "priced"
    /\ ~WaitsForRows(c)
    /\ pc' = [pc EXCEPT ![c] = "marked"]
    /\ marked' = [marked EXCEPT ![c] = ToMark(c)]
    /\ UNCHANGED <<clock, novation, quote, cut_off_time, positions, priced,
                   obligations, instructions, known, before>>

ClosedStatus == "netted"

(* The commit: what _insert_obligations_and_instructions wrote and what the*)
(* UPDATE changed become visible, with one settlement.instruction.created  *)
(* outbox row per instruction.                                             *)
Confirm(c) ==
    LET owed == calculate_net_obligations(Aggregate(positions[c]), priced[c])
    IN
    /\ pc[c] = "marked"
    /\ pc' = [pc EXCEPT ![c] = "confirmed"]
    /\ obligations' = [obligations EXCEPT ![c] = {ObligationRow(o) :
                                                  o \in owed}]
    /\ instructions' = [instructions EXCEPT ![c] = {InstructionFor(o) :
                                                    o \in owed}]
    /\ leg' = [l \in Legs |-> IF l \in marked[c] THEN ClosedStatus
                              ELSE leg[l]]
    /\ UNCHANGED <<clock, terms, trade, begun, novated_at, quote,
                   cut_off_time, positions, priced, marked, known, before>>

(* A statement fails, a deadlock is broken, the process dies: rollback. *)
RollBackCycle(c) ==
    /\ pc[c] \in Running
    /\ pc' = [pc EXCEPT ![c] = "failed"]
    /\ UNCHANGED <<clock, novation, quote, cut_off_time, positions, priced,
                   marked, obligations, instructions, known, before>>

-----------------------------------------------------------------------------
Advance(c) == EnrichWithPrices(c) \/ MarkTradesClosed(c) \/ Confirm(c)

Next ==
    \/ Tick
    \/ PublishPrices
    \/ \E t \in Trades : BeginNovation(t) \/ Reject(t)
    \/ \E t \in Trades, s \in Times : Novate(t, s) \/ RollBackNovation(t, s)
    \/ \E c \in Cycles, cut \in Times : FetchPositions(c, cut)
    \/ \E c \in Cycles : Advance(c) \/ RollBackCycle(c)

Spec == Init /\ [][Next]_vars

-----------------------------------------------------------------------------
(* Properties.                                                             *)

Confirmed == {c \in Cycles : pc[c] = "confirmed"}

(* The two legs of a trade exist together, are netted together and are     *)
(* aggregated by the same cycles (novation.py creates both in one          *)
(* transaction, with one novated_at, so no cut-off falls between them).    *)
LegsMoveTogether ==
    \A t \in Trades :
        /\ leg[<<t, "BUY">>] = leg[<<t, "SELL">>]
        /\ trade[t] = "novated" <=> leg[<<t, "BUY">>] # "none"
        /\ \A c \in Cycles :
             <<t, "BUY">> \in positions[c] <=> <<t, "SELL">> \in positions[c]

(* The CCP takes no position in a confirmed cycle: the obligations of an   *)
(* instrument sum to zero in quantity, and in amount to within half a grain*)
(* for each of them, as every row is rounded for itself; and what is paid  *)
(* to the house account, less what it pays, is the sum of the obligations  *)
(* to the grain, though the payer is chosen by the unrounded amount        *)
(* (netting.py:207-259).                                                   *)
CycleBalances ==
    \A c \in Confirmed, n \in Instruments :
        LET owed == {o \in obligations[c] : o.instrument = n}
            paid == {x \in instructions[c] : x.instrument = n}
            amount == [x \in paid |-> x.amount]
            total == SumFunction([o \in owed |-> o.net_amount])
        IN  /\ SumFunction([o \in owed |-> o.net_quantity]) = 0
            /\ -Cardinality(owed) <= 2 * total
            /\ 2 * total <= Cardinality(owed)
            /\ SumFunctionOnSet(amount, {x \in paid : x.to = CCP})
                 - SumFunctionOnSet(amount, {x \in paid : x.from = CCP})
                 = total

(* Grouping by side in SQL and again in Python gives what a direct sum over*)
(* the legs gives: every member with an open balance has one obligation,   *)
(* of that quantity, and a flat member has none (netting.py:86-103).       *)
NetsExactly ==
    \A c \in Confirmed, m \in Members, n \in Instruments :
        LET mine == {l \in positions[c] : Member(l) = m /\ Instrument(l) = n}
            signed == [l \in mine |-> IF l[2] = "BUY" THEN Quantity(l)
                                      ELSE -Quantity(l)]
            balance == SumFunction(signed)
        IN  {o.net_quantity : o \in {o \in obligations[c] :
                                       o.member = m /\ o.instrument = n}}
              = {balance} \ {0}

(* What a confirmed cycle turned into obligations is never open again,     *)
(* although its UPDATE does not name the rows it read (netting.py:266-287).*)
PositionsAreNetted ==
    \A c \in Confirmed : \A l \in positions[c] : leg[l] = "netted"

(* Cycles that do not overlap never settle the same leg twice, whatever    *)
(* cut-offs their callers give them.                                       *)
LaterCyclesStartAfresh ==
    \A c \in Confirmed : \A d \in before[c] \ {c} :
        positions[c] \cap positions[d] = {}

(* A cycle closes no leg that was there when it read the positions and that*)
(* it left out.                                                            *)
MarksWhatItSaw ==
    \A c \in Cycles : marked[c] \cap known[c] \subseteq positions[c]

-----------------------------------------------------------------------------
(* The inductive invariant behind the properties that speak of legs rather *)
(* than of sums.                                                           *)

RowsTypeOK ==
    /\ clock \in Times
    /\ trade \in [Trades -> {"submitted", "novated", "rejected"}]
    /\ begun \in [Trades -> SUBSET Times]
    /\ leg \in [Legs -> {"none", "open", "netted"}]
    /\ novated_at \in [Legs -> Times]
    /\ pc \in [Cycles -> PCs]
    /\ cut_off_time \in [Cycles -> Times]
    /\ positions \in [Cycles -> SUBSET Legs]
    /\ marked \in [Cycles -> SUBSET Legs]
    /\ known \in [Cycles -> SUBSET Legs]
    /\ before \in [Cycles -> SUBSET Cycles]

(* The two legs of a trade agree, and a trade being novated has none yet. *)
TradeInv(t) ==
    /\ begun[t] # {} => trade[t] = "submitted"
    /\ trade[t] = "novated" <=> leg[<<t, "BUY">>] # "none"
    /\ leg[<<t, "BUY">>] = leg[<<t, "SELL">>]
    /\ novated_at[<<t, "BUY">>] = novated_at[<<t, "SELL">>]

(* What a cycle remembers of a leg, against what the leg is now. *)
CycleLegInv(c, l) ==
    /\ pc[c] = "idle" => l \notin positions[c] \cup known[c] \cup marked[c]
    /\ l \in known[c] => leg[l] # "none"
    /\ l \in positions[c] =>
         l \in known[c] /\ novated_at[l] <= cut_off_time[c]
    /\ l \in known[c] \ positions[c] =>
         leg[l] = "netted" \/ novated_at[l] > cut_off_time[c]
    /\ l \in marked[c] \cap known[c] => l \in positions[c]
    /\ pc[c] = "marked" /\ l \in positions[c] =>
         leg[l] = "netted" \/ l \in marked[c]
    /\ l \in marked[c] => leg[l] # "none"
    /\ pc[c] = "confirmed" /\ l \in positions[c] => leg[l] = "netted"

(* UPDATE ... WHERE updates both legs of a trade or none. *)
CycleTradeInv(c, t) ==
    /\ <<t, "BUY">> \in positions[c] <=> <<t, "SELL">> \in positions[c]
    /\ <<t, "BUY">> \in marked[c] <=> <<t, "SELL">> \in marked[c]

HistoryInv(c) ==
    /\ pc[c] = "idle" => before[c] = {}
    /\ \A d \in before[c] :
         d # c /\ pc[d] = "confirmed" /\ positions[c] \cap positions[d] = {}

IInv ==
    /\ RowsTypeOK
    /\ \A t \in Trades : TradeInv(t)
    /\ \A c \in Cycles, l \in Legs : CycleLegInv(c, l)
    /\ \A c \in Cycles, t \in Trades : CycleTradeInv(c, t)
    /\ \A c \in Cycles : HistoryInv(c)

-----------------------------------------------------------------------------
(* Statements of the source and its documentation that the code does not   *)
(* keep; each is in a configuration under which TLC refutes it.            *)

(* netting.py:270: "Mark included novated trades as netted after netting." *)
(* A leg that is netted was included by some confirmed cycle.              *)
NettedWasIncluded ==
    \A l \in Legs :
        leg[l] = "netted" => \E c \in Confirmed : l \in positions[c]

(* README.md:275: a member who bought 100 in one trade and sold 70 in      *)
(* another "settles only the net 30": no leg is settled by two cycles.     *)
SettledOnce ==
    \A c, d \in Confirmed : c # d => positions[c] \cap positions[d] = {}

(* README.md:324: Decimal and DECIMAL columns, "preventing IEEE 754        *)
(* rounding errors from corrupting financial calculations".  The members'  *)
(* quantities cancel; without rounding errors their amounts would.         *)
AmountsCancel ==
    \A c \in Confirmed, n \in Instruments :
        LET owed == {o \in obligations[c] : o.instrument = n}
        IN  SumFunction([o \in owed |-> o.net_amount]) = 0

=============================================================================
