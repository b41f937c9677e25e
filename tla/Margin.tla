------------------------------- MODULE Margin -------------------------------
(***************************************************************************)
(* Margin: what novation locks, what the margin engine requires and calls, *)
(* and what the collateral manager moves when a call arrives, over one     *)
(* instrument and the member accounts the three services share.            *)
(*                                                                         *)
(* The replicas of both services run the same loop: one event, one READ    *)
(* COMMITTED transaction, then the offset is committed, whatever happened. *)
(* That a redelivered event does nothing a second time is ConsumerGroup's  *)
(* business: here the commit of a transaction and of its offset are one.   *)
(***************************************************************************)
EXTENDS Integers, Sequences, FiniteSets, Functions

CONSTANTS
    Members,        \* clearing members
    Trades,         \* trades that may be novated
    Terms,          \* Terms[t]: its [buyer, seller, quantity, price]
    Rate,           \* margin_rate_im of the instrument, in grains
    Prices,         \* prices the oracle may publish
    Opening,        \* Opening[p]: balance of every member's account p
    Replicas,       \* replicas of the margin engine and of the collateral
                    \* manager
    Sites,          \* what a behaviour may find: the trades submitted, the
                    \* replicas of either service that run, whether events
                    \* carry the event_type of proto/events, whether the
                    \* CHECK of journals takes the types the services write
    Deposits,       \* amounts a member may deposit
    MaxTicks,       \* bound on the prices published
    MaxDeposits,    \* bound on the deposits
    MaxFaults       \* bound on exceptions and crashes

Pools == {"COLLATERAL", "IM_AVAILABLE", "IM_LOCKED",
          "VM_AVAILABLE", "VM_LOCKED"}
House == <<"CCP", "SETTLEMENT">>
Accounts == (Members \X Pools) \cup {House}

ASSUME MarginAssumption ==
    /\ IsFiniteSet(Members) /\ IsFiniteSet(Trades) /\ IsFiniteSet(Replicas)
    /\ Terms \in [Trades -> [buyer : Members, seller : Members,
                             quantity : Nat \ {0}, price : Nat \ {0}]]
    /\ \A t \in Trades : Terms[t].buyer # Terms[t].seller
    /\ Rate \in Nat \ {0}
    /\ Prices \subseteq Nat \ {0}
    /\ Opening \in [Pools -> Int]
    /\ Sites \subseteq [submitted : SUBSET Trades, engines : SUBSET Replicas,
                        desks : SUBSET Replicas, typed : BOOLEAN,
                        accepts : BOOLEAN]
    /\ Deposits \subseteq Nat \ {0}
    /\ MaxTicks \in Nat /\ MaxDeposits \in Nat /\ MaxFaults \in Nat

VARIABLES
    site,           \* the deployment of this behaviour
    legs,           \* legs[t]: are the two legs of t open, and were they ever
    price,          \* the row of latest_prices, or NoPrice
    ticks,          \* prices published so far
    requirements,   \* the committed rows of margin_requirements
    calls,          \* calls[<<e, m>>]: amount called from m on event e
    ledger,         \* ledger[a]: balance of account a, as committed
    deposited,      \* deposited[m]: what m has paid in
    deposits,       \* number of deposits
    job,            \* job[w]: the recalculation w is in, or Idle
    handled,        \* events with a committed row in processed_events
    acked,          \* events whose offset was committed
    desk,           \* desk[v]: the call whose transfer v has checked, or Idle
    paid,           \* calls whose transfer was committed
    closed,         \* calls whose offset was committed
    faults          \* exceptions and crashes so far

marginVars == <<requirements, calls, job, handled, acked>>
collateralVars == <<deposited, deposits, desk, paid, closed>>
marketVars == <<legs, price, ticks>>
vars == <<site, marketVars, marginVars, collateralVars, ledger, faults>>

Types == {"INITIAL", "VARIATION"}
NoPrice == 0
Idle == [status |-> "idle"]

(* An event of trades.novated is known by its trade, one of prices.updated *)
(* by its number.                                                          *)
TradeEvents == {<<"novated", t>> : t \in Trades}
PriceEvents == {<<"price", n>> : n \in 1..MaxTicks}
Published ==
    {<<"novated", t>> : t \in {t \in Trades : legs[t] # "none"}}
        \cup {<<"price", n>> : n \in 1..ticks}

Row == [member : Members, net : Int, latest : Nat, avg : Nat]
Assessment == [member : Members, im : Nat, vm : Int, call : Nat]

TypeOK ==
    /\ site \in Sites
    /\ legs \in [Trades -> {"none", "open", "netted"}]
    /\ price \in Prices \cup {NoPrice}
    /\ ticks \in 0..MaxTicks
    /\ DOMAIN requirements \subseteq Members \X Types
    /\ \A r \in DOMAIN requirements :
         requirements[r] \in [required : Nat, posted : Nat]
    /\ DOMAIN calls \subseteq (TradeEvents \cup PriceEvents) \X Members
    /\ \A c \in DOMAIN calls : calls[c] \in Nat \ {0}
    /\ ledger \in [Accounts -> Int]
    /\ deposited \in [Members -> Nat]
    /\ deposits \in 0..MaxDeposits
    /\ DOMAIN job = Replicas /\ DOMAIN desk = Replicas
    /\ \A w \in Replicas :
         \/ job[w] = Idle
         \/ job[w] \in [status : {"recalculating"}, event : Published,
                        todo : Seq(Row), done : SUBSET Assessment]
    /\ handled \subseteq acked
    /\ acked \subseteq Published
    /\ \A v \in Replicas :
         \/ desk[v] = Idle
         \/ desk[v] \in [status : {"transferring"}, call : DOMAIN calls]
    /\ paid \subseteq closed
    /\ closed \subseteq DOMAIN calls
    /\ faults \in 0..MaxFaults

Init ==
    /\ site \in Sites
    /\ legs = [t \in Trades |-> "none"]
    /\ price = NoPrice
    /\ ticks = 0
    /\ requirements = <<>>
    /\ calls = <<>>
    /\ ledger = [a \in Accounts |-> IF a = House THEN 0 ELSE Opening[a[2]]]
    /\ deposited = [m \in Members |-> 0]
    /\ deposits = 0
    /\ job = [w \in Replicas |-> Idle]
    /\ handled = {}
    /\ acked = {}
    /\ desk = [v \in Replicas |-> Idle]
    /\ paid = {}
    /\ closed = {}
    /\ faults = 0

-----------------------------------------------------------------------------
(* The position of a member and the ledger. *)

Open == {t \in Trades : legs[t] = "open"}
Side(m, t) == (IF Terms[t].buyer = m THEN 1 ELSE 0)
              - (IF Terms[t].seller = m THEN 1 ELSE 0)
LegsOf(m) == {t \in Open : m \in {Terms[t].buyer, Terms[t].seller}}

(* The view member_positions: the average weighs both sides of the book.   *)
NetQuantity(m) ==
    SumFunction([t \in LegsOf(m) |-> Side(m, t) * Terms[t].quantity])
AvgPrice(m) ==
    SumFunction([t \in LegsOf(m) |-> Terms[t].quantity * Terms[t].price])
        \div SumFunction([t \in LegsOf(m) |-> Terms[t].quantity])

(* Two entries: the view account_balances adds debits, subtracts credits.  *)
Journal(old, debit, credit, amount) ==
    [old EXCEPT ![debit] = @ + amount, ![credit] = @ - amount]

Magnitude(x) == IF x < 0 THEN -x ELSE x

-----------------------------------------------------------------------------
(* Trade ingestion, netting, price oracle. *)

(* _lock_margin, for one party: no balance is looked at. *)
LockMargin(old, m, amount) ==
    Journal(old, <<m, "IM_AVAILABLE">>, <<m, "IM_LOCKED">>, amount)
LockBuyer(old, t) ==            \* mutant: the seller's leg locks nothing
    LockMargin(old, Terms[t].buyer, Terms[t].quantity * Terms[t].price * Rate)
LockBoth(old, t) ==
    LET amount == Terms[t].quantity * Terms[t].price * Rate
    IN  LockMargin(LockMargin(old, Terms[t].buyer, amount),
                   Terms[t].seller, amount)

novate_trade(t) ==
    /\ t \in site.submitted
    /\ legs[t] = "none"
    /\ legs' = [legs EXCEPT ![t] = "open"]
    /\ ledger' = LockBoth(ledger, t)
    /\ UNCHANGED <<site, price, ticks, marginVars, collateralVars, faults>>

(* A netting cycle closes the legs up to its cut-off; they carry the start *)
(* of their transaction, so no order of commits limits which.  It sends no *)
(* event to the margin engine and unlocks nothing.                         *)
CloseLegs ==
    /\ \E ts \in (SUBSET Open) \ {{}} :
         legs' = [t \in Trades |-> IF t \in ts THEN "netted" ELSE legs[t]]
    /\ UNCHANGED <<site, price, ticks, marginVars, collateralVars, ledger,
                   faults>>

generate_prices ==
    /\ ticks < MaxTicks
    /\ ticks' = ticks + 1
    /\ price' \in Prices
    /\ UNCHANGED <<site, legs, marginVars, collateralVars, ledger, faults>>

-----------------------------------------------------------------------------
(* Margin engine. *)

calculate_initial_margin(net, latest) == Magnitude(net) * latest * Rate
calculate_variation_margin(net, latest, avg) == (latest - avg) * net

(* The one SELECT of a recalculation: flat positions are left out, and an  *)
(* instrument without a price is valued at the average.                    *)
Position(m) ==
    [member |-> m, net |-> NetQuantity(m), avg |-> AvgPrice(m),
     latest |-> IF price = NoPrice THEN AvgPrice(m) ELSE price]
Positions == {Position(m) : m \in {m \in Members : NetQuantity(m) # 0}}

(* It has no ORDER BY: the rows come in any order.                         *)
Recalculate(w, e) ==
    /\ job[w] = Idle
    /\ w \in site.engines
    /\ e \in Published \ acked
    /\ \A v \in Replicas : job[v] # Idle => job[v].event # e
    /\ \E rows \in Bijection(1..Cardinality(Positions), Positions) :
         job' = [job EXCEPT ![w] = [status |-> "recalculating", event |-> e,
                                    todo |-> rows, done |-> {}]]
    /\ UNCHANGED <<site, marketVars, requirements, calls, handled, acked,
                   collateralVars, ledger, faults>>

(* The rows of margin_requirements that w has updated stay locked.         *)
Locked(w) ==
    IF job[w] = Idle THEN {} ELSE {a.member : a \in job[w].done}
Wanted(w) ==
    IF job[w] = Idle \/ job[w].todo = <<>> THEN {}
    ELSE {Head(job[w].todo).member}
Blocked(w) == \E v \in Replicas \ {w} : Wanted(w) \cap Locked(v) # {}

PostedAmount(r) ==
    IF r \in DOMAIN requirements THEN requirements[r].posted ELSE 0
Shortfall(required, posted) ==
    IF required > posted THEN required - posted ELSE 0
CallOnce(m, shortfall) ==       \* mutant: no second call while one is issued
    IF \E c \in DOMAIN calls : c[2] = m THEN 0 ELSE shortfall
CallAmount(m, shortfall) == shortfall

(* One position: the requirement, the journal of a variation that is not   *)
(* zero, which the CHECK of journals may refuse, and the call.             *)
Assess(w) ==
    LET row == Head(job[w].todo)
        im == calculate_initial_margin(row.net, row.latest)
        vm == calculate_variation_margin(row.net, row.latest, row.avg)
        short == Shortfall(im, PostedAmount(<<row.member, "INITIAL">>))
    IN  /\ job[w] # Idle
        /\ job[w].todo # <<>>
        /\ ~Blocked(w)
        /\ vm = 0 \/ site.accepts
        /\ job' = [job EXCEPT
                ![w].todo = Tail(@),
                ![w].done = @ \cup
                    {[member |-> row.member, im |-> im, vm |-> vm,
                      call |-> CallAmount(row.member, short)]}]
        /\ UNCHANGED <<site, marketVars, requirements, calls, handled, acked,
                       collateralVars, ledger, faults>>

(* What a transaction writes, seen by others once it commits. *)
Changes(done) ==
    [r \in {<<a.member, "INITIAL">> : a \in done}
            \cup {<<a.member, "VARIATION">> : a \in {a \in done : a.vm # 0}} |->
        LET a == CHOOSE a \in done : a.member = r[1]
        IN  IF r[2] = "INITIAL" THEN a.im ELSE Magnitude(a.vm)]

KeepOld(old, new) == old        \* mutant: ON CONFLICT DO NOTHING
TakeNew(old, new) == new

Upsert(rows, new) ==
    [r \in DOMAIN rows \cup DOMAIN new |->
        [required |-> IF r \notin DOMAIN new THEN rows[r].required
                      ELSE IF r \notin DOMAIN rows THEN new[r]
                      ELSE TakeNew(rows[r].required, new[r]),
         posted |-> IF r \in DOMAIN rows THEN rows[r].posted ELSE 0]]

(* The variation goes from one pool of the member to the other, in full    *)
(* each time.                                                              *)
VariationOf(done, m) ==
    SumFunction([a \in {a \in done : a.member = m} |-> a.vm])
ProcessVariation(old, done) ==
    [a \in Accounts |->
        old[a] + CASE a[2] = "VM_AVAILABLE" -> VariationOf(done, a[1])
                   [] a[2] = "VM_LOCKED" -> -VariationOf(done, a[1])
                   [] OTHER -> 0]

NewCalls(e, done) ==
    [c \in {<<e, a.member>> : a \in {a \in done : a.call > 0}} |->
        (CHOOSE a \in done : a.member = c[2]).call]

CommitMargins(w) ==
    LET done == job[w].done
        new == NewCalls(job[w].event, done)
    IN  /\ job[w] # Idle
        /\ job[w].todo = <<>>
        /\ requirements' = Upsert(requirements, Changes(done))
        /\ ledger' = ProcessVariation(ledger, done)
        /\ calls' = [c \in DOMAIN calls \cup DOMAIN new |->
                        IF c \in DOMAIN new THEN new[c] ELSE calls[c]]
        /\ handled' = handled \cup {job[w].event}
        /\ acked' = acked \cup {job[w].event}
        /\ job' = [job EXCEPT ![w] = Idle]
        /\ UNCHANGED <<site, marketVars, collateralVars, faults>>

(* Two recalculations each of which waits for a row of the other: one of   *)
(* them is cancelled by PostgreSQL.                                        *)
Deadlocked(w) ==
    \E v \in Replicas \ {w} :
        Wanted(w) \cap Locked(v) # {} /\ Wanted(v) \cap Locked(w) # {}

Refused(w) ==
    /\ job[w].todo # <<>>
    /\ ~site.accepts
    /\ LET row == Head(job[w].todo)
       IN  calculate_variation_margin(row.net, row.latest, row.avg) # 0

(* A statement raises: logged, rolled back, and the offset moves on.       *)
RetryFailed(e) == acked         \* mutant: the offset stays behind
AckFailed(e) == acked \cup {e}

RaiseMargins(w) ==
    /\ job[w] # Idle
    /\ \/ (Refused(w) \/ Deadlocked(w)) /\ UNCHANGED faults
       \/ faults < MaxFaults /\ faults' = faults + 1
    /\ acked' = AckFailed(job[w].event)
    /\ job' = [job EXCEPT ![w] = Idle]
    /\ UNCHANGED <<site, marketVars, requirements, calls, handled,
                   collateralVars, ledger>>

(* The process dies; the event is delivered again. *)
CrashMargins(w) ==
    /\ job[w] # Idle
    /\ faults < MaxFaults
    /\ faults' = faults + 1
    /\ job' = [job EXCEPT ![w] = Idle]
    /\ UNCHANGED <<site, marketVars, requirements, calls, handled, acked,
                   collateralVars, ledger>>

-----------------------------------------------------------------------------
(* Collateral manager. *)

(* A request to deposit comes from outside; its journal is refused or not. *)
deposit_collateral(m, amount) ==
    /\ site.accepts
    /\ deposits < MaxDeposits
    /\ deposits' = deposits + 1
    /\ deposited' = [deposited EXCEPT ![m] = @ + amount]
    /\ ledger' = Journal(ledger, <<m, "COLLATERAL">>, House, amount)
    /\ UNCHANGED <<site, marketVars, marginVars, desk, paid, closed, faults>>

Waiting == DOMAIN calls \ closed
OnDesk(c) == \E v \in Replicas : desk[v] # Idle /\ desk[v].call = c

AnyBalance(m, amount) == TRUE   \* mutant: no InsufficientMarginError
EnoughBalance(m, amount) == ledger[<<m, "COLLATERAL">>] >= amount

(* transfer_to_margin, up to the check of the balance, which locks nothing.*)
CheckTransfer(v, c) ==
    /\ desk[v] = Idle
    /\ v \in site.desks
    /\ c \in Waiting /\ ~OnDesk(c)
    /\ site.typed
    /\ EnoughBalance(c[2], calls[c])
    /\ desk' = [desk EXCEPT ![v] = [status |-> "transferring", call |-> c]]
    /\ UNCHANGED <<site, marketVars, marginVars, deposited, deposits, paid,
                   closed, ledger, faults>>

(* An unknown event type is a warning, too little collateral an exception: *)
(* neither changes more than the offset.                                   *)
DropCall(v, c) ==
    /\ desk[v] = Idle
    /\ v \in site.desks
    /\ c \in Waiting /\ ~OnDesk(c)
    /\ ~site.typed \/ ~EnoughBalance(c[2], calls[c])
    /\ closed' = closed \cup {c}
    /\ UNCHANGED <<site, marketVars, marginVars, deposited, deposits, desk,
                   paid, ledger, faults>>

(* _update_posted_margin looks for the account type among the types of the *)
(* requirements, where no row has it.                                      *)
PostTo(rows, m, margin_type, amount) ==
    [r \in DOMAIN rows |->
        IF r = <<m, margin_type>>
        THEN [rows[r] EXCEPT !.posted = @ + amount] ELSE rows[r]]

Transfer(v) ==
    LET c == desk[v].call
    IN  /\ desk[v] # Idle
        /\ site.accepts
        /\ ledger' = Journal(ledger, <<c[2], "IM_AVAILABLE">>,
                             <<c[2], "COLLATERAL">>, calls[c])
        /\ requirements' = PostTo(requirements, c[2], "MARGIN_IM", calls[c])
        /\ paid' = paid \cup {c}
        /\ closed' = closed \cup {c}
        /\ desk' = [desk EXCEPT ![v] = Idle]
        /\ UNCHANGED <<site, marketVars, calls, job, handled, acked,
                       deposited, deposits, faults>>

RaiseTransfer(v) ==
    /\ desk[v] # Idle
    /\ \/ ~site.accepts /\ UNCHANGED faults
       \/ faults < MaxFaults /\ faults' = faults + 1
    /\ closed' = closed \cup {desk[v].call}
    /\ desk' = [desk EXCEPT ![v] = Idle]
    /\ UNCHANGED <<site, marketVars, marginVars, deposited, deposits, paid,
                   ledger>>

CrashTransfer(v) ==
    /\ desk[v] # Idle
    /\ faults < MaxFaults
    /\ faults' = faults + 1
    /\ desk' = [desk EXCEPT ![v] = Idle]
    /\ UNCHANGED <<site, marketVars, marginVars, deposited, deposits, paid,
                   closed, ledger>>

-----------------------------------------------------------------------------
Market ==
    \/ \E t \in Trades : novate_trade(t)
    \/ CloseLegs
    \/ generate_prices
    \/ \E m \in Members, amount \in Deposits : deposit_collateral(m, amount)

MarginEngine(w) ==
    \/ \E e \in Published : Recalculate(w, e)
    \/ Assess(w) \/ CommitMargins(w) \/ RaiseMargins(w)

CollateralManager(v) ==
    \/ \E c \in DOMAIN calls : CheckTransfer(v, c) \/ DropCall(v, c)
    \/ Transfer(v) \/ RaiseTransfer(v)

Next ==
    \/ Market
    \/ \E w \in Replicas :
         \/ MarginEngine(w) \/ CrashMargins(w)
         \/ CollateralManager(w) \/ CrashTransfer(w)

Spec == Init /\ [][Next]_vars

(* The loops run for ever.  Nothing makes the market trade.                *)
Fairness ==
    \A w \in Replicas :
        WF_vars(MarginEngine(w)) /\ WF_vars(CollateralManager(w))

FairSpec == Spec /\ Fairness

-----------------------------------------------------------------------------
(* Properties. *)

Alone(replicas) == Cardinality(replicas) = 1
Unnetted == \A t \in Trades : legs[t] # "netted"

(* A member's row of the given type, compared with its position as it is.  *)
InitialIsCurrent(m) ==
    LET p == Position(m) IN
    /\ <<m, "INITIAL">> \in DOMAIN requirements
    /\ requirements[<<m, "INITIAL">>].required =
            calculate_initial_margin(p.net, p.latest)

VariationIsCurrent(m) ==
    LET p == Position(m)
        vm == calculate_variation_margin(p.net, p.latest, p.avg)
    IN  vm # 0 => /\ <<m, "VARIATION">> \in DOMAIN requirements
                  /\ requirements[<<m, "VARIATION">>].required = Magnitude(vm)

CurrentWhenHandled ==
    Published \subseteq handled =>
        \A m \in {m \in Members : NetQuantity(m) # 0} :
            InitialIsCurrent(m) /\ VariationIsCurrent(m)

(* README.md:187, requirements "for every member's portfolio": when an     *)
(* engine that runs once has committed a recalculation for every novation  *)
(* and price, in whatever order and after whatever crashes, what it        *)
(* requires is what the open positions are worth at the last price.        *)
AloneIsCurrent == Alone(site.engines) /\ Unnetted => CurrentWhenHandled

(* The same of an engine of which several replicas run.                    *)
CurrentOnceHandled == Unnetted => CurrentWhenHandled

(* README.md:187, "Issues margin calls when posted collateral falls below  *)
(* required levels": a shortfall on record was called, at its amount,      *)
(* whichever of several recalculations wrote it.                           *)
ShortfallIsCalled ==
    \A m \in Members : <<m, "INITIAL">> \in DOMAIN requirements =>
        LET r == requirements[<<m, "INITIAL">>]
            short == Shortfall(r.required, r.posted)
        IN  short > 0 =>
                \E c \in DOMAIN calls : c[2] = m /\ calls[c] = short

LockedFor(m) ==
    SumFunction([t \in {t \in Trades :
                          legs[t] # "none"
                          /\ m \in {Terms[t].buyer, Terms[t].seller}} |->
                    Terms[t].quantity * Terms[t].price * Rate])
PaidBy(m) == SumFunction([c \in {c \in paid : c[2] = m} |-> calls[c]])

(* The balances of a member are explained, to the grain, by its novated    *)
(* trades, its deposits and the calls it paid, each of them once.          *)
LedgerIsExplained ==
    \A m \in Members :
        /\ ledger[<<m, "IM_LOCKED">>] = Opening["IM_LOCKED"] - LockedFor(m)
        /\ ledger[<<m, "IM_AVAILABLE">>] =
                Opening["IM_AVAILABLE"] + LockedFor(m) + PaidBy(m)
        /\ ledger[<<m, "COLLATERAL">>] =
                Opening["COLLATERAL"] + deposited[m] - PaidBy(m)

(* operations.py:194, "Insufficient collateral for margin transfer": no    *)
(* transfer takes what is not there.                                       *)
CollateralNotOverdrawn ==
    \A m \in Members :
        Opening["COLLATERAL"] >= 0 => ledger[<<m, "COLLATERAL">>] >= 0

(* The same of a collateral manager that runs once.                        *)
AloneCollateralNotOverdrawn == Alone(site.desks) => CollateralNotOverdrawn

(* The margin engine is through with every event in the end, and the       *)
(* collateral manager, where one runs, with every call: also when          *)
(* recalculations deadlock and when the schema refuses what they write.    *)
(* (Trades and prices are bounded, so that they catch up in the end.)      *)
EverythingIsHandled ==
    []<>(/\ Published \subseteq acked
         /\ site.desks = {} \/ DOMAIN calls \subseteq closed)

(* calculator.py:46, "Previous mark/settlement price": what the journals   *)
(* have moved is the variation from the trade prices to the last price,    *)
(* once the engine has handled everything.                                 *)
VariationIsMarkedOnce ==
    Published \subseteq handled /\ Unnetted =>
        \A m \in {m \in Members : NetQuantity(m) # 0} :
            ledger[<<m, "VM_AVAILABLE">>] - Opening["VM_AVAILABLE"] =
                calculate_variation_margin(
                    NetQuantity(m), Position(m).latest, AvgPrice(m))

(* README.md:187, of an engine that handles an event for good.             *)
AckedIsHandled == acked \subseteq handled

=============================================================================
