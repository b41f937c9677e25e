----------------------------- MODULE Waterfall -----------------------------
(***************************************************************************)
(* The default waterfall of the liquidation engine: replicas of the        *)
(* consumer take default events and run execute_waterfall, one READ        *)
(* COMMITTED transaction each, over the ledger of the member accounts.     *)
(*                                                                         *)
(* Amounts are whole grains of the ledger's last decimal.  The decimals of *)
(* the program are exact down to 28 digits: what a pro-rata division loses *)
(* or gains there is far below a grain, and only its sign is kept (`dust').*)
(***************************************************************************)
EXTENDS Integers, Sequences, FiniteSets, Functions

CONSTANTS
    Members,        \* clearing members, without the CCP's house account
    Limit,          \* Limit[m]: credit_limit, a multiple of ten
    Openings,       \* ledgers a behaviour may start from
    Workers,        \* replicas of the service
    Crews,          \* the sets of replicas that may be running
    Events,         \* default events in the two topics
    Exposures,      \* losses they may carry
    SchemaAccepts,  \* do the CHECKs of the tables take what the engine writes?
    MaxFaults       \* bound on the exceptions of a behaviour

MemberAccounts ==
    Members \X {"IM_AVAILABLE", "IM_LOCKED", "VM_AVAILABLE", "VM_LOCKED",
                "DEFAULT_FUND", "SETTLEMENT"}
Accounts == MemberAccounts \cup ({"CCP"} \X {"CCP_EQUITY", "SETTLEMENT"})
MarginAccounts(m) ==
    {m} \X {"IM_AVAILABLE", "IM_LOCKED", "VM_AVAILABLE", "VM_LOCKED"}

NoEvent == 0

ASSUME WaterfallAssumption ==
    /\ IsFiniteSet(Members) /\ "CCP" \notin Members
    /\ IsFiniteSet(Workers) /\ IsFiniteSet(Events)
    /\ Events \subseteq Nat \ {NoEvent}
    /\ Crews \subseteq SUBSET Workers
    /\ Limit \in [Members -> Nat]
    /\ \A m \in Members : Limit[m] % 10 = 0
    /\ Openings \subseteq [Accounts -> Int]
    /\ Exposures \subseteq Nat \ {0}
    /\ SchemaAccepts \in BOOLEAN
    /\ MaxFaults \in Nat

VARIABLES
    crew,       \* the replicas that run
    opening,    \* the ledger at the start
    ledger,     \* ledger[a]: balance of account a, as committed
    active,     \* members with status 'active', as committed
    todo,       \* todo[e]: the [member, loss] an event not yet taken carries
    wpc,        \* wpc[w]: the step the waterfall of w is at
    event,      \* event[w]: the event it handles
    remaining,  \* remaining[w]: the loss still to cover
    dust,       \* dust[w]: sign of what rounding has left beside it
    moved,      \* moved[w]: its uncommitted journals, summed per account
    steps,      \* steps[w]: its uncommitted rows of waterfall_steps
    done,       \* done[e]: the committed default event, or Nothing
    acked,      \* events whose offset was committed
    faults      \* exceptions so far

vars == <<crew, opening, ledger, active, todo, wpc, event, remaining, dust, moved,
          steps, done, acked, faults>>

Defaults == [member : Members, loss : Exposures]
Layers == {"margin", "fund", "equity", "mutual", "allocation"}
Nothing == [status |-> "none"]
Unmoved == [a \in Accounts |-> 0]

StepRows == [layer : Layers, available : Int, applied : Int, remaining : Int]
Outcomes == [status : {"resolved", "partially_resolved"}, steps : Seq(StepRows),
             remaining : Int]

TypeOK ==
    /\ ledger \in [Accounts -> Int]
    /\ active \subseteq Members
    /\ todo \in [Events -> Defaults]
    /\ wpc \in [Workers -> {"idle", "finish"} \cup Layers]
    /\ event \in [Workers -> Events \cup {NoEvent}]
    /\ remaining \in [Workers -> Int]
    /\ dust \in [Workers -> -1..1]
    /\ moved \in [Workers -> [Accounts -> Int]]
    /\ steps \in [Workers -> Seq(StepRows)]
    /\ done \in [Events -> {Nothing} \cup Outcomes]
    /\ acked \subseteq Events
    /\ faults \in 0..MaxFaults

Init ==
    /\ crew \in Crews
    /\ opening \in Openings
    /\ ledger = opening
    /\ active = Members
    /\ todo \in [Events -> Defaults]
    /\ wpc = [w \in Workers |-> "idle"]
    /\ event = [w \in Workers |-> NoEvent]
    /\ remaining = [w \in Workers |-> 0]
    /\ dust = [w \in Workers |-> 0]
    /\ moved = [w \in Workers |-> Unmoved]
    /\ steps = [w \in Workers |-> <<>>]
    /\ done = [e \in Events |-> Nothing]
    /\ acked = {}
    /\ faults = 0

-----------------------------------------------------------------------------
(* What a transaction sees and does. *)

Defaulter(w) == todo[event[w]].member

(* A statement sees what is committed and what its transaction has done.   *)
Balance(w, a) == ledger[a] + moved[w][a]
Positive(w, as) == {a \in as : Balance(w, a) > 0}
Total(w, as) == SumFunction([a \in as |-> Balance(w, a)])
Survivors(w) == active \ {Defaulter(w)}

Smaller(x, y) == IF x <= y THEN x ELSE y

(* _create_waterfall_journal for every account: what pay takes from them   *)
(* goes to the CCP.                                                        *)
Collected == <<"CCP", "SETTLEMENT">>
CreditsOnly(old, pay) ==        \* mutant: the CCP's entry is left out
    [a \in Accounts |-> old[a] - pay[a]]
WaterfallJournals(old, pay) ==
    [a \in Accounts |->
        old[a] - pay[a] + IF a = Collected THEN SumFunction(pay) ELSE 0]

From(account, amount) ==
    [a \in Accounts |-> IF a = account /\ amount > 0 THEN amount ELSE 0]

(* The part's share of the loss, as NUMERIC(28, 8) stores it.              *)
Share(part, whole, loss) == (2 * part * loss + whole) \div (2 * whole)

(* Does the decimal expansion of part / whole end?                         *)
Exact(part, whole) == \E k \in 0..6 : (part * 10^k) % whole = 0

(* What the rounding of the shares leaves of a loss of which the parts     *)
(* cover at most `cover': nothing when each part is used up.               *)
DustOf(parts, whole, loss, cover) ==
    IF loss > cover \/ \A p \in parts : Exact(p, whole) THEN {0}
    ELSE IF loss = cover THEN {0, 1} ELSE {-1, 0, 1}

IsLeft(rest, crumb) == rest > 0 \/ (rest = 0 /\ crumb = 1)

(* The end of a step: its journals, its row, and where to go from here.    *)
Record(w, layer, available, applied, pay, crumb, next) ==
    LET rest == remaining[w] - applied IN
    /\ moved' = [moved EXCEPT ![w] = WaterfallJournals(@, pay)]
    /\ steps' = [steps EXCEPT ![w] =
            Append(@, [layer |-> layer, available |-> available,
                       applied |-> applied, remaining |-> rest])]
    /\ remaining' = [remaining EXCEPT ![w] = rest]
    /\ dust' = [dust EXCEPT ![w] = crumb]
    /\ wpc' = [wpc EXCEPT
            ![w] = IF IsLeft(rest, crumb) THEN next ELSE "finish"]
    /\ UNCHANGED <<crew, opening, ledger, active, todo, event, done, acked,
                   faults>>

-----------------------------------------------------------------------------
(* Steps of execute_waterfall. *)

(* The UPDATE of the member's row waits for another waterfall of the same  *)
(* member; the status it overwrites is not looked at.                      *)
OnlyActive(w, e) ==             \* mutant: WHERE status = 'active'
    todo[e].member \in active
RowFree(w, e) ==
    \A v \in Workers \ {w} :
        event[v] # NoEvent => Defaulter(v) # todo[e].member

Begin(w, e) ==
    /\ wpc[w] = "idle"
    /\ w \in crew
    /\ e \notin acked
    /\ \A v \in Workers : event[v] # e
    /\ RowFree(w, e)
    /\ wpc' = [wpc EXCEPT ![w] = "margin"]
    /\ event' = [event EXCEPT ![w] = e]
    /\ remaining' = [remaining EXCEPT ![w] = todo[e].loss]
    /\ UNCHANGED <<crew, opening, ledger, active, todo, dust, moved, steps,
                   done, acked, faults>>

(* _step_defaulter_margin: four accounts count, one pays. *)
DefaulterMargin(w) ==
    LET m == Defaulter(w)
        available == Total(w, Positive(w, MarginAccounts(m)))
        applied == Smaller(available, remaining[w])
    IN  /\ wpc[w] = "margin"
        /\ SchemaAccepts
        /\ Record(w, "margin", available, applied,
                  From(<<m, "IM_AVAILABLE">>, applied), 0, "fund")

(* _step_defaulter_default_fund and _step_ccp_equity: a balance below zero *)
(* is applied, too, but not journaled.                                     *)
SinglePayer(w, layer, account, next) ==
    LET available == Balance(w, account)
        applied == Smaller(available, remaining[w])
    IN  Record(w, layer, available, applied, From(account, applied), 0, next)

DefaulterDefaultFund(w) ==
    /\ wpc[w] = "fund"
    /\ SinglePayer(w, "fund", <<Defaulter(w), "DEFAULT_FUND">>, "equity")

CcpEquity(w) ==
    /\ wpc[w] = "equity"
    /\ SinglePayer(w, "equity", <<"CCP", "CCP_EQUITY">>, "mutual")

(* _step_surviving_default_fund. *)
Uncapped(share, cap) == share   \* mutant: no min() with the balance
Capped(share, cap) == Smaller(share, cap)

FundPay(w) ==
    LET payers == Positive(w, Survivors(w) \X {"DEFAULT_FUND"})
        whole == Total(w, payers)
    IN  [a \in Accounts |->
            IF a \in payers
            THEN Capped(Share(Balance(w, a), whole, remaining[w]),
                        Balance(w, a))
            ELSE 0]

SurvivingDefaultFund(w) ==
    LET payers == Positive(w, Survivors(w) \X {"DEFAULT_FUND"})
        whole == Total(w, payers)
    IN  /\ wpc[w] = "mutual"
        /\ \A a \in payers : FundPay(w)[a] > 0
        /\ \E crumb \in DustOf({Balance(w, a) : a \in payers}, whole,
                               remaining[w], whole) :
             Record(w, "mutual", whole, Smaller(whole, remaining[w]),
                    FundPay(w), crumb, "allocation")

(* _step_loss_allocation: at most a tenth of each credit limit. *)
Limited(w) == {m \in Survivors(w) : Limit[m] > 0}
AllLimits(w) == SumFunction([m \in Limited(w) |-> Limit[m]])

LimitPay(w) ==
    LET whole == AllLimits(w)
    IN  [a \in Accounts |->
            IF a \in Limited(w) \X {"SETTLEMENT"}
            THEN Smaller(Share(Limit[a[1]], whole, remaining[w]),
                         Limit[a[1]] \div 10)
            ELSE 0]

LossAllocation(w) ==
    LET whole == AllLimits(w)
    IN  /\ wpc[w] = "allocation"
        /\ \A m \in Limited(w) : LimitPay(w)[<<m, "SETTLEMENT">>] > 0
        /\ \E crumb \in IF Limited(w) = {} THEN {dust[w]}
                        ELSE DustOf({Limit[m] : m \in Limited(w)}, whole,
                                    remaining[w], whole \div 10) :
             Record(w, "allocation", whole,
                    Smaller(whole \div 10, remaining[w]),
                    LimitPay(w), crumb, "finish")

-----------------------------------------------------------------------------
(* Ends of a transaction. *)

Forget(w) ==
    /\ wpc' = [wpc EXCEPT ![w] = "idle"]
    /\ event' = [event EXCEPT ![w] = NoEvent]
    /\ remaining' = [remaining EXCEPT ![w] = 0]
    /\ dust' = [dust EXCEPT ![w] = 0]
    /\ moved' = [moved EXCEPT ![w] = Unmoved]
    /\ steps' = [steps EXCEPT ![w] = <<>>]

(* The final status, the commit, and the commit of the offset.             *)
Status(w) == IF remaining[w] = 0 /\ dust[w] = 0 THEN "resolved"
             ELSE "partially_resolved"

Finish(w) ==
    /\ wpc[w] = "finish"
    /\ ledger' = [a \in Accounts |-> ledger[a] + moved[w][a]]
    /\ active' = active \ {Defaulter(w)}
    /\ done' = [done EXCEPT ![event[w]] =
            [status |-> Status(w), steps |-> steps[w],
             remaining |-> remaining[w]]]
    /\ acked' = acked \cup {event[w]}
    /\ Forget(w)
    /\ UNCHANGED <<crew, opening, todo, faults>>

(* An entry of zero grains, for a share that is not zero. *)
ZeroEntry(w) ==
    \/ /\ wpc[w] = "mutual"
       /\ \E a \in Positive(w, Survivors(w) \X {"DEFAULT_FUND"}) :
            FundPay(w)[a] = 0
    \/ /\ wpc[w] = "allocation"
       /\ \E m \in Limited(w) : LimitPay(w)[<<m, "SETTLEMENT">>] = 0

Violation(w) == ZeroEntry(w) \/ (wpc[w] = "margin" /\ ~SchemaAccepts)

(* A statement raises: the consumer logs it, and commits the offset.  The  *)
(* CHECKs of the tables are one reason, a lost connection another.         *)
Raise(w) ==
    /\ wpc[w] # "idle"
    /\ \/ Violation(w) /\ UNCHANGED faults
       \/ faults < MaxFaults /\ faults' = faults + 1
    /\ acked' = acked \cup {event[w]}
    /\ Forget(w)
    /\ UNCHANGED <<crew, opening, ledger, active, todo, done>>

(* The process dies; the event is delivered again. *)
Crash(w) ==
    /\ wpc[w] # "idle"
    /\ faults < MaxFaults
    /\ faults' = faults + 1
    /\ Forget(w)
    /\ UNCHANGED <<crew, opening, ledger, active, todo, done, acked>>

-----------------------------------------------------------------------------
execute_waterfall(w) ==
    \/ DefaulterMargin(w) \/ DefaulterDefaultFund(w) \/ CcpEquity(w)
    \/ SurvivingDefaultFund(w) \/ LossAllocation(w)
    \/ Finish(w) \/ Raise(w)

Consume(w) == (\E e \in Events : Begin(w, e)) \/ execute_waterfall(w)

Next == \E w \in Workers : Consume(w) \/ Crash(w)

Spec == Init /\ [][Next]_vars

(* The consumer loop runs for ever; PostgreSQL wakes the UPDATE that waits.*)
Fairness == \A w \in Workers : WF_vars(Consume(w))

FairSpec == Spec /\ Fairness

-----------------------------------------------------------------------------
(* Properties. *)

Recorded == {e \in Events : done[e] # Nothing}
Applied(rows) == SumFunction([n \in DOMAIN rows |-> rows[n].applied])
Covered(rows) ==
    SumFunction([n \in {k \in DOMAIN rows : rows[k].applied > 0}
                    |-> rows[n].applied])

(* The rows of a recorded default add up to its loss; what they say was    *)
(* applied is what the journals of all waterfalls together moved to the    *)
(* CCP, give or take half a grain for each share that was rounded; and the *)
(* ledger as a whole gains and loses nothing (waterfall.py:10, "Each step  *)
(* creates balanced double-entry journal entries").                        *)
LedgerMatchesRecord ==
    /\ \A e \in Recorded :
          Applied(done[e].steps) + done[e].remaining = todo[e].loss
    /\ LET gap == ledger[Collected] - opening[Collected]
                  - SumFunction([e \in Recorded |-> Covered(done[e].steps)])
           shares == 2 * Cardinality(Members) * Cardinality(Recorded)
       IN  2 * gap \in -shares..shares
    /\ SumFunction(ledger) = SumFunction(opening)

(* tests/unit/test_waterfall.py:104, "Pro-rata shares capped at each       *)
(* member's balance": no fund contribution is drawn below zero.            *)
FundsNotOverdrawn ==
    \A m \in Members :
        opening[<<m, "DEFAULT_FUND">>] >= 0 =>
            ledger[<<m, "DEFAULT_FUND">>] >= 0

(* The same of a service that runs once: what one waterfall collects from  *)
(* the survivors, and a second one after it, stays within their balances.  *)
AloneNotOverdrawn == Cardinality(crew) = 1 => FundsNotOverdrawn

(* README.md:650, "RESOLVED  (loss fully absorbed at any step)".           *)
AbsorbedIsResolved ==
    \A e \in Recorded : done[e].remaining = 0 => done[e].status = "resolved"

(* README.md:279, "Each step is recorded as an immutable `waterfall_steps` *)
(* row": a default the engine is through with left its rows behind.        *)
AckedIsRecorded == acked \subseteq Recorded

(* Every default event is dealt with, however many waterfalls of the same  *)
(* member wait for each other.                                             *)
EveryDefaultEnds == \A e \in Events : <>(e \in acked)
=============================================================================
