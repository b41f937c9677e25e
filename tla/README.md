# TLA+ models of the CCP Clearing House

This directory holds TLA+ specifications of the clearing house's services, the
TLC configurations that check them on small instances, and TLAPS proofs of what
matters most for every instance. Every definition is translated from the source
under `src/`; `PROJECT.json` names, for each definition, the lines it stands
for. Line references below are of the form `settler.py:282`.

    tlc -workers 2 -config MCSettlement.cfg MCSettlement    # check one instance
    tlapm SettlementProofs.tla                              # check the proofs

## 1. The system

Eleven Python services share one PostgreSQL database and one Kafka cluster.
A service changes the database in transactions at the level READ COMMITTED (each
*statement* sees what was committed when it began), inserts its events into
`outbox_events` in the same transaction, and a separate service publishes them.
The consumers are groups of processes that poll, handle a record in a
transaction, and commit the offset. There are no row locks except where an
`UPDATE` or a unique index takes one, `FOR UPDATE SKIP LOCKED` in the publisher,
and no lock across services.

| Component | State | Operations | Interacts by |
|---|---|---|---|
| API gateway | `trades`, `processed_events` of the keys | `POST /trades` with an `Idempotency-Key`; read-only queries; reconciliation | outbox event `trade.submitted` |
| Trade ingestion | `trades.status`, `novated_trades`, margin journals | validate, novate, reject | consumes submitted trades; reads the member status that a default changes; emits `trade.novated` or `trade.rejected` |
| Price oracle | `price_feeds`, view `latest_prices` | publish a price per instrument | `prices.updated`; read by netting and margin |
| Netting engine | `netting_cycles`, `net_obligations`, `settlement_instructions`, leg status | run a cycle up to a cut-off | HTTP or `netting.trigger`; emits one event per instruction |
| Settlement engine | instruction status, audit rows, journals | cash and DVP settlement | consumes instructions; signing client, chain adapter |
| Margin engine | `margin_requirements`, `margin_calls`, VM journals | recalculate all positions | consumes `trades.novated`, `prices.updated`; emits `margin.call.issued` |
| Collateral manager | collateral and margin accounts | deposit, transfer on a call | consumes calls and deposit requests |
| Liquidation engine | `default_events`, `waterfall_steps`, journals, member status | the five-layer waterfall | consumes default events |
| Outbox publisher | `outbox_events.published_at`, the client library's queue | fetch, produce, flush, mark | database to Kafka |
| Event consumers | `processed_events`, `dead_letter_events`, offsets | poll, deduplicate, handle, acknowledge | Kafka to every service |
| Double-entry ledger | `accounts`, `journals`, `journal_entries` | insert balanced journals; balances are a view | shared by five services |
| Reconciliation engine | the last report, in memory | recompute balances and compare them with the view | four SELECTs over the ledger, HTTP |
| Chain adapters, signing client | transactions in flight | submit, poll, sign | settlement engine |
| Signing gateway, MPC nodes | the requests in flight | 2-of-3 fan-out | HTTP |
| Compliance monitor | none (its alerts cannot be stored, see 3) | checks | consumes, reads |

### What is hard

* **Interleavings of READ COMMITTED transactions.** Balances, legs, prices, keys
  and statuses are read in one statement and acted on in a later one
  (`netting.py:119` and `279`, `main.py:79`, `novation.py:47`, `waterfall.py:231`,
  `operations.py:193`, `calculator.py:75`, `reconciler.py:112`).
* **Several commits for one event.** A DVP settlement commits four times, with a
  blockchain in between; the marker that makes it idempotent goes with the first.
* **Crashes and redelivery** between any two of those commits, between the flush
  and the commit of a batch, and between a commit and the offset.
* **Consumers that acknowledge what failed.** All loops but the shared one log an
  exception and move on; trade ingestion turns any exception into a rejection.
* **Failure inside a transaction that goes on.** A novation that fails half-way is
  followed by a rejection in the same transaction (`novation.py:315`).
* **Time-outs of equal length, one inside the other** (`signing_gateway/main.py:49`,
  `client.py:70`).
* **Rows that appear behind a cut-off.** `novated_at` is the start of the
  novating transaction, the row becomes visible at its commit.
* **Decimals.** Pro-rata shares and the amounts of obligations are rounded one by one.
* **Schema and code that disagree.** CHECK constraints refuse journal types, step
  types and statuses that the code writes.

`PROJECT.json` lists each of these at its line under `hazards`, with the
properties that cover it.

### What makes each component correct

* *Settlement*: one outcome per instruction; the journal exists exactly when the
  outcome is "settled"; cash moves only against delivery; no second transaction
  on the chain; status, audit and events tell the same story.
* *Netting*: a cycle balances over the members, but for the rounding of its rows, nets exactly what it read, closes
  that and nothing it had left out; no leg is settled twice.
* *Outbox and consumers*: no committed event is lost; handled at most once.
* *Gateway*: an accepted trade is durable with its event; a key has one trade.
* *Margin*: requirements follow positions and prices; a shortfall is called;
  balances are explained by trades, deposits and calls.
* *Trade ingestion*: a trade is novated or rejected, whole and once; a sound trade is
  novated; a member in default gets no leg.
* *Gateway and trade ingestion together*: whatever a client repeats, one external id
  gets one pair of legs at most, and none for a trade that was rolled back.
* *Waterfall*: rows and journals agree, nobody pays more than the contribution,
  every default is dealt with.
* *Ledger and reconciliation*: only whole balanced journals are ever seen; a report
  lists an account for a reason.
* *Signing*: what counts as signed carries the threshold of nodes on that very
  transaction; nodes that are down cost nothing while enough work; requests end.

## 2. Modules

| Module | Models | Composes / implements |
|---|---|---|
| `SettlementOutcome` | abstract: one outcome, journal and event together | |
| `Settlement` | `settlement-engine` (`settler.py`, `consumer.py`), the adapter's promises | implements `SettlementOutcome` |
| `TradeIngestion` | `trade-ingestion`: the handler of a submitted trade, statement by statement | implements the novation of `Netting` |
| `TradeOutcome` | abstract: one trade per external id, decided once, by two legs or none | |
| `Intake` | `Gateway` in front of `TradeIngestion`, from the request to the legs | implements `TradeOutcome` |
| `Netting` | novation in four actions, `run_netting_cycle`, prices, over `novated_trades` | |
| `Outbox` | `outbox-publisher` and the Kafka client's queue | |
| `ConsumerGroup` | the poll loop of a service in its four versions, `processed_events`, dead letters | |
| `EventDelivery` | abstract: work at most once, for committed events | |
| `EventBus` | `Outbox` and `ConsumerGroup` over one partition | implements `EventDelivery` |
| `Gateway` | `POST /trades` in concurrent threads | |
| `Margin` | margin lock of novation, margin engine, collateral manager over shared accounts | |
| `Waterfall` | `execute_waterfall` for concurrent replicas | |
| `Ledger` | constraints, trigger and view of the ledger; reconciliation | |
| `Signing` | signing client, signing gateway, MPC nodes | what `Settlement!Sign` and its exception stand for |
| `SettlementProofs`, `NettingProofs`, `ConsumerGroupProofs`, `EventBusProofs`, `TradeIngestionProofs`, `MarginProofs` | the theorems | each extends the module it is about; `TradeIngestionProofs` extends `Intake`, which extends `TradeIngestion` |
| `ServiceProofs` | the theorems on Waterfall, Ledger and Signing | extends `Waterfall`, has instances of the other two |
| `Sums` | lemmas on finite sums, for `NettingProofs`, `MarginProofs`, `ServiceProofs` | |
| `MC*` | instances for TLC; `EventBus`, `ConsumerGroup`, `Gateway`, `Outbox` and `Signing` need none and are checked as they are | |

### How state and actions correspond to the code

**One convention for PostgreSQL.** Variables hold *committed* rows. What a
transaction has written is kept per worker (or is implied by its program
counter), so a rollback is the loss of that. An action is a stretch of code
between two points where another transaction's commit could change what the code
sees; a statement that reads rows others write starts an action of its own.
A unique index entry that is not committed makes a second insert of the key wait.

**Settlement.** `pc[w]` is the place in `consume_loop`/`settle_instruction`;
`InsertMarker` is `process_if_new`, `SelectPending` the SELECT, `SettleCash` and
`RejectPending` the two one-commit ends, `Approve`, `Sign`, `Submit`,
`RecordBroadcast`, `FinalizeDvp` the commits of `_settle_dvp`, `GiveUp` and
`DvpException` its failure paths. `Crash`, `DbError` and `Poll` (of any record, at
any time, by any worker) are the environment. The chain is an adapter
that accepts, mines, finalizes or reverts (`ChainStep`). The netting engine never
writes `chain_id` (see below), so rows that name a registered chain come from
what the table and this engine admit, not from today's netting engine.
`audit[i]` is the sequence of the *transactions* that wrote `state_transitions` rows
of `i`, each the set of its rows (`Record`): `transitioned_at` has `DEFAULT now()`,
the start of the transaction (migration 010:24), so the four rows of `_settle_cash` tie, and
nothing else in the table orders them. `current_entity_status(i)` is therefore the set of
statuses that the view may show: any row of the latest time (010:30-36). Between
transactions the order is that of the clock, which is assumed not to step back.

**TradeIngestion.** A transaction begins with `Begin` and `InsertMarker`
(`process_if_new`); `CheckBuyer` and `CheckSeller` are the SELECTs of
`validate_trade` between which a `Default` may be committed; `novate_trade`,
`CannotNovate` and `_reject_trade` are the outcomes, and `written[w]` is the list of
writes that `Commit` makes visible. `NovationFails(w, n)` is an exception after the
first `n` writes of the novation, inside its savepoint; `StatementFails` is one
outside of it, after which even the rejection fails and the record goes to the dead
letters. A quantity of 0 stands for one that is not positive, and `marginal` for a
margin that rounds to zero in `NUMERIC(28, 8)`. The instance `N` maps all this to
the variables of `Netting`: a transaction in the handler is a novation that has
begun, everything else a stutter.

**Intake.** The trades are the numbers of the gateway's inserts. What lies between the
gateway's commit and a worker's poll is the outbox and a topic; of these `EventBus`
and its proofs say all that is used here, that a consumer is handed only events of
transactions that have committed (`Published`), any number of times. That each of
them arrives is what `EventuallyDealtWith` says of a broker that answers in time;
`Intake` has safety properties only, which do not need it. `terms[t]` is the body of the request that gets number `t`.
The two services write no row that the other one's statements wait for: the
gateway inserts a trade, ingestion updates it after the commit.

**Netting.** One action per statement of a cycle: fetch the positions, fetch the
prices, `UPDATE` the legs, commit. Novation is one transaction with a start and a
commit. `known` and `before` are history variables, read by properties only.
Quantities, prices and amounts are `NUMERIC(28, 8)` columns and count grains, the units
of the last decimal; `Unit` grains make a unit (10^8 in the schema). A quantity times
a price has sixteen decimals: `calculate_net_obligations` keeps it exact, as a
number of grains times `Unit`, and the INSERTs round it, in the obligation
(`ObligationRow`) and again in the instruction (`InstructionFor`), each row for
itself and halves away from zero (`Rounded`), while the payer is chosen by the exact
product (`MemberPays`). Python's `Decimal` keeps 28 significant digits, so its product is
exact for amounts below 10^12; the rounding of larger ones is not modelled, and neither
is an amount that no longer fits its column, which fails the cycle. An obligation may
round to an amount of zero; its instruction is the zero amount of `Settlement`
(`positive = FALSE`).

**Outbox, ConsumerGroup, EventBus.** `queue[p]` is the memory of the producer
library; `flush` waits for it, unless the broker is not timely.
`style` selects how the service writes the loop: the shared `KafkaConsumer`
("poll_loop"), log-and-acknowledge, the margin engine's `continue` without a
commit, and the compliance monitor's marker before the work. `EventBus`
substitutes the log of one for the log of the other.

**Gateway.** A thread checks the key, inserts, records the key, commits and
responds; any statement may fail. The body's validation and the role check keep
no state and are left out. `Idempotency-Key` is a model value (a header that is
not a UUID raises in the code, and no row is written).

**Margin.** Recalculation reads positions and prices in one SELECT
(`Recalculate`), then handles position by position (`Assess`): the UPSERT locks the
row of `margin_requirements`, the variation is journaled, a shortfall is called;
all of it is visible after `CommitMargins`. The SELECT has no ORDER BY, so two
replicas may lock rows in opposite orders; PostgreSQL cancels one of them.
`CheckTransfer`/`Transfer` are the balance check and the journal of
`transfer_to_margin`. `CloseLegs` stands for a netting cycle, which tells the
margin engine nothing. There is one instrument. `withdraw_collateral` is called
by nobody and left out.

**Waterfall.** One action per layer, one row and one journal each, then the final
status and the commit. Amounts are grains of the ledger's last decimal; the sign
of what a decimal division leaves below a grain is kept in `dust`.

**Ledger.** `Insert` is a transaction that inserts a journal with its entries, which
the CHECKs of migration 004 may refuse, and `Commit` the deferred trigger of 014.
A reconciliation is its four SELECTs, each an action that reads what is
committed then. The endpoint of the API gateway runs the same statements
(`Answer`); only the engine's keeps its report (`Return`). Journals are what
`Drafts` lets a service try, sound or not.

**Signing.** `asked[r]` is the node whose answer the coroutine awaits. Time is
counted in ticks, since what matters is that the client's time-out and the
gateway's are both 30 seconds (`Timeout` ticks): a node that works answers within
the tick, a time-out that is due comes before the next one.

## 3. What is unreachable end to end, and how the models treat it

The models start where the code's own logic starts, and where the deployed pieces
do not fit together that is a parameter of the model, never hidden:

* `chk_journals_type`, `chk_waterfall_step_type` and `chk_default_event_status`
  (migrations 004, 012) refuse `VARIATION_MARGIN`, `COLLATERAL_DEPOSIT`, the
  waterfall's step types and `partially_resolved`. `Waterfall!SchemaAccepts` and
  the field `accepts` of `Margin!Sites` say whether they do. `MCMargin` explores
  both; `MCWaterfall` takes a schema that accepts, and `MCWaterfallSchema.cfg`
  shows what the present one leads to.
* The outbox adds `event_id` to a payload but no `event_type`, which
  `proto/events/*.json` require and the collateral manager and the liquidation
  engine route by. `typed` of `Margin!Sites` is that field; `Waterfall` starts at
  the routed event. No service emits `margin.call.breached`,
  `collateral.deposit.requested` or `netting.trigger`: these come from outside.
* `REFRESH MATERIALIZED VIEW` needs the view's owner, the oracle connects as
  `ledger_user`. `latest_prices` may therefore stay empty: all models begin
  without a price, and no fairness obliges the oracle to publish one.
* `scripts/init-db.sh` grants `UPDATE` on the status of trades and novated
  trades, where README.md:283 speaks of triggers that reject it.
* The HTTP default `cycle_type` ("ad_hoc", `netting-engine/main.py:84`) is refused by a
  CHECK: such a cycle rolls back (`RollBackCycle`).
* README names a table `idempotency_keys`; the code uses `processed_events`.
* `SigningClient` sends `chain_id` as a number and `SignRequest` declares a string,
  which pydantic 2 does not convert: the gateway answers 422. `chain_id[r]` of
  `Signing` says which it is, and the run has both.
* Every service writes its journals as `confirmed`, although the column defaults to
  `pending`. `Ledger` has both, since a view and a test speak of the difference.
* The compliance monitor reads and writes over the read-only connection
  (`compliance_monitor/consumer.py`): an alert is refused, the exception
  logged, the record acknowledged.
* `ledger_transaction` (`db/transactions.py`) names columns that no migration has
  and is called by nobody.

## 4. Runs

All figures are distinct states. `CHECK_DEADLOCK FALSE` is set where the
bounds on faults, requests or events let the system come to rest.

| Run | Instance | Shows |
|---|---|---|
| `MCSettlement` | 2 instructions of any of 10 kinds of rows, 2 workers, symmetric, unbounded redelivery and crashes; 785,220 | `LedgerFollowsStatus`, `PaymentAgainstDelivery`, `SubmittedOnce`, `AuditTellsStatus`, `FollowsLifecycle`, and the refinement `KeepsPromise` |
| `MCSettlementLive` | 4 kinds of rows, no faults; 47,896 | `EventuallyDecided` |
| `MCTradeIngestion` | 1 trade of any of 5 kinds, 2 workers, defaults of 3 members, 2 faults, 2 times; 373,850 | `DecisionIsWhole`, `SoundIsNovated`, `DefaultedGetsNoLeg`, `EventuallyDecided`, and the refinement `KeepsNovation` |
| `MCNetting` | 3 members, 2 instruments, 2 trades with any of 16 pairs of terms, 2 cycles, 2 times, 4 grains to a unit; 901,786 | `LegsMoveTogether`, `CycleBalances`, `NetsExactly`, `LaterCyclesStartAfresh`, `MarksWhatItSaw` |
| `EventBus` | 2 events, 2 replicas, 2 processes, 4 loop styles, 1 fault on each side; 397,424 | `NeverMissedInTime`, `CopiesCostFaults`, `EventuallyDealtWith`, and the refinement `KeepsDelivery` |
| `ConsumerGroup` | 2 events in a log of 3, 2 processes, 4 loop styles, 3 faults; 145,892 | `HandledOnce`, `AckedIsFinished` |
| `MCIntake` | 2 threads, 2 requests, 1 key, 2 external ids, 1 worker, unbounded redelivery, defaults of 2 members, 1 failure on each side; 767,688 | `AcceptedIsDurable`, `RepeatIsAnswered`, `OnePairForAll`, and the refinement `KeepsOutcome` |
| `MCMargin` | 2 members, 2 trades, 1 price, 1 deposit, 1 fault, 5 deployments; 94,133 | `AloneIsCurrent`, `ShortfallIsCalled`, `LedgerIsExplained`, `AloneCollateralNotOverdrawn`, `EverythingIsHandled` |
| `MCWaterfall` | 3 members, 2 defaults, 3 losses, 8 opening ledgers, 1 or 2 replicas, 1 fault; 184,276 | `LedgerMatchesRecord`, `AloneNotOverdrawn`, `EveryDefaultEnds` |
| `MCLedger` | 3 journals of any of 6 kinds, 3 accounts, 2 reconciliations, one of them the gateway's; 854,590 | `BooksBalance`, `MismatchIsExplained` |
| `Signing` | 2 requests, 3 nodes in any state, threshold 2, time-outs of 2 ticks, 1 change or restart; 352,185 | `SignedByThreshold`, `WorkingNodesSuffice`, `EveryRequestEnds` |

One more run is expected to find a violation, which backs the finding of
`PROJECT.json`: `MCSettlementDvpAtomicity`. Two configurations outside the list
check a part of a composition alone, on a larger instance: `Outbox.cfg` the publisher
(3 rows, batches of 2, 2 faults; 172,100) with `EventuallyPublished`, and
`Gateway.cfg` the gateway (3 threads, 3 requests, 2 keys, 1 failure; 190,651) with
`EveryRequestEnds`, that no request waits for ever, and `KeyNeverMoves`. That one and
`PositionsAreNetted` (add it to `MCNetting.cfg` to check it) are theorems of section 6
on which no listed run spends a property.

Every module has a `TypeOK`, which no listed run spends a property on: `IInv` of
the proof modules contains it (`OutboxInv` for `Outbox`), and for the others it holds on the instances
above (add `INVARIANT TypeOK` to the configuration to check it).

Each property of a passing run has a mutant in `PROJECT.json`: a definition of the
code changed in the way of a plausible bug (marked `mutant:` where it is
defined), under which TLC finds the property violated.

### Bounds, and why they are enough

* **Two workers, replicas, cycles, processes.** Every race of this code is between
  two transactions; in `Gateway.cfg` a third thread waits behind a waiter.
* **One trade** (TradeIngestion): trades share nothing but the members' status.
  With two trades, without faults, the same properties hold on 1,955,702 states.
* **Two requests, one worker** (Intake): a request and its repeat, with or without
  the key, before, during and after the handling of the first; races and faults of
  workers are TradeIngestion's, and the theorems have no such bound.
* **Three journals** (Ledger): one before, between and after two SELECTs.
* **Three nodes, two of them needed, time-outs of two ticks** (Signing): what the
  code deploys; two ticks, so that a time-out may be running or due.
* **`MaxTime = 1`** (Netting, TradeIngestion): a leg before, at and after a cut-off, and a
  transaction that starts before and commits after it.
* **Four grains to a unit, a price of one grain** (Netting): a net quantity of 4 gives an exact
  amount, one of 3 is rounded up, one of 1 down to nothing, one of 2 lies half-way between two
  grains; the theorems have no such bound.
* **`MaxFaults`, `MaxTrouble`**: faults between any two steps; two and three where
  a fault of the handling of a fault matters (a rebalance after a crash, a dead
  letter that fails). Settlement needs no bound: its state is finite.
* **`MaxLog = 3`** with two events: one event is in the log twice.
* **`MaxRequests = 3`** (`Gateway.cfg`): two that race and one that comes after.
* **`MaxTicks = 1`, two trades** (Margin): three events, so a recalculation from
  before, between and after; two replicas meet over one trade and one price only,
  which keeps the instance small.
* **Losses 3, 9, 25** (Waterfall): one that the margin absorbs, one that reaches
  the survivors' fund, one that no layer absorbs.
* **Symmetry** only where no liveness is checked and the permuted values are
  interchangeable.

### Fairness

* Weak fairness of a worker's own steps everywhere: a loop that runs goes on, and
  PostgreSQL wakes who waits for a row. Crashes, errors, rebalances, trades,
  prices and requests have none.
* Strong fairness of polling an unacknowledged record (Settlement, TradeIngestion):
  partitions are read in order from the committed offset, so other records cannot overtake it for
  ever.
* Weak fairness of the chain on a pending transaction, and of the producer
  library on its queue.
* Weak fairness of time and of what is due in it (Signing). A node that hangs is
  not obliged to answer.
* `EventuallyPublished` and `EventuallyDealtWith` are conditional on a broker that
  answers in time (`timely`), since the code does not wait for one that does not;
  `EventuallyDecided` is about runs without crashes, since the code has no way
  back after one.

## 5. Statements that do not hold

A statement of a document, comment or test that the code does not keep is a
property, too; each has a configuration under which TLC gives the counterexample.
The one with a star is a run of `PROJECT.json`. The configuration `X.cfg` runs on
the module that its name begins with; one that lists several properties refutes
each of them, which `tlc -continue` shows.

| Configuration | Property | What happens |
|---|---|---|
| `MCSettlementDvpAtomicity`* | `DeliveredIsNotFailed` | any exception after the chain took the transaction fails the instruction (`settler.py:282`) |
| `MCSettlementRefuted` | `AcknowledgedIsDecided` | an exception is logged, the offset committed (`consumer.py:93`) |
| `MCSettlementRefuted` | `ViewShowsStatus` | the four rows of a cash settlement tie, and the view may show any of them (`settler.py:149`, migration 010:36) |
| `MCSettlementRefuted` | `RecordedFromIsTrue` | the exception path records a transition from `approved`, whatever the status was (`settler.py:282`), where README.md:567 calls the column the previous state |
| `MCSettlementRecovery` | `Recoverable` | after a crash the marker is there and the status is not `pending` |
| `MCTradeIngestionRefuted` | `OnlyActiveGetLegs` | a default is committed between the SELECT of the status and the commit of the legs (`novation.py:47`) |
| `MCTradeIngestionRefuted` | `OneFailureIsRetried` | one failing statement rejects a sound trade for good (`novation.py:318`), where README.md:320 promises three retries |
| `MCNettingRefuted` | `NettedWasIncluded` | a novation commits between SELECT and UPDATE (`netting.py:279`) |
| `MCNettingRefuted` | `SettledOnce` | two cycles read the same open legs |
| `MCNettingRefuted` | `AmountsCancel` | every row rounds its amount for itself (`netting.py:213`, migration 007:41), where README.md:324 has decimals keep rounding errors out |
| `OutboxFlush` | `NeverMissed` | `flush()` returns with records left (`publisher.py:82`) |
| `ConsumerGroupRefuted` | `FailureIsDeadLetter` | the dead letter fails, the offset moves on |
| `ConsumerGroupRefuted` | `MarkFirstIsFinished` | a crash after the compliance monitor's marker |
| `GatewayRace` | `SameKeySameTrade` | two requests with one key create two trades |
| `MCMarginRefuted` | `CurrentOnceHandled` | the replica that read the old price commits last |
| `MCMarginRefuted` | `VariationIsMarkedOnce` | every recalculation posts the whole variation since the trade price |
| `MCMarginRefuted` | `CollateralNotOverdrawn` | two replicas check the same balance |
| `MCMarginRefuted` | `AckedIsHandled` | a variation that is not zero breaks `chk_journals_type`; the whole recalculation is lost |
| `MCWaterfallRefuted` | `FundsNotOverdrawn` | two waterfalls draw on the same contribution |
| `MCWaterfallRefuted` | `AbsorbedIsResolved` | rounding leaves a crumb, the status is `partially_resolved` |
| `MCWaterfallSchema` | `AckedIsRecorded` | the CHECKs refuse every step |
| `MCLedgerRefuted` | `NoFalseAlarm` | a journal commits between the two SELECTs and is reported as a mismatch (`reconciler.py:112`) |
| `MCLedgerPending` | `PendingIsExcluded` | the view counts the entries of a pending journal (migration 015, line 30) |
| `MCLedgerRefuted` | `LatestIsMostRecent` | the older of two overlapping reconciliations ends last (`main.py:90`) |
| `SigningHung` | `ThresholdSuffices` | one node that hangs costs the request, though the other two work: the client gives up with the gateway |

Also seen, each visible in one line of the code and therefore no property here:
the INSERT of the instructions names no `chain_id` (`netting.py:241`); legs are
updated, and no trigger forbids it; README.md:324 speaks of `DECIMAL(38, 18)`, the
migrations of `NUMERIC(28, 8)`; polls that run out count a transaction with
too few confirmations (`settler.py:355`); a repeat of a request in flight gets 409;
`posted_amount` is updated where `margin_type = 'MARGIN_IM'`, which no row has
(`operations.py:284`); each recalculation calls the same shortfall again; a netted
position keeps its requirement; a negative equity balance is applied to a loss
(`waterfall.py:205`); four accounts are counted as margin and one is charged
(`waterfall.py:153`); an account whose entries are all unconfirmed is on no
reconciliation report; nothing ever changes `margin_calls.status` or looks at a deadline
(README.md:193, 614), and nothing unlocks the margin that novation locked.

## 6. Proofs

`tlapm` checks the eight modules without a gap. The only assumptions are those the
modules name (`RowsAssumption`, `NettingAssumption`, `ConsumerAssumption`,
`BusAssumption`, `IngestionAssumption`, `MarginAssumption`, `WaterfallAssumption`,
`LedgerAssumption`), which TLC evaluates in the runs. Where a theorem is about a sum they say that the
tables are finite (trades, members, accounts, journals, events). Two of them restrict what
is traded. `Terms[t].buyer # Terms[t].seller` in Margin is what `validate_trade`
refuses (TradeIngestion has both kinds). `CCP \notin Members` in Netting says that
no trade names the house: `CycleBalances` compares what the house pays and what
it is paid with what the members owe, and a trade with the house itself as a party would count on both sides.
The code itself checks of a party only that it is an active member
(`novation.py:57`).

**Sums.** The library's sums are folds over a `CHOOSE`, and the rule of induction
on finite sets takes an operator as its parameter, which no installed prover can
instantiate. `SubsetInduction` says the same of a *set of sets*: a finite set
is in every family of its subsets that has the empty set and is closed under one
more element. It is proved by a counterexample of least cardinality. With it,
`FoldExists` shows that the recursive function behind `SumFunctionOnSet` exists,
`FoldUnfolds` what its value at a subset is, and the rest are the laws the models need: `SumRemove`, `SumUnion`, `SumPlus`,
`SumWithin`, `SumImage`, `SumGroups` (a sum taken group by group), `SumScaled`.

**SettlementProofs** (any set of instructions, workers and kinds of rows).
`TypeCorrect` is inductive by itself. The safety properties are not: "the journal
exists exactly when the status is confirmed" is preserved by `SettleCash` only if
no other worker executes the same instruction, and that is so only because a
worker past the marker holds or has committed the `processed_events` row.
`IInv` adds those facts: `WorkerInv` (what the place a worker has reached says of
the status, the marker and the transactions sent) and `RowInv` (what the
committed rows of an instruction say of each other). `Invariant` proves
`Spec => []IInv` from one lemma per conjunct, each with one case per action; from
it follow `LedgerIsExact`, `PaymentIsAgainstDelivery`, `SendsOnce`,
`ExecutesAlone`, and, for steps, `LifecycleFollowed`. `AuditTells` says what the audit
rows tell although those of one transaction have no order: that is an induction of its
own on top of `IInv`, since it is the sole executor that keeps a status from being entered
twice. `AuditInv` is its invariant: while an instruction is on its way the statuses
entered are exactly those on the one way to its status (`Way`), so the next row enters
one that was not there; a failed one has left such a way. The status is then the
one entered status that none follows, and nothing is said of the column `from_status` beyond
that it names an entered status from which the step is legal, because
`RecordedFromIsTrue` does not hold. `PromiseKept` is the refinement: the initial states map to
those of `SettlementOutcome`, and `IInv` shows that each step is a `Settle`, a
`Fail` or a stutter of it.

**NettingProofs** (any members, instruments, trades, cycles, clock). `IInv` relates
what a cycle remembers of a leg (`positions`, `known`, `marked`) to what the leg is
now: a leg it read and did not aggregate is netted or behind its cut-off, a leg it
aggregated is netted by the time it confirms. That is why an `UPDATE` that repeats
the condition instead of naming the rows still closes all it should:
`PositionsEndNetted`, `MarksOnlyWhatItSaw`, `SequentialCyclesAreDisjoint`,
`LegsStayTogether`. `ResultInv` adds that the obligations and instructions of a
confirmed cycle are those computed from the positions and prices it read, which
is stable because terms never change. `NetsAreExact` then is about the two
groupings, by side in SQL and by key in Python, each of them a sum by groups;
`CyclesBalance` needs that a cycle holds both legs of a trade or neither (`IInv`),
so that the quantities cancel in pairs (`TradesCancel`), and so do the products, which
are quantities at one price. The rows do not cancel, they are rounded: `RoundedIsNear` bounds
the error of one by half a grain, and `RoundedSum` adds the errors up, so that a cycle is off by
half a grain for each obligation at most. What passes through the house is exact all
the same: rounding keeps signs and commutes with `abs` (`RoundedType`), so an
instruction chosen by the unrounded amount carries the amount of its obligation's row.

**ConsumerGroupProofs** (any events, processes, loop styles, bounds). `HandledOnce` is
not inductive: it needs `MarkingInv`, which says what each place in the loop means
for the marker and the work (`PlaceInv`), that two processes never have one event
in work (`HolderInv`), and that a marker stands for work done (`MarkerInv`). For the
offset, `ReadInv` says that a process has finished with every record behind it but
the one in hand; it survives a rebalance because the new owner starts at the
committed offset, below which `AckedIsFinished` itself says that all is finished, so
the two are one induction. Hence `WorkIsDoneOnce`, `OffsetsPassFinished` and
`MarkersMeanWork`.

**EventBusProofs** (the composition, for any events, replicas, processes, batch size and
bounds). `NeverMissed` is not inductive even with a broker in time: it counts any
replica's queue, and a crash empties one. `Kept` is stronger: what a replica has
produced and not yet marked is in the partition or in its *own* queue, which the flush
empties before the mark, so a row marked published is in the partition.
`CommittedOnly` says that nothing uncommitted is locked, queued or delivered. For the
consumers, the lemmas of ConsumerGroupProofs are about steps that let anybody append
to the partition (`Step`), so they are used as they are, through an instance.
Hence `BusInvariant`, `PublishedIsNotMissed`, and `DeliveryKept`, the refinement of
`EventDelivery`: a `Handle` is of a committed event (`CommittedOnly`) whose work is
not done (`PlaceInv`, `MarkerInv`), every other step is a `Commit` or a stutter.
`CopiesCostFaults` counts: no step bounds the copies of an event in the partition by
itself, so `CopiesPaidFor` adds to them the copies in all queues (a sum over the
replicas, which must be finitely many) and the one that is still owed while the row
is neither published nor sent by the batch that holds it. A `Produce` turns what is
owed into a copy, once, because the rows of a batch differ and are in no other one
(`LocksHeld`, the FOR UPDATE SKIP LOCKED); every fault adds one at most, by writing
again or by making a sent row owed again. TLC found no violation of the two on the
instances of `EventBus.cfg` and `Outbox.cfg`. Hence `CopiesArePaidFor`.

**TradeIngestionProofs** (any trades, workers, members, defaults, faults). That a
decision is committed whole (`DecisionIsWhole`) rests on who may commit one: a worker
past the marker holds the unique key of its trade, so no other is there (`Alone`) and
the trade is undecided (`Place`). `Passed` carries what each SELECT of `validate_trade`
has established to the commit, where it may be old: of the parties only that they
had not defaulted when the transaction began (`gone`), and of a rejection that there is
a reason that lasts (`Excused`: unsound, defaulted, or a fault). Hence `DecisionsAreWhole`,
`SoundTradesAreNovated`, and, for steps, `DefaultedGetNoLegs`. `IngestionKeepsNovation`
is the refinement: a commit is a `Novate` or a `Reject` of Netting, every other step
begins a novation, rolls one back, or is a stutter; the start times that Netting sees
of a trade are those of the workers now in a transaction on it (`BegunSplits`).

**TradeIngestionProofs, the gateway** (any handlers, keys, requests, failures). `Stands` says
what a handler has done when it is at a statement; the step that matters is the
`INSERT` of the key, which waits for the transaction that holds it (`OneHolder`) and
finds no row when it takes it, so a commit never overwrites a key (`KeysKept`,
`KeyWritten`) and the trade that `_check_idempotency` looks up is committed. Every
step of `Intake` is one of the gateway or leaves it alone, hence `AcceptedStays`,
`RepeatsAnswered`, and, for steps, `KeysStay`, of `IntakeSpec`. `Gateway!TypeOK` counts ids
up to `MaxRequests`, which serves TLC; this part has a type predicate of its own and
needs no bound and no assumption. TLC checked the invariant on the instance of
`Gateway.cfg` before it was proved.

**TradeIngestionProofs, the intake** (any threads, keys, external ids, failures as well).
That two committed trades never share an external id is not inductive: `RowsApart`
says it of the rows about to be committed too, against the committed ones and
against each other's, which the unique index keeps (`InsertStep`: an insert finds no
committed row, and waits for the uncommitted ones). `GatewayInv` counts: inserts
and threads that may still insert are no more than requests, so every number is a
trade's. `Traced` says that a worker holds, and a marker stands for, a trade that
the gateway has committed. With `Whole` of the ingestion, whose lemmas are used as
they are, the open legs of an external id are those of one trade (`LegsOfOne`).
Hence `OnePairPerExternalId`, and `IntakeKeepsOutcome`, the refinement: a commit of
the gateway is a `Submit`, a commit of a worker a `Novate` or a `Reject`, every other
step a stutter. `IntakeAssumption` (finitely many threads, numbers from one) is a
hypothesis of these theorems and not of the earlier ones; TLC evaluates it in
`MCIntake`.

**MarginProofs** (any members, trades, replicas, prices, deposits, faults). `Base` is
types and who has what: two replicas never have one event or one call, a member is
assessed at most once in a recalculation, a call carries the event of the
transaction that wrote it, and nothing is ever posted to a requirement (the type that
`_update_posted_margin` looks for is none). On it rest five inductions. `ShortfallIsCalled`:
the commit that writes a requirement writes its call, and calls stay. `LedgerIsExplained`:
each novation, transfer, deposit adds one term to a sum, a transfer only of a call
not yet paid (`DesksInv`). `AloneCollateralNotOverdrawn` needs `CheckedIsThere`: what one
manager has checked is still in the account at its transfer, because nobody else takes
from it. `AloneIsCurrent` needs `RecalculatesCurrent`: unless something was published
since a recalculation began, each open position as it is *now* is among its rows to do
or its assessments. TLC found no violation of `CheckedIsThere` and `RecalculatesCurrent` on
the instance of `MCMargin` before they were proved. The attempt also found an error in the
model: `CloseLegs` allowed a cycle that closes no leg, for want of a parenthesis.

**ServiceProofs, the waterfall** (any members, limits, opening ledgers, losses,
replicas, faults). `IInv` carries what a replica has not yet committed: `WorkerInv`
says that at every layer the rows so far and the rest make up the loss, that what
was moved sums to nothing, and that what reached the CCP's account differs from what
the rows say by no more than the halves of a grain that layers four and five may
have rounded (`Slack`); `EventsApart` that no two replicas hold one event, so that a
commit adds the rows of an event once. The bound is per payer and not per waterfall
because each survivor's share is rounded by itself: `ProRata` shows that the shares
of any finite set of payers add up to the loss, or to the whole if that is less,
within half a grain each, and each layer is an instance of it (`Pays`). Hence
`RecordMatchesLedger`. `AloneWithinFunds` needs `AloneInv`: of a service that runs
once, a contribution covers what its open transaction has taken from it as well.
TLC found no violation of `IInv` on the instance of `MCWaterfall` (184,276 states)
before it was proved. `WaterfallAssumption` says of the members that there are
finitely many and that the house is none of them, and of the limits that they
are multiples of ten grains, so that a tenth of one is exact.

**ServiceProofs, the ledger** (the instance `GL`; any journals, accounts, requests). `BooksInv` says that a committed
journal balances, that the verdicts so far are positive, and what each result of a
reconciliation was computed from (`seen`, `viewed`). `BooksAlwaysBalance` adds up the rows
of the committed journals, by journal and again by account; `MismatchesAreExplained` shows
that the sums of an account over two sets of journals differ only by its rows in one
of them and not in the other.

**ServiceProofs, signing** (any requests, nodes, threshold, time-out, faults). That an
answer has enough signatures is inductive with `OwnSignatures`: no coroutine's list has
another one's. `WorkingNodesSuffice` is not: `Awaited` says of a request that still
waits that every node behind it has signed or was not up, and that without a slow node
no time has passed at all (`Tick` needs a node that hangs), so only the end of the loop
can fail it, with fewer signatures than nodes that stayed up. TLC checked this
invariant on the instance of the run before.
The assumption on the constants of an instance is a hypothesis of its theorems.

**Only model-checked.** Liveness (the prover has no rule for fairness and ENABLED).
The properties of section 5 are refuted, not proved.

## 7. Not modelled

* **What a compliance check computes**: an alert would be a row of the outbox, which
  is refused (see 3); nothing else is written.
* **GET endpoints**: one SELECT each, of rows whose states the other modules have.
* **Roles, tokens, the shape of a body**: they decide between a refusal, which
  changes nothing, and an operation that is modelled.
* **Ethereum adapter**: unimplemented in the source. The bytes of transactions and
  signatures are abstracted.
* **Several instruments in Margin, partial failures of account look-ups there**:
  every member has its accounts, as `seed-members.py` leaves them (TradeIngestion
  has members without).
* **`withdraw_collateral`, `ledger_transaction`**: called by nobody.
* **Grants, indexes, logging, metrics, configuration, scripts, the demo.**

## 8. Plan

Done, in this order: Settlement with its abstract specification and proofs;
Netting with proofs; Outbox, ConsumerGroup, their composition; Gateway; Waterfall;
Margin; TradeIngestion, which implements Netting's novation; Ledger; Signing;
the proofs of ConsumerGroup and EventBus; sums, and with them the proofs of
Ledger, of what a netting cycle computes, and of Margin; the proofs of TradeIngestion,
of Gateway, of Signing and of Waterfall; Intake, which composes Gateway and
TradeIngestion, with its proofs.

Next:

1. *Larger instances* of Margin: two instruments, members without accounts.
2. *Intake* over the variables of `EventBus` itself in the place of `Published`.
