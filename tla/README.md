# Alpha Cycle Lab in TLA+

Specifications of the parts of Alpha Cycle Lab (`src/src/alpha_cycle`) whose
correctness depends on the order of events: the backtest event loop with its
broker, portfolio and risk manager, the paper-trading store with the
reconciliation gate built on it, and the file-based research stores: the run
ledger under its lock file, the opportunity pointers and the universe store. Each module is translated from the Python
source; `PROJECT.json` names the lines behind every definition.

Paths below are relative to `src/src/alpha_cycle` unless they start with `docs/`.

## 1. Inventory

| Component | State | Operations | Interacts with | Hard behaviour | What makes it correct |
|---|---|---|---|---|---|
| Backtest loop `backtest/engine.py` | working orders, pending targets, session volume, turnover, peak and day-start equity, audit trail | `run` (one iteration per session), `_orders_from_targets`, `_process_orders`, `_apply_corporate_actions` | owns all of the next four; reads feed, calendar, actions, universe, strategy | orders live over many sessions and are sized, risk-checked and filled at different moments | no leverage or short, trail explains books, volume shared, targets on time, nothing dropped or doubled |
| Order lifecycle `domain/models.py` | status, filled quantity | `record_attempt`, `record_fill`, `expire`, `cancel`, rejection | changed by loop and broker | a failed attempt after a partial fill | status agrees with fills, terminal is final |
| Broker `brokers/simulated.py` | none of its own | `execute`, `volume_capacity` | portfolio, order, bar | partial fills, limits, slippage, fees | a fill is covered, inside the volume and the limit |
| Portfolio `portfolio/portfolio.py` | cash, positions, marks, average cost | `apply_fill`, `apply_split`, `mark` | loop, broker, risk | splits while orders are open, rounding of average cost | equity and cost basis survive a split |
| Risk `risk/manager.py` | configuration only | `evaluate` | portfolio, bar, order | limits read at one moment, orders waiting | approved fills respect the limits |
| Data integrity `data/integrity.py` | corporate actions, memberships | `events_on`, `members_as_of` | loop | events on sessions without data | what was known on a date, nothing later |
| Market data, calendar, strategies | tables | `bars_on`, `history_through`, `next_session`, `generate_targets` | loop | feed and calendar disagree about sessions | no look-ahead |
| Paper store `paper/state.py` | one SQLite file: metadata, session chain, fill index | `initialize`, `restore_portfolio`, `restore_open_orders`, `commit_session`, `verify_integrity`, `export_audit` | several processes, a crash between any two steps | check-then-write, retries, restarts, torn reads | append-only chain of one run, each fill once, restart resumes what was recorded |
| Reconciliation `brokers/reconciliation.py` | a view exported from the store | `local_state_from_store`, `reconcile_account_state` | store, broker snapshot | the store grows while it is exported | ready only if the books agree |
| Point-in-time data `data/research.py` | revision tables | `as_of`, `portal` | strategies | revisions published later | no revision from the future |
| Ledger lock, intake, preflight `research_ledger_write_lock_v2_1.py`, `research_request_intake_v2_1.py`, `research_request_preflight_v2_1.py`, `research_preflight_state_v2_1.py`, `research_observatory_v2_1.py` | a lock file, request, state, run and ledger files, one current pointer per request | lock, load the newest ledger, record a request, preflight it, publish its state | several command-line processes, the assembler, readers | times sampled before the lock, failure or crash between any two files, a lock nobody removes | one writer, nothing reported is lost, ledgers and pointers name what exists |
| Run ledger `intelligence/research_run_ledger_v2_1.py` | immutable snapshots | build, bind, persist | the three writers above | torn and exclusive files | history in order of time |
| Package assembler `research_package_assembler_v2_1.py` | round, run and ledger files, opportunity pointers | block or orchestrate, publish, compare-and-swap by quarantine, two rollbacks | ledger lock, the direct publisher `intelligence/opportunity_set_v2_1.py`, readers | rename away, then replace, then undo, while somebody else rewrites the pointer | only its own publications are replaced or undone, no pointer is lost |
| Universe store `intelligence/observable_universe.py`, `r1_research_cli.py` | snapshots, manifests, pointer, identity, pending marker, advisory lock | load, recover, publish success or failure | several processes | lock timeout, half-written publication, another run in between | a compare-and-set register over one universe that always loads |
| Forecast ledger `intelligence/forecast_ledger.py` | revisions, outcomes, snapshots | append, bind outcome, persist | reports | partial publication | append-only, outcome bound once |
| Analytics in `intelligence/`, reporting, scenarios | none | pure functions | the ledgers | numbers | left to unit tests |
| Providers, CLIs, pipelines, `apps/`, `bridge/`, `scripts/` | caches, files | I/O | everything | network | not modelled |

The behaviours that a test hardly reaches are listed at their lines under
`hazards` in `PROJECT.json`, with the properties that watch over them.

## 2. Plan

Written in this order, the most important behaviour first:

1. `OrderLifecycle`: abstract specification of an order. *Done, proved.*
2. `BacktestEngine`: the event loop; implements `OrderLifecycle`. *Done, checked, proved.*
3. `PaperJournal`: what the store promises; `PaperStore`: transactions of several processes, implementing it; `Reconciliation`: the gate, composed with `PaperStore`. *Done, checked, proved.*
4. `CostAccounting`: average cost and realized profit in rounded decimals, with splits. *Done, checked, proved.*
5. `ResearchLedger`: intake, preflight and assembler under the lock file, with their failures, crashes and rollbacks. *Done, checked with liveness; safety proved.*
6. `OpportunityPublication`: the pointers of the assembler against the direct publisher. *Done, checked, proved.*
7. `UniverseRegister`: a compare-and-set register; `UniverseStore`: the store with the runs of its command, implementing it. *Done, checked with liveness; safety and refinement proved.*
8. Left: `ForecastLedger`; `PointInTime`, revision selection of `data/research.py` against a reference definition of "known on a date"; the decision and competence ledgers of `intelligence/`.
9. Proofs of every safety property, action property and refinement of the runs. *Done.* Liveness stays with TLC.

## 3. Modules

### OrderLifecycle

`book` maps order identifiers to quantity, filled quantity and status. The
actions are the methods of `Order`, plus `Submit` (a batch joins) and `Reject`
(the direct status assignment of engine and broker, allowed only before the
first fill). `RecordFillAndExpire` is a DAY order's partial fill and expiry,
which happen inside one iteration of the loop.

### BacktestEngine

One variable per attribute or local variable of the run (`cash`, `held`,
`mark`, `orders`, `working`, `pending`, `volume`, `turnover`, `dayStart`,
`peak`, `fills`), plus `phase` and `queue`, which say where the loop stands.
A session is the sequence

```
BeginSession -> QueueOpenOrders -> attempts -> RunStrategy -> attempts -> EndSession
```

and each attempt is one of `SkipTerminal`, `MissingBar`, `Halted`,
`OutOfVolume`, `RiskRejected`, `LimitNotReached`, `CannotSettle`, `FillOrder`:
the exits of one iteration of `_process_orders` in the order in which the code
tests them, each ending in `Conclude` (DAY expiry, survivors carried).
`AbortOnCorporateAction` is the exception that ends a run. The loop is
sequential: what interleaves is the market (any bars, halts and gaps), the
strategy (any targets), memberships, the kill switch and corporate actions.

Abstractions: an order is named by the session and ticker it was created for,
which orders the names as the code's counter does; money is an integer in units
in which the rates used divide exactly; rates are percentages, slippage basis
points; average cost and realized P&L are left out because they decide nothing
in the loop. At most one split of a ticker takes effect on a date, though
`data/integrity.py:130` refuses only two actions of one type: a split and a
reverse split of one ticker and date are legal input that is not modelled. A
split can also be refused because of decimal rounding (`CostAccounting` says
when): that is a nondeterministic abort here. `aim` and `signal` of an order are
history for the properties.

### PaperJournal, PaperStore

`PaperJournal` is the promise of `docs/PAPER_TRADING_STATE.md`: one run owns a
database, sessions are appended in date order, a fill occurs once. In
`PaperStore` every process runs `ReadMetadata`, `Identify` (`initialize`),
`RestorePortfolio`, `RestoreOpenOrders` (two connections, hence two steps),
`Trade`, and `commit_session` as `Begin`, one of `AnswerRetry`,
`RejectCommit`, `InsertSession`, and `Commit`; then it goes on or calls again
(`Retry`). `Crash` may hit between any two steps and loses memory, call and
uncommitted rows. SQLite is external: the write lock, atomic commit, primary
keys, rollback when a connection dies. One detail of it shows below:
`executescript` commits the transaction that is open, so `initialize` holds no
lock when it reads and writes the metadata.

A digest without collisions is its tagged argument; a state hash is the
sequence of payload hashes it chains. `Committed` reads the committed payloads
back from the chain, so it is also what a stored payload should be after
`Damage`. Trading itself is not in `src/`: `Trade` uses the store as
`tests/unit/test_paper_state.py` does (orders of one share, one ticker).

### Reconciliation

Extends `PaperStore` with the steps of the gate. A verification
(`verify_integrity`) reads the session rows and the fill index by two statements
of a connection in autocommit mode, and the gate verifies twice, by itself
(`AssertRows`, `AssertIndex`) and within the export (`ExportRows`,
`ExportIndex`), before the export reads the rows on a second connection
(`ExportRead`): other processes may commit between any two of the five. The
metadata, which the verification reads by a statement before these, never change
once they are written, so `AssertRows` and `ExportRows` read them too.
`reconcile_account_state` is a function, `Ready`, of the exported rows and a
snapshot; the properties quantify over every snapshot that is consistent with
some books of the broker. The view is torn the way the loader tears it: cash
and positions from the session that was last when verified, orders and fills
from all exported rows.

### CostAccounting

One position with `cash`, `quantity`, `average` and `realized`; `Buy`, `Sell`
are the two branches of `apply_fill`, `Split` and `RefuseSplit` the outcomes of
`apply_split`. Every product, sum and quotient is rounded in the order in which
the code computes it, to a decimal: an integer in units of `1/Scale` that is a
coefficient below `Coefficients` times one of `Quanta`. The code runs with 28
digits, the instance with four; the theorems hold for any number.

### ResearchLedger

One process makes one call at a time: `Call` samples the time, as the command
lines do before they take the lock, `Acquire` or `Refuse` is the exclusive
creation of the lock file, and then comes what the call decides under the lock,
all from the newest ledger it has loaded: `Record` (intake), `Preflight`,
`BlockPackage` or `Assemble` (assembler). The decision is a `draft`; the writes
follow one by one in the order of the code (`WriteRequest`, `WriteState`,
`WriteRound`, `WriteRun`, `CreateLedger`, `CompleteLedger`, `PublishCurrent`,
`Confirm`), because between any two of them the call may `Fail` or `Crash`. A
failed call rolls back as its code does: `Undo` says where that begins,
`UndoLedger`, `UndoRun` and `UndoRound` are its steps. A removal may itself
`Fail`, and the rollback then goes on to the next file, as the loops of the code
do that collect such errors; `FailToSync` is the error of the call that syncs a
ledger file already written. Both may leave a whole ledger file in place whose
run and round are removed: the history variable `leftover` has its new entries.
A caller may give a cutoff of its own, one of `Past`. `Return` reports: what it
names is `acked`. A ledger file is in `torn` from its creation to its last byte.
Calls are named by their times, so no two calls have the same; run and round
identifiers, which callers choose and the code requires to be new, are the
calls' times as well. The repositories of theses and components are any list of
blockers.

### OpportunityPublication

The two pointers a round publishes before its round file. A file is an inode
with content and stamp, because the code compares bytes and identity and the
direct publisher of `intelligence/opportunity_set_v2_1.py` rewrites the file in
place (`Open` truncates, `Write` completes) without the ledger's lock. The round
is `Begin`, then for each pointer `Read`, `Claim` (rename into quarantine),
`Compare`, and `Link`, `Restore` or `Drop`; `Commit` stands for the files of
`ResearchLedger`, and `Fail`, `LinkFails`, `Undo`, `RolledBack` are its failure
and rollback; `LinkFails` is also a quarantine or a temporary file that cannot be
made. An operation may end half done: by `Crash`; by `Strand`, where the claimed
file cannot be read or cannot be linked back; and by `Unrecorded`, where the new
file is linked and the call fails before it has reported the version. The first
two lose the pointer whose file is in quarantine (`Lost`). Only the path for
systems with directory descriptors is modelled. `before`, `alone` and `kept` are
history for the properties.

### UniverseRegister, UniverseStore

`UniverseRegister` is the promise: one register with the current attempt and a
chain of successful snapshots, replaced only by a client that has read what it
replaces. `UniverseStore` composes `observable_universe.py` with the runs of
`r1_research_cli.py`: `load`, then `succeed` and `confirm`, or `fail`; each is
an access of its own that waits for the advisory lock (`Acquire`, `TimeOut`,
`Release`), recovers an interrupted binding (`Recover`, `ClearFound`), decides
(`Look`, `Refuse`, `DecideSuccess`, `DecideFailure`) and writes file by file.
`Fail` and `Crash` may hit before every step, `FailUnsynced` after the pointer's
replacement; the system releases the lock of a process that dies. A manifest is
the chain of snapshots it ends, because it names its parent by hash. The
refinement maps the register to pointer, chain and what each run has read; all
other files are invisible to readers, which the refinement shows.

### MC modules and proof modules

`MCBacktestEngine`, `MCPaperStore`, `MCReconciliation`, `MCCostAccounting`,
`MCResearchLedger`, `MCOpportunityPublication` and `MCUniverseStore` define the
instances TLC checks. The theorems are in `OrderLifecycle_proofs`,
`BacktestEngine_proofs`, `CostAccounting_proofs`, `PaperStore_proofs`,
`Reconciliation_proofs`, `ResearchLedger_proofs`, `OpportunityPublication_proofs`
and `UniverseStore_proofs`, each of which extends the module it is about.

## 4. Runs

| Run | Instance | Shows |
|---|---|---|
| `lifecycle` | 2 orders of 1..3 shares | `TypeOK`; every interleaving of the methods keeps `StatusMatchesFills` and `TerminalIsFinal` |
| `engine_next_open` | 2 tickers; a session without bars and a holiday; GTC market orders; fees, tax and slippage of 1 %; reverse split 1:2 while orders are open, then a split and an unsupported action of one ticker on one date | `TypeOK`, `NoLeverageNoShort`, `FillsExplainBooks`, `OpenOrdersCarried`, `OrderStatusesMatch`, `SignalsExecuteOnTime`, `NoDuplicateOrders`, `SplitKeepsEquity` |
| `engine_same_close` | 2 tickers, 3 sessions, GTC limit orders at 10 %, at most one position | `VolumeCapShared`, `OlderOrdersTradeFirst`, `PositionCountLimited` |
| `engine_day_orders` | 2 tickers, 3 sessions, DAY orders, delisting, kill switch | `LifecycleRefined`: the engine implements `OrderLifecycle` |
| `engine_skipped_split` | 1 ticker, 4 sessions | finding 1 |
| `cost_accounting` | 5 fills and splits, 4 digits, ratios 1/2, 2, 3 | `TypeOK`, `ExactSplitsApply`, `StepsKeepBooks` |
| `store_writers` | 2 processes of one run, 3 dates, no faults | `TypeOK`, `TablesAgree`; `JournalKept`: `PaperStore` implements `PaperJournal` |
| `store_gate` | processes of two runs, 2 dates, 2 crashes, 1 damaged row, the gate beside them | `IdentityAccepted`, `AccountExplained`, `ResumesRecorded`, `VerdictJustified`, `CompleteHistoryDecides`, `ShortfallIsNew` |
| `research_ledger` | 2 processes, 4 calls, a prospective and a replay request, one past cutoff, 2 crashes or failures | `TypeOK`, `OneWriter`, `AckedRunsSurvive`, `LedgersBacked`, `CurrentRecorded`, `AssemblesLatestReady`, `CallsEnd` |
| `ledger_lost_request` | 2 processes, no faults | finding 2 |
| `opportunity_publication` | 2 pointers, 2 rounds, 2 direct publications, 2 failures, 2 crashes or operations left half done | `OwnVersionOnly`, `PointersKept`, `SinglePublicationUndone` |
| `universe_store` | 2 processes, 3 runs, 2 universes, 2 definitions of the evidence, 2 times, 1 fault | `StoreLoads`; `RegisterRefined`: `UniverseStore` implements `UniverseRegister`; `CallsEnd` |

Bounds. Three sessions are what an order needs to be created, partly filled and
concluded; more let a second and third rebalance meet it. Two tickers compete
for cash and for position counts; volume is per ticker, and two orders on it
come from two sessions. Bars have at most 5 tradable shares and budgets at most
8, so every fill may be partial, complete or refused. Two processes are enough
for every race of two transactions; a fill can be committed twice only with a
third date, which `store_writers` has. Two crashes allow one while recovering
from another. `MaxCrashes`, `MaxDamage` and `LastDate` are the only bounds on
behaviours of the store; the engine is bounded by its feed, `CostAccounting` by
`MaxSteps`. Four digits are fewer than three fills and a split need to be exact,
so roundings happen; `Tolerance` is four half units of the last digit of a total
below 100 plus half a unit of an average below 10 for each of 20 shares, rounded
up, and far below the commission of 1 that a wrong entry would lose.

Four calls are what it takes to record two requests or one, preflight it blocked
and then ready (or the reverse), and assemble it, and every order of two calls'
times and locks occurs. Two faults allow a crash, or a removal that fails,
within a rollback that the first fault has caused; one past cutoff lets a replay
be as of an earlier time and a prospective request refuse it. A round publishes
at most three pointers, one of them twice, and each may meet a direct
publication before, in and after its quarantine; its second crash or operation
left half done meets what the first has left, in the same round or the next.
Three runs of the universe command let two race over a store that a third has
bound, refused or left half bound; the same instance with two faults, and one
with three times, pass as well and only take longer. `LastTime`, `MaxFaults`,
`MaxCalls`, `MaxRounds`, `MaxDirect`, `MaxCrashes` are the bounds of these
modules. The largest instances are `opportunity_publication` with 4.6 million
states, `store_gate` with 1.5 and `research_ledger` with one, whose liveness
makes it the slowest (some two minutes).

Deadlock is checked in every run: a finished or aborted backtest, and processes
that have failed or have no session left, take the step `Finished`.

Fairness. Only the two `CallsEnd` need it, and they assume weak fairness of each
process: `WF_vars(Step(p))`, a process that runs goes on to the end of its call.
`Step` has no crash, no failure and no new call in it. The code justifies it
because no call ever waits without bound: the ledger's lock file refuses at
once, and the universe store polls its lock for 30 seconds and then gives up
(`TimeOut`), so no fairness of the lock is needed. The backtest loop terminates
because its feed is finite, SQLite's lock gives no fairness to wait on, and the
round of `OpportunityPublication` is part of a call of `ResearchLedger`; no
liveness is claimed of these.

### Findings

1. `NoActionSkipped`: a corporate action effective in a session without bars is
   skipped and never caught up.
2. `AckedRequestsSurvive`: intake does not compare its time with the newest
   ledger's, as preflight and assembler do. A call that has sampled its time
   earlier and gets the lock later writes a ledger that is not the newest: the
   request it reports as recorded is not in the history.

### Observed while modelling

These follow from the code and are visible in the models, most as the condition
under which a property is stated; no run is kept for them.

- `Portfolio.apply_split` (`portfolio/portfolio.py:127`) ends the backtest at a
  split of whole shares when the new average cost has no finite decimal, for
  example 10 shares bought at 10000 and split 3 for 1, although
  `docs/BACKTEST_ASSUMPTIONS.md:28` stops only fractional shares.
- `restore_portfolio` (`paper/state.py:490`) restores without verifying the
  chain (`docs/PAPER_TRADING_STATE.md:53` says otherwise), and of two processes
  of the same run that initialise a new database at once one fails on the
  primary key of the metadata (`paper/state.py:272`), because `executescript`
  has ended the transaction.
- `export_audit` (`paper/state.py:636`) verifies on one connection and exports
  on another: a commit in between lets the gate be ready against a broker that
  lacks the new session's shares. `ShortfallIsNew` bounds what it may lack: with
  a history that is not complete, only what was filled in sessions committed
  after the verification.
- `verify_integrity` reads the sessions (`paper/state.py:545`) and the fill index
  (`paper/state.py:593`) by two statements outside a transaction: a commit in
  between makes the verification of an intact database fail. `VerdictJustified`
  says that only this does. `TablesAgree`, of the two tables at any instant, is
  therefore not a statement about what a reader finds.
- A ledger write of the assembler that fails halfway leaves its torn file
  (`research_package_assembler_v2_1.py:1991` removes it only without directory
  descriptors), and so does a crash of any writer; every later load of the store
  then fails until somebody removes it. One that fails at the sync of the written
  file leaves a complete ledger, and so does a rollback that cannot unlink it
  (`research_package_assembler_v2_1.py:839` and `:1146`) and goes on to the run
  and the round. Such a ledger lists files that are gone, later ledgers copy the
  entry, and the call it stems from has reported a failure: `LedgersBacked`
  excepts the entries in `leftover`. A crash after the request file of intake
  leaves a file in the way of the same request.
- A crash between the history and the pointer of a preflight leaves a ready
  pointer that the assembler accepts although a later preflight was blocked:
  `AssemblesLatestReady` is about behaviours without faults.
- Candidates of one round share a pointer. Rolling back the last one restores
  the bytes the first one wrote, in a new file, and the first one's rollback
  then does not recognise its own version: the pointer is left with a candidate
  of the failed round, against
  `docs/TYPED_RESEARCH_PACKAGE_ASSEMBLER_V2_1.md:100`.
  `SinglePublicationUndone` is about a pointer published at most once, of the two
  only that of the set.
- A direct publication that was writing the pointer in place when a round read
  it is lost with the file it writes to: the exception in `OwnVersion`.
- A kill between claim and link, a quarantined file that cannot be read
  (`research_package_assembler_v2_1.py:1591`) and one that cannot be linked back
  (`:1578`, after which `:1605` unlinks the quarantine) leave the pointer without
  a file until it is published again, the last one without any crash.
  `PointersKept` excepts exactly that pointer.
- A link that is made before an error of the same call (the unlink of the
  quarantine or of the temporary name) is not remembered for the rollback, and
  the pointer is left with the failed round's version. `OwnVersionOnly` excepts
  the step and `SinglePublicationUndone` rounds with an operation left half done.
- A universe run whose pointer was replaced but whose directory could not be
  synchronised reports a failure of its own success as superseded.
- Targets queued for a calendar session without bars stay pending until the next
  rebalance replaces them, and slippage is added to a limit order's price after
  the limit was respected.

## 5. Theorems

TLC checks the instances of section 4; the theorems hold for every value of the
constants that the assumptions admit. Every safety property of section 4 is one,
the three refinements and the action properties included; two are liveness and
stay with TLC (see the end of this section). A theorem has the bounds of its
module as parameters, so it holds for any number of crashes, faults, calls, and
sessions.

Most properties are not inductive. Each module states the conjunction that is,
in named parts; TLC has checked the parts on the runs' instances, and each part
has one lemma that says that every step keeps it.

`OrderLifecycle_proofs`, for every set of orders and quantities:

- `TypesCorrect`, `StatusesCorrect`, `HistoryKept`. `TypeOK /\ StatusMatchesFills`
  is inductive: a status can be trusted only together with the fill count it
  was derived from.

`BacktestEngine_proofs`, for every calendar, feed, set of bars, targets, actions,
risk limits and configuration:

- `TypesCorrect`, `NeverShortNeverLeveraged` from `IInv`, which adds that a
  session's bars and date exist once it has begun. A buy is covered because
  `CanSettle` includes the fees computed at the executed price; a sale keeps
  cash nonnegative because fees are at most the notional (`FeesBounded`) and
  slippage at most the price (`SlippageBounded`); a split keeps holdings
  nonnegative because the ratio is positive.
- `SignalsOnTime`, `OpenOrdersNeverDropped`, `VolumeByAge`, `StatusesTellFills`
  from `OrdersInv`. Its parts say that a session makes one batch of orders at one
  point (`Batches`), that queued targets wait for the session after their signal
  (`OnTime`), which open orders wait, are worked or are done in each part of a
  session (`Carried`), that what has traded today is older than what still
  queues and a volume refusal left no volume (`FirstCome`), and what a status
  says of the fills (`AllMatch`).
- `EngineImplementsLifecycle`: the engine creates orders under fresh names and
  changes them only by the methods of `OrderLifecycle`, in the states in which
  those are allowed. It needs that `OrderLifecycle` admits every order size.
- `PositionsWithinLimit`: the limit that `evaluate` checks per order holds of the
  portfolio, for any number `Risk.max_positions`, because holdings change only
  by the fill that follows the check in the same attempt, and by splits, which
  open no position.
- `BooksExplained`, `VolumeShared` from `BooksInv`: cash, each holding and each
  order's filled quantity are sums over the audit trail, what a session has
  traded and may still trade on a ticker is its capacity, and an order that has
  traded today is not queued, so no two fills are the same record. The sums are
  folds over finite sets, and the replay of holdings is a recursive function
  over sessions: that a new fill adds its own term is shown by taking the
  smallest counterexample, which the order on the naturals gives, instead of by
  an induction theorem.
- `NothingOrderedTwice` (action property), for finitely many tickers: a new order
  asks for the target less what is held and owed, so holding and open remainders
  never add up to more than the target when it is made.
- `SplitsKeepEquity` (action property), for finitely many tickers and under
  `[]MarksDivide`: prices here are integers, so a mark that a split divides must
  come out even, as it does in every reachable state of `engine_next_open`. In
  the code a quotient may lose its last digit of 28.

`CostAccounting_proofs`, for every precision, price, lot and ratio:

- `TypesCorrect`: cash, shares and cost are never negative.
- `SplitsApply`: `Spec => []ExactSplitsApply`. A fraction may be reduced before
  it is rounded (`RoundedReduced`, from the uniqueness of quotient and
  remainder), so an exact quotient survives the division; the two totals are
  then products with the same value (`ProductKept`) and round to the same
  decimal. A refused split of whole shares is therefore due to the rounded
  quotient and nothing else; that refusal itself, observed above, is outside the
  theorem.
- `BooksBalance` (action property), under `[]ToleranceSuffices`: rounding half to
  even moves a value by at most half a quantum (`HalfEvenNear`, `RoundedNear`),
  the rest of a step is exact, so what it moves the balance of cash, cost and
  profit by is at most the half quanta of the decimals it computes. The
  hypothesis says that `Tolerance`, a parameter of the property and not of the
  code, is at least that, as it is in every reachable state of `cost_accounting`.

`PaperStore_proofs`, for any number of processes and runs, any accidents:

- `TypesCorrect`: in particular the write lock is held exactly by a process in
  its transaction.
- `OnlyOwnRun`: an identity read without the lock is still the database's,
  because metadata is inserted once and never changed (`Identified`).
- `TablesAlwaysAgree`: every state hash chains the digests of all
  sessions up to it, dates increase, fills are distinct and indexed (`Chained`);
  without an accident the payloads are the ones digested (`Undamaged`). The
  statement is of the committed tables at one instant; what a reader concludes
  that looks twice is `VerdictsJustified` below.
- `StoreIsJournal`: every commit maps to `Record` of `PaperJournal`, every other
  step, crash and accident to a stutter, or to the adoption of the database.
- `AccountAlwaysExplained`, `ResumesWhatIsRecorded`, under `OneProcessPerRun`:
  the memory of a process is what the newest checkpoint says or what its own
  pending call makes of it (`SoloInv`), so a restart loses nothing and a retry
  applies nothing twice.

`Reconciliation_proofs`, with any number of exports beside the store:

- `CompleteHistoryAgrees`, under `OneProcessPerRun`: although verification and
  export read at different moments, the exported account is explained by the
  exported fills (`ExportExplained`).
- `ShortfallsAreNew`, under `OneProcessPerRun`: the account of the row that was
  last when verified is explained by the fills up to it, and every later row adds
  its own, so what a passing snapshot lacks are fills of later rows.
- `VerdictsJustified`, without hypothesis: the rows read are still a prefix of the
  table when the index is read, up to payloads and hashes an accident has changed,
  and an accident changes no state hash. A changed payload in rows that pass
  would contradict the chain; without accident the rows agree with an index of
  the same length, so a failure means that the table has grown. What damage does
  to a process that restores without verifying is not covered.

`ResearchLedger_proofs`, for any number of processes, requests, blockers, cutoffs,
calls and faults, those of a rollback included:

- `WritersExclude`: `Exclusive` is the property itself and the domain of `pc`. It
  is inductive because only `Acquire` lets a process in, on a lock file that does
  not exist, and only the owner's end of a call, its death or an operator changes
  the file's owner. A refused call is the step where it could fail
  (`LockRemoved`): it must leave the file alone.
- `TypesCorrect`, `LedgersAlwaysBacked`, `ReportedRunsSurvive`,
  `CurrentAlwaysRecorded`, `RoundsFollowLatest` from `History`: no two ledgers
  have the same date (`LedgersDated`), and a draft adds one entry to the head the
  call found (`DraftExtends`), at each label either in place or not yet
  (`Stage`). A rollback may remove the newest ledger, so each property is kept
  together with the same statement about the head that its writer may fall
  back to: `AckedKept`, `CurrentKept`, `OverruledKept`. A rollback removes run and
  round only after the ledger, or passes the ledger by, and then its entries are
  in `leftover`: `LedgersAlwaysBacked` is about all others.

`OpportunityPublication_proofs`, for any pointers, shapes, rounds, direct
publications, failures and crashes:

- `PublicationsOwnVersions` (action property) from `Sound`: no file has two names
  (`Distinct`), and a file that was compared is still what it was compared with,
  except that one opened by the direct publisher may since have been written
  (`Compared`).
- `PublishedPointersKept` from `KeptInv`, killed or not: when a name is vacant in the middle of an
  operation, the quarantined file stands for it, and the file that a rollback
  would drop, one the round created and nobody has rewritten, is never the file
  of a pointer published for good. A step that loses the quarantine takes its one
  pointer out of `kept` and leaves all others in.
- `SinglePublicationsUndone` from `UndoneInv`: with nobody else publishing and
  no operation left half done, each
  pointer of the shape still has its old content, is being replaced, or is the
  version that the round noted as its own, with the old content beside it.

`UniverseStore_proofs`, for any processes, universes, definitions and times:

- `StoreAlwaysLoads`, `StoreIsRegister` from `Orderly`: the store loads once an
  interrupted binding is recovered, and what the lock's holder has decided is
  still fit to replace the pointer at every later step (`Prepared`), because
  nobody else writes while it holds the lock. Reading the
  pointer, replacing it and losing what was read are the register's steps,
  everything else is a stutter.

Assumptions. What the code validates: `FeedAssumption`, `BarsAssumption`,
`TargetsAssumption`, `ModeAssumption`, `QuantitiesAssumption`, and
`ActionsAssumption` but for a split and a reverse split of one ticker and date,
which are legal input and not modelled.
What makes a decimal context one: `PrecisionAssumption`. What separates values from markers, which no identifier
or content of the code is: `RunsAssumption`, `ProcessesAssumption`,
`LockAssumption`, `BlockersAssumption`, `FreeAssumption`, `NoneAssumption`,
`ContentAssumption`, `ShapesAssumption`; `BoundsAssumption` says that bounds are
numbers and past cutoffs times. What the code does *not* validate: `ConfigAssumption` (sell rate plus tax
at most one), `SlippageAssumption` (slippage at most the lowest price) and
`AmountsAssumption` (a commission at most the price of a share). With other values
a sale can cost more than it brings and cash becomes negative.

Hypotheses of single theorems. `OneProcessPerRun` holds of `store_gate`, and
`docs/PAPER_TRADING_STATE.md:87` promises nothing of several processes that share a
run. It is needed: with a second process of
the same run, a commit between the two connections of `restore_portfolio` and
`restore_open_orders` gives a process the account of one session and the orders
of the next. `MarksDivide` and `ToleranceSuffices` are state predicates that TLC
finds true throughout the two instances named above. `IsFiniteSet(Tickers)` is
what sums over tickers mean something for.

Only model-checked. `CallsEnd` of `ResearchLedger` and of `UniverseStore` are
liveness under fairness, which the prover does not reach. `NoActionSkipped` and
`AckedRequestsSurvive` are the two findings, false of the code. That
`engine_skipped_split` and `ledger_lost_request` violate them is shown by TLC's
traces. The operators of the community modules are used by their definitions.

## 6. Not modelled

The analytics in `intelligence/` (about two thirds of the code) are pure
functions from validated records to records; providers, pipelines and
command-line modules are I/O. The assembly of a security's package, the binding
of a run to the stages of its round and the comparison of observations are such
functions inside modelled components. The forecast ledger, the decision,
competence and attribution ledgers and point-in-time revision selection are
worth modelling and are next in the plan; they publish content-addressed files
the way the stores above do.
