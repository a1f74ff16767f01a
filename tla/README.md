# Formal verification of the perps exchange

TLA+ models of the exchange in `src/`: a perpetual-futures venue made of
Bun/TypeScript services that talk through Redis streams and one PostgreSQL
database. The models are checked with TLC on small instances; the theorems in
the `*Proofs` modules are proved with TLAPS for every value of the constants.

## 1. The system

```
 browser ── HTTP ──► api ──XADD──► order_events ──► engine ──MULTI──► engine_events ──► db-worker
                      │                 ▲              │                                    │
                      │                 │              └──► trade_events, orderbook_events  │
                      ▼                 │                              │                    ▼
                  PostgreSQL ◄──────────┼──────────────────────────────┼──────────── settlement tx
                      ▲                 │                              ▼
   funding-service ───┤            liquidator                         ws ──► browser
                      └─────────────────┘
   price-service ──► index_price:* (Redis), read by api, liquidator, funding-service
```

| component | state it keeps | operations | what makes it correct |
|---|---|---|---|
| order book, `apps/engine/src/OrderBook.ts` | per market: price levels with FIFO queues, orders by id (memory) | `submit`, `cancel`, `restore`, `snapshot` | price-time priority, limits respected, never crossed, no trade with oneself, reports tell exactly what happened |
| engine process, `apps/engine/src/index.ts` | the books; its lock in Redis; cursor and pending list of group `engine` | `acquireLock`, renewal, `waitForDbWorker`, `rebuildBooks`, `handleEvent` (`processCreate`, `processCancel`), trimming | each command answered once and in order; a restart rebuilds the book that was lost; one engine at a time |
| redis library, `packages/redis/src` | – | `consumeGroup`, `ensureGroup`, `getGroupLag`, `trimConsumedEntries`, `getIndexPrice` | at-least-once delivery in order; nothing unread is trimmed |
| db-worker, `apps/db-worker/src` | all money in PostgreSQL: users, orders, fills, positions, fees, insurance; `ProcessedEvent` | `handle`, `applyEngineResult` (`applyTrade`, `settleSide`, `applyOrderState`, `flush`), pruning | each result applied exactly once, in order; money conserved; locked money backed; terminal orders stay so |
| api, `apps/api/src` | rows it writes; rate-limit buckets; cached status | `placeOrder` and its rollback, cancel, close, sign-up, reads | reserve and row written together, undone if the command is not enqueued; no more reserved than owned; reduce-only never opens |
| liquidator, `apps/liquidator/src` | retry times per position (memory); rows of closing orders | `scan`, `triggerLiquidation` | positions under maintenance margin are closed, one order at a time; its rows are written without locking the user |
| funding-service, `apps/funding-service/src` | `FundingRate` per period | `runDue`, `runMarket` | each period applied once; zero-sum |
| price-service, `apps/price-service/src` | last prices in Redis | `tick` | stale prices are not used |
| ws, `apps/ws/src` | connections, stream cursor (saved once a second at most), latest books | `listen`, `broadcast`, heartbeat | everyone has the same book; books step back only while what was missed is replayed; what the stream keeps arrives |
| common / db packages | shutdown hooks; transactions | `installLifecycle`, `withTransaction` | hooks run once, aborted transactions tried again |
| web, deploy, types, migrations, generated client | – | – | – |

Interactions that are hard to test: every process may stop between any two
calls, and is restarted (`restart: unless-stopped` in
`deploy/docker-compose.prod.yml`); the Redis client resends a call whose reply
was lost (`maxRetriesPerRequest: null`); a consumer group redelivers what was
not acknowledged; the engine's book exists only in memory and is rebuilt from
rows the db-worker writes later; the API's row and its command are two writes;
funding, liquidation and settlement change the same accounts between the
moment an order reserves margin and the moment it is matched.

## 2. Modules

| module | source | contents |
|---|---|---|
| `Matching` | `OrderBook.submit` | Pure operators: what an incoming order must trade with, what is left, what rests, in closed form. |
| `OrderBook` | `OrderBook.ts` | The loop: one action per maker met, plus submit, finish and cancel. Checked against `Matching`. |
| `PriceLevels` | `OrderBook.ts`, class `BookSide` | The data structures: sorted prices, queues with consumed heads, compaction, totals, snapshots. Implements `OrderBook`. |
| `Results` | events, `processCreate/Cancel`, `applyEngineResult`, `rebuildBooks` | Commands, results, and what a result does to the Order table. |
| `Exchange` | – | Abstract specification: commands take effect one at a time, at once, in stream order. |
| `Pipeline` | api, engine, db-worker, consumer groups | The processes, the streams, their cursors and pending lists, and faults. Implements `Exchange`. |
| `Settlement` | `settleSide`, `applyOrderState` | Pure operators: what one side of a trade does to an account. |
| `Funding` | `runMarket` | Pure operators: what a funding period moves between the holders of positions. |
| `Ledger` | orders and positions of the api, settlement, liquidator, funding | `Exchange` with money: reserves, margins, fees, insurance, positions, funding. |
| `Accounts` | `placeOrder` and its rollback, `applyEngineResult`, `runMarket`, `triggerLiquidation` | Abstract specification: the tables that hold money, and the transactions as single steps on them. |
| `Transactions` | the same, `withTransaction` | The transactions statement by statement under PostgreSQL's row locks, with deadlocks, attempts and deaths, and beside them the liquidator's statements, which lock no user. Every commit is a step of `Accounts`. |
| `ConsumerGroup` | `consumeGroup`, `ensureGroup`, `trimConsumedEntries`, `handleEvent` | One stream, its group, its consumer and its trimming timer, call by call, with every failure. |
| `Liquidator` | `apps/liquidator/src/index.ts`, `getIndexPrice` | The scan call by call, its backoff, its crashes, against moving prices, users and settlement. |
| `EngineLock` | `acquireLock`, `startLockRenewal`, `main`, `lifecycle.ts` | The lock against a second engine: expiry, renewal, shutdown hooks, in ticks of time. |
| `WsFanout` | `apps/ws/src/index.ts` | The gateway: a stream that is cut, priming, cursor, fan-out of books, clients that come and go. |
| `MC...` | – | Instances for TLC. |
| `Optional` | – | The constant `None`, for a row, a column or a position that does not exist. |
| `OrderBookProofs`, `PriceLevelsProofs`, `PipelineProofs`, `LedgerProofs`, `TransactionsProofs`, `RedisProofs` (of `ConsumerGroup` and `EngineLock`), `ServiceProofs` (of `Liquidator` and `WsFanout`) | – | Theorems. The modules that one of them extends together have different names for everything (`FanoutSpec`, `LockSpec`). |
| `OperatorProofs` | – | Lemmas about sums over finite sets, ranks in finite orders, sequences, and the operators of `Matching`, `Settlement` and `Funding`. |

How they compose: `OrderBook` shows that the loop computes `Matching`, order by
order, and `PriceLevels` that the code's queues behave as `OrderBook`'s set of
resting orders. `Results`, `Pipeline` and `Exchange` therefore use `Matching` for a whole
`submit`: within one engine nothing runs between the iterations (the function
has no `await`). The run `Pipeline` shows that the database of `Pipeline` behaves
as `Exchange`; `Ledger` therefore extends `Exchange` for the orders and
adds the accounts. Its interleavings are those of placing, enqueueing,
cancelling, settling, closing, liquidating and funding. `EngineLock` is what
`Pipeline` takes for granted in having one engine; `WsFanout` reads a stream the
engine writes and touches nothing else.

Three modules look at what the others take as one step. `Transactions` shows that the
transactions of PostgreSQL, which `Pipeline` and `Ledger` have as single steps, behave
so (`ActsAtomically`); it uses the arithmetic of `Settlement` and `Funding`, as `Ledger`
does. `ConsumerGroup` has the failures of the consumer loop that `Pipeline`
leaves out: lost answers, failed XACKs, a missing group, trimming. `Liquidator` splits what
`Ledger` has as `Liquidate` into its calls; engine and settlement are reduced there to
what they do to quantities.

### Correspondence and abstractions

* **Order book.** An order is a record; `qty` is what is left of `orig`, so
  `filledQuantity = orig - qty`. `seq` is its place in the order stream, which
  is its place in its queue. Prices are ticks, quantities steps:
  `validateOrderNumbers` admits only multiples of both, so `roundQty` never
  changes a value. In `OrderBook` a book is the set of what rests,
  and `Candidates` the best of it; `PriceLevels` has the levels, and maps to that
  set what is left in its queues from their heads on. It knows an order object
  by its `seq`, where the code compares references. Trade ids, timestamps and
  reasons are left out. `before` is a ghost: the book and the order at the last submit.
* **Commands.** A command is `[kind, id]`; what an `ORDER_CREATE` carries is in
  its row and never changes there (a market order's row has a null price and
  its limit travels in the event: the model keeps it in the row). Place in the
  stream stands for both `eventId` and `engineSeq`; `seq = 0` is a null
  `engineSeq`/`acceptedAt`.
* **Consumer groups** in `Pipeline`. `eRead`/`wRead` are last-delivered-ids and
  `ePending`/`wPending` pending entries lists. Acknowledging never fails apart
  from a crash. One MULTI publishes and acknowledges. `committed` is the moment
  between the worker's commit and its XACK. Groups exist from the start: both are
  created at "$" when a service first runs, before the exchange is used.
* **Faults** of `Pipeline`, at most `MaxFaults` in a behaviour: death of the API with
  requests half done, a refused XADD, death of engine or worker at any point, EXEC
  carried out and reported as failed, a MULTI carried out twice, and, where
  `Resends` is TRUE, an XADD carried out twice. An XADD that *reports* failure
  was not carried out: the client never gives a request up while it runs.
  An XREADGROUP whose answer is lost is in `ConsumerGroup` alone.
* **`ConsumerGroup`.** Entries are numbers; `first..last` is the stream. `autoAck` chooses
  between the db-worker (handle, then XACK) and the engine (one MULTI for both, and a
  shutdown when EXEC fails, before or after Redis has run it). `aged` stands for
  `retainMs`. XTRIM with `~` removes any number of entries up to its boundary.
  `lost` and `unanswered` are history: what was in the stream before the group was made at
  "$" (or in the stream Redis lost), and what an XREADGROUP delivered without an answer.
  The client sends that call again and gets the entries *after* those;
  `consumeGroup` reads what is pending only when it starts.
* **`Transactions`.** A process is at the point before its next statement; `rows` are those
  it must lock first, one at a time, in the order of the code; `seen` is what it has read,
  and what it writes is computed from `seen` alone and written at its commit. Reads without
  FOR UPDATE see what is committed then. The liquidator's INSERT and UPDATE of a closing order
  are statements on their own: they lock the row of the order and not the user's. It finds any
  position of one unit under margin (prices are not modelled) and writes one order for it, as it
  was at the scan. What a liquidation leaves of a margin goes to the insurance fund, a row that
  settlement reads at its end and nobody else touches. Locks of a row are granted in the order they were
  asked for. A deadlock is a set of transactions each of which waits for
  another; any of them may be aborted, and is tried again `MaxAttempts` times. `runDue`'s
  check, the unique key of `FundingRate` and `AlreadyApplied` are there; of stale prices
  nothing. A funding period locks users by what was open at its read, and leaves out
  positions of others. One unit per order, no fees. `acceptedAt` in the rollback's
  check is left out: an order whose XADD failed is not in the stream. A cancel of an order the engine does not have is answered
  `not_open`: its result locks the row of the order and changes nothing, which is
  how settlement can meet the rollback.
* **`Liquidator`.** A position is an id, a signed quantity and the set of prices at which it
  is under maintenance margin (`risk`), which any trade that enlarges it may change.
  `waits` is `nextAttempt`, with the time left instead of a time. One scan reads prices
  once, positions once, and then works through them; users place, fill and
  cancel meanwhile. A row of a liquidation order that is over and that nothing refers to is
  used again, and so are ids of positions, so that the state space is finite. The engine may fill
  any part of a closing order; the rest is discarded (market orders never rest).
  Results that change no row (`not_open`) are left out.
* **Money.** One unit is a millionth; a price tick times a quantity step is one
  unit, so `roundMoney` only matters after a division. Entry prices, which the
  code never rounds, are exact fractions. (The program's numbers are IEEE
  doubles; what they lose below a millionth is not modelled.)
* **Engine lock.** One action per step of `main` that matters to the lock. `age`
  is the time since the SET was carried out, or since the renewal timer was set or
  last fired. `punctual` stays true while no timer and no reply is later than
  `Late`; a pause of the process or of Redis makes it false. A restarted
  process has a new `instanceId`, so a lock left behind belongs to nobody
  (`Orphan`). A renewal and its reply are one step. The hooks registered depend on
  how far `main` is when the stop comes: none that holds a lock (`Quit`); the release only, which
  then runs at once (`Release` from `recovering`); or the loop's too, which is waited for first
  (`Drain`, then `Release`). `leaving` is an engine past its release: one that was stopped during
  `rebuildBooks` may still be in its awaits there, and publish snapshots, until it exits; the loop
  that matches does not start.
* **Gateway.** A book is the place of its update in the stream. One read and all
  its broadcasts are one step, because the callback has no `await`. The engine writes the
  stream with MAXLEN ~ 1000: `Update` may cut it anywhere down to `Cap` updates, `trimmed` is the
  last one that is gone, and XREAD goes on from what is left. `Save` is any time, so that
  `saved` lags behind what was sent; `primed` is where the stream ended when the books were
  loaded. Whether a saved cursor is young enough is left open. The trade stream (no cache) is left out; a
  socket that is slow or misses a heartbeat is a client that disconnects.
* **Ledger.** One market. `accounts.pools` is `lockedMargin`. An index price is
  any of `Prices`, chosen anew each time one is read; a stale price refuses the
  action, which is not taking it. A route that reads the position before
  `placeOrder`'s transaction may have read any quantity, so `Close` takes any
  that the transaction accepts. The liquidator's read of the position, its
  cancels and its row are one step; its XADD is a step of its own (`Enqueue`),
  and so is its failure (`Unplace`). Order ids are handed out in numeric order,
  which loses no behaviour: names of orders do not matter.

## 3. What TLC checks

| run | what it shows | instance |
|---|---|---|
| `OrderBook` | `NotCrossed`; `MatchesReference` (same trades in the same order, same book, same verdict as `Matching`); `ReportsTellTheBook` | 4 orders, 2 users, 3 prices, quantities 1–2, limit and market; orders and users symmetric; 0.48 M states |
| `PriceLevels` | `LevelsInOrder`, with no level used up; `SnapshotTellsTheBook`; `ImplementsBook` (refinement of `OrderBook`) | 4 orders, 3 users, 3 prices, 5 submits, threshold 0 instead of 64, snapshots of 2 levels; 50 k states |
| `Pipeline` | `FillsExplainRows` (exactly-once); `RestartKeepsTheBook`; `OneVerdict`; `PublishedInOrder`; `SettledPrefix`; `ImplementsExchange` (refinement of `Exchange`) | 3 orders, one of them a market order, partial fills, 1 cancel, batch of 2, 2 faults; 0.64 M states |
| `PipelineLive` | `TerminalIsFinal`, `PlacedIsDecided`, `CancelEndsOrder`, with commands that may be in the stream twice | 2 orders, one limit or market, 1 cancel, 1 fault, fair; 33 k states |
| `PipelineDuplicate` | finding: `DuplicatesIgnored` is violated | 2 orders, 1 fault |
| `Ledger` | `TypeOK` (nothing negative); `LockedBacked`; `MoneyConserved`; `OpenInterestBalanced`; `TerminalHoldsNothing` | 4 orders, 2 users, 2 index prices, 5 commands, 1 funding period; 3.4 M states |
| `LedgerReduceOnly` | finding: `ReduceOnlyNeverOpens` is violated | 5 orders, 2 users, 1 index price |
| `EngineLock` | `OneEngine` (no engine rebuilds the book it goes on to match from, or matches, beside another) and `EngineComesBack`, while `punctual`; `NotTakenAway`; `LoserStops` | 2 processes, time to live 6, interval 1, delay 1, 1 failed renewal, 3 faults: the shortest time to live that is `Timely`; 0.14 M states |
| `WsFanout` | `ClientsShareTheCache`; `CacheIsNotBehind` (of the place the gateway has read to, not of what was sent before it died); `GoesBackOnlyInReplay`; `UpdatesArrive`, unless they are cut off first | 2 markets, 2 clients, 3 updates, a stream of 2 and a window of 2, reads of 2, 2 stops or failed calls; 54 k states |
| `Transactions` | `MoneyConserved` at every commit, the insurance fund included; `ActsAtomically` (every commit is a step of `Accounts`); `PeriodOnce`; `PeriodIsFunded`; `FailedOrderEnds` | 3 users, 2 of them with positions of one unit, one resting order, one to place and one of the liquidator for the same user, 2 funding instances, rates of both signs, 1 result, 1 fault, 2 attempts, fair; 0.36 M states |
| `ConsumerGroup` | `NothingLiveTrimmed`; `AcknowledgedIsDone`; `EngineHandlesOnce`; `HandledInOrder`; `EveryEntryHandled` | 4 entries, reads of 2, 2 failures, both consumers; 0.29 M states |
| `Liquidator` | `OneInFlight`; `UnderMarginEnds` | 1 user, 1 order of the user, 2 rows, 2 prices and none, backoff up to 2, 1 fault; 0.59 M states |

Why the bounds are enough for the cases that matter. Four orders at three prices
give two makers at one price and one at a better, a taker that exhausts one and
takes part of the next, an own order ahead or behind, and a remainder that rests
and is met again. In `PriceLevels` the threshold of 0 makes both outcomes of
`compact` happen with queues of two and three: sliced, and skipped but kept. Two faults give a restart during the recovery from a restart,
and a batch of two a batch that is half handled. In `Ledger`, `u1` can pay for little
more than one unit, so that fees are waived, losses exceed the balance, orders
open with less margin than due and the position is liquidated at the second
price; a bid for three units is filled in parts, and a trade flips a position.
In `Transactions` user 3 is short one unit; an order of that user and the liquidator's
race to close it, while user 2's order rests: the closing order is
read by `placeOrder` before and after it is written and rejected, a trade leaves user 2 with a
position a funding period may have read or not. The order of user 3 reserves nothing, or, when the
closing order is counted or the position gone, a margin; what the user has is enough for that or for
the funding, not for both, so that funding is paid from the margin and orders are refused. One result is
enough for settlement to meet the rollback and both funding instances, with `FundEnds` before,
between and after its statements; that it applies several results in order is `Pipeline`'s.
With two attempts for five an abort is followed by a second one as well as by success.
The period has one receiver here: how a payment is divided among several is left to the
theorem `MoneyKept`, which has any number, with quantities that do not divide it.
In `WsFanout` three updates of two markets in a stream of two are enough for the only update of
one market to be cut off before it is read, and for a saved cursor two updates behind. In `ConsumerGroup` four entries are two reads, so one can
be pending, one half handled, one undelivered and one trimmed. In `Liquidator` one resting
order can be in the way of, or race, the closing order, and can flip the position.

`CHECK_DEADLOCK FALSE` is set where the system may stop: when every order is
placed and over, or every entry written and handled, and the bounds are used up, it is
idle.

**Fairness.** `FairSpec` assumes weak fairness of the engine's and the worker's
steps taken together (start, read, handle, acknowledge), because Docker restarts
both when they stop and their loops never end, and of the XADD and the rollback
of each order, because a live API finishes its requests. Nothing is assumed of
users, of cancels or of faults, and `ApiCrash` may still cut a request short.
`PlacedIsDecided` accordingly excuses exactly the orders the API's death lost.
`EngineLock` assumes that time passes, that a process which is down is started
again, that `main` does not hang and that the timer fires; nothing of signals,
deaths or failed renewals, of which only so many happen in a row. `WsFanout`
assumes that the gateway is restarted and its loop goes on. `Transactions` assumes of all
statements together that one is executed while any can be (`WF` of `Work`): PostgreSQL is
never idle while a transaction can go on. `ConsumerGroup` assumes that the consumer's
loop goes on and that it is restarted. `Liquidator` assumes that scan, engine and settlement
go on and time passes, and that not for ever is there less in the market than a closing
order is for when none of the user's own orders is in its way (`SF`): without a market
nothing can be closed. Nothing is assumed of prices or users.

`EveryEntryHandled` and `UnderMarginEnds` have the exceptions the code has. An entry whose
answer was lost stays pending as long as the consumer runs. A position stays in danger when a
row is *stuck*, written without its XADD by a liquidator that died there, for every later scan
stops at the in-flight check (only a fault can leave one: without it a stuck row is no excuse); and
while closing orders are `Outdated`, each written from a scan that read the position before
the last one was settled, which needs an engine that is slower than the backoff.

A type invariant is checked where it says more than a shape (`Ledger`: nothing is negative);
those of `OrderBook` and `EngineLock` are proved, as parts of their inductive invariants.

**Mutants.** For every property of every passing run `PROJECT.json` names a
plausible bug (`..._Kept`, `..._AtOnce`, `..._Skipped` and so on, each defined
next to the operator it replaces) under which TLC finds the property violated.

### Findings

1. *A create that is in the stream twice is not always ignored.*
   `processCreate` (engine `index.ts:174`) asks whether the order is **in the book**.
   An order that filled or was discarded at once is not, so the second copy is
   matched again under its own `eventId`, and settlement books fills beyond the
   order's quantity. The log line at 175 says "duplicate order event ignored".
   Run `PipelineDuplicate`. The stream holds the create twice when the API's client
   resends an XADD whose reply was lost: `createRedisClient` sets
   `maxRetriesPerRequest: null` and leaves the client's resending of unanswered
   commands on.
2. *A reduce-only order can open a position.* `triggerLiquidation` counts only
   liquidation orders as in flight; with a close order on its way it writes a
   second closing order for the full quantity. Both fill, and the second opens
   the opposite position, with no margin reserved. `placeOrder` (`orders.ts:113`)
   refuses exactly this: "Reduce-only quantity exceeds open position size." Run
   `LedgerReduceOnly`.

### Limits met while modelling, which no document denies

* *A lost answer of XREADGROUP.* The connection breaks between Redis carrying out the call
  and the reply; the client sends the call again and gets the entries after those. The first
  ones stay pending until the process restarts, and the later ones overtake them
  (`HandledInOrder` and `EveryEntryHandled` except exactly these). Everything that `Pipeline`
  shows of order and progress supposes that this does not happen.
* *A group made at "$".* After Redis has lost its data, what is written before the consumer
  notices is never delivered (`lost` in `ConsumerGroup`).
* *The gateway's start.* Sockets accept clients before `primeLatestBooks` has loaded
  anything, and it does not send them what it loads; an update published between
  `primeLatestBooks` and `initialCursor` is neither loaded nor read. Such a client waits
  until its market changes; `UpdatesArrive` speaks of what is behind the cursor only.
* *A stuck closing order*, as above.
* *Books step back after a restart.* The gateway saves its cursor once a second at most, and resumes
  there: clients that connect again may get a book older than one they had, until it has
  caught up (`GoesBackOnlyInReplay` says not after). `CacheIsNotBehind` is about the saved
  cursor and what is read behind it.
* *Updates that are cut off.* `orderbook_events` keeps about 1000 updates. A gateway further behind
  than that misses the only update of a quiet market for good (`UpdatesArrive` excepts it).
* *An engine that leaves during its rebuild.* The lock is released while `rebuildBooks` is
  still awaiting, since no hook waits for it: until the process exits it may publish snapshots of the
  book it read, after the next engine has published newer ones. It matches nothing (`OneEngine`).
* *An order counted as it was.* `placeOrder` counts a user's open orders without locking them,
  and the liquidator writes its own without locking the user: the reserve may be that of a set of
  orders one statement old (`PlaceOne`). It does no harm to money (`MoneyConserved`); an order
  that then opens more than it reserved for is finding 2, and stays backed (`LockedBacked`).

## 4. What is proved

For all orders, users, prices, batch sizes, requests and numbers of faults, from
the assumptions named in the modules (`OrderBookAssumption`, `LevelsAssumption`, `NoneAssumption`,
`PipelineAssumption`, `NoRowAssumption`, `SettlementAssumption`, `FundingAssumption`,
`LedgerAssumption`, `LockAssumption`, `GroupAssumption`, `LiquidatorAssumption`,
`FanoutAssumption`, `AccountsAssumption`, `TransactionsAssumption`):

| theorem | statement |
|---|---|
| `BookTypeCorrect`, `BookNeverCrossed` | `Spec => []TypeOK`, `Spec => []NotCrossed` of `OrderBook` |
| `BookMatchesReference`, `BookReportsTell` | `Spec => []MatchesReference`, `Spec => []ReportsTellTheBook` of `OrderBook`: the loop against the closed form |
| `LevelsKeepOrder` | `Spec => []LevelsInv` of `PriceLevels`, the inductive invariant of levels, index and loops |
| `LevelsAreInOrder`, `SnapshotsTellTheBook` | `Spec => []LevelsInOrder`, `Spec => []SnapshotTellsTheBook` of `PriceLevels`, for every threshold and depth |
| `LevelsImplementBook` | `Spec => ImplementsBook`: the refinement of `OrderBook` by `PriceLevels` |
| `PipelineOneVerdict`, `PipelinePublishedInOrder`, `PipelineSettledPrefix` | the three invariants of `Pipeline` about the streams |
| `PipelineTerminalIsFinal` | `Spec => TerminalIsFinal`, with or without resent commands |
| `PipelineIsSequential` | `~Resends => (Spec => []Sequential)`: the database is a state of the sequential exchange, and the engine's book the one of a later such state |
| `PipelineRestartKeepsTheBook` | `~Resends => (Spec => []RestartKeepsTheBook)`: rebuilding loses and adds no order |
| `PipelineFillsExplainRows` | `~Resends => (Spec => []FillsExplainRows)`: every row tells what its order's fills add up to, exactly once |
| `PipelineImplementsExchange` | `~Resends => (Spec => ImplementsExchange)`: the refinement of `Exchange` |
| `SettleSideMovesMoney` | one side of a trade, whatever it closes, opens or flips: balance, reserve and margin stay natural numbers, the money of user, fees and insurance grows by the realized profit alone, what is locked stays backed to the unit, exposure moves by the traded quantity |
| `RefundMovesMoney` | the same for giving back a reserve |
| `LedgerTypeOK`, `LockedIsBacked`, `InterestIsBalanced`, `EndedOrdersHoldNothing` | `TypeOK`, `LockedBacked`, `OpenInterestBalanced`, `TerminalHoldsNothing` of `Ledger`, all from `LedgerInvariant` |
| `MoneyIsConserved` | `Spec => []MoneyConserved` of `Ledger`, also from `LedgerInvariant` |
| `LockOneEngine`, `LockTypeCorrect`, `LockNotTakenAway` | `Timely => (Spec => []OneEngine)`, `Spec => []TypeOK` and `Spec => NotTakenAway` of `EngineLock` |
| `TrimKeepsLiveEntries`, `AcknowledgedAreDone`, `EngineHandlesEachOnce`, `FirstHandledInOrder` | the three invariants and `HandledInOrder` of `ConsumerGroup` |
| `TransactionsInvariant` | `Spec => []TransInv` of `Transactions`: what has been read stays so until the transaction ends, but for closing orders of the liquidator read unlocked |
| `CommitsAreAtomic`, `PeriodFundedOnce` | `Spec => ActsAtomically`, `Spec => PeriodOnce` of `Transactions`, from it |
| `MoneyKept` | `Spec => []MoneyConserved` of `Transactions`, from `MoneyInvariant` and `TransactionsInvariant` |
| `FailedOrdersEnd` | `MaxFaults < MaxAttempts => (Spec => []FailedOrderEnds)` of `Transactions` |
| `OneClosingOrder` | `Spec => []OneInFlight` of `Liquidator` |
| `FanoutSharesTheCache`, `FanoutNotBehind`, `FanoutGoesBackOnlyInReplay` | `Spec => []ClientsShareTheCache`, `Spec => []CacheIsNotBehind` and `Spec => GoesBackOnlyInReplay` of `WsFanout` |

`~Resends` is not a convenience: when the API's client sends an XADD again that Redis has
run, an order can trade more than it asked for, and `PipelineDuplicate` shows how
(finding 1). Without that, everything else may fail as often as it likes: API, engine and
worker may die between any two calls, an EXEC may be reported as failed after it was run,
and a MULTI may be run twice.

**`BookInv`** (behind the first row) strengthens `NotCrossed` with: ids in the book
are distinct, an order being matched is not in the book, has a non-zero original
quantity and no other order has its place in the stream. `NotCrossed` alone is
not inductive: that a remainder rests without crossing follows from the loop's
exit (`Candidates` is empty, so nothing on the other side crosses), which needs
that a best order exists among finitely many distinct places.

**The loop against the closed form** (`RefInv`). `before` holds the book `b` and the order `t` that
submit began with. While the loop runs there is a set `D` of makers it has met (`Loop`):
`D` is a first part, in priority, of those `t` can match with (`Met`); the trades are the queue of `D`, each for
what the closed form `FillQty` gives; the book is `b` without `D`, plus what is left
of a maker that gave only a part; and `t` wants what `D` did not have. The candidate of the
next iteration is the first of those not met (`CandidateNext`), and gives `FillQty`
(`NextMet`). When the loop ends `D` is `Makers(b, t)`: the order has all it
wants (`EnoughMet`), or nothing it can match with is left, or its own first order is
in front. `PipelineProofs` reasons about the closed form only, so these two theorems are what
ties the pipeline to the loop of the code.

**The levels** (`LevelsInv`). The prices of a side are sorted, and are those of the levels that
exist; in a queue the orders are in the order they came, each with a price and side that are the
level's, the consumed ones are at the front, and `total` is the sum of what is left; the index
has exactly the orders with something left, and finds each by side, price and `seq`
(`LevelsOK`). Between calls a consumed order is before the `head` (`Clean`); inside the loops only the
best level may have others, all of them before the loop's position, and only while it is in
that level (`LoopOK`): the level's head is stale until `compact`, which is why `remove` may look from the head on,
and why `submit` must call `compact` on both ways out of the inner loop. After a self-trade stop the
user's own order is still the first (`StopOK`), so the outer loop's second condition and the
model's agree. The lemmas say what `insertPrice`'s binary search returns (`SearchFinds`: there is no
shortest interval on which it goes wrong), that `compact` never uncovers or drops a live order
whatever the threshold, and that a queue's sum moves with `total`. `LevelsInOrder` and
`SnapshotTellsTheBook` follow; the second needs that a snapshot takes the prices in order and
skips none.

**The levels as a set** (`LevelsImplementBook`). `Live`, what is left in all queues from their heads
on, is the abstract book. The first order of the best level is the abstract `Candidates`:
nothing crosses at a better price because there is no other level, and nothing at that price
came before. `EnterLevel` and `LeaveLevel` stutter, as consumed orders are not in `Live`; a
`Meet` is `Match`; `Rebuild` stutters, because restoring in the order of `engineSeq` gives the same
set (there is no first order after which it does not).

**`PipeInv`** (the streams) says where every command is. The commands the engine
has read form one interval; those pending and not handled are after every
published one, except a command whose result was published without its
acknowledgement, which cannot happen because both are one MULTI. An inbox is the
head of the pending list in order. The worker's side is the same with `processed`
in the place of the results. `OneVerdict` then says that results with one command
are neighbours made by one step.

**Terminal rows** (`TableInv`): a table step changes a row only through
`Updated`, which keeps a terminal status, and through the rollback, whose guard
asks for `open`.

**The database lags behind the engine** (`ExchangeInv`, with `PipeInv` and `TableInv` the
inductive invariant `Sequential`). There are tables `V[s]`, ..., `V[a]`, where `s` commands
are settled and `a` answered: `V[s]` is the Order table, each is the one before it with the
outcome of the next command (`Tables`), every result in the stream is the outcome of its
command on the table it met, and while an engine runs its book is that of `V[a]`
(`Answers`). Every row the API has written is in all of them (`Agree`): a row that is
placed or undone meanwhile changes all the tables alike, which needs that its command is
not among those between (`CommandsOK`). A result that the engine computes is then the
outcome of the next command, a result that is settled moves `s` by one, and the book a
new engine rebuilds once the worker has caught up (`s = a`) is `BookIn(V[a])`, the one
that was lost.

**Refinement.** `Exchange` has the variables `rows`, `fills`, `commands` and `settled`;
`Pipeline` maps `settled` to the number of processed results. The worker's commit is the step
of `Exchange`, and the invariant says that what it writes is the outcome of the next
command on the table itself. Engine, acknowledgements and faults stutter.

**Fills** (`FillsInv`). What an order's fills add up to grows, in one command, by what its row
loses. The lemma `FillsAddUp` says so of `Matching`'s closed form: taker and makers trade
what `Unfilled` and `FillQty` take from them, where trades are numbered by a bijection
between places in the queue and makers.

**Settlement**: each of the three parts (reduce, charge, open) is shown to satisfy
`Moved` between the account before and after; the theorem composes them. The
arithmetic lemmas bound `Round` of a share by the whole.

**The ledger** (`LedgerInv`). `LockedBacked` says that a user's `lockedBalance` is the sum of what the
user's orders reserve plus the margin of the position; a step changes it for one user and
one order (`Reserve`, the rollback, a refund), for two users and two orders (each trade,
by `SettleSideMovesMoney` twice), or for the position of everyone who pays funding. That
no order over holds a reserve (`NothingHeld`) is needed for that: the rollback gives back a
reserve without looking for it in the position. Settlement meets rows and terms that exist
(`TermsOK`, `CommandsOK`) and two orders that are not the same (`RowsOK`: no two have one
place in the stream). The interest of a trade cancels because its two sides have opposite
directions. That `Fund` leaves every margin at zero or more is `PaymentBounds`.

**Money** (`MoneyInv`). `MoneyConserved` subtracts a rounded cost for each position, and is not
inductive: an entry price is an exact fraction, and what a later trade realizes of it is
rounded on its own. The inductive form subtracts exact costs. There is a unit `1/D` in which the
cost of every position is whole (`Costs`), and twice the difference of money and costs, in that
unit, stays within `D` times the sides settled, of which a trade has two (`Conserved`): half a
unit of money per side. Settling one side changes the exact cost by what was traded and the exact
part realized, and the money by that part rounded (`SideExact`, `SideConserved`); what the
buyer's position costs more, the seller's costs less (`TradeConserved`). A result is a path of
accounts, one step per trade (`TradesInOrder`, `TradesConserved`). Reserves, refunds and the
rollback move a user's own money (`SameMoney`), and funding moves between users, remainder
included, what it takes (`SharesAddUp`). Rounding the cost of each position in the end adds half
a unit for each (`ConservedRounded`).

**The lock** (`LockInv`): while `punctual`, an engine past its SET owns the key, and the time to live
plus the age of its timer plus the grace its failed renewals have used up is at
least `Ttl`. `Timely` leaves more than nothing of that at the latest moment a
renewal may come, so the key does not expire while its holder runs, and two
holders would both own it. An engine told to stop while it rebuilds is not one of them (`Active`):
the release hook runs at once, and the engine is `leaving`, on its way out, and matches no more. With the values of the code (15 s, every 5 s) `Timely`
holds with no failed renewal for delays under 5 s, and with one for delays under
1.66 s; two failed renewals in a row are never safe. Beyond that two engines match
at once until the first notices (`LoserStops`): nothing published is fenced by the
lock. `LockNotTakenAway` needs no punctuality, only `TypeOK`: each script of the code compares
the key with its own instance. A renewal that did not would not take the lock away, only keep it
alive: that is what `LoserStops` is for.

**Trimming** (`IInv` of `RedisProofs`). Nothing pending is before `first` (`Ranges`). The
boundary a timer holds is at most the last id delivered and at most every pending entry, and
stays so while reads and acknowledgements go on, because new pending entries are behind the
last one delivered; when the group was lost meanwhile, it is before the new stream (`Held`).
That nothing is trimmed unhandled (`Handled`) needs `AcknowledgedIsDone`, which is
therefore part of the same invariant.

**Order of handling** (`OrderInv`). What is due comes after everything done; the inbox is the front
of what is due, in order, and all of it once the consumer reads new entries (`FirstOf`
returns the first of a set, in order, and all of it when it fits). An entry that is
read again after a crash was done before, and so overtakes nothing.

**One closing order** (`IInv` of `ServiceProofs`). That the liquidator looks before it writes
is not enough: nothing else may open a row between the look and the write (`Clear`), and
settlement, which writes to rows all the time, may not open one again: every result of a
liquidation order leaves it over (`Last`).

**The gateway** (`FanoutInv`). `CacheIsNotBehind` speaks of a gateway that listens, and needs to know
what it did before that: what was primed is not behind what the stream has up to the *saved* cursor
(`PrimedAhead`), because the window that was read ends at the end of the stream and the cursor was
saved before; that the stream is cut only makes less of it. A book ahead of the cursor is one
that was loaded (`AheadIsPrimed`), so that it can be overtaken by an older one only while the cursor is
before `primed` (`GoesBackOnlyInReplay`). That a client who connects before the books are
primed shares the cache needs `StartsEmpty`: the cache was empty when it connected.

**Row locks** (`TransInv`). Everything a transaction has read is still so (`Fresh`), although
`placeOrder` reads positions and orders without locking them: whoever of the API, the worker and the
funding service writes anything of a user has locked the user's row (`Mine`), and a request has
locked it before it reads anything else. The liquidator has not: its INSERT and its UPDATE of a
closing order lock that order at most. So a closing order that was read without a lock may have been
written over since (`StillSo`), and that only by one of these two statements, because until it is
enqueued nobody else writes it (`ClosingWritten`), and what settlement writes it writes with the
user locked. The rows written without the user's lock by others are those of new orders, which nobody
can have read (`Unwritten`): the engine answers only requests that were committed. When a
transaction commits, what it read is therefore what the tables hold, but for what `placeOrder` has
counted of closing orders, which is what they were before the liquidator's last write; and what
it writes is what a whole transaction of `Accounts` writes then (`ActsAtomically`, where
`PlaceOne` has that exception and no other step has one). An instance of the funding service
that is about to move money has locked the period's row and found none, so the period has not been
funded (`PeriodOnce`).

**Money, statement by statement** (`MoneyInv` of `TransactionsProofs`). Since every commit is a whole
transaction of `Accounts` on the tables as they are (`ActsAtomically`), it is enough to look at
each of those. Each writes one order and its user (`Moves`), or two orders of
different users (a trade), or users and positions (funding), or one closing order (the liquidator, which
moves nothing), and keeps what a user has, or, for funding, what all have, or, for a
trade that liquidates, what the user and the insurance fund have together (`AllMoney`). That orders
were counted as they were changes how much `placeOrder` reserves and not that it takes it from
the balance. That what is given back was there to give back needs the books to balance:
`lockedBalance` is the margin of the position and the reserves of the orders (`UserOK`). Settlement
must find the rows it settles: a result speaks of orders that have one (`ResultsHaveRows`), because the
engine trades only what was committed and enqueued (`EnqueuedHaveRows`). `AccountsAssumption` says what
`Accounts` leaves to `Ledger`: no fee, and positions entered at the one price orders trade at, so
that a trade realizes nothing and there is nothing to round. The theorem covers row locks, aborts,
retries and deaths; `MoneyIsConserved` covers fees, profits and losses.

**Attempts** (`AttemptsInv`). The rollback of an order locks the user and then the order; settlement
locks orders and then users (`apps/api/src/lib/orders.ts`, `apps/db-worker/src/settlement.ts`). They
deadlock only when the order of the rollback is in a result, and of an order of the API that was never
enqueued there is one at most: the `not_open` answer to its cancel (`AnswersOK`, `WhoHolds`). The
liquidator's UPDATE waits for one row and holds none, so it is in no deadlock. Once
PostgreSQL has aborted the rollback, the worker has the order and stands before it in the queue
for the user's row (`Leads`), so that it is not aborted again unless the worker dies and comes
back: `tries <= faults`, less one as long as that answer is neither settled nor about to
be (`TriesOK`). One of the faults is the XADD that failed. Fewer faults than the five
attempts of `withTransaction` are therefore survived; TLC finds a rollback given up with two of each, so
the bound is tight.

Only model-checked: liveness (fairness and ENABLED are outside the prover), with it
`PlacedIsDecided`, `CancelEndsOrder`, `EveryEntryHandled`, `UnderMarginEnds`, `PeriodIsFunded`,
`EngineComesBack`, `UpdatesArrive` and `LoserStops`. Every other property of the runs that pass is a
theorem. `MoneyInv` of `LedgerProofs` is
the one inductive invariant that TLC did not check first, because `D` is any number; what it
implies, `MoneyConserved`, it did.

## 5. Not modelled

* What two engines at once would publish. `deploy/docker-compose.prod.yml:75` forbids
  a second one, and `EngineLock` shows when the lock keeps it out.
* What an engine that leaves during its rebuild publishes of the book (see the limits above):
  a book of `WsFanout` is known by its place in the stream.
* A result or an entry that can *never* be handled. `consumeGroup` tries it again for ever and
  everything behind it waits. In the models an entry fails only so often, and the liveness
  properties assume that it is handled in the end.
* In `Transactions`, prices, fees and closing orders of more than one unit: they are in `Ledger` and
  `Liquidator`.
* Pruning of `ProcessedEvent` after seven days: time is not in `Pipeline`, and a result is
  pending that long only when the worker is down for a week.
* More than one funding period: a period during which the price was stale throughout, or the
  service down, is not made up for; the model has the one that is due.
* The gateway's heartbeat (a reason to disconnect) and the trade stream, which has no cache.
* Several markets: books, positions, fees and insurance are per market and share
  only the user's balance.
* Malformed events (each is skipped or rejected without touching a book),
  sign-up, tokens, the rate limiter, the health page, the hosts the price service asks,
  the web front end.
* The generated Prisma client (15.8 thousand of the 21.2 thousand lines of code of the
  repository): an access layer whose semantics is PostgreSQL's, which `Transactions` has.

## 6. Plan

Models, in this order: several funding periods with a clock; the fixed-window rate limiter
and the cached status of the API; `Pipeline` with two engines, as far as `EngineLock` lets
them overlap.

Proofs follow the models: `OneEngine` says what a `Pipeline` with two engines may assume.
