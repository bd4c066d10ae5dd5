# Formal model of the MAP HFT engine

TLA+ modules, TLC configurations and TLAPS proofs for the matching engine, the lock-free queue, the
three-thread pipeline, the event log and its replay, the replay viewer and the single-threaded
simulator of this repository. Paths below are relative to the repository root.

Run inside this directory: `tlc -config MCOrderBook.cfg MCOrderBook` (and likewise for the other
configurations), and `tlapm OrderBookProofs.tla` (and likewise for the other modules named `...Proofs`
and for `DataInduction`). `EventLogProofs` and `LiveSimProofs` take some minutes each.

## 1. Inventory of the system

| Component | State | Operations | What is hard about it | What makes it correct |
|---|---|---|---|---|
| `OrderBook` (`src/OrderBook.cpp`) | `books_` (symbol -> two price maps of FIFO queues), `index_` (id -> symbol, side, price), `nextId_` | `addOrder`, `cancelOrder`; const queries (`bestBid`, `snapshot`, `totalDepth`, `orderImbalance`, `checksum`, ...) | two nested loops that erase what they iterate over; three structures that must agree; long call sequences; `int` sums and `double` prices converted to `int` in the queries | sound levels, never crossed, price-time priority, every resting order can be cancelled, `addOrder` returns |
| `RiskLimits` (`src/risk/RiskLimits.cpp`) | net quantity and notional per symbol | `checkOrder`, `onTrade` | read before matching, written in its middle, once for each side of a trade | sizes and positions within the limits (positions are not, section 3) |
| `SPSCQueue` (`include/map/core/SPSCQueue.hpp`) | `buffer_`, atomic `head_`, `tail_` | `push`, `pop` | two threads, acquire/release ordering, wrap-around, full versus empty | no data race, bounded FIFO, delivery |
| `live_sim_mt` (`src/apps/live_sim_mt.cpp`) | two queues, two done flags, each thread's locals | three thread loops | shutdown races, back pressure, a failed load | everything sent is handled in order, the program ends |
| `EventBus` (`include/map/core/EventBus.hpp`) | handlers per event type | `subscribe`, `publish` (synchronous) | order of handlers: log before or after the book | every handler sees every event once, in subscription order |
| `Logger`, `LogReader` (`src/core/Logger.cpp`, `src/replay/LogReader.cpp`), `replay_test` | a file, stream state | `log`, `readNext`, `rewind` | records cut off by a crash, stream errors, field widths | what is replayed is a prefix of what happened |
| `ob_viewer` (`ob_viewer.cpp`) | book, `history`, `historyComplete`, `eof`, pause and step flags | step, pause, scrub | scrubbing while the reader is elsewhere in the log | panels and checksum are those of the book shown; the book shown is that of a prefix of the log (it is not, section 3) |
| `PnLTracker` (`src/risk/PnLTracker.cpp`) | position, average price, realised profit per symbol | `onFill`, `snapshot` | fills that reduce or flip the position | realised + open value = cash flow + position value |
| `ImpactModel` (`src/risk/ImpactModel.cpp`) | impact and volatility per symbol | `onNewTick`, `onTrade`, `executionPrice` | clamping, order of decay and shock | impact within its cap |
| `BasicStrategy` (`src/strategy/BasicStrategy.cpp`) | intent (clip, rate), imbalance | `onTick`, setters | adaptive rates, an inventory bound nobody reads | clip and rate within their limits |
| `live_sim` (`src/apps/live_sim.cpp`) | all of the above in one thread, kill switch, learnt spread | tick loop | what is stale when the kill switch looks | the switch trips exactly at its limits, and no tick is traded after it has |
| `RealLOBFeed` | loaded snapshots | `loadCSV`, `at` | lines that do not parse are passed over | no snapshot is made up, none is read past the end |
| Not part of the programs' logic | | `core/RiskLimits.*` (compiled by no target), `Rdtsc`, `NetJitter`, `main.cpp`, tests, `MarketDataFeed` (no program uses it) | | |

**How they interact.** `live_sim_mt` runs three threads. The market data thread pushes one
`MDUpdate` per symbol and tick into the first `SPSCQueue`. The strategy thread pops them and pushes a `StratOrder`
on every k-th tick of a symbol into the second. The risk thread pops those and publishes each on
its `EventBus`, whose handler logs the order, updates the impact model, calls
`OrderBook::addOrder` and books the fill. Two atomic flags say that a producer has finished.
`live_sim` does the same in one thread. `replay_test` and `ob_viewer` feed a log back into an
`OrderBook`. `OrderBook` calls `RiskLimits` only when it was constructed with one; the
applications pass none, and `tests/test_risk.cpp` exercises `RiskLimits` on its own.

## 2. Modules and the code they model

| Module | Models |
|---|---|
| `LevelMap` | one side of a symbol's book: `std::map<Price, deque<Order>, Compare>` as a partial function from prices to queues; `begin()`, `operator[]`, `erase` of an emptied level, filling the head of a queue |
| `RiskLimits` | `checkOrder` and the net quantity of `onTrade` |
| `OrderBook` | the engine. Variables `books`, `index`, `nextId`, `netQty` are the members; `call` is the activation record of a running `addOrder` (id, arguments, remaining quantity), `ret` what the last call returned |
| `GatedBook` | `OrderBook` behind its gate, with a history of what the orders that passed it traded |
| `PriceTimeBook` | abstract specification: a flat set of open orders, no levels, queues or index, and a gate that refuses by size and net position |
| `SPSCQueue` | the ring buffer at the grain of its atomic accesses |
| `BoundedFifo` | abstract specification of a queue |
| `DrainLoop` | the consuming loop both the strategy and the risk thread have, instantiated twice |
| `HandOff` | abstract specification of one stage: what the receiver gets of what was sent |
| `Pipeline` | the three threads of `live_sim_mt`, their queues and flags |
| `BookViews` | the const queries of the engine over `OrderBook`'s state: best prices, snapshot, depth, imbalance, the branchless quotes, what `checksum` hashes; their `int` sums wrap and their conversions of prices drop the fraction |
| `Totals` | the loops that add up without a limit: the imbalance's sums in `double`, deviations of `live_sim` |
| `EventLog` | `EventBus`, `Logger` and its stream, the file a run leaves, `LogReader` and the loop of `replay_test` |
| `ReplayViewer` | the state of `ob_viewer`: history, scrub, step, pause, panels |
| `PnLTracker`, `ImpactModel`, `BasicStrategy`, `RealLOBFeed` | operators: the components of a simulator as functions of their state |
| `LiveSim` | `run_sim` of `live_sim`, which composes these four with the kill switch |
| `OrderBookProofs`, `BookViewsProofs`, `SPSCQueueProofs`, `PipelineProofs`, `EventLogProofs`, `ReplayViewerProofs`, `LiveSimProofs` | theorems about the module each is named for, and their proofs |
| `DataInduction` | lemmas: the least element of a set of numbers, and what follows for recursive functions, totals, joined sequences and sorted sets |
| `MCOrderBook`, `MCGatedBook`, `MCBookViews`, `MCSPSCQueue`, `MCPipeline`, `MCEventLog`, `MCReplayViewer`, `MCLiveSim` | instances for TLC |

### OrderBook

`addOrder` is split at the iterations of its inner loop: `RejectOrder` is the early returns,
`AcceptOrder` everything up to the loop (book created, id drawn), each `MatchStep` one iteration
of the inner `while` of `matchBid`/`matchAsk` including both `onTrade` calls and the erasing of an
emptied order and level, and `Rest` the code after the loop. The book is used by one thread, so
no other call runs in between; the split is there so that the invariants are checked
inside the loop and so that its termination is a property. `cancelOrder` is one step
with three outcomes: unknown id, stale index entry, resting order.

Abstractions: prices are integers. The code has `double`, and adding, matching and cancelling only compare them:
equal and ordered prices are all the book sees. The queries do more with a price, and there (`BookViews`) an integer is a
number of fractions of a unit. Symbol, side and price of an order are its place in the book; `totalNotional` is
left out because nothing reads it. The 32-bit width of a single quantity is not modelled, since matching only makes it
smaller; sums of quantities are made by the queries alone. The parameters of `RiskLimits` are constants, 500 and
1000 in the code.

In `PriceTimeBook` an order is refused for its size or for the net position of its symbol, and a trade changes the position
of no other symbol. By how much a trade moves the position of its own is left open there, because the refinement maps `position`
to the member `netQty`, which the code moves by nothing. What that does to the limit is the question of `GatedBook`: its
history `taken` is what incoming orders bought less what they sold, the position that `checkOrder`, which is
asked about incoming orders, is documented to limit.

### SPSCQueue

An acquire load may return any value the other side has stored since the one seen last, so each
side has its own view (`tailSeen`, `headSeen`) next to the real index: this is weaker than
sequential consistency, and what C++ promises for one variable with one writer. Copying into or
out of a slot takes time (`"copying"`), and a slot that is being written holds `Torn`. The release
store follows the copy in program order, so a side that sees the new index sees the copy. A relaxed
load of one's own index returns its latest value.

### Pipeline

An update or an order is the number of the update it stems from. Queues are the FIFOs that
`SPSCQueue` is shown to implement. A pop or push that fails on a stale index is a stutter
that the retry loops repeat. A pop after the done flag was seen set is never stale, since the flag
is stored and loaded with sequential consistency after the last push. `seen` is `ticksSeen`.
The decision of side, price and size is left out:
what matters here is whether an order is sent, and that is decided by `seen % k` alone. The variables
`taken`, `fired`, `handled`, `lostUpds`, `lostOrders` are histories that no guard reads.

### BookViews

The queries read the state of `OrderBook`, so `BookViews` extends it with operators, and its
properties are invariants of `OrderBook`'s own behaviours, read whenever no call is running.
`Rank` orders the symbols as `std::map<std::string, ...>` does. `checksum` is the sequence of words it
mixes into the hash: two books with different words may still collide in 64 bits, but a book whose
words do not change is never told apart.

`Int32` is what an `int` sum leaves: an overflow is undefined in C++, and the compilers' additions wrap. `totalDepth` and
`snapshot` add that way, order by order (`Added`); `orderImbalance` adds in `double`, exactly (`DepthSum`). `Whole` is
the number of fractions in a price of 1, so that with `Whole = 2` the price 3 is the code's 1.5, and `Truncated` is the conversion of a
price to an integer, as `bestPriceBranchless`, `midBranchless` and `checksum` make it. Prices outside the range of
`int`, of which the conversion is undefined, are excluded (`WidthAssumption`), and so is the conversion of a negative price to the
unsigned words of `checksum`, which the run never makes.

### EventLog

A record is a sequence of cells, one per field; an order id is two cells because the reader uses an
id of which only the low bytes were there. `stream` is what `ofstream` has accepted and `onDisk` how
much of it is in the file: `Flush` may write any part of a buffer, `LogEvent` may fail inside a record
(and is then a no-op for ever, as the code's `if (!out_) return`), `Close` is the destructor, and `CutShort` a
crash at any moment or a close that fails. A failed write is assumed to have written a beginning of
what it was given. `ReadEvent` and `ReadStop` are `readNext` with its tests of the
stream where the code has them. `handlers` are the subscriptions in their order: both orders occur, as in
`live_sim` (log first) and `tests/test_replay.cpp` (book first). Prices published are whole ticks, so
the cast of `writeInt64` changes none; the unknown-type branch needs a file that no `Logger` wrote;
`rewind` is called by nobody. The shipped programs publish new orders only, the tests and the format
know all three kinds, and so does the model.

### ReplayViewer

A frame polls every waiting input and then makes at most one step. Frames without a step change
nothing, so inputs and steps simply interleave. `history` and `shown` hold positions in the log:
`shown` is what was applied to the book, `history` what was read. The reader's position is the length
of `history`. The constant operator `Mid` stands for the book's quote after a sequence of
events. Speed and clocks only say when the next step happens.

### LiveSim and its components

`SymbolTick` is the body of the loop over the symbols, with the strategy's order, the synchronous
handler and the risk bookkeeping; `EndTick` is the three kill checks; `Continues` is the head of
the loop. One thread does it all, so nothing is split further. Prices of the feed, impact and money
are in half ticks (a half spread of whole ticks is then whole). Averages and profits are exact
fractions, where the code has doubles, so the model says nothing about floating-point rounding. The
sensitivity, thresholds and rates of `BasicStrategy` are exact quotients, rounded as `llround` and `floor`
do; its 1e-9 in the denominator keeps an imbalance inside the open interval, so that a tie is rounded as
from below. `ImpactModel`'s logistic shock and the volatility it reads are a nondeterministic
positive size; its decay, less than a half tick in one tick of `live_sim`, takes a half tick or none. `thin-book` scales both
depths alike and leaves their imbalance as it is; `delay-feed` sleeps. `noRisk` is on a command line of the model, and read by nothing, because `main` passes over the options it does not know. `quote` and `cash` are
histories that no guard reads. The runs of `--compare-strats` share no state but the file name
`events.bin`, so one run, of either configuration, stands for both.

## 3. What TLC checks

| Run | Property | What it says |
|---|---|---|
| `order_book` | `TypeOK` | types; a quantity that is over-traded shows here |
| | `BookSound` | at every loop iteration: no empty level, no order with nothing left, arrival order in a level, only ids already handed out |
| | `NotCrossed` | no bid at or above an ask of the symbol, also while matching |
| | `IndexCoversBook` | each resting order has an index entry that leads to it |
| | `ImplementsPriceTime` | refinement of `PriceTimeBook`: each trade is with the best-priced, then oldest, order; an order is refused exactly for its size or the gate's position; `cancelOrder` returns true exactly for open orders |
| | `AddOrderReturns` | every `addOrder` ends |
| `order_book_no_risk` | `ImplementsPriceTime` | the same refinement as the applications wire the book, without a gate |
| | `DepthsAgree` | the depth a query returns is the number of shares of the open orders at that many best prices, as an `int` holds it, overflow included; the rows of a snapshot are in order, begin with the best price and add up to the depths |
| | `ImbalanceSound` | the imbalance is a quotient by a positive number, within -1..1, and 1 or -1 exactly when one side alone is quoted |
| | `QuotesInOrder` | the branchless best prices are less than one unit below the quote they stand for, also when a side is missing, a price is below 1 or both quotes fall within one unit; they are not crossed, and the branchless mid is below the ask and less than one unit below the bid |
| | `AlterationsShow` | a lost, exchanged or re-sized order changes what `checksum` hashes |
| `order_book_gate` | `PositionLimited` | **violated**: orders that pass the gate trade a symbol past `maxPositionQty` |
| `spsc_queue` | `TypeOK` | indices stay within the buffer |
| | `NoRace` | the two threads are never at the same slot |
| | `ViewsAreSafe` | stale views err on the safe side only |
| | `ImplementsFifo` | refinement of `BoundedFifo`: linearised at the stores of `head_` and `tail_` |
| | `FrontIsPopped` | a pushed item is popped by a polling consumer |
| `pipeline` | `TypeOK` | queues within their capacity, local variables of their types |
| | `UpdatesHandedOver`, `OrdersHandedOver` | refinement of `HandOff`, once per queue: in order, at most once, all but at most one, none lost before the producer is done, no stop before the queue is empty |
| | `EndToEnd` | booked orders stem from later and later updates, and at the end nothing is unaccounted for |
| | `Terminates` | the program ends, also after a failed load |
| `pipeline_loss` | `NothingLost` | **violated**: the pop that decides about stopping drops what it returns |
| `event_log` | `TypeOK` | what is replayed is an event, or a cancel |
| | `ReplayFaithful` | after any end, the replayed events are the first of those published, the last at most with a wrong cancel id |
| | `CleanExitReplaysAll` | after a clean exit, all of them, and the replayed book is the live one |
| | `LogKeepsUp` | while the stream is good the book is at most the event being handled ahead of the log, and never when the logger subscribed first |
| | `ReplayEnds` | the replay of every file a run can leave ends |
| `event_log_torn` | `ReplayIsPrefix` | **violated**: a cancel record cut in its id is replayed as another cancel |
| `viewer` | `TypeOK` | the history is the beginning of the log |
| | `NeverTwice` | nothing is applied twice or out of order, and what is missing from the screen is one stretch of the log |
| | `PanelsMatchBook` | events seen, histogram, last event and mid belong to the book shown; no order counts twice for orders per second |
| | `ChecksumOfScreen` | a checksum is shown exactly at the end of the log, and it is that of the book shown |
| | `EndRestoresReplay` | a click on the right end after the log was read restores the whole replay |
| | `PlaybackEnds` | a viewer left running and clicked finitely often reaches the end |
| `viewer_scrub` | `ShownIsPrefix` | **violated**: the step after a scrub skips what lies between |
| `live_sim` | `TypeOK` | impact within its cap, clip and rate positive, no tick past the end of a feed |
| | `PnLIsCashFlow` | realised profit less the cost of the open position is the cash of the fills, through partial closes and flips |
| | `QuotesArePassive` | asks above and bids below the mid they are quoted about, at a price of at least 1, of a legal size |
| | `IntentIsLagged` | the imbalance a strategy trades on is that of the last recalculation, over frozen books and skipped lines |
| | `KillIsExact` | the switch is on before a tick if and only if loss, volatility or a spread was over its limit after the last, computed afresh from the files and the fills |
| | `NoTradeAfterKill` | nothing is sent or filled once it is on |
| `live_sim_inventory` | `InventoryBounded` | **violated**: nothing reads `maxInventory` |

Each property of a passing run has a mutant in `PROJECT.json`, a plausible bug of the same code
(a dropped guard, a swapped comparator, a flag raised early), under which TLC finds it violated.
The mutated operators stand beside the original in the modules.

**Findings**, each with a run that TLC finds violated. (1) `NothingLost`: at
`src/apps/live_sim_mt.cpp:227` and `:393` the second pop may succeed, when the producer pushed and
raised its flag after the first one failed; its item is thrown away. `UpdatesHandedOver` and
`OrdersHandedOver` show that this is the only loss: at most one item per stage, only at shutdown.
(2) `ReplayIsPrefix`: the cancel branch of `src/replay/LogReader.cpp:80-90` does not test the stream after
the id, so a record cut there is returned as a cancel of the id its first bytes spell, where
`include/map/replay/LogReader.hpp:24` promises nothing at an error; `ReplayFaithful` shows that nothing
else can go wrong. (3) `ShownIsPrefix`: after a scrub back in `ob_viewer.cpp`, the next step reads on in the
file, not in the history, so the events between are missing from the book; at the end of the log
the checksum of that book is shown as the replay checksum (`ob_viewer.cpp:330`, `:520`). `NeverTwice` says how far the
damage goes, `EndRestoresReplay` how the user gets the true screen back. (4) `PositionLimited`: `README.md:183-187` gives
`OrderBook` a maximal net position per symbol, but `matchBid` and `matchAsk` (`src/OrderBook.cpp:106-112`, `:161-167`) report each
trade for both of its sides, so the position that `checkOrder` reads is always zero and orders within the
limit pass it one after the other. `PositionsStayFlat` proves the cause. (5) `InventoryBounded`: `README.md:247` gives the
strategy an inventory bound, but `inventory_` and `maxInventory_` (`include/map/strategy/BasicStrategy.hpp:94-95`) are read
nowhere.

**Smaller disagreements**, plain from the code, which the model follows; no run is spent on them.

* `README.md:158` keys *resting* orders in the index. A filled maker is erased from its level but not from `index_`
  (`src/OrderBook.cpp:117`, `:172`), so the index grows and cancels of dead ids run on stale entries: harmlessly, as
  `ImplementsPriceTime` shows.
* `README.md:168` calls `checksum` a hash of the entire book state. Nothing of the side of an order is hashed
  (`src/OrderBook.cpp:490-504`): a lone bid and a lone ask with the same price, id and quantity have the same words. `AlterationsShow` says
  what is told apart.
* `include/map/OrderBook.hpp:85` and `:96` describe `bestPriceBranchless` as the best price chosen without a branch. It returns that price
  without its fraction (`:98-115`). The programs quote whole ticks; `QuotesInOrder` bounds the error for others.
* `README.md:377` documents `--no-risk` to disable the kill switch checks. `live_sim.cpp:455-479` does not know the flag and passes it
  over. A command line of `live_sim`'s run has it, and `KillIsExact` holds on every one: the flag changes nothing.

**Bounds.**

* `order_book`: two symbols, two prices, four accepted orders (`MaxOrders`), quantities
  -1..3 with a size limit of 2 and a position limit of 3. Four orders are enough for a level of
  two, a partial fill, a sweep over both prices, a level that empties and is created again, and a
  cancel of each kind; -1 and 0 are refused by the book, 3 by the gate.
  `MaxOrders` is the only bound on the behaviours.
* `order_book_no_risk`: one symbol, four accepted orders of one or three shares at the prices 0.5, 1, 1.5 and 2.5 (`Whole = 2`, ticks 1, 2, 3
  and 5): a sweep over three levels, sizes above the gate's limit to show that it is not asked, both quotes within one unit, a price
  that converts to the 0 of a missing side. An `int` has four bits (`IntLimit = 8`), so that three orders of three shares overflow a depth
  of which each quantity is far from the limit, as two orders may in the code.
* `order_book_gate`: one symbol, two prices, size limit 2, position limit 3, four orders.
* `spsc_queue`: capacity 4, so that the ring wraps, holds up to three items, and views can
  be several stores behind; two values, so that a stale or repeated slot shows. No bound on the behaviours.
* `pipeline`: 12 updates of two symbols, an order on every second tick of each, rings of three and
  two items: both rings fill up, and both stages meet their shutdown with items queued.

* `event_log`: three published events (`MaxEvents`) of all kinds, with two cancels whose ids share their
  low cell; both subscription orders, every place for a failure or a cut.
* `viewer`: logs of up to four events with sizes in each histogram bucket, cancels and trades, four clicks on
  the timeline (`MaxInputs`, the only bound on the behaviours): enough to scrub back, play over the gap, and
  scrub again from there.
* `live_sim`: two symbols, files of up to seven rows (rising, falling to the lowest price, calm, jumping, with
  a wide spread, with a line that does not parse, missing, without a row), windows of three and
  two ticks, small clips and limits, both configurations, three command lines, one with `--no-risk`. Each of the three limits
  is broken alone in some behaviour, and some behaviours end unbroken; positions flip, averages are fractions, and
  the impact reaches its cap.

**Fairness.** `OrderBook`: weak fairness of the loop's steps only; nobody is obliged to call.
`SPSCQueue`: a call that was started returns, the consumer polls (both consumers of the code are
`while (true)` loops), and a store is visible in the end to a thread that keeps loading; the
producer need not push. `Pipeline`: weak fairness of each thread: the threads yield, so the
scheduler runs each again; nothing more is assumed, in particular no order between the threads.
`EventLog`: the replay loop runs on; nobody is obliged to record. `ReplayViewer`: the frame loop
runs and its clock passes the pace, so an enabled step is taken; the user need not do anything.
`LiveSim` has no liveness property and assumes none: its loop is bounded by the feed.

## 4. What is proved

**`OrderBookProofs`**, for all sets of symbols and prices, all quantities, limits and numbers of orders:

| Theorem | Statement |
|---|---|
| `Invariance` | `Spec => []IInv` |
| `TypeCorrect` | `Spec => []TypeOK` |
| `BookStaysSound` | `Spec => []BookSound` |
| `NeverCrossed` | `Spec => []NotCrossed` |
| `IndexCovers` | `Spec => []IndexCoversBook` |
| `PositionsStayFlat` | `Spec => []NetFlat` |
| `BookIsPriceTime` | `Spec => ImplementsPriceTime`, the refinement of `PriceTimeBook` |
| `EveryIterationUsesUp` | a step property: while a call runs, each step ends it or leaves fewer shares to place, never fewer than none |

Assumptions: those named in the modules. `PricesAssumption` (prices are integers, and every
non-empty set of them that occurs has a least and a greatest element, which a `std::map`'s finite
key set has), `LimitsAssumption`, `BookAssumption`.

The invariant is `IInv == TypeOK /\ BookSound /\ NotCrossed /\ IndexCoversBook /\ IdsFresh`.
None of the parts is inductive alone. `MatchStep` is well typed only because the best level is not
empty (`BookSound`). The remainder rests without crossing (`NotCrossed`) because the loop condition
is false while the remainder is positive. A pushed-back order keeps arrival order
(`BookSound`) because every resting id is below the running call's, which `IdsFresh` and the bound
`Issued` carry from call to call. `Rest`'s `emplace` enters the new place, rather than keep an
older entry (`IndexCoversBook`), because the id is new to the index, again `IdsFresh`. The
lemmas about `SettleLevel`, `PushBack`, `FillHead` and `RemoveAt` say what each leaves in a side's map,
and the main proof has one step for each action and, under it, one for each conjunct it can disturb.

**`SPSCQueueProofs`**, for every capacity above one and every set of values:

| Theorem | Statement |
|---|---|
| `Invariance` | `Spec => []IInv` |
| `TypeCorrect` | `Spec => []TypeOK` |
| `RaceFree` | `Spec => []NoRace` |
| `StaleViewsAreSafe` | `Spec => []ViewsAreSafe` |
| `RingIsFifo` | `Spec => ImplementsFifo`, the refinement of `BoundedFifo` |

Assumptions: `CapacityAssumption` (the `static_assert`), `ValuesAssumption` (the two markers are
not values).

The invariant says that, going around the ring, one meets `tailSeen`, `tail`, `headSeen`, `head` in this order
(`ViewsInOrder`); that the result of the full or empty test stays true while the
slot is being copied (`TestsHold`), since the other side can only make more room or more items; and that
the slots from `tail` up to `head` hold values (`SlotsFilled`). `NoRace` follows: whoever reads has
`tail # headSeen`, hence `tail # head`, and the writer is at `head`. That `head` never runs into `tail` is
where the full test on a stale `tail_` is needed (`WritingMeansRoom`). The remainders of the code's
`increment` are reduced once, in `IncrementStep` and `PlaceOf`, to a comparison, and the rest is linear
arithmetic on distances. The refinement proof has one lemma for the store of `head_` (`PublishPuts`), one for the store of `tail_`
(`FreeGets`), and one for the steps the FIFO does not see (`InsideSame`).

**The refinement of `PriceTimeBook`** (`PositionsStayFlat`, `BookIsPriceTime`). The abstract book is a set of
records; the lemmas of "The flat set of open orders" say which record enters or leaves that set when one level is settled
(`SettleOpens`), an order is pushed back (`PushBackOpens`), a head is filled (`FillHeadLeaves`), an order is taken out
(`RemoveAtLeaves`) or an empty book is created (`CreateOpens`). Then there is one lemma for each action: `RejectRefuses`, `AcceptSubmits`,
`MatchTrades`, `RestSettles`, `CancelMisses` and `CancelTakesOut`. `MatchTrades` needs the arrival order within a
level: the maker must precede every other candidate. `CancelMisses` needs `IndexCoversBook`: an id
whose entry is missing or stale is the id of no open order. The abstract book refuses by the size of an order and the position of its symbol,
and `checkOrder` tests the same of `netQty` (`AcceptedIsAdmissible`); the refinement does not use what `netQty` is. That it stays zero is
`PositionsStayFlat`, a theorem of its own about the defect behind the run `order_book_gate`: both sides of a trade are booked, so the
position limit, which is no less than the size limit (`LimitsAssumption`; 1000 and 500 in the code), never binds.

**`BookViewsProofs`**, for any number of symbols, levels and orders:

| Theorem | Statement |
|---|---|
| `QuotesStayInOrder` | if `Prices \subseteq Nat`: `Spec => []QuotesInOrder` |
| `DepthsCountShares` | at every step, for every symbol, side and integer `k`, `TotalDepth` is `Int32` of the number of shares of `Crowd(s, d, k)`, and that number itself while it is below `IntLimit` |
| `DepthsAlwaysAgree` | `Spec => []DepthsAgree` |
| `ImbalanceStaysSound` | `Spec => []ImbalanceSound` |
| `AlterationsAlwaysShow` | `Spec => []AlterationsShow` |

They follow from `OrderBook`'s `IInv` and one more invariant, `BooksFinite`: each call creates at most one book.
`QuotesStayInOrder` rests on `NotCrossed`, `BestPriceIsBest` and what the conversion of a price keeps: it loses less than a unit (`TruncatedIs`), it
keeps the order, though not strictly (`TruncatedInOrder`), and the mid of two converted prices lies between them and never overflows
(`MidIs`). Its hypothesis says that no price is negative. It is needed: every price between -1 and 1 is converted to 0, which is taken for a
missing side, and with a bid at -3 and an ask at 0 both columns of `live_sim` would show -3. `addOrder` accepts such prices; no program
sends one. `DepthsCountShares` holds for every width of `int`: adding one order after the other and wrapping each time is the same
as wrapping the sum once (`AddedIs`, `TotalDepthIs`, from `Int32Sums`). The others need the order of the maps. A side has finitely many levels because its prices are integers between a
least and a greatest one (`LevelsAreFinite`), a finite set with different keys can be sorted (`SortedExists`), and in the sorted
sequence exactly `i - 1` levels are better than the i-th (`BetterLevels`). The quantities of a level add up to the number of its shares,
and levels share none, so a depth is the number of shares of their union (`TotalOfSizes`); the imbalance is
positive where one side has an order because each of its orders has a share (`BookSound`). For the checksum,
an alteration either leaves the number of orders on every level, and then each queue can be read off the
words, since all lengths are known (`ChecksumTells`), or it takes one order away, and then there are fewer words, whatever becomes of the order of
levels (`ChecksumFewer`). Assumptions: `RankAssumption` (the order of `std::string` tells symbols apart), `NoPriceAssumption`
(`std::nullopt` is not a price), `WidthAssumption` (the quantity of one order is an `int`, a price lies in the range of `int`).

**`PipelineProofs`**, for any number of updates and symbols, any firing interval and any capacities above one:

| Theorem | Statement |
|---|---|
| `Invariance` | `Spec => []IInv` |
| `TypeCorrect` | `Spec => []TypeOK` |
| `EndsAccounted` | `Spec => []EndToEnd` |
| `UpdatesAreHandedOver`, `OrdersAreHandedOver` | `Spec => UpdatesHandedOver`, `Spec => OrdersHandedOver`: the two refinements of `HandOff` |
| `SomebodyIsBusy` | at every step, a thread can do more than poll an empty ring or spin on a full one, or all have ended |

The invariant is a conservation law for each ring (`InFlight`: the items sent are those received or lost, and then those queued,
in order), together with what each consumer may conclude (`StopsLate`: it goes to its second pop, and stops, only
when its producer is done, and after its one loss the ring is empty for good). The last part is what bounds the loss
at one item: a consumer that has lost an item can pop nothing more. `Ascending` carries the order of the updates through to
the booked orders.

**`EventLogProofs`**, for any set of events, any number of them, any size of an id's cell and every allowed subscription order:

| Theorem | Statement |
|---|---|
| `Invariance` | `Spec => []IInv` |
| `TypeCorrect` | `Spec => []TypeOK` |
| `ReplayIsFaithful` | `Spec => []ReplayFaithful` |
| `CleanExitReplays` | `Spec => []CleanExitReplaysAll` |
| `LogIsNotBehind` | `Spec => []LogKeepsUp` |
| `ReaderMovesOn` | a step property: once recording is over, each step begins before the end of the file and moves on, or is the last |

The model keeps no record boundaries, since the file has none; the invariant says that there are some. `Layout(ends)`: the stream is
one record after the other and perhaps the beginning of one more. `ReaderInv(ends)`: the reader is at one
of these ends and has returned the events before it, or it has run over the end of the file inside the id of a cancel. `BusInv`:
what each subscriber has seen of the events published. A read step is proved by what the first cells at an end
must be: `Record` and `Decode` are inverse to each other on whole records, and a cut record is rejected in every field
but that id. `LogAssumption` says what an event's fields are, that an id is a natural number, and that the
handlers of each kind are the logger, and for orders and cancels the book as well, in either order.

**`ReplayViewerProofs`**, for all logs, any quote function `Mid` and any number of clicks:

| Theorem | Statement |
|---|---|
| `Invariance` | `Spec => []IInv` |
| `TypeCorrect` | `Spec => []TypeOK` |
| `NothingAppliedTwice` | `Spec => []NeverTwice` |
| `PanelsAreOfTheBook` | `Spec => []PanelsMatchBook` |
| `ChecksumIsOfTheScreen` | `Spec => []ChecksumOfScreen` |
| `EndIsRestored` | `Spec => EndRestoresReplay`, a property of steps |

The four invariants together, with "a complete history is as long as the log", are inductive. `NeverTwice` needs its
existential form, since after a scrub the events shown are a beginning of the log and then its latest stretch, and a step lengthens that. The
histogram is a set of cardinalities, so each step changes them by a lemma about `Cardinality`. `ViewerAssumption` states
that a log is a finite sequence of the three kinds of events, and that an empty book has no quote.

**`LiveSimProofs`**, for all symbols, files, parameters, command lines, limits and window lengths:

| Theorem | Statement |
|---|---|
| `Invariance` | `Spec => []IInv` |
| `TypeCorrect` | `Spec => []TypeOK` |
| `ProfitIsCashFlow` | `Spec => []PnLIsCashFlow` |
| `QuotesStayPassive` | `Spec => []QuotesArePassive` |
| `IntentIsAsOldAsTheLag` | `Spec => []IntentIsLagged` |
| `KillSwitchIsExact` | `Spec => []KillIsExact` |
| `KillSwitchIsFinal` | `Spec => NoTradeAfterKill`, a property of steps |

The invariant says of each symbol what its part of the state is a function of (`SymbolInv`): the ledger of its
fills (`Ledger`, the identity of `PnLIsCashFlow` multiplied out, which every case of `onFill` preserves), the intent of the last
recalculation, the window and the learnt spread of the rows shown so far. `Had(s)` is the number of ticks the symbol has
had, which differs between symbols in the middle of a tick; this is why `KillIsExact` is stated before a tick and its
parts for every step. `TickInv` says that a tick has a row and an open switch when it begins. `totalPnL` is the
sum of the symbols done so far. Assumptions: `SimAssumption` (the symbols are distinct and the proxy is one of
them, as `main` configures them; parameters are within `Parameters`, the ranges in which the strategy's quotients are defined;
windows are not empty; a shock is positive; what a file yields are `Snapshot`s: a recorded book has no negative sizes, though the parser of
`RealLOBFeed` would accept them), `ImpactAssumption` (the cap is not negative).

**`DataInduction`.** The library's induction rules take an operator, which the provers here cannot instantiate. `LeastNumber`
(a non-empty set of natural numbers has a least element) is proved from the well-foundedness of `<` instead, and an induction is
a set of counterexamples without a least one. `StepwiseEqual` and `FoldingExists` are that argument made once, for functions that
are defined by recursion over `0..n`: they give the values of `BookEvents`, of `Total` and `FlattenSeq`, and of the windows of
`LiveSim`. On these rest the facts about totals (the sizes of disjoint sets add up to that of their union, `TotalOfSizes`; a total over
the elements of a set does not depend on their order, `TotalIsCount`), about joined sequences (parts of known lengths can be
read off, `FlattenInjective`) and about sorting (`SortedExists`, `SortedIsOnto`). This is why the model writes its loops as
recursive functions and `FlattenSeq`, and the order of a map as `Ascending`, which chooses a sorted sequence.

Only model-checked: all liveness properties (`AddOrderReturns`, `FrontIsPopped`, `Terminates`, `ReplayEnds`, `PlaybackEnds`; fairness and `ENABLED` are out of the prover's
reach; what the first, the third and the fourth rest on is proved, `EveryIterationUsesUp`, `SomebodyIsBusy` and `ReaderMovesOn`), and of course the five violated ones. Every inductive invariant has also been checked by TLC on the instance of
its run, `NetFlat` with the one of `OrderBook`.

## 5. Not modelled

* `ob_viewer`: drawing, the ladder and its scrolling, the speed keys. What is left of it at one frame
  follows from the book and the offset.
* The floating-point formulas of `ImpactModel` (logistic, exponential), and doubles as such: no property
  here is about rounding. A feed cell `nan` parses as a number and would disable the comparisons of the kill
  switch; the model's cells are numbers.
* `BasicStrategy`'s blend with the book's own imbalance, which no program switches on, and what `live_sim_mt`
  decides about side, price and size: `Pipeline` has whether it sends.
* The text of CSV lines, time stamps, sleeps, benchmark output; `MarketDataFeed`, which no program uses;
  `core/RiskLimits.*`, which no target compiles.

## 6. Plan

Done: all modules of section 2, and every invariant, step property and refinement that a passing run checks is a
theorem. What could follow: the measures behind `PlaybackEnds` and `FrontIsPopped`, as for the other three; the quotes of `ImpactModel`'s floating-point formulas, once there is a reason to state a
property of their rounding.
