------------------------------ MODULE Pipeline ------------------------------
(***************************************************************************)
(* The three threads of live_sim_mt (src/apps/live_sim_mt.cpp): market     *)
(* data, strategy, and risk + matching, joined by two queues and two done  *)
(* flags.  An update or an order is the number of the update it stems      *)
(* from: 1, 2, ... in the order the market data thread makes them, each    *)
(* tick going through the symbols in their configured order.               *)
(***************************************************************************)
EXTENDS Integers, Sequences

CONSTANTS
    Updates,        \* ticks * symbols, what the files and --max-ticks allow
    NumSymbols,     \* how many symbols are configured
    TicksPerOrder,  \* the strategy fires on every k-th tick of a symbol
    MdCapacity,     \* capacity of the two rings
    OrderCapacity

ASSUME PipelineAssumption ==
    /\ Updates \in Nat /\ NumSymbols \in Nat \ {0}
    /\ TicksPerOrder \in Nat \ {0}
    /\ MdCapacity \in Nat /\ MdCapacity > 1
    /\ OrderCapacity \in Nat /\ OrderCapacity > 1

VARIABLES
    md,             \* the market data thread: "load", "run" or "exit"
    pushed,         \* how many updates it has pushed
    mdQ, mdDone,            \* the queue and flag to the strategy
    strat, upd, lostUpds,   \* the strategy's loop, its update, drops
    seen,           \* ticksSeen, per symbol
    orderQ, stratDone,      \* the queue and flag to the risk thread
    risk, so, lostOrders,   \* the risk thread's loop, its order, drops
    taken, fired, handled   \* histories: updates used, orders sent, booked

mdVars     == <<md, pushed>>
stratVars  == <<strat, upd, lostUpds, seen, taken>>
riskVars   == <<risk, so, lostOrders, handled>>
vars == <<mdVars, mdQ, mdDone, stratVars, orderQ, stratDone, fired, riskVars>>

Symbols == 1..NumSymbols

SymbolOf(n) == ((n - 1) % NumSymbols) + 1

StratLoop == INSTANCE DrainLoop WITH
    queue <- mdQ, done <- mdDone, at <- strat, held <- upd, lost <- lostUpds

RiskLoop == INSTANCE DrainLoop WITH
    queue <- orderQ, done <- stratDone, at <- risk, held <- so, lost <- lostOrders

-----------------------------------------------------------------------------
(* The market data thread                                                  *)

MdLoaded ==
    /\ md = "load"
    /\ Updates > 0
    /\ md' = "run"
    /\ UNCHANGED <<pushed, mdQ, mdDone, stratVars, orderQ, stratDone, fired, riskVars>>

\* A file is missing, or no snapshot was loaded: the flag, and no update.
MdLoadFailed ==
    /\ md = "load"
    /\ md' = "exit"
    /\ mdDone' = TRUE
    /\ UNCHANGED <<pushed, mdQ, stratVars, orderQ, stratDone, fired, riskVars>>

\* The ring is written without asking whether it is full.
PushUnchecked ==
    /\ md = "run" /\ pushed < Updates
    /\ pushed' = pushed + 1
    /\ mdQ' = Append(mdQ, pushed + 1)
    /\ UNCHANGED <<md, mdDone, stratVars, orderQ, stratDone, fired, riskVars>>

\* One round of the tick loop; while the ring is full, push is spun on.
MdPush ==
    /\ md = "run" /\ pushed < Updates
    /\ Len(mdQ) < MdCapacity - 1
    /\ pushed' = pushed + 1
    /\ mdQ' = Append(mdQ, pushed + 1)
    /\ UNCHANGED <<md, mdDone, stratVars, orderQ, stratDone, fired, riskVars>>

\* The flag is raised before the last update is in the queue.
DoneTooEarly ==
    /\ md = "run" /\ pushed >= Updates - 1
    /\ mdDone' = TRUE
    /\ md' = IF pushed = Updates THEN "exit" ELSE md
    /\ UNCHANGED <<pushed, mdQ, stratVars, orderQ, stratDone, fired, riskVars>>

MdFinish ==
    /\ md = "run" /\ pushed = Updates
    /\ md' = "exit"
    /\ mdDone' = TRUE
    /\ UNCHANGED <<pushed, mdQ, stratVars, orderQ, stratDone, fired, riskVars>>

-----------------------------------------------------------------------------
(* The strategy thread                                                     *)

StratDrain ==
    /\ StratLoop!Drain
    /\ UNCHANGED <<mdVars, mdDone, seen, taken, orderQ, stratDone, fired, riskVars>>

\* The body of the loop up to publishOrder, which spins while the ring is full
StratHandle ==
    /\ strat = "handle"
    /\ LET s == SymbolOf(upd) IN
       /\ seen' = [seen EXCEPT ![s] = @ + 1]
       /\ strat' = IF seen'[s] % TicksPerOrder = 0 THEN "publish" ELSE "pop"
    /\ taken' = Append(taken, upd)
    /\ UNCHANGED <<mdVars, mdQ, mdDone, upd, lostUpds, orderQ, stratDone, fired, riskVars>>

\* push is tried once: an order that finds the ring full is dropped.
PublishOnce ==
    /\ strat = "publish"
    /\ strat' = "pop"
    /\ orderQ' = IF Len(orderQ) < OrderCapacity - 1 THEN Append(orderQ, upd) ELSE orderQ
    /\ fired' = Append(fired, upd)
    /\ UNCHANGED <<mdVars, mdQ, mdDone, upd, lostUpds, seen, taken, stratDone, riskVars>>

StratPublish ==
    /\ strat = "publish"
    /\ Len(orderQ) < OrderCapacity - 1
    /\ strat' = "pop"
    /\ orderQ' = Append(orderQ, upd)
    /\ fired' = Append(fired, upd)
    /\ UNCHANGED <<mdVars, mdQ, mdDone, upd, lostUpds, seen, taken, stratDone, riskVars>>

StratFinish ==
    /\ strat = "exit" /\ ~stratDone
    /\ stratDone' = TRUE
    /\ UNCHANGED <<mdVars, mdQ, mdDone, stratVars, orderQ, fired, riskVars>>

-----------------------------------------------------------------------------
(* The risk thread                                                         *)

RiskDrain ==
    /\ RiskLoop!Drain
    /\ UNCHANGED <<mdVars, mdQ, mdDone, stratVars, stratDone, fired, handled>>

\* publish: the order is logged, booked and marked in the handler
RiskHandle ==
    /\ risk = "handle"
    /\ handled' = Append(handled, so)
    /\ risk' = "pop"
    /\ UNCHANGED <<mdVars, mdQ, mdDone, stratVars, orderQ, stratDone, fired, so, lostOrders>>

-----------------------------------------------------------------------------

Init ==
    /\ md = "load" /\ pushed = 0
    /\ mdQ = <<>> /\ mdDone = FALSE
    /\ strat = "pop" /\ upd = 0 /\ lostUpds = <<>>
    /\ seen = [s \in Symbols |-> 0]
    /\ orderQ = <<>> /\ stratDone = FALSE
    /\ risk = "pop" /\ so = 0 /\ lostOrders = <<>>
    /\ taken = <<>> /\ fired = <<>> /\ handled = <<>>

MdThread    == MdLoaded \/ MdLoadFailed \/ MdPush \/ MdFinish
StratThread == StratDrain \/ StratHandle \/ StratPublish \/ StratFinish
RiskThread  == RiskDrain \/ RiskHandle

\* main joins the three threads.
Joined ==
    /\ md = "exit" /\ stratDone /\ risk = "exit"
    /\ UNCHANGED vars

Next == MdThread \/ StratThread \/ RiskThread \/ Joined

\* Each thread keeps running; a spin loop only waits for another thread.
Fairness == WF_vars(MdThread) /\ WF_vars(StratThread) /\ WF_vars(RiskThread)

Spec == Init /\ [][Next]_vars /\ Fairness
-----------------------------------------------------------------------------
(* What the pipeline promises                                              *)

TypeOK ==
    /\ md \in {"load", "run", "exit"}
    /\ pushed \in 0..Updates
    /\ mdQ \in Seq(1..Updates) /\ Len(mdQ) < MdCapacity
    /\ orderQ \in Seq(1..Updates) /\ Len(orderQ) < OrderCapacity
    /\ mdDone \in BOOLEAN /\ stratDone \in BOOLEAN
    /\ strat \in {"pop", "check", "again", "handle", "publish", "exit"}
    /\ risk \in {"pop", "check", "again", "handle", "exit"}
    /\ upd \in 0..Updates /\ so \in 0..Updates
    /\ seen \in [Symbols -> 0..Updates]

\* The updates pushed so far, in order
Pushed == [n \in 1..pushed |-> n]

\* What the strategy has taken out and not yet handled counts as received.
UpdsReceived == IF strat = "handle" THEN Append(taken, upd) ELSE taken

OrdersReceived == IF risk = "handle" THEN Append(handled, so) ELSE handled

UpdateHandOff == INSTANCE HandOff WITH
    Items <- 1..Updates, sent <- Pushed, received <- UpdsReceived,
    lost <- lostUpds, closed <- mdDone, finished <- (strat = "exit")

OrderHandOff == INSTANCE HandOff WITH
    Items <- 1..Updates, sent <- fired, received <- OrdersReceived,
    lost <- lostOrders, closed <- stratDone, finished <- (risk = "exit")

-----------------------------------------------------------------------------
(* The inductive invariant of the proofs                                   *)

Histories ==
    /\ {taken, fired, handled, lostUpds, lostOrders} \subseteq Seq(1..Updates)
    /\ \A s \in Symbols : seen[s] <= Len(taken)
    /\ strat \in {"handle", "publish"} => upd \in 1..Updates
    /\ risk = "handle" => so \in 1..Updates

\* All that was sent but the first `out' items is in the queue.
InFlight(sent, out, queue) ==
    /\ out + Len(queue) = Len(sent)
    /\ \A i \in DOMAIN queue : queue[i] = sent[out + i]

\* A consumer stops, or loses an item, only when its producer is done, and
\* from its one loss on a pop that fails finds the queue empty for good.
StopsLate(at, done, queue, lost) ==
    /\ at \in {"again", "exit"} => done
    /\ at = "exit" => queue = <<>>
    /\ Len(lost) <= 1
    /\ lost # <<>> => done /\ (at \in {"check", "again"} => queue = <<>>)

UpdsOut == Len(UpdsReceived) + Len(lostUpds)
OrdersOut == Len(OrdersReceived) + Len(lostOrders)

UpdateFlow ==
    /\ mdDone <=> md = "exit"
    /\ InFlight(Pushed, UpdsOut, mdQ)
    /\ StopsLate(strat, mdDone, mdQ, lostUpds)
    /\ upd = UpdsOut

OrderFlow ==
    /\ stratDone => strat = "exit"
    /\ InFlight(fired, OrdersOut, orderQ)
    /\ StopsLate(risk, stratDone, orderQ, lostOrders)

\* Orders stem from later and later updates, when sent and when received.
Ascending ==
    /\ \A i \in DOMAIN fired :
          fired[i] <= upd /\ (strat \in {"handle", "publish"} => fired[i] < upd)
    /\ \A i, j \in DOMAIN fired : i < j => fired[i] < fired[j]
    /\ \A i \in DOMAIN OrdersReceived :
          \E k \in 1..OrdersOut : OrdersReceived[i] = fired[k]
    /\ \A i, j \in DOMAIN OrdersReceived : i < j => OrdersReceived[i] < OrdersReceived[j]

IInv == TypeOK /\ Histories /\ UpdateFlow /\ OrderFlow /\ Ascending
-----------------------------------------------------------------------------

(***************************************************************************)
(* Updates reach the strategy in order and at most once, all of them but   *)
(* possibly one, and none goes missing before the market data thread is    *)
(* done; the strategy stops only when its queue is drained.                *)
(***************************************************************************)
UpdatesHandedOver == UpdateHandOff!Spec

(***************************************************************************)
(* The same of the orders the strategy sends to the risk thread.           *)
(***************************************************************************)
OrdersHandedOver == OrderHandOff!Spec

(***************************************************************************)
(* End to end: the orders that are booked stem from later and later        *)
(* updates, and when the threads have ended the orders sent and booked     *)
(* differ by at most the one the risk thread threw away.                   *)
(***************************************************************************)
EndToEnd ==
    /\ \A i, j \in DOMAIN handled : i < j => handled[i] < handled[j]
    /\ risk = "exit" =>
         /\ md = "exit" /\ stratDone /\ mdQ = <<>> /\ orderQ = <<>>
         /\ Len(fired) = Len(handled) + Len(lostOrders)
         /\ pushed = Len(taken) + Len(lostUpds)

(***************************************************************************)
(* The program ends: no thread spins for ever on a full ring or waits for  *)
(* a flag that nobody raises, also when the market data cannot be loaded.  *)
(***************************************************************************)
Terminates == <>(md = "exit" /\ stratDone /\ risk = "exit")

(***************************************************************************)
(* README.md: the strategy thread consumes the updates, the risk thread    *)
(* consumes the orders.  When the program has ended, none was left out.    *)
(***************************************************************************)
NothingLost == lostUpds = <<>> /\ lostOrders = <<>>
=============================================================================
