------------------------------ MODULE LiveSim ------------------------------
(***************************************************************************)
(* apps/live_sim.cpp: the single-threaded simulator.  For every tick and   *)
(* symbol it takes a snapshot of the feed, moves the impact model, lets    *)
(* the strategy quote, fills what it quotes at the impacted price, and     *)
(* marks the profit; after each tick three checks may throw the kill       *)
(* switch.  The book and the log, which nothing of this reads back, are    *)
(* OrderBook's and EventLog's.  Mids, impact and money are in half ticks.  *)
(* main's one or two calls of run_sim share no state, so that one run, of  *)
(* either configuration, stands for them.                                  *)
(* Left out: thin-book, which scales both depths alike, the feed's delay,  *)
(* and the statistics written in benchmark mode.                           *)
(***************************************************************************)
EXTENDS PnLTracker, ImpactModel, BasicStrategy, RealLOBFeed, Totals

CONSTANTS
    Symbols,        \* in the order of a tick
    Proxy,          \* the symbol whose volatility stands for all
    Configs,        \* the strategy parameters main has
    Options,        \* command lines; main knows no --no-risk and passes it over
    FileSets,       \* what the files of the symbols may hold
    Deltas,         \* the permanent impact of one trade
    KillPnL,        \* KILL_PNL_THRESHOLD
    KillVar,        \* KILL_VOL_THRESHOLD, squared
    KillSpreadMult, VolWindow, BaselineWin,
    MaxInventory    \* maxInventory of the parameters

SymbolSet == Range(Symbols)

ASSUME SimAssumption ==
    /\ Symbols \in Seq(SymbolSet) \ {<<>>} /\ IsInjective(Symbols) /\ Proxy \in SymbolSet
    /\ Configs \subseteq Parameters
    /\ \A o \in Options :
          /\ o.lag \in Int /\ o.maxTicks \in Int /\ o.freeze \in Int
          /\ o.shockVol \in BOOLEAN /\ o.noRisk \in BOOLEAN
    /\ \A fs \in FileSets : \A s \in SymbolSet : Snapshots(fs[s]) \in Seq(Snapshot)
    /\ Deltas \subseteq Nat \ {0}
    /\ {VolWindow, BaselineWin} \subseteq Nat \ {0}
    /\ {KillPnL, KillVar, KillSpreadMult} \subseteq Int

VARIABLES
    options, files, config, \* the command line, the data, the strategy
    phase,      \* loading, ticking, or done
    feeds,      \* the snapshots of each symbol
    t, next,    \* the tick and the index of its next symbol
    kill,       \* killSwitch
    totalPnL,   \* over the symbols of this tick so far
    base, intent,   \* of each symbol's strategy: its mid, and its currentClip_
                    \* and currentTicksPerOrder_ with the imbalance they follow
    impact, pnl,    \* of each symbol
    midHist, baseline,  \* of each symbol: the window, and the spreads learnt
    newOrders,
    quote,      \* history: each symbol's last order, with the mid it is about
    cash        \* history: paid and received for each symbol's fills

setup == <<options, files, config>>
market == <<base, intent, impact, pnl, midHist, baseline, newOrders, quote, cash>>
vars == <<setup, phase, feeds, t, next, kill, totalPnL, market>>

lag == IF options.lag < 1 THEN 1 ELSE options.lag
freezeBook == IF options.freeze < 0 THEN 0 ELSE options.freeze
params == [config EXCEPT !.lag = lag]

\* llround of a number of half ticks
RoundTicks(h) == IF h >= 0 THEN (h + 1) \div 2 ELSE -((1 - h) \div 2)

-----------------------------------------------------------------------------
(* Loading                                                                 *)

Load ==
    /\ phase = "load"
    /\ IF \A s \in SymbolSet : Loads(files[s])
       THEN /\ phase' = "tick"
            /\ feeds' = [s \in SymbolSet |-> Snapshots(files[s])]
       ELSE /\ phase' = "done"
            /\ UNCHANGED feeds
    /\ UNCHANGED <<setup, t, next, kill, totalPnL, market>>

\* The shortest feed, unless the command line asks for less
ticks ==
    LET minSize == Min({Len(feeds[s]) : s \in SymbolSet})
    IN IF options.maxTicks > 0 THEN Min({minSize, options.maxTicks}) ELSE minSize

\* The switch is only reported.
ContinuesKilled == t < ticks

\* The head of the tick loop
Continues == t < ticks /\ ~kill

-----------------------------------------------------------------------------
(* A symbol's part of a tick                                               *)

\* Every freezeBook-th tick shows the snapshot before its own.
SnapIndex == IF freezeBook > 0 /\ t > 0 /\ t % freezeBook = 0 THEN t - 1 ELSE t

Widened(spread) == IF options.shockVol THEN 2 * spread ELSE spread

\* The handler of the strategy's order: impact first, then the fill at the
\* impacted price, whatever the book would make of it.
Filled(s, order, moved, mid) ==
    \E delta \in Deltas :
        LET hit == onTrade(moved, order.side, delta)
            px == 2 * Max({1, RoundTicks(executionPrice(hit, order.side, mid))})
        IN /\ impact' = [impact EXCEPT ![s] = hit]
           /\ pnl' = [pnl EXCEPT ![s] = onFill(@, order.side, px, order.qty)]
           /\ cash' = [cash EXCEPT ![s] =
                  @ + px * order.qty * IF order.side = "Bid" THEN -1 ELSE 1]
           /\ newOrders' = newOrders + 1
           /\ quote' = [quote EXCEPT ![s] = <<order, base'[s]>>]

PushMid(window, mid) ==
    LET longer == Append(window, mid)
    IN IF Len(longer) > VolWindow THEN Tail(longer) ELSE longer

\* The mean is kept as its sum until BaselineWin spreads are in.
Learn(b, spread) ==
    IF b.count < BaselineWin THEN [sum |-> b.sum + spread, count |-> b.count + 1] ELSE b

SymbolTick(s) ==
    /\ phase = "tick" /\ next <= Len(Symbols) /\ s = Symbols[next]
    /\ next = 1 => Continues
    /\ LET snap == at(feeds[s], SnapIndex)
           spread == Widened(snap.spread)
       IN /\ \E moved \in AfterTick(impact[s], spread) :
                /\ base' = [base EXCEPT ![s] = RoundTicks(effectiveMid(moved, snap.mid))]
                /\ intent' = [intent EXCEPT ![s] =
                       updateIntent(params, t, @, Imbalance(snap.bid, snap.ask))]
                /\ IF Fires(t, intent'[s])
                   THEN \E coin \in {"Bid", "Ask"} :
                           Filled(s, fireOne(params, intent'[s], base'[s], coin), moved, snap.mid)
                   ELSE /\ impact' = [impact EXCEPT ![s] = moved]
                        /\ UNCHANGED <<pnl, cash, newOrders, quote>>
          /\ totalPnL' = Plus(IF next = 1 THEN Whole(0) ELSE totalPnL, TotalAt(pnl'[s], snap.mid))
          /\ midHist' = [midHist EXCEPT ![s] = PushMid(@, snap.mid)]
          /\ baseline' = [baseline EXCEPT ![s] = Learn(@, spread)]
    /\ next' = next + 1
    /\ UNCHANGED <<setup, phase, feeds, t, kill>>

-----------------------------------------------------------------------------
(* The checks after a tick                                                 *)

PnLKill == Less(totalPnL, Whole(KillPnL))

\* compute_stddev against its threshold, without the root and the mean
Volatile(window) ==
    LET n == Len(window)
        squares == Total([i \in 1..n |-> window[i] * window[i]])
    IN n >= 2 /\ n * squares - Total(window) * Total(window) > KillVar * n * (n - 1)

\* The spread is compared as it is in the file.
ExplodedUnwidened(s) ==
    LET b == baseline[s]
        row == at(feeds[s], Min({t, Len(feeds[s]) - 1}))
    IN /\ b.count = BaselineWin /\ b.sum > 0
       /\ row.spread * b.count > b.sum * KillSpreadMult

\* The check looks at the tick's own snapshot, frozen or not.
Exploded(s) ==
    LET b == baseline[s]
        row == at(feeds[s], Min({t, Len(feeds[s]) - 1}))
    IN /\ b.count = BaselineWin /\ b.sum > 0
       /\ Widened(row.spread) * b.count > b.sum * KillSpreadMult

EndTick ==
    /\ phase = "tick" /\ next > Len(Symbols)
    /\ kill' = (kill \/ PnLKill \/ Volatile(midHist[Proxy]) \/ \E s \in SymbolSet : Exploded(s))
    /\ t' = t + 1
    /\ next' = 1
    /\ UNCHANGED <<setup, phase, feeds, totalPnL, market>>

Finish ==
    /\ phase = "tick" /\ next = 1
    /\ ~Continues
    /\ phase' = "done"
    /\ UNCHANGED <<setup, feeds, t, next, kill, totalPnL, market>>

-----------------------------------------------------------------------------

Init ==
    /\ options \in Options /\ files \in FileSets /\ config \in Configs
    /\ phase = "load" /\ feeds = [s \in SymbolSet |-> <<>>]
    /\ t = 0 /\ next = 1 /\ kill = FALSE /\ totalPnL = Whole(0)
    /\ base = [s \in SymbolSet |-> config.basePrice]
    /\ intent = [s \in SymbolSet |-> FirstIntent(config)]
    /\ impact = [s \in SymbolSet |-> NoImpact]
    /\ pnl = [s \in SymbolSet |-> Flat]
    /\ midHist = [s \in SymbolSet |-> <<>>]
    /\ baseline = [s \in SymbolSet |-> [sum |-> 0, count |-> 0]]
    /\ newOrders = 0
    /\ quote = [s \in SymbolSet |-> <<>>]
    /\ cash = [s \in SymbolSet |-> 0]

Next ==
    \/ Load
    \/ \E s \in SymbolSet : SymbolTick(s)
    \/ EndTick
    \/ Finish

Spec == Init /\ [][Next]_vars
-----------------------------------------------------------------------------

TypeOK ==
    /\ options \in Options /\ files \in FileSets /\ config \in Configs
    /\ phase \in {"load", "tick", "done"}
    /\ t \in Nat /\ (phase = "tick" => t <= ticks) /\ next \in 1..(Len(Symbols) + 1)
    /\ kill \in BOOLEAN /\ newOrders \in Nat
    /\ base \in [SymbolSet -> Int] /\ cash \in [SymbolSet -> Int]
    /\ intent \in [SymbolSet -> Intents] /\ impact \in [SymbolSet -> Impacts]
    /\ pnl \in [SymbolSet -> Positions]
    /\ midHist \in [SymbolSet -> Seq(Int)] /\ \A s \in SymbolSet : Len(midHist[s]) <= VolWindow
    /\ baseline \in [SymbolSet -> [sum : Int, count : 0..BaselineWin]]
    /\ quote \in [SymbolSet -> {<<>>} \cup (Orders \X Int)]

\* The ticks the symbol has had
Had(s) == IF \E i \in 1..(next - 1) : Symbols[i] = s THEN t + 1 ELSE t

(***************************************************************************)
(* PnLTracker.cpp against the fills themselves: over opening, adding,      *)
(* closing in part and flipping, realised profit less the cost of the open *)
(* position is the cash paid and received.                                 *)
(***************************************************************************)
PnLIsCashFlow ==
    \A s \in SymbolSet : TotalAt(pnl[s], 0) = Whole(cash[s])

(***************************************************************************)
(* BasicStrategy.cpp provides liquidity: a quote is never on the wrong     *)
(* side of the mid it is made about, nor at it unless that mid is 1 or     *)
(* less, and its size is within the clips, however the impact of its own   *)
(* fills has moved that mid.                                               *)
(***************************************************************************)
QuotesArePassive ==
    \A s \in SymbolSet : quote[s] # <<>> =>
        LET order == quote[s][1] IN
        /\ order.px >= 1
        /\ order.qty \in config.minClip..config.maxClip
        /\ IF order.side = "Ask" THEN order.px > quote[s][2]
           ELSE order.px < quote[s][2] \/ (order.px = 1 /\ quote[s][2] <= 1)

\* The snapshot of tick k: its own, or where the book is frozen the one before
Shown(s, k) ==
    LET rows == Snapshots(files[s])
    IN IF freezeBook # 0 /\ k # 0 /\ k % freezeBook = 0 THEN rows[k] ELSE rows[k + 1]

(***************************************************************************)
(* --lag-strategy: the imbalance a strategy trades on is the one shown at  *)
(* the last tick that was a multiple of the lag, over frozen books and     *)
(* rows the loader passed over.                                            *)
(***************************************************************************)
IntentIsLagged ==
    \A s \in SymbolSet : Had(s) > 0 =>
        LET since == lag * config.recalc
            row == Shown(s, ((Had(s) - 1) \div since) * since)
        IN intent[s].imb = Imbalance(row.bid, row.ask)

\* The last mids of n ticks
Window(s, n) ==
    LET first == Max({0, n - VolWindow})
    IN [i \in 1..(n - first) |-> Shown(s, first + i - 1).mid]

\* The three limits at the end of tick k, from the fills and the files alone
LossBreach(k) ==
    Total([i \in DOMAIN Symbols |->
            cash[Symbols[i]] + Shown(Symbols[i], k).mid * pnl[Symbols[i]].position]) < KillPnL

VolBreach(k) == Volatile(Window(Proxy, k + 1))

SpreadBreach(k) ==
    \E s \in SymbolSet :
        LET learnt == Total([i \in 1..BaselineWin |-> Widened(Shown(s, i - 1).spread)])
        IN /\ k + 1 >= BaselineWin /\ learnt > 0
           /\ Widened(Snapshots(files[s])[k + 1].spread) * BaselineWin > learnt * KillSpreadMult

(***************************************************************************)
(* The kill switch of live_sim.cpp is exact: before every tick it is on if *)
(* and only if the loss of all fills at the last mids, the volatility of   *)
(* the last VolWindow mids, or a spread against the mean of the first      *)
(* BaselineWin was over its limit after the tick before.  That is so on    *)
(* every command line, with the --no-risk of the README as without it.     *)
(***************************************************************************)
KillIsExact ==
    phase # "load" /\ next = 1 =>
        (kill <=> t > 0 /\ (LossBreach(t - 1) \/ VolBreach(t - 1) \/ SpreadBreach(t - 1)))

(***************************************************************************)
(* Once the kill switch is on, no order is sent, no position changes, and  *)
(* it stays on.                                                            *)
(***************************************************************************)
NoTradeAfterKill ==
    [][kill => kill' /\ newOrders' = newOrders /\ pnl' = pnl /\ t' = t]_vars

-----------------------------------------------------------------------------
(* The inductive invariant of the proofs in LiveSimProofs                  *)

Loaded == \A s \in SymbolSet : Loads(files[s])

\* A tick that has begun has a snapshot of its own, and the switch is off.
TickInv ==
    /\ phase = "tick" => Loaded
    /\ phase # "load" /\ Loaded => feeds = [s \in SymbolSet |-> Snapshots(files[s])]
    /\ phase = "load" \/ ~Loaded => t = 0 /\ next = 1 /\ ~kill
    /\ next # 1 => phase = "tick" /\ t < ticks /\ ~kill

\* The value of the position, without the division
Ledger(st, paid) ==
    st.realizedPnL.num * st.avgPrice.den =
        (st.avgPrice.num * st.position + paid * st.avgPrice.den) * st.realizedPnL.den

\* What n ticks leave: the intent and the first spreads
IntentAfter(s, n) ==
    LET since == lag * config.recalc
        row == Shown(s, ((n - 1) \div since) * since)
    IN Intent(params, Imbalance(row.bid, row.ask))

Learnt(s, n) ==
    [sum |-> Total([i \in 1..n |-> Widened(Shown(s, i - 1).spread)]), count |-> n]

Worth(n) ==
    Total([i \in 1..n |->
            cash[Symbols[i]] + Shown(Symbols[i], t).mid * pnl[Symbols[i]].position])

SymbolInv(s) ==
    /\ Ledger(pnl[s], cash[s])
    /\ Had(s) > 0 => intent[s] = IntentAfter(s, Had(s))
    /\ midHist[s] = Window(s, Had(s))
    /\ baseline[s] = Learnt(s, Min({Had(s), BaselineWin}))

IInv ==
    /\ TypeOK /\ TickInv
    /\ \A s \in SymbolSet : SymbolInv(s)
    /\ next > 1 => totalPnL = Whole(Worth(next - 1))
    /\ QuotesArePassive /\ KillIsExact

(***************************************************************************)
(* README.md on the strategy: "Has a notion of inventory (maxInventory) to *)
(* avoid unbounded accumulation".  Not so: nothing reads the limit.        *)
(***************************************************************************)
InventoryBounded ==
    \A s \in SymbolSet : pnl[s].position \in (-MaxInventory)..MaxInventory
=============================================================================
