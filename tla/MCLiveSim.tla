---- MODULE MCLiveSim ----
EXTENDS LiveSim
Row(mid, spread, bid, ask) ==
    [kind |-> "row", mid |-> mid, spread |-> spread, bids |-> <<bid>>, asks |-> <<ask>>]
Junk == [kind |-> "junk"]
File(lines) == [header |-> TRUE, lines |-> lines]
Bull == File(<<Row(20, 1, 9, 1), Row(22, 1, 9, 1), Junk, Row(24, 2, 4, 3), Row(24, 1, 1, 1),
               Row(23, 2, 2, 3), Row(22, 6, 8, 3), Row(22, 1, 1, 1)>>)
Bear == File(<<Row(7, 2, 1, 9), Row(5, 2, 1, 6), Row(3, 3, 0, 0), Row(3, 2, 1, 9),
               Row(5, 2, 1, 4), Row(12, 2, 1, 4)>>)
Calm == File(<<Row(9, 1, 1, 1), Row(9, 1, 5, 2), Row(10, 1, 2, 5), Row(10, 1, 1, 9),
               Row(9, 1, 9, 1), Row(8, 2, 5, 6), Row(8, 3, 1, 1)>>)
Jumpy == File(<<Row(9, 1, 1, 2), Row(9, 1, 1, 1), Row(15, 1, 2, 1), Row(15, 1, 1, 3)>>)
Wide == File(<<Row(9, 1, 1, 2), Row(9, 1, 1, 1), Row(9, 3, 2, 1), Row(9, 1, 1, 3)>>)
MCSymbols == <<"BTC", "ETH">>
MCFileSets ==
    {[BTC |-> f, ETH |-> g] : f \in {Bull, Jumpy, Wide, Calm}, g \in {Bear, Calm}}
    \cup {[BTC |-> Calm, ETH |-> NoFile], [BTC |-> File(<<Junk>>), ETH |-> Calm]}
Baseline == [basePrice |-> 100, clipSize |-> 2, ticksPerOrder |-> 3, mode |-> 1,
             minClip |-> 1, maxClip |-> 3, minTicks |-> 1, maxTicks |-> 2, recalc |-> 2,
             lag |-> 1, lpOffset |-> 2]
Aggressive == [Baseline EXCEPT !.mode = 2, !.recalc = 1, !.minClip = 2, !.maxClip = 4]
MCConfigs == {Baseline, Aggressive}
Cli(lagged, most, frozen, shock, unchecked) ==
    [lag |-> lagged, maxTicks |-> most, freeze |-> frozen, shockVol |-> shock,
     noRisk |-> unchecked]
MCOptions ==
    {Cli(1, -1, 0, FALSE, FALSE), Cli(0, 5, 2, TRUE, FALSE), Cli(2, 0, 3, FALSE, TRUE)}
MCKillPnL == -130
====
