---------------------------- MODULE RealLOBFeed ----------------------------
(***************************************************************************)
(* market/RealLOBFeed.hpp: the snapshots of a recorded order book.  A file *)
(* is its lines after the header and whether it opens with a header that   *)
(* has the columns midpoint and spread.  A line is blank, too short, has a *)
(* midpoint or spread that is no number, or is a row; a row's depths are   *)
(* the sums of those of its fifteen cells a side that are numbers.         *)
(***************************************************************************)
EXTENDS Integers, SequencesExt, FiniteSetsExt

\* A recorded book has no negative sizes.
Snapshot == [mid : Int, spread : Int, bid : Nat, ask : Nat]

NoFile == [header |-> FALSE, lines |-> <<>>]

\* The numbers among the cells of one side
DepthSum(cells) == FoldSeq(LAMBDA cell, sum : sum + cell, 0, cells)

SnapshotOf(line) ==
    [mid |-> line.mid, spread |-> line.spread,
     bid |-> DepthSum(line.bids), ask |-> DepthSum(line.asks)]

\* loadCSV: lines it cannot use are passed over
Snapshots(file) ==
    LET rows == SelectSeq(file.lines, LAMBDA line : line.kind = "row")
    IN [i \in DOMAIN rows |-> SnapshotOf(rows[i])]

Loads(file) == file.header /\ Snapshots(file) # <<>>

\* at: from 0, around the end
at(snapshots, idx) == snapshots[(idx % Len(snapshots)) + 1]
=============================================================================
