-------------------------------- MODULE Totals ------------------------------
(***************************************************************************)
(* What a loop that adds up a sequence is left with: the depths and totals *)
(* of src/OrderBook.cpp, and compute_stddev of apps/live_sim.cpp.          *)
(***************************************************************************)
EXTENDS Integers, Sequences

Total(seq) ==
    LET upto[i \in 0..Len(seq)] == IF i = 0 THEN 0 ELSE upto[i - 1] + seq[i]
    IN upto[Len(seq)]
=============================================================================
