------------------------------ MODULE MCCatchUp ------------------------------
(* The catch-up on a small block tree. *)
EXTENDS CatchUp, SmallTrees

\* The node reorganises by up to 2K blocks, near its tip or where the producer is
\* about to fetch; no block that is 2K deep is abandoned, but for branch 3, which
\* it left before the program started.
Forks == {Chain(0, 0, 14), Chain(1, 11, 14), Chain(2, 8, 10), Chain(3, 2, 4)}

TrunkTips == {Chain(0, 0, n) : n \in 3..12}
OnTrunkOrStale == {Chain(0, 0, 1), Chain(0, 0, 3), Chain(3, 2, 4)}
=============================================================================
