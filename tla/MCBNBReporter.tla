---------------------------- MODULE MCBNBReporter ----------------------------
(* The BNB reporter on small block trees. *)
EXTENDS BNBReporter, SmallTrees

\* With Delay = 2, branches 1 and 3 abandon nothing that is buried; branch 2 may
\* abandon a header Lorenzo has.
Forks == {Chain(0, 0, 10), Chain(1, 4, 6), Chain(2, 4, 8), Chain(3, 7, 9)}

FiveToEightBlocks == {Chain(0, 0, h) : h \in 5..8}
BuriedOrNone == {NoBlock, Chain(0, 0, 1), Chain(0, 0, 3)}
=============================================================================
