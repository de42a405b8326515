----------------------------- MODULE MCReporter -----------------------------
(* The reporter on small block trees. *)
EXTENDS Reporter, SmallTrees

\* As on a test network: the second block of branch 1 is worth three.
UnevenWork ==
  [b \in MCBlock |-> Len(b) + IF Len(b) > 4 /\ b[4] = 1 THEN 2 ELSE 0]

\* One fork, and a trunk that outgrows it by more than 2K.
LongTrunk == {Chain(0, 0, 9), Chain(1, 3, 5)}
\* Forks that overtake one another, by up to four new blocks; no block that is
\* K deep is abandoned.
TwoForks == {Chain(0, 0, 8), Chain(1, 3, 6), Chain(2, 4, 7)}
ThreeForks == {Chain(0, 0, 10), Chain(1, 3, 7), Chain(2, 4, 8), Chain(3, 6, 9)}
\* The same, with a trunk that goes on.
OneForkLongTrunk == {Chain(0, 0, 11), Chain(1, 3, 6)}
ThreeForksLongTrunk == {Chain(0, 0, 12), Chain(1, 3, 8), Chain(2, 4, 7), Chain(3, 6, 9)}

\* The node starts with four blocks, Lorenzo with what may be buried by then.
FourBlocks == {b \in MCBlock : Height(b) = 4}
BuriedBlocks == {Chain(0, 0, h) : h \in 1..(4 - Delay)}
=============================================================================
