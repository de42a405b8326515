----------------------------- MODULE SmallTrees -----------------------------
(***************************************************************************)
(* Small block trees for model checking.  A chain is named by its last     *)
(* block: the trunk is all zeros; branch n leaves it after block `at` and  *)
(* goes on with n up to height `top`.                                      *)
(***************************************************************************)
EXTENDS Integers, Sequences

CONSTANT Leaves    \* the longest chains of the tree

Chain(n, at, top) == [i \in 1..top |-> IF i <= at THEN 0 ELSE n]

MCBlock == UNION {{SubSeq(leaf, 1, h) : h \in 1..Len(leaf)} : leaf \in Leaves}

\* Every block has the same work, as within a difficulty period.
EvenWork == [b \in MCBlock |-> Len(b)]
=============================================================================
