----------------------------- MODULE BlockTree ------------------------------
(***************************************************************************)
(* A tree of blocks, Bitcoin's or BNB's, as the relayer sees it through    *)
(* hashes, parent hashes, heights and work.                                *)
(*                                                                         *)
(* A block is identified with the path that leads to it from the first     *)
(* block of the tree: a non-empty sequence whose length is the height.     *)
(* Two blocks are equal exactly when their hashes are, the parent of a     *)
(* block is its path without the last step, and a block is on the chain    *)
(* that ends in another one exactly when it is a prefix of it.             *)
(***************************************************************************)
EXTENDS Integers, Sequences

CONSTANTS
  Block,        \* the blocks that may be mined, closed under taking the parent
  ChainWork     \* total work of the chain that ends in a block

Height(b) == Len(b)

Parent(b) == SubSeq(b, 1, Len(b) - 1)

\* Block h of the chain that ends in b.
AncestorAt(b, h) == SubSeq(b, 1, h)

\* The hash of b is found at its height in the chain that ends in tip.
OnChain(b, tip) == Len(b) <= Len(tip) /\ SubSeq(tip, 1, Len(b)) = b

\* The work of the header of b alone.
HeaderWork(b) == IF Len(b) = 1 THEN ChainWork[b] ELSE ChainWork[b] - ChainWork[Parent(b)]

\* Blocks lo .. hi of the chain that ends in tip, oldest first.
ChainSegment(tip, lo, hi) == [i \in 1..(hi - lo + 1) |-> SubSeq(tip, 1, lo + i - 1)]

\* Each block is the parent of the next one.
IsChain(s) == \A i \in 1..(Len(s) - 1) : Parent(s[i + 1]) = s[i]

ASSUME BlockAssumption ==
  /\ Block \subseteq Seq(Nat) \ {<<>>}
  /\ \A b \in Block : \A h \in 1..Len(b) : SubSeq(b, 1, h) \in Block

ASSUME WorkAssumption ==
  /\ ChainWork \in [Block -> Nat \ {0}]
  /\ \A b \in Block : Len(b) > 1 => ChainWork[b] > ChainWork[Parent(b)]
=============================================================================
