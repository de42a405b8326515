---------------------------- MODULE CacheMachine ----------------------------
(***************************************************************************)
(* The block cache driven by every sequence of calls its callers may make, *)
(* next to the unbounded list it is a window of.                           *)
(*                                                                         *)
(* The cache is filled once with blocks of one chain, sorted by height and *)
(* possibly with gaps (Init does not ask for consecutive heights), and     *)
(* then grows, shrinks, is resized and trimmed.                            *)
(***************************************************************************)
EXTENDS BTCCache

CONSTANTS
  Fillings,        \* the block lists Init may be called with
  Sizes            \* the capacities NewBTCCache and Resize are called with

\* NewBTCCache and Resize refuse a capacity of zero; the callers fill the cache
\* with blocks of one chain, so no two of them have the same height.
ASSUME CacheAssumption ==
  /\ Sizes \subseteq Nat \ {0}
  /\ Fillings \subseteq Seq(Block)
  /\ \A ibs \in Fillings : \A i, k \in 1..Len(ibs) : Height(ibs[i]) = Height(ibs[k]) => i = k

VARIABLES
  cache,           \* the cache
  chain            \* every block added and not removed since, oldest first

vars == <<cache, chain>>

TypeOK ==
  /\ cache \in [blocks : Seq(Block), maxEntries : Sizes]
  /\ chain \in Seq(Block)

Init == \E n \in Sizes : cache = NewBTCCache(n) /\ chain = <<>>

\* Init(ibs) on a cache just made: an error leaves the cache as it was.
InitBlocks(ibs) ==
  /\ cache.blocks = <<>>
  /\ ~TooManyEntries(cache, ibs)
  /\ SortedByHeight(ibs)
  /\ cache' = AddAll(cache, ibs)
  /\ chain' = ibs

\* Add(ib) with the child of the tip, which is what handleConnectedBlocks adds.
AddBlock(ib) ==
  /\ cache.blocks # <<>>
  /\ Parent(ib) = Tip(cache)
  /\ ~AddPanics(cache)
  /\ cache' = Add(cache, ib)
  /\ chain' = Append(chain, ib)

RemoveLastBlock ==
  /\ cache.blocks # <<>>
  /\ cache' = RemoveLast(cache)
  /\ chain' = SubSeq(chain, 1, Len(chain) - 1)

RemoveAllBlocks ==
  /\ cache.blocks # <<>>
  /\ cache' = RemoveAll(cache)
  /\ chain' = <<>>

\* bootstrap resizes and trims one after the other; here any call may come between.
ResizeCache(n) == cache' = Resize(cache, n) /\ UNCHANGED chain

TrimCache == cache' = Trim(cache) /\ UNCHANGED chain

TrimConfirmed(k) == cache' = TrimConfirmedBlocks(cache, k) /\ UNCHANGED chain

Next ==
  \/ \E ibs \in Fillings : InitBlocks(ibs)
  \/ \E ib \in Block : AddBlock(ib)
  \/ RemoveLastBlock
  \/ RemoveAllBlocks
  \/ \E n \in Sizes : ResizeCache(n)
  \/ TrimCache
  \/ \E k \in Sizes : TrimConfirmed(k)

Spec == Init /\ [][Next]_vars

-----------------------------------------------------------------------------
(***************************************************************************)
(* Whatever is added, dropped at capacity, resized and trimmed, the cache  *)
(* holds the newest blocks of the chain it follows, with none missing.     *)
(***************************************************************************)
WindowOfChain ==
  /\ Size(cache) <= Len(chain)
  /\ cache.blocks = SubSeq(chain, Len(chain) - Size(cache) + 1, Len(chain))

(***************************************************************************)
(* FindBlock (btccache.go 181-209): on every reachable cache, gaps         *)
(* included, the binary search returns the block of the asked height when  *)
(* the cache has one, nil when it has none, and never steps below index 0. *)
(***************************************************************************)
FindBlockFinds ==
  cache.blocks # <<>> =>
    \A h \in {Height(b) : b \in Block} \cup {0} :
      LET found == FindBlock(cache, h)
          have  == {i \in 1..Size(cache) : Height(cache.blocks[i]) = h}
      IN  IF have = {} THEN found = NoBlock ELSE \E i \in have : found = cache.blocks[i]

(***************************************************************************)
(* Trimming after a resize (bootstrapping.go 126-132) makes room: from     *)
(* every reachable cache, overfull ones included, Trim gives a cache to    *)
(* which add can add (btccache.go 61-63).                                  *)
(***************************************************************************)
TrimmedCacheAccepts == ~AddPanics(Trim(cache))
=============================================================================
