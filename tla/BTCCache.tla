------------------------------ MODULE BTCCache ------------------------------
(***************************************************************************)
(* types/btccache.go: the bounded list of the latest Bitcoin blocks.  A    *)
(* cache is a record of its blocks, oldest first, and its capacity.  Each  *)
(* operator is one method, as a function from the cache it locks to the    *)
(* cache it leaves; the errors and panics of a method are predicates the   *)
(* caller tests.                                                           *)
(*                                                                         *)
(* A definition that nothing refers to, written just before the one it     *)
(* resembles, is a faulty variant of it; the mutants of PROJECT.json name  *)
(* the property that tells the two apart.                                  *)
(***************************************************************************)
EXTENDS BlockTree

NoBlock == <<>>     \* nil
NoCache == [blocks |-> <<>>, maxEntries |-> 0]

NewBTCCache(maxEntries) == [blocks |-> <<>>, maxEntries |-> maxEntries]

Size(c) == Len(c.blocks)
First(c) == IF c.blocks = <<>> THEN NoBlock ELSE c.blocks[1]
Tip(c) == IF c.blocks = <<>> THEN NoBlock ELSE c.blocks[Len(c.blocks)]

(***************************************************************************)
(* Init rejects too many blocks and blocks that are not sorted by height;  *)
(* equal heights pass, as sort.SliceIsSorted only looks for a decrease.    *)
(* It appends to what the cache holds.                                     *)
(***************************************************************************)
TooManyEntries(c, ibs) == Len(ibs) > c.maxEntries

SortedByHeight(ibs) == \A i \in 1..(Len(ibs) - 1) : Height(ibs[i]) <= Height(ibs[i + 1])

(***************************************************************************)
(* add panics on a cache above its capacity, and drops the oldest block of *)
(* a full one.                                                             *)
(***************************************************************************)
AddPanics(c) == Size(c) > c.maxEntries

Add(c, ib) ==
  [c EXCEPT !.blocks = Append(IF Size(c) = c.maxEntries THEN Tail(@) ELSE @, ib)]

\* Adding the blocks of ibs one after the other keeps the last maxEntries of them.
AddAll(c, ibs) ==
  LET all  == c.blocks \o ibs
      keep == IF Len(all) > c.maxEntries THEN c.maxEntries ELSE Len(all)
  IN  [c EXCEPT !.blocks = SubSeq(all, Len(all) - keep + 1, Len(all))]

RemoveLast(c) == [c EXCEPT !.blocks = SubSeq(@, 1, Len(@) - 1)]

RemoveAll(c) == [c EXCEPT !.blocks = <<>>]

ResizeOneLess(c, maxEntries) == [c EXCEPT !.maxEntries = maxEntries - 1]
Resize(c, maxEntries) == [c EXCEPT !.maxEntries = maxEntries]

TrimNewest(c) ==
  IF Size(c) < c.maxEntries THEN c ELSE [c EXCEPT !.blocks = SubSeq(@, 1, c.maxEntries)]

TrimOneMore(c) ==
  IF Size(c) <= c.maxEntries THEN c
  ELSE [c EXCEPT !.blocks = SubSeq(@, Len(@) - c.maxEntries, Len(@))]

Trim(c) ==
  IF Size(c) < c.maxEntries THEN c
  ELSE [c EXCEPT !.blocks = SubSeq(@, Len(@) - c.maxEntries + 1, Len(@))]

\* TrimConfirmedBlocks(k): the blocks it returns, and the cache it leaves.
ConfirmedBlocks(c, k) == SubSeq(c.blocks, 1, Size(c) - k)
TrimConfirmedBlocks(c, k) ==
  IF Size(c) <= k THEN c ELSE [c EXCEPT !.blocks = SubSeq(@, Len(@) - k + 1, Len(@))]

(***************************************************************************)
(* GetLastBlocks(stopHeight): the suffix that starts at stopHeight.  The   *)
(* scan runs from the tip down and leaves j at the first index when no     *)
(* block has that height.  Not defined on an empty cache (index panic).    *)
(***************************************************************************)
HeightOutOfRange(c, h) == h < Height(First(c)) \/ Height(Tip(c)) < h

LastAtHeight(c, h, i) ==
  Height(c.blocks[i]) = h /\ \A k \in (i + 1)..Size(c) : Height(c.blocks[k]) # h

GetLastBlocks(c, stopHeight) ==
  LET hits == {i \in 1..Size(c) : LastAtHeight(c, stopHeight, i)}
      j    == IF hits = {} THEN 1 ELSE CHOOSE i \in hits : TRUE
  IN  SubSeq(c.blocks, j, Size(c))

(***************************************************************************)
(* FindBlock(blockHeight): binary search between two indices.  The code    *)
(* counts from 0 in uint64, so rightBound - 1 wraps when the midpoint is   *)
(* the first block: the search then reads outside the slice.               *)
(***************************************************************************)
Wrapped == <<-1>>    \* not a block

SearchStrictly(c, blockHeight) ==
  LET search[bounds \in (1..(Size(c) + 1)) \X (0..Size(c))] ==
        LET l   == bounds[1]
            r   == bounds[2]
            mid == l + ((r - l) \div 2)
            at  == Height(c.blocks[mid])
        IN  IF l >= r                   THEN NoBlock
            ELSE IF at = blockHeight    THEN c.blocks[mid]
            ELSE IF at < blockHeight    THEN search[<<mid + 1, r>>]
            ELSE IF mid = 1             THEN Wrapped
            ELSE search[<<l, mid - 1>>]
  IN  search[<<1, Size(c)>>]

SearchBetween(c, blockHeight) ==
  LET search[bounds \in (1..(Size(c) + 1)) \X (0..Size(c))] ==
        LET l   == bounds[1]
            r   == bounds[2]
            mid == l + ((r - l) \div 2)
            at  == Height(c.blocks[mid])
        IN  IF l > r                    THEN NoBlock
            ELSE IF at = blockHeight    THEN c.blocks[mid]
            ELSE IF at < blockHeight    THEN search[<<mid + 1, r>>]
            ELSE IF mid = 1             THEN Wrapped
            ELSE search[<<l, mid - 1>>]
  IN  search[<<1, Size(c)>>]

FindBlock(c, blockHeight) ==
  IF HeightOutOfRange(c, blockHeight) THEN NoBlock ELSE SearchBetween(c, blockHeight)
=============================================================================
