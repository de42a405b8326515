--------------------------- MODULE MCCacheMachine ---------------------------
(* One chain of seven blocks; fillings are its sublists of at most four blocks. *)
EXTENDS CacheMachine, SequencesExt

CONSTANTS MaxHeight, MaxFilling

MCBlock == {[i \in 1..h |-> 0] : h \in 1..MaxHeight}
MCChainWork == [b \in MCBlock |-> Len(b)]

Sorted(heights) == SetToSortSeq(heights, <)
MCFillings ==
  {[i \in 1..Cardinality(hs) |-> [k \in 1..(Sorted(hs)[i]) |-> 0]] :
     hs \in {s \in SUBSET (1..MaxHeight) : Cardinality(s) \in 1..MaxFilling}}
MCSizes == 1..4
=============================================================================
