----------------------------- MODULE HeaderRelay -----------------------------
(***************************************************************************)
(* What a relayer of headers promises, whatever it does to get there: the  *)
(* chain it relays only ever moves to blocks that had Depth blocks on top  *)
(* of them on the source's best chain, and only to more work.  Both        *)
(* reporters implement it, with Depth their delayBlocks.                   *)
(***************************************************************************)
EXTENDS BlockTree

CONSTANTS
  Depth,         \* blocks on top of a block that may be relayed
  NoRelay        \* the relayed chain is empty

VARIABLES
  source,        \* best block of the source
  buried,        \* blocks that ever had Depth blocks on top in the best chain
  relayed        \* newest header of the relayed chain

vars == <<source, buried, relayed>>

DeepIn(t) == {AncestorAt(t, h) : h \in 1..(Height(t) - Depth)}

Init ==
  /\ source \in Block /\ buried = DeepIn(source)
  /\ relayed \in Block \cup {NoRelay}

SourceAdvances ==
  /\ source' \in Block
  /\ ChainWork[source'] > ChainWork[source]
  /\ buried' = buried \cup DeepIn(source')
  /\ UNCHANGED relayed

\* An empty chain begins with any block of the source.
Begin ==
  /\ relayed = NoRelay
  /\ relayed' \in Block /\ OnChain(relayed', source)
  /\ UNCHANGED <<source, buried>>

Relay ==
  /\ relayed # NoRelay
  /\ relayed' \in buried
  /\ ChainWork[relayed'] > ChainWork[relayed]
  /\ UNCHANGED <<source, buried>>

Next == SourceAdvances \/ Begin \/ Relay

Spec == Init /\ [][Next]_vars
=============================================================================
