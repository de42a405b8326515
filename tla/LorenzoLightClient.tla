------------------------- MODULE LorenzoLightClient -------------------------
(***************************************************************************)
(* Lorenzo's Bitcoin light client, as the reporter uses it through the SDK *)
(* client of reporter/expected_lorenzo_client.go.  Its code is not in the  *)
(* repository.  It keeps one header chain above a base header; the chain   *)
(* is given by its tip.                                                    *)
(***************************************************************************)
EXTENDS BlockTree

\* The header is on the chain the client follows.
ContainsBTCBlock(tip, b) == OnChain(b, tip)

(***************************************************************************)
(* MsgInsertHeaders: the first header must extend a header of the chain,   *)
(* and the branch must end with more work than the present tip.            *)
(***************************************************************************)
Accepts(tip, hs) ==
  /\ Height(hs[1]) > 1
  /\ ContainsBTCBlock(tip, Parent(hs[1]))
  /\ ChainWork[hs[Len(hs)]] > ChainWork[tip]

\* The tip after an accepted message.
InsertHeaders(hs) == hs[Len(hs)]
=============================================================================
