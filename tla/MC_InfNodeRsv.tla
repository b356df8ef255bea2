---------------------------- MODULE MC_InfNodeRsv ----------------------------
(***************************************************************************)
(* Governance votes on a small chain.  Heights are scaled down keeping     *)
(* their order: nInfinityNodeBeginHeight -> 2, INFINITYNODE_RSV_BEGIN -> 2, *)
(* INF_MATURED_LIMIT and MaxReorganizationDepth 55 -> 1.                   *)
(*   - voter a votes yes at 3 to the governance address *)
(*     address and changes to no at 5;                                     *)
(*   - voter b votes yes at 4 to the legacy burn address *)
(*     and yes again at 6 to the governance address;                      *)
(*   - voter c votes yes at 4 to the governance address.                  *)
(* Nodes in outpoint order: 1 (a, tier 5, burnt at 2), 2 (b, tier 1, at *)
(* 3), 3 (a, tier 10, at 4) and 4 (c, tier 1, at 6, matured only once the *)
(* tip passes 7), so voter a owns two nodes of different tiers and c votes *)
(* before its node is in the registry.                                     *)
(***************************************************************************)
EXTENDS InfNodeRsv

CONSTANTS a, b, c, prop

MCChainVotes ==
  { [p |-> prop, voter |-> a, h |-> 3, op |-> TRUE,  kind |-> "gov"],
    [p |-> prop, voter |-> a, h |-> 5, op |-> FALSE, kind |-> "gov"],
    [p |-> prop, voter |-> b, h |-> 4, op |-> TRUE,  kind |-> "burn"],
    [p |-> prop, voter |-> b, h |-> 6, op |-> TRUE,  kind |-> "gov"],
    [p |-> prop, voter |-> c, h |-> 4, op |-> TRUE,  kind |-> "gov"] }

MCNodeTier   == (1 :> 5) @@ (2 :> 1) @@ (3 :> 10) @@ (4 :> 1)
MCNodeOwner  == (1 :> a) @@ (2 :> b) @@ (3 :> a) @@ (4 :> c)
MCBurnHeight == (1 :> 2) @@ (2 :> 3) @@ (3 :> 4) @@ (4 :> 6)


=============================================================================
