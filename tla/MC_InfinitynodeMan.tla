------------------------- MODULE MC_InfinitynodeMan --------------------------
(***************************************************************************)
(* A small chain for InfinitynodeMan.  The code's heights are scaled down  *)
(* keeping their order: INF_MATURED_LIMIT 55 -> 2, nInfinityNodeBeginHeight*)
(* 100 -> 3, nInfinityNodeGenesisStatement 110 -> 4.                       *)
(*   - n1, n2: tier 1, one block (3), so the outpoint breaks the rank tie; *)
(*   - n4, n3: tier 1, burned at 4 and 5, before the second statement;     *)
(*   - n6: tier 1, burned at 9, one block before the statement at 10, so   *)
(*     it matures after that statement was first built;                    *)
(*   - n7: tier 5, burned at 6, expiring at 10;                            *)
(*   - n5: tier 10, burned at 1, before the start height: never scanned.   *)
(* Metadata: owner o1 (of n1) updates at 6 then 8; owner o2 (of n3) at 4, *)
(* below its burn, and at 7.  Coinbases pay n1's script s1 at 5, 10 and    *)
(* 11 and n3's script s2 at 12; nLastPaidScanDeepth (375) -> 3, so two     *)
(* payments of s1 fall in one window and the depth cut applies early.     *)
(***************************************************************************)
EXTENDS InfinitynodeMan

CONSTANTS n1, n2, n3, n4, n5, n6, n7, o0, o1, o2, s0, s1, s2, v1, v2, v3, v4

MCBurnHeight   == (n1 :> 3) @@ (n2 :> 3) @@ (n3 :> 5) @@ (n4 :> 4) @@ (n5 :> 1)
                    @@ (n6 :> 9) @@ (n7 :> 6)
MCNodeTier     == (n1 :> 1) @@ (n2 :> 1) @@ (n3 :> 1) @@ (n4 :> 1) @@ (n5 :> 10)
                    @@ (n6 :> 1) @@ (n7 :> 5)
MCExpireHeight == (n1 :> 14) @@ (n2 :> 12) @@ (n3 :> 12) @@ (n4 :> 12) @@ (n5 :> 12)
                    @@ (n6 :> 14) @@ (n7 :> 10)
MCOutpoint     == (n1 :> 2) @@ (n2 :> 1) @@ (n3 :> 3) @@ (n4 :> 4) @@ (n5 :> 5)
                    @@ (n6 :> 6) @@ (n7 :> 7)
MCNodeOwner    == [n \in {n2, n4, n5, n6, n7} |-> o0] @@ (n1 :> o1) @@ (n3 :> o2)
MCNodeScript   == [n \in {n2, n4, n5, n6, n7} |-> s0] @@ (n1 :> s1) @@ (n3 :> s2)
MCPayments     == {[script |-> s1, h |-> 5], [script |-> s1, h |-> 10],
                   [script |-> s1, h |-> 11], [script |-> s2, h |-> 12]}
MCMetaUpdates  == {[owner |-> o1, h |-> 6, val |-> v1], [owner |-> o1, h |-> 8, val |-> v2],
                   [owner |-> o2, h |-> 4, val |-> v3], [owner |-> o2, h |-> 7, val |-> v4]}

=============================================================================
