---------------------------- MODULE MC_MnPayments ----------------------------
(* Instantiation of MnPayments for TLC: three operators (o1, o2 of tier  *)
(* 1, o3 of tier 5), two payees.  The code's window (20), vote offset      *)
(* (10), block-hash lag (101) and signature threshold (6) are scaled down  *)
(* keeping their order: offset <= window < lag.  The storage limit         *)
(* max(int(1.25 n), 5000) gets a minimum of 0 so it follows the count of  *)
(* masternodes: n div 3 in the honest run (1, then 0 once o3 leaves), n   *)
(* div 4 = 0 in the others.  PeerLead (per cfg) lets honest peers run     *)
(* ahead of this node, so their votes can exceed the window.             *)
EXTENDS MnPayments

CONSTANTS o1, o2, o3, p1, p2

MCOpTier == [o \in Ops |-> IF o = o3 THEN 5 ELSE 1]

\* every honest node computes the same queue: tier 1 pays p1, tiers 5/10 p2
MCNextInQueue == [x \in Heights \X Tiers |-> IF x[2] = 1 THEN p1 ELSE p2]

MCPayeeHash == [p \in Payees |-> IF p = p1 THEN 1 ELSE 2]

MCMnPayment == [t \in TierVals |-> CASE t = 1 -> 3 [] t = 5 -> 15
                                     [] t = 10 -> 30 [] OTHER -> 0]

MCTierBurn == [t \in Tiers |-> t * 100]
==============================================================================
