------------------------- MODULE InfNodeRegistrySpec -------------------------
(***************************************************************************)
(* What the infinity-node registry promises (spec 4.B/4.C), without how   *)
(* the chain is scanned:                                                   *)
(*   - mapInfinitynodes only holds burns buried deeper than               *)
(*     INF_MATURED_LIMIT below the tip;                                    *)
(*   - `complete` (nLastScanHeight) is a height below which every burn    *)
(*     since the start height is registered;                              *)
(*   - the registry only grows and `complete` only moves up, except that  *)
(*     both may start again from scratch while no scan has completed or   *)
(*     while nothing is registered.                                        *)
(***************************************************************************)
EXTENDS Integers

CONSTANTS
  Nodes,          \* burn outpoints of the chain
  BurnHeight,     \* [Nodes -> Nat]: height of the block holding the burn
  BeginHeight,    \* nInfinityNodeBeginHeight
  MaturedLimit,   \* INF_MATURED_LIMIT
  MaxTip          \* bound on the chain height

VARIABLES tip, registry, complete

vars == <<tip, registry, complete>>

\* burns at or after the start height buried deeper than the maturity lag
Matured(h) == {n \in Nodes : BeginHeight <= BurnHeight[n] /\ BurnHeight[n] < h - MaturedLimit}

\* every burn in [BeginHeight, c) is registered in reg
CompleteBelow(reg, c) == \A n \in Nodes : BeginHeight <= BurnHeight[n] /\ BurnHeight[n] < c => n \in reg

Init == tip \in 1..MaxTip /\ registry = {} /\ complete = 0

NewTip == tip < MaxTip /\ tip' = tip + 1 /\ UNCHANGED <<registry, complete>>

\* the tip may move in the same step (UpdatedBlockTip takes no lock)
TipMay == tip' \in {tip} \cup (IF tip < MaxTip THEN {tip + 1} ELSE {})

\* a scan adds matured burns and may move the completeness height forward
Absorb ==
  \E S \in SUBSET Matured(tip), c \in {complete} \cup (complete + 1 .. tip) :
    /\ registry' = registry \cup S
    /\ complete' = c
    /\ CompleteBelow(registry', c)
    /\ TipMay

\* while nothing is complete, or nothing is registered, the registry may be
\* rebuilt from scratch
Rebuild ==
  \E S \in SUBSET Matured(tip), c \in 0 .. tip :
    /\ complete = 0 \/ registry = {}
    /\ registry' = S
    /\ complete' = c
    /\ CompleteBelow(registry', c)
    /\ TipMay

Next == NewTip \/ Absorb \/ Rebuild

Spec == Init /\ [][Next]_vars

=============================================================================
