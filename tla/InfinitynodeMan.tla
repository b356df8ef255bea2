--------------------------- MODULE InfinitynodeMan ---------------------------
(***************************************************************************)
(* CInfinitynodeMan (src/src/infinitynodeman.cpp): the infinity-node       *)
(* registry built by scanning burn transactions of the chain               *)
(* (buildInfinitynodeList), the per-tier statement schedule rebuilt from   *)
(* the genesis statement (deterministicRewardStatement), node ranks        *)
(* (calculInfinityNodeRank) and the payee of a height                      *)
(* (deterministicRewardAtHeight).  The worker thread runs CheckAndRemove   *)
(* under cs; the validation thread moves nCachedBlockHeight.               *)
(*                                                                         *)
(* The chain is given by constants: each burn outpoint has the height of   *)
(* its block, its tier and its expiry height (getExpireHeight, computed in *)
(* infinitynode.cpp from the burn height and the tier).  The chain only    *)
(* grows: no reorg deeper than the maturity lag is modelled.               *)
(***************************************************************************)
EXTENDS Integers, FiniteSets, Sequences, TLC

LOCAL INSTANCE SequencesExt
LOCAL INSTANCE FiniteSetsExt

CONSTANTS
  Nodes,            \* burn outpoints (vinBurnFund.prevout)
  BurnHeight,       \* [Nodes -> Nat]: block height of the burn
  NodeTier,         \* [Nodes -> {1,5,10}]: setQSTEESType(value / 100000)
  ExpireHeight,     \* [Nodes -> Nat]: getExpireHeight()
  Outpoint,         \* [Nodes -> Nat], injective: COutPoint order
  BeginHeight,      \* nInfinityNodeBeginHeight
  GenesisStatement, \* nInfinityNodeGenesisStatement
  MaturedLimit,     \* INF_MATURED_LIMIT
  DeltaCap,         \* the initial nDelta of deterministicRewardAtHeight
  ReadFails,        \* TRUE when a block or transaction read may fail
  MaxTip,           \* bound on nCachedBlockHeight
  NoNode,           \* deterministicRewardAtHeight returned false
  DefaultNode,      \* a default-constructed CInfinitynode
  NodeOwner,        \* [Nodes -> owners]: collateralAddress of the node
  NodeScript,       \* [Nodes -> Scripts]: getScriptPublicKey() of the node
  Scripts,          \* scripts coinbases pay
  Payments,         \* coinbase outputs of a tier payment value: [script, h]
  PaidScanDepth,    \* max(nLimitQSTEESNODE_1, _5, _10)
  MetaUpdates,      \* metadata-address outputs that decode: [owner, h, val]
  MetadataHeight,   \* getMetadataHeight() of every node: nothing in this
                    \* repository sets it, and updateMetadata gives the
                    \* setters no height
  NoMeta            \* no node address / service set

Tiers == {1, 5, 10}

ASSUME /\ NodeTier \in [Nodes -> Tiers]
       /\ \A a, b \in Nodes : Outpoint[a] = Outpoint[b] => a = b
       /\ 0 < MaturedLimit /\ MaturedLimit < BeginHeight
       /\ BeginHeight <= GenesisStatement
       /\ NoNode \notin Nodes /\ DefaultNode \notin Nodes \cup {NoNode}
       /\ NodeScript \in [Nodes -> Scripts]
       /\ \A p \in Payments : p.script \in Scripts /\ p.h \in 1..MaxTip
       \* one metadata update per owner per block, in a block without a burn
       \* of that owner (the order of a block's transactions is not modelled)
       /\ \A u, v \in MetaUpdates : u.owner = v.owner /\ u.h = v.h => u = v
       /\ \A u \in MetaUpdates, n \in Nodes : NodeOwner[n] = u.owner => BurnHeight[n] # u.h


VARIABLES
  tip,         \* nCachedBlockHeight
  registry,    \* DOMAIN mapInfinitynodes
  nonMatured,  \* DOMAIN mapInfinitynodesNonMatured
  lastScan,    \* nLastScanHeight
  stm,         \* [Tiers -> start height -> size]: mapStatementBIG/MID/LIL
  lastStm,     \* [Tiers -> <<height, size>>]: n*LastStmHeight, n*LastStmSize
  rank,        \* [Nodes -> Nat]: nRank of the registered node
  settled,     \* history: [Tiers -> nLastScanHeight when stm[t] was built]
  lastPaid,    \* mapLastPaid: [Scripts -> height], 0 when absent
  meta,        \* [Nodes -> the node address / service set by updateMetadata]
  lastReward   \* [Nodes -> getLastRewardHeight() of the registered node]

vars == <<tip, registry, nonMatured, lastScan, stm, lastStm, rank, settled, lastPaid, meta, lastReward>>

(***************************************************************************)
(* Pure operators                                                          *)
(***************************************************************************)

\* CompareIntValue: burn height, then outpoint
Before(a, b) == \/ BurnHeight[a] < BurnHeight[b]
                \/ BurnHeight[a] = BurnHeight[b] /\ Outpoint[a] < Outpoint[b]

\* mutant: a node counts as alive at its own burn height
AliveAtBurn(reg, t, h) ==
  {n \in reg : NodeTier[n] = t /\ BurnHeight[n] <= h /\ h <= ExpireHeight[n]}

\* the registered nodes of tier t alive at h: getHeight() < h <= expire
Alive(reg, t, h) ==
  {n \in reg : NodeTier[n] = t /\ BurnHeight[n] < h /\ h <= ExpireHeight[n]}

\* calculInfinityNodeRank(h, t): the alive nodes sorted; rank i is r[i]
RankSeq(reg, h, t) == SetToSortSeq(Alive(reg, t, h), Before)

\* one probe of deterministicRewardStatement's loop, on the pair <<probe
\* height s, map so far>>: record (s, count) and move on by count; with no
\* alive node the probe jumps to the tip T and records (T, 0).
StatementStep(reg, t, T, x) ==
  LET k  == Cardinality(Alive(reg, t, x[1]))
      at == IF k = 0 THEN T ELSE x[1]
  IN  <<at + k, (at :> k) @@ x[2]>>

\* the loop from each pair of S (a singleton: the set only makes TLC read
\* each pair once) until the probe reaches T
RECURSIVE StatementLoop(_, _, _, _)
StatementLoop(reg, t, T, S) ==
  IF \A x \in S : x[1] >= T THEN S
  ELSE StatementLoop(reg, t, T, {StatementStep(reg, t, T, x) : x \in S})

Statement(reg, t, T) ==
  (CHOOSE x \in StatementLoop(reg, t, T, {<<GenesisStatement, <<>>>>}) : TRUE)[2]

\* mutant: the pair is built as (size, height)
LastOfSwapped(m, old) == IF DOMAIN m = {} THEN old ELSE <<m[Max(DOMAIN m)], Max(DOMAIN m)>>

\* the last statement recorded by the loop, or old when it recorded none
LastOf(m, old) == IF DOMAIN m = {} THEN old ELSE <<Max(DOMAIN m), m[Max(DOMAIN m)]>>

\* mutant: the statement covers s .. s + size - 1
RewardAtHeightBelowSize(reg, m, h, t) ==
  LET found == {s \in DOMAIN m : s < h /\ h - s < DeltaCap /\ h - s < m[s]}
      s     == Max(found)
      r     == RankSeq(reg, s, t)
  IN  IF found = {} THEN NoNode
      ELSE IF h - s <= Len(r) THEN r[h - s] ELSE DefaultNode

\* deterministicRewardAtHeight(h, t) on statement map m: the last start s
\* below h (within nDelta's range) whose size reaches h; the payee is rank
\* h - s of calculInfinityNodeRank(s, t); std::map::operator[] yields a
\* default node when that rank does not exist.
RewardAtHeight(reg, m, h, t) ==
  LET found == {s \in DOMAIN m : s < h /\ h - s < DeltaCap /\ h - s <= m[s]}
      s     == Max(found)
      r     == RankSeq(reg, s, t)
  IN  IF found = {} THEN NoNode
      ELSE IF h - s <= Len(r) THEN r[h - s] ELSE DefaultNode

\* nLastPaidScanDeepth: the tier limit, cut to H - 1 at the start of the
\* network (the fork-height value 800 is beyond the modelled heights)
PaidDepth(H) == IF PaidScanDepth > H THEN H - 1 ELSE PaidScanDepth

\* mutant: the recorded height is overwritten by every payment found
AddUpdateLastPaidOverwrite(paid, s, h) == [paid EXCEPT ![s] = h]

\* CInfinitynodeMan::AddUpdateLastPaid: a script seen for the first time
\* is recorded; a known one only moves to a greater height (0 = absent)
AddUpdateLastPaid(paid, s, h) == IF paid[s] < h THEN [paid EXCEPT ![s] = h] ELSE paid

\* CInfinitynodeMan::updateMetadata(owner, ..., b): every registered node
\* of that collateral address whose metadata height is below b takes it
UpdateMetadata(reg, md, u) ==
  [n \in {m \in reg : NodeOwner[m] = u.owner /\ MetadataHeight < u.h} |-> u.val] @@ md

\* the coinbase of block b (its first transaction): within the paid-scan
\* depth of H, every output of a tier payment value is AddUpdateLastPaid
RECURSIVE PayAll(_, _, _)
PayAll(paid, P, b) ==
  IF P = {} THEN paid
  ELSE LET p == CHOOSE q \in P : TRUE
       IN  PayAll(AddUpdateLastPaid(paid, p.script, b), P \ {p}, b)

CoinbaseScan(b, H, paid) ==
  IF b >= H - PaidDepth(H) THEN PayAll(paid, {p \in Payments : p.h = b}, b) ELSE paid

\* the metadata-address outputs of block b, each an updateMetadata
\* (updates of different owners touch different nodes, so the order of the
\* outputs within the block does not matter)
RECURSIVE MetadataAll(_, _, _)
MetadataAll(reg, md, U) ==
  IF U = {} THEN md
  ELSE LET u == CHOOSE v \in U : TRUE
       IN  MetadataAll(reg, UpdateMetadata(reg, md, u), U \ {u})

MetadataScan(reg, md, b) == MetadataAll(reg, md, {u \in MetaUpdates : u.h = b})

\* one block b of the loop of buildInfinitynodeList(H): the coinbase, then
\* the burns: Added when matured (Add skips a known outpoint; a new node
\* starts with no metadata and no last reward) or put in the non-matured
\* map, then the metadata updates.
ScanBlock(b, H, st) ==
  LET burns   == {n \in Nodes : BurnHeight[n] = b}
      matured == b < H - MaturedLimit
      new     == IF matured THEN burns \ st.reg ELSE {}
      reg     == IF matured THEN st.reg \cup burns ELSE st.reg
  IN  [st EXCEPT !.reg    = reg,
                 !.nonMat = IF matured THEN st.nonMat ELSE st.nonMat \cup burns,
                 !.paid   = CoinbaseScan(b, H, st.paid),
                 !.reward = [n \in new |-> 0] @@ st.reward,
                 !.meta   = MetadataScan(reg, [n \in new |-> NoMeta] @@ st.meta, b)]

\* the loop over the blocks hi down to lo + 1 on pairs <<state, the states
\* before each block read so far>> (S a singleton: the set only makes TLC
\* read each state once)
RECURSIVE ScanDown(_, _, _, _)
ScanDown(hi, lo, H, S) ==
  IF hi <= lo THEN S
  ELSE ScanDown(hi - 1, lo, H, {<<ScanBlock(hi, H, p[1]), p[2] \cup {p[1]}>> : p \in S})

\* CInfinitynodeMan::updateLastPaid: each registered node takes the height
\* mapLastPaid holds for its script
UpdateLastPaid(st) ==
  [st EXCEPT !.reward = [n \in {m \in st.reg : st.paid[NodeScript[m]] > 0} |-> st.paid[NodeScript[n]]]
                        @@ st.reward]

\* nLastScanHeight after a scan of buildInfinitynodeList(H) completes
ScannedHeight(H) == H - MaturedLimit

\* buildInfinitynodeList(H, low) under cs scanning the blocks H down to
\* `from`, for H >= nInfinityNodeBeginHeight (CheckAndRemove never calls it
\* with a lower H): the results it can have.  The non-matured map is
\* emptied; a first run (low = BeginHeight) clears the registry and
\* mapLastPaid (Clear).  A failed block, transaction or hash read returns
\* false having read only the blocks above the failed one, without moving
\* nLastScanHeight and without updateLastPaid.
ScanOutcomes(H, low, from) ==
  LET first == low = BeginHeight
      start == IF first
               THEN [reg |-> {}, nonMat |-> {}, paid |-> [s \in Scripts |-> 0],
                     meta |-> [n \in Nodes |-> NoMeta], reward |-> [n \in Nodes |-> 0]]
               ELSE [reg |-> registry, nonMat |-> {}, paid |-> lastPaid,
                     meta |-> meta, reward |-> lastReward]
      Outcome(res, ok) ==
        [reg |-> res.reg, nonMat |-> res.nonMat, paid |-> res.paid, meta |-> res.meta,
         reward |-> res.reward, cleared |-> first,
         last |-> IF ok THEN ScannedHeight(H) ELSE IF first THEN 0 ELSE lastScan]
  IN  UNION {{Outcome(st, TRUE) : st \in {UpdateLastPaid(p[1])}}
             \cup {Outcome(st, FALSE) : st \in IF ReadFails THEN p[2] ELSE {}} :
               p \in ScanDown(H, from - 1, H, {<<start, {}>>})}

\* mutant: the incremental scan starts one block above nLastScanHeight
ScanResultsFromNext(H, low) ==
  ScanOutcomes(H, low, IF low = BeginHeight THEN low ELSE lastScan + 1)

\* a first run scans from low; any other run scans from nLastScanHeight
\* whatever low was passed
ScanResults(H, low) == ScanOutcomes(H, low, IF low = BeginHeight THEN low ELSE lastScan)

\* ranks after calculInfinityNodeRank(lastStm[t][1], t, true) for tiers ts:
\* nodes of those tiers are reset to 0, the alive ones get their position
\* in the sorted vector: one more than the alive nodes sorted before them
RankUpdate(reg, rk, ts, last) ==
  [n \in Nodes |->
     IF NodeTier[n] \in ts /\ n \in reg
     THEN LET A == Alive(reg, NodeTier[n], last[NodeTier[n]][1])
          IN  IF n \in A THEN Cardinality({m \in A : Before(m, n)}) + 1 ELSE 0
     ELSE rk[n]]

(***************************************************************************)
(* Actions                                                                 *)
(***************************************************************************)

\* CInfinitynodeMan::UpdatedBlockTip: a new tip (no lock is taken)
UpdatedBlockTip ==
  /\ tip < MaxTip
  /\ tip' = tip + 1
  /\ UNCHANGED <<registry, nonMatured, lastScan, stm, lastStm, rank, settled, lastPaid, meta,
                 lastReward>>

\* the registry after a scan with outcome o
Apply(o) ==
  /\ registry' = o.reg /\ nonMatured' = o.nonMat /\ lastScan' = o.last
  /\ lastPaid' = o.paid /\ meta' = o.meta /\ lastReward' = o.reward

\* CheckAndRemove's test for the first scan
FirstScanDue == lastScan = 0 /\ tip > BeginHeight

\* the first-scan branch of CheckAndRemove: scan from nInfinityNodeBeginHeight
\* and return; no statement is rebuilt in this round
FirstScan ==
  /\ FirstScanDue
  /\ \E o \in ScanResults(tip, BeginHeight) : Apply(o)
  /\ rank' = [n \in Nodes |-> 0]
  /\ UNCHANGED <<tip, stm, lastStm, settled>>

\* CheckAndRemove's test for the incremental scan
IncrementalScanDue == tip > lastScan /\ lastScan > 0

\* the rest of CheckAndRemove: scan from nLastScanHeight when the tip moved
\* past it (the result is ignored), then, for each tier whose last statement
\* ends less than INF_MATURED_LIMIT past the tip, deterministicRewardStatement
\* rebuilds its statement map from the genesis statement and
\* calculInfinityNodeRank ranks its nodes at the last statement.
\* UpdatedBlockTip writes nCachedBlockHeight without cs, so the tip T the
\* statements are built to may already be one block past the scanned one.
ScanAndSchedule ==
  /\ ~FirstScanDue
  /\ \E o \in IF IncrementalScanDue THEN ScanResults(tip, lastScan)
              ELSE {[reg |-> registry, nonMat |-> nonMatured, paid |-> lastPaid,
                     meta |-> meta, reward |-> lastReward, last |-> lastScan,
                     cleared |-> FALSE]},
       T \in {tip} \cup (IF tip < MaxTip THEN {tip + 1} ELSE {}) :
       LET due == {t \in Tiers : lastStm[t][1] + lastStm[t][2] - T < MaturedLimit}
       IN  /\ Apply(o)
           /\ stm' = [t \in Tiers |-> IF t \in due THEN Statement(o.reg, t, T) ELSE stm[t]]
           /\ lastStm' = [t \in Tiers |-> IF t \in due THEN LastOf(stm'[t], lastStm[t]) ELSE lastStm[t]]
           /\ rank' = RankUpdate(o.reg, IF o.cleared THEN [n \in Nodes |-> 0] ELSE rank, due, lastStm')
           /\ settled' = [t \in Tiers |-> IF t \in due THEN o.last ELSE settled[t]]
           /\ tip' = T

\* CInfinitynodeMan::CheckAndRemove, run by the infinity-node thread under cs
CheckAndRemove == FirstScan \/ ScanAndSchedule

Init ==
  /\ tip = 1
  /\ registry = {} /\ nonMatured = {} /\ lastScan = 0
  /\ stm = [t \in Tiers |-> <<>>] /\ lastStm = [t \in Tiers |-> <<0, 0>>]
  /\ rank = [n \in Nodes |-> 0] /\ settled = [t \in Tiers |-> 0]
  /\ lastPaid = [s \in Scripts |-> 0] /\ meta = [n \in Nodes |-> NoMeta]
  /\ lastReward = [n \in Nodes |-> 0]

Next == UpdatedBlockTip \/ CheckAndRemove

Spec == Init /\ [][Next]_vars

(***************************************************************************)
(* Properties                                                              *)
(***************************************************************************)

TypeOK ==
  /\ tip \in 1..MaxTip /\ lastScan \in 0..MaxTip
  /\ registry \subseteq Nodes /\ nonMatured \subseteq Nodes
  /\ \A t \in Tiers : stm[t] \in [DOMAIN stm[t] -> 0..Cardinality(Nodes)]
  /\ lastStm \in [Tiers -> (0..MaxTip) \X (0..Cardinality(Nodes))]
  /\ rank \in [Nodes -> 0..Cardinality(Nodes)]
  /\ settled \in [Tiers -> 0..MaxTip]
  /\ lastPaid \in [Scripts -> 0..MaxTip] /\ lastReward \in [Nodes -> 0..MaxTip]
  /\ meta \in [Nodes -> {NoMeta} \cup {u.val : u \in MetaUpdates}]

\* The registry the scanner keeps implements InfNodeRegistrySpec with
\* nLastScanHeight as the completeness height: buildInfinitynodeList only
\* registers burns buried deeper than INF_MATURED_LIMIT, never drops a node
\* once a scan has completed, and every burn below nLastScanHeight is in
\* mapInfinitynodes, across incremental scans that fail halfway.
Registry == INSTANCE InfNodeRegistrySpec WITH complete <- lastScan

RegistryRefinement == Registry!Spec

\* Spec 4.D: a statement built while the registry was complete up to
\* `settled` counts, at every start height at or below it, exactly the
\* burns of its tier on the chain that are alive there; the incremental
\* scans and the rebuild from the genesis statement agree with the chain.
StatementSettled ==
  \A t \in Tiers : \A s \in DOMAIN stm[t] :
    s <= settled[t] =>
      stm[t][s] = Cardinality({n \in Nodes : /\ NodeTier[n] = t
                                              /\ BeginHeight <= BurnHeight[n]
                                              /\ BurnHeight[n] < s
                                              /\ s <= ExpireHeight[n]})

\* Spec 4.C/4.D: within a statement (s, k) the heights s+1 .. s+k pay, in
\* this order, the k nodes of the tier ranked at s, so each is paid once.
RoundRobin(reg, m, t) ==
  \A s \in DOMAIN m : m[s] > 0 =>
    LET r == RankSeq(reg, s, t)
    IN  /\ Len(r) = m[s]
        /\ \A i \in 1..m[s] : RewardAtHeight(reg, m, s + i, t) = r[i]

\* deterministicRewardAtHeight on the statements deterministicRewardStatement
\* builds from the current registry pays each node of a statement once.
FreshScheduleRoundRobin ==
  \A t \in Tiers : RoundRobin(registry, Statement(registry, t, tip), t)

\* deterministicRewardAtHeight on the statement maps the node holds, ranked
\* on the registry as it is now, pays each node of a statement once.
StoredScheduleRoundRobin == \A t \in Tiers : RoundRobin(registry, stm[t], t)

\* Spec 4.B (line 72) and 4.C: once a scan has completed at H (nLastScanHeight
\* + INF_MATURED_LIMIT), every node registered below nLastScanHeight has as
\* last reward height the latest coinbase payment to its script among the
\* blocks within nLastPaidScanDeepth of H.  The blocks are read from H down,
\* AddUpdateLastPaid must keep the maximum across overlapping incremental
\* ranges, failed scans leave mapLastPaid ahead of the nodes, and
\* updateLastPaid runs only when a scan completes.
LastRewardMatchesWindow ==
  lastScan > 0 =>
    \A n \in registry : BurnHeight[n] < lastScan =>
      LET H  == lastScan + MaturedLimit
          lo == IF BeginHeight > H - PaidDepth(H) THEN BeginHeight ELSE H - PaidDepth(H)
          W  == {p.h : p \in {q \in Payments : q.script = NodeScript[n] /\ lo <= q.h /\ q.h <= H}}
      IN  W # {} => lastReward[n] = Max(W)

\* Spec 4.B (line 70) and its example 4 (metadata update ordering): a
\* registered node carries the value of the latest metadata update of its
\* collateral address between its burn and nLastScanHeight, i.e. among
\* those every later scan has already read.
MetadataIsLatest ==
  \A n \in registry :
    LET U == {u \in MetaUpdates : /\ u.owner = NodeOwner[n]
                                  /\ BurnHeight[n] < u.h /\ u.h < lastScan}
    IN  U # {} => meta[n] = (CHOOSE u \in U : \A v \in U : v.h <= u.h).val

=============================================================================
