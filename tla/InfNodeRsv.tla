------------------------------ MODULE InfNodeRsv ------------------------------
(***************************************************************************)
(* CInfinitynodersv (src/src/infinitynodersv.cpp): governance votes found  *)
(* on the chain, one list per proposal, and getResult, which weighs the   *)
(* votes by the tier of the voter's node in infnodeman's registry.  Three *)
(* threads touch it:                                                      *)
(*   - the infinity-node worker: CInfinitynodeMan::CheckAndRemove holds    *)
(*     infnodeman.cs for a whole buildInfinitynodeList, which calls        *)
(*     infnodersv.Add (taking infnodersv.cs) for every vote it finds;      *)
(*   - an RPC thread running getResult, which takes infnodersv.cs and then *)
(*     infnodeman.cs (GetFullInfinitynodeMap);                             *)
(*   - an RPC thread running rsvScan, which clears the map and re-adds the *)
(*     matured governance votes, taking infnodersv.cs for each call only.  *)
(* A chain vote is a record: proposal, voter script, block height, opinion *)
(* and the address it pays ("burn": the legacy burn address, "gov": the    *)
(* governance address).                                                    *)
(***************************************************************************)
EXTENDS Integers, FiniteSets, Sequences, TLC

LOCAL INSTANCE SequencesExt

CONSTANTS
  Proposals,     \* proposal ids (8-character strings)
  Voters,        \* voter scripts
  ChainVotes,    \* the vote outputs of the chain
  BeginHeight,   \* nInfinityNodeBeginHeight
  RsvBegin,      \* INFINITYNODE_RSV_BEGIN
  MaturedLimit,  \* INF_MATURED_LIMIT
  ReorgDepth,    \* Params().MaxReorganizationDepth()
  WorkerScans,   \* TRUE: the worker thread scans
  RpcCalls,      \* subset of {"result", "rsvscan"}: the RPC threads running
  MaxTip,        \* bound on the chain height
  None,          \* no thread holds the lock
  Nodes,         \* burn outpoints, as integers in COutPoint order
  NodeTier,      \* [Nodes -> {1,5,10}]: nQSTEESType of the node
  NodeOwner,     \* [Nodes -> Voters]: getCollateralAddress() of the node
  BurnHeight,    \* [Nodes -> Nat]: block of the node's burn
  NoResult       \* getResult has not returned yet

Vote == [p : Proposals, voter : Voters, h : 0..MaxTip, op : BOOLEAN, kind : {"burn", "gov"}]

ASSUME /\ ChainVotes \subseteq Vote
       /\ RpcCalls \subseteq {"result", "rsvscan"} /\ WorkerScans \in BOOLEAN
       /\ Nodes \subseteq Nat /\ NodeTier \in [Nodes -> {1, 5, 10}]
       /\ NodeOwner \in [Nodes -> Voters] /\ BurnHeight \in [Nodes -> 0..MaxTip]

\* the mode argument of getResult: 0 public, 1 node, 2 both
Modes == {0, 1, 2}

VARIABLES
  votes,      \* mapProposalVotes: [Proposals -> Seq(Vote)]
  added,      \* history: the votes passed to Add since the map was last cleared
  tip,        \* chain height
  lastScan,   \* nLastScanHeight of the worker's scans
  manLock,    \* owner of infnodeman.cs
  rsvLock,    \* owner of infnodersv.cs
  wpc,        \* worker: "idle", "clear", "add"
  wq,         \* worker: votes still to Add in this scan
  rpc,        \* getResult thread: "idle", "locked"
  spc,        \* rsvScan thread: "idle", "add"
  sq,         \* rsvScan thread: votes still to Add
  reg,        \* infnodeman's mapInfinitynodes: the matured nodes
  result      \* the last getResult return, with the votes added to its
              \* proposal and the registry when it was read (history)

vars == <<votes, added, tip, lastScan, manLock, rsvLock, wpc, wq, rpc, spc, sq, reg, result>>

(***************************************************************************)
(* The vote store                                                          *)
(***************************************************************************)

\* the position of voter's vote in the list l, 0 if none
VoterAt(l, voter) ==
  IF \E i \in 1..Len(l) : l[i].voter = voter
  THEN CHOOSE i \in 1..Len(l) : l[i].voter = voter ELSE 0

\* mutant: the first vote of a voter is kept
AddFirstWins(m, v) ==
  LET l == m[v.p]
      i == VoterAt(l, v.voter)
  IN  IF i = 0 THEN [m EXCEPT ![v.p] = Append(l, v)] ELSE m

\* CInfinitynodersv::Add: a voter's vote at a height not above the one held
\* is refused; a higher one replaces it at the end of the list; a new
\* voter's vote is appended.
Add(m, v) ==
  LET l == m[v.p]
      i == VoterAt(l, v.voter)
  IN  IF i = 0 THEN [m EXCEPT ![v.p] = Append(l, v)]
      ELSE IF l[i].h >= v.h THEN m
      ELSE [m EXCEPT ![v.p] = Append(RemoveAt(l, i), v)]

\* votes of the blocks H down to lo in scan order (ties in any block order)
Descending(S) == SetToSortSeq(S, LAMBDA a, b : a.h > b.h)

\* the votes buildInfinitynodeList(H) Adds scanning from lo: every vote to
\* the burn address, and the matured ones to the governance address
WorkerVotes(lo, H) ==
  Descending({v \in ChainVotes : lo <= v.h /\ v.h <= H
                                 /\ (v.kind = "burn" \/ v.h < H - MaturedLimit)})

\* the votes rsvScan(H) Adds: matured governance-address votes from H down
\* to INFINITYNODE_RSV_BEGIN; none when H <= INFINITYNODE_RSV_BEGIN
RsvVotes(H) ==
  IF H <= RsvBegin THEN <<>>
  ELSE Descending({v \in ChainVotes : v.kind = "gov" /\ RsvBegin <= v.h /\ v.h <= H
                                      /\ v.h < H - ReorgDepth})

Empty == [p \in Proposals |-> <<>>]

\* the matured nodes buildInfinitynodeList(H) Adds scanning from lo
ScannedNodes(lo, H) == {n \in Nodes : lo <= BurnHeight[n] /\ BurnHeight[n] < H - MaturedLimit}

(***************************************************************************)
(* getResult's weighting                                                   *)
(***************************************************************************)

TierWeight(t) == CASE t = 1 -> 2 [] t = 5 -> 10 [] t = 10 -> 20

\* mutant: a voter without a node weighs 1 in modes 1 and 2 as well
VoteWeightNodeless1(m, voter, mode) ==
  LET own == {n \in m : NodeOwner[n] = voter}
  IN  IF mode = 0 \/ own = {} THEN 1 ELSE TierWeight(NodeTier[Max(own)])

\* the value of one vote: 1 in mode 0; in modes 1 and 2 the tier weight of
\* the LAST node of the map copy (in outpoint order) whose collateral
\* address is the voter, 0 when there is none; 0 for any other mode
VoteWeight(m, voter, mode) ==
  LET own == {n \in m : NodeOwner[n] = voter}
  IN  IF mode = 0 THEN 1
      ELSE IF mode \in {1, 2} /\ own # {} THEN TierWeight(NodeTier[Max(own)]) ELSE 0

\* CInfinitynodersv::getResult on the list l of a proposal and the map copy m
GetResult(l, m, opinion, mode) ==
  MapThenSumSet(LAMBDA i : VoteWeight(m, l[i].voter, mode),
                {i \in 1..Len(l) : l[i].op = opinion})

(***************************************************************************)
(* Threads                                                                 *)
(***************************************************************************)

NewTip == tip < MaxTip /\ tip' = tip + 1 /\ UNCHANGED <<votes, added, lastScan, manLock, rsvLock, wpc, wq, rpc, spc, sq, reg, result>>

\* CheckAndRemove takes infnodeman.cs and buildInfinitynodeList starts: a
\* first run (nLastScanHeight 0, or equal to the start height) calls
\* infnodersv.Clear(); the scan reaches the tip.  nLastScanHeight is only
\* read under infnodeman.cs, which the worker keeps to the end of the scan,
\* so it is moved here.
WorkerStart ==
  LET first == lastScan = 0 \/ lastScan = BeginHeight
      lo    == IF lastScan = 0 THEN BeginHeight ELSE lastScan
  IN  /\ WorkerScans /\ wpc = "idle" /\ manLock = None
      /\ IF lastScan = 0 THEN tip > BeginHeight ELSE tip > lastScan
      /\ manLock' = "worker"
      /\ wq' = WorkerVotes(lo, tip)
      /\ wpc' = IF first THEN "clear" ELSE "add"
      /\ lastScan' = tip - MaturedLimit
      /\ reg' = (IF first THEN {} ELSE reg) \cup ScannedNodes(lo, tip)
      /\ UNCHANGED <<votes, added, tip, rsvLock, rpc, spc, sq, result>>

\* infnodersv.Clear() under infnodersv.cs
WorkerClear ==
  /\ wpc = "clear" /\ rsvLock = None
  /\ votes' = Empty /\ added' = {} /\ wpc' = "add"
  /\ UNCHANGED <<tip, lastScan, manLock, rsvLock, wq, rpc, spc, sq, reg, result>>

\* infnodersv.Add(vote) under infnodersv.cs, infnodeman.cs still held
WorkerAdd ==
  /\ wpc = "add" /\ wq # <<>> /\ rsvLock = None
  /\ votes' = Add(votes, Head(wq)) /\ added' = added \cup {Head(wq)}
  /\ wq' = Tail(wq)
  /\ UNCHANGED <<tip, lastScan, manLock, rsvLock, wpc, rpc, spc, sq, reg, result>>

\* the scan ends and CheckAndRemove releases infnodeman.cs
WorkerDone ==
  /\ wpc = "add" /\ wq = <<>>
  /\ manLock' = None /\ wpc' = "idle"
  /\ UNCHANGED <<votes, added, tip, lastScan, rsvLock, wq, rpc, spc, sq, reg, result>>

\* getResult: LOCK(cs) of infnodersv
ResultLock ==
  /\ "result" \in RpcCalls /\ rpc = "idle" /\ rsvLock = None
  /\ rsvLock' = "rpc" /\ rpc' = "locked"
  /\ UNCHANGED <<votes, added, tip, lastScan, manLock, wpc, wq, spc, sq, reg, result>>

\* getResult: infnodeman.GetFullInfinitynodeMap() copies the registry under
\* infnodeman.cs, the votes of the proposal are weighed and both locks are
\* released
ResultRead ==
  /\ rpc = "locked" /\ manLock = None
  /\ \E p \in Proposals, o \in BOOLEAN, md \in Modes :
       result' = [p |-> p, op |-> o, mode |-> md,
                  value |-> GetResult(votes[p], reg, o, md),
                  added |-> {w \in added : w.p = p}, reg |-> reg]
  /\ rsvLock' = None /\ rpc' = "idle"
  /\ UNCHANGED <<votes, added, tip, lastScan, manLock, wpc, wq, spc, sq, reg>>

\* rsvScan: Clear() under infnodersv.cs, then the matured governance votes
\* from the tip down
RsvScanStart ==
  /\ "rsvscan" \in RpcCalls /\ spc = "idle" /\ rsvLock = None
  /\ votes' = Empty /\ added' = {}
  /\ sq' = RsvVotes(tip) /\ spc' = "add"
  /\ UNCHANGED <<tip, lastScan, manLock, rsvLock, wpc, wq, rpc, reg, result>>

\* rsvScan: Add(vote), which takes infnodersv.cs for the call
RsvScanAdd ==
  /\ spc = "add" /\ sq # <<>> /\ rsvLock = None
  /\ votes' = Add(votes, Head(sq)) /\ added' = added \cup {Head(sq)}
  /\ sq' = Tail(sq)
  /\ UNCHANGED <<tip, lastScan, manLock, rsvLock, wpc, wq, rpc, spc, reg, result>>

\* rsvScan returns: all blocks read, or a block, hash or transaction read
\* failed and the remaining votes are not added
RsvScanDone ==
  /\ spc = "add"
  /\ spc' = "idle" /\ sq' = <<>>
  /\ UNCHANGED <<votes, added, tip, lastScan, manLock, rsvLock, wpc, wq, rpc, reg, result>>

Init ==
  /\ votes = Empty /\ added = {} /\ tip = BeginHeight /\ lastScan = 0
  /\ manLock = None /\ rsvLock = None
  /\ wpc = "idle" /\ wq = <<>> /\ rpc = "idle" /\ spc = "idle" /\ sq = <<>>
  /\ reg = {} /\ result = NoResult

Next ==
  \/ NewTip
  \/ WorkerStart \/ WorkerClear \/ WorkerAdd \/ WorkerDone
  \/ ResultLock \/ ResultRead
  \/ RsvScanStart \/ RsvScanAdd \/ RsvScanDone

Spec == Init /\ [][Next]_vars

(***************************************************************************)
(* Properties                                                              *)
(***************************************************************************)

\* Spec 2 and 4.E: whatever the order in which the worker's incremental
\* scans (tip down to nLastScanHeight) and rsvScan's rebuilds add votes, the
\* list of a proposal holds one vote per voter, and it is the vote of the
\* greatest height among those added since the list was last cleared.
StoreHoldsLatestVotes ==
  \A p \in Proposals :
    LET l == votes[p] IN
    /\ \A i, j \in 1..Len(l) : i # j => l[i].voter # l[j].voter
    /\ \A w \in added : w.p = p =>
         LET i == VoterAt(l, w.voter) IN i # 0 /\ w.h <= l[i].h

\* Spec 5 (locks): no two threads wait on each other: the worker holding
\* infnodeman.cs never waits for infnodersv.cs while getResult holds
\* infnodersv.cs and waits for infnodeman.cs.
NoLockCycle ==
  ~ /\ manLock = "worker" /\ (wpc = "clear" \/ (wpc = "add" /\ wq # <<>>))
    /\ rsvLock = "rpc" /\ rpc = "locked"

\* Spec 4.E, the reference getResult is checked against.  The latest vote of
\* a voter among the votes A added to a proposal: the highest one.
LatestVote(A, w) == CHOOSE v \in A : v.voter = w /\ \A u \in A : u.voter = w => u.h <= v.h

\* the voters whose latest vote in A has the opinion o
VotersWith(A, o) == {w \in Voters : (\E v \in A : v.voter = w) /\ LatestVote(A, w).op = o}

\* the weights spec 4.E allows a voter in modes 0 and 1: 1 in public mode;
\* 0 without a node in the registry m, else the 2/10/20 of one of its nodes
SpecWeights(m, w, mode) ==
  LET own == {n \in m : NodeOwner[n] = w}
  IN  IF mode = 0 THEN {1}
      ELSE IF own = {} THEN {0} ELSE {TierWeight(NodeTier[n]) : n \in own}

\* every total the voters V can weigh to
RECURSIVE SpecTallies(_, _, _)
SpecTallies(V, m, mode) ==
  IF V = {} THEN {0}
  ELSE LET w == CHOOSE x \in V : TRUE
       IN  {a + b : a \in SpecWeights(m, w, mode), b \in SpecTallies(V \ {w}, m, mode)}

\* Spec 4.E: in modes 0 and 1, what getResult returns is the weighted tally
\* of the latest vote of every voter that the worker's incremental scans
\* and rsvScan's rebuild added since the list was last cleared, each
\* weighed by the registry copy getResult read, whatever the interleaving
\* of the three threads.  (Mode 2 diverges from spec 4.E for voters
\* without a node; see the README.)
ResultIsSpecTally ==
  result # NoResult /\ result.mode \in {0, 1} =>
    result.value \in SpecTallies(VotersWith(result.added, result.op), result.reg, result.mode)

=============================================================================
