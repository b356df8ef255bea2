----------------------------- MODULE MnPayments -----------------------------
(***************************************************************************)
(* CMasternodePayments (src/src/masternode-payments.cpp) as seen by ONE    *)
(* node: the MASTERNODEPAYMENTVOTE handler, the vote store                 *)
(* mapMasternodePaymentVotes, the per-height payee tallies                 *)
(* mapMasternodeBlocks, CanVote's mapMasternodesLastVote, the node's own   *)
(* vote on a new tip (UpdatedBlockTip -> ProcessBlock) and pruning         *)
(* (CheckAndRemove).  The coinbase check IsTransactionValid and the miner's *)
(* FillBlockPayee read this state; they are operators of MnBlockPayees.   *)
(*                                                                         *)
(* A vote is identified by its hash, which covers (payee, height,          *)
(* operator) and NOT the signature (CMasternodePaymentVote::GetHash); a    *)
(* vote id is therefore the record [op, h, payee].  A message adds the     *)
(* signature: "good", "bad" (fails VerifyMessage) or "empty" (no bytes, so *)
(* IsVerified() is false).  The network may deliver any message any number *)
(* of times, in any order: honest operators' votes, anything signed by a   *)
(* Byzantine operator, and copies of any vote of an operator in ForgedOps *)
(* carrying a bad or an empty signature, relayed by any peer.             *)
(***************************************************************************)
EXTENDS Integers, FiniteSets, Sequences, TLC

LOCAL INSTANCE Functions

CONSTANTS
  Ops,              \* operator outpoints (vinMasternode.prevout)
  Byzantine,        \* operators whose key signs any vote they like
  ForgedOps,        \* operators whose votes peers relay with a bad or empty signature
  Payees,           \* payee scripts
  BurnScript,       \* script of the burn address (cBurnAddress)
  LocalOp,          \* activeMasternode.outpoint, NoOp when fMasterNode is false
  NoOp,
  OpTier,           \* [Ops -> {1,5,10,-1}]: the operator node's GetSinTypeInt()
  Top,              \* operators of rank <= MNPAYMENTS_SIGNATURES_TOTAL at h-101
  NextInQueue,      \* [Heights \X {1,5,10} -> Payees]: GetNextMasternodeInQueueForPayment
  PayeeHash,        \* [Payees -> Nat], injective: order of CMasternodePayee::GetHash
  MnPayment,        \* [{1,5,10,-1} -> Nat]: GetMasternodePayment(h, tier)
  TierBurn,         \* [{1,5,10} -> Nat]: nMasternodeBurnQSTEESNODE_t
  SigRequired,      \* MNPAYMENTS_SIGNATURES_REQUIRED (6)
  VoteWindow,       \* votes above nCachedBlockHeight + VoteWindow are dropped (20)
  FutureOffset,     \* UpdatedBlockTip votes for nCachedBlockHeight + FutureOffset (10)
  HashLag,          \* AddPaymentVote needs the hash of block nBlockHeight - HashLag (101)
  StorageNum, StorageDen, \* nStorageCoeff = StorageNum / StorageDen (1.25)
  MinBlocksToStore, \* nMinBlocksToStore (5000)
  MaxTip,           \* bound: last height nCachedBlockHeight reaches
  PeerLead,         \* how many blocks honest peers' tips may be ahead of ours
  Transient         \* operators mnodeman may drop during the run

\* the tally operators of one height (AddPayee) come from MnBlockPayees;
\* whether the voter is known is passed per call, so Known is immaterial
LOCAL BP == INSTANCE MnBlockPayees
            WITH Known <- Ops, payees <- <<>>, stored <- {}, mined <- <<>>

Tiers    == {1, 5, 10}
TierVals == Tiers \cup {-1}
Heights  == 1..(MaxTip + VoteWindow + PeerLead)
Sigs     == {"good", "bad", "empty"}

ASSUME /\ Byzantine \subseteq Ops /\ ForgedOps \subseteq Ops /\ Top \subseteq Ops
       /\ LocalOp \in Ops \cup {NoOp} /\ NoOp \notin Ops
       /\ OpTier \in [Ops -> TierVals]
       /\ PayeeHash \in [Payees -> Nat]
       /\ \A p, q \in Payees : PayeeHash[p] = PayeeHash[q] => p = q
       /\ BurnScript \notin Payees
       /\ FutureOffset <= VoteWindow /\ SigRequired \in Nat \ {0} /\ PeerLead \in Nat

VoteIds  == [op : Ops, h : Heights, payee : Payees]
Msgs     == [op : Ops, h : Heights, payee : Payees, sig : Sigs]
VoteOf(m) == [op |-> m.op, h |-> m.h, payee |-> m.payee]
\* CMasternodePayee: payee script, the tier attached to it, its vote hashes
Entries  == [payee : Payees, tier : TierVals, hashes : SUBSET VoteIds]

VARIABLES
  tip,        \* nCachedBlockHeight
  votes,      \* mapMasternodePaymentVotes: vote id -> "verified" | "unverified"
  blocks,     \* mapMasternodeBlocks: height -> vecPayees (sequence of entries)
  lastVote,   \* mapMasternodesLastVote: operator -> height
  known,      \* operators mnodeman currently knows (GetMasternodeInfo succeeds)
  lost,       \* history: honest, valid, in-range votes received and never tallied
  early       \* history: honest votes received above nCachedBlockHeight + 20

vars == <<tip, votes, blocks, lastVote, known, lost, early>>

(***************************************************************************)
(* Helpers of CMasternodePayments.                                         *)
(***************************************************************************)

\* GetStorageLimit: max(int(mnodeman.size() * nStorageCoeff), nMinBlocksToStore)
StorageLimit ==
  LET scaled == (Cardinality(known) * StorageNum) \div StorageDen
  IN  IF scaled > MinBlocksToStore THEN scaled ELSE MinBlocksToStore

HasVerifiedPaymentVote(v) == v \in DOMAIN votes /\ votes[v] = "verified"

SetVote(v, status) ==
  [x \in DOMAIN votes \cup {v} |-> IF x = v THEN status ELSE votes[x]]

\* AddPaymentVote(vote): fails without the block hash at h - 101 or when the
\* hash is already stored verified; else stores the vote and tallies it.
CanAddPaymentVote(v) == v.h - HashLag <= tip /\ ~HasVerifiedPaymentVote(v)

\* mutant: a new CMasternodeBlockPayees replaces the height's tally
AddPaymentVoteFreshBlock(v, status, voterKnown) ==
  /\ votes'  = SetVote(v, status)
  /\ blocks' = [x \in DOMAIN blocks \cup {v.h} |->
                  IF x = v.h THEN BP!AddPayee(<<>>, v, voterKnown) ELSE blocks[x]]

AddPaymentVote(v, status, voterKnown) ==
  /\ votes'  = SetVote(v, status)
  /\ blocks' = [x \in DOMAIN blocks \cup {v.h} |->
                  IF x = v.h
                  THEN BP!AddPayee(IF x \in DOMAIN blocks THEN blocks[x] ELSE <<>>, v,
                                   voterKnown)
                  ELSE blocks[x]]

\* the vote has a hash in the tally of its height
Tallied(v) == v.h \in DOMAIN blocks /\ \E e \in Range(blocks[v.h]) : v \in e.hashes

(***************************************************************************)
(* What the network can deliver in the current state.                      *)
(***************************************************************************)

\* An honest operator of a known tier votes once per height, for the next
\* payee in its tier's queue, once ITS chain has reached h - FutureOffset;
\* an honest peer's tip may be up to PeerLead blocks ahead of ours.
\* (the local node's own votes come from UpdatedBlockTip; a relayed copy
\* of one is already stored and ends at the "seen" return)
HonestMsgs ==
  {[op |-> o, h |-> h, payee |-> NextInQueue[h, OpTier[o]], sig |-> "good"] :
     o \in {x \in Ops \ (Byzantine \cup {LocalOp}) : OpTier[x] \in Tiers},
     h \in Heights}

Deliverable(m) ==
  \/ m \in HonestMsgs /\ m.h <= tip + FutureOffset + PeerLead
  \/ m.op \in Byzantine /\ m.sig = "good"
  \/ m.op \in ForgedOps /\ m.sig # "good"

(***************************************************************************)
(* ProcessMessage(MASTERNODEPAYMENTVOTE), split by where it returns.  The   *)
(* vote is first stored unverified under its hash; a later copy of the     *)
(* same hash is dropped whatever its signature.                            *)
(***************************************************************************)

\* range check: nFirstBlock = nCachedBlockHeight - GetStorageLimit()
InRange(h) == tip - StorageLimit <= h /\ h <= tip + VoteWindow

\* CMasternodePaymentVote::IsValid: the operator must be known; a node that
\* is not a masternode skips the rank check for votes below its tip.
IsValid(v) ==
  /\ v.op \in known
  /\ \/ LocalOp = NoOp /\ v.h < tip
     \/ v.op \in Top

\* CheckSignature returns true on a failed signature unless the vote is for
\* a future block (and the masternode list is synced).
SignatureAccepted(m) == m.sig = "good" \/ m.h <= tip

\* mutant: an operator may only vote for rising heights
CanVoteMonotone(v) == ~(v.op \in DOMAIN lastVote /\ lastVote[v.op] >= v.h)

CanVote(v) == ~(v.op \in DOMAIN lastVote /\ lastVote[v.op] = v.h)

\* mutant: the next height is recorded
RecordLastVoteNext(v) == [x \in DOMAIN lastVote \cup {v.op} |->
                            IF x = v.op THEN v.h + 1 ELSE lastVote[x]]

RecordLastVote(v) == [x \in DOMAIN lastVote \cup {v.op} |->
                        IF x = v.op THEN v.h ELSE lastVote[x]]

\* history: a vote honest operators signed, valid and in range on arrival,
\* that is dropped without being in the tally
NoteDrop(m) ==
  lost' = IF m \in HonestMsgs /\ InRange(m.h) /\ IsValid(VoteOf(m))
             /\ ~Tallied(VoteOf(m))
          THEN lost \cup {VoteOf(m)} ELSE lost

ReceiveSeen(m) ==
  /\ VoteOf(m) \in DOMAIN votes
  /\ NoteDrop(m)
  /\ UNCHANGED <<tip, votes, blocks, lastVote, known, early>>

\* mutant: the out-of-range path skips the "seen" test
ReceiveOutOfRangeNoSeen(m) ==
  /\ ~InRange(m.h)
  /\ votes' = SetVote(VoteOf(m), "unverified")
  /\ UNCHANGED <<tip, blocks, lastVote, known, lost, early>>

ReceiveOutOfRange(m) ==
  /\ VoteOf(m) \notin DOMAIN votes
  /\ ~InRange(m.h)
  /\ votes' = SetVote(VoteOf(m), "unverified")
  /\ early' = IF m \in HonestMsgs /\ m.h > tip + VoteWindow
              THEN early \cup {VoteOf(m)} ELSE early
  /\ UNCHANGED <<tip, blocks, lastVote, known, lost>>

ReceiveInvalid(m) ==
  /\ VoteOf(m) \notin DOMAIN votes
  /\ InRange(m.h) /\ ~IsValid(VoteOf(m))
  /\ votes' = SetVote(VoteOf(m), "unverified")
  /\ UNCHANGED <<tip, blocks, lastVote, known, lost, early>>

ReceiveAlreadyVoted(m) ==
  /\ VoteOf(m) \notin DOMAIN votes
  /\ InRange(m.h) /\ IsValid(VoteOf(m)) /\ ~CanVote(VoteOf(m))
  /\ votes' = SetVote(VoteOf(m), "unverified")
  /\ NoteDrop(m)
  /\ UNCHANGED <<tip, blocks, lastVote, known, early>>

\* CanVote has recorded the operator, then the signature check or
\* AddPaymentVote fails
ReceiveRejected(m) ==
  LET v == VoteOf(m) IN
  /\ v \notin DOMAIN votes
  /\ InRange(m.h) /\ IsValid(v) /\ CanVote(v)
  /\ ~(SignatureAccepted(m) /\ CanAddPaymentVote(v))
  /\ votes' = SetVote(v, "unverified")
  /\ lastVote' = RecordLastVote(v)
  /\ NoteDrop(m)
  /\ UNCHANGED <<tip, blocks, known, early>>

ReceiveAccepted(m) ==
  LET v == VoteOf(m) IN
  /\ v \notin DOMAIN votes
  /\ InRange(m.h) /\ IsValid(v) /\ CanVote(v)
  /\ SignatureAccepted(m) /\ CanAddPaymentVote(v)
  /\ lastVote' = RecordLastVote(v)
  /\ AddPaymentVote(v, IF m.sig = "empty" THEN "unverified" ELSE "verified", TRUE)
  /\ UNCHANGED <<tip, known, lost, early>>

\* The same, with mnodeman dropping the voter on another thread after
\* IsValid and GetMasternodeInfo and before AddPayee's mnodeman.Find.
ReceiveAcceptedVoterRemoved(m) ==
  LET v == VoteOf(m) IN
  /\ v \notin DOMAIN votes
  /\ InRange(m.h) /\ IsValid(v) /\ CanVote(v)
  /\ SignatureAccepted(m) /\ CanAddPaymentVote(v)
  /\ m.op \in Transient
  /\ known' = known \ {m.op}
  /\ lastVote' = RecordLastVote(v)
  /\ AddPaymentVote(v, IF m.sig = "empty" THEN "unverified" ELSE "verified", FALSE)
  /\ UNCHANGED <<tip, lost, early>>

ReceiveVote(m) ==
  /\ Deliverable(m)
  /\ \/ ReceiveSeen(m)
     \/ ReceiveOutOfRange(m)
     \/ ReceiveInvalid(m)
     \/ ReceiveAlreadyVoted(m)
     \/ ReceiveRejected(m)
     \/ ReceiveAccepted(m)
     \/ ReceiveAcceptedVoterRemoved(m)

(***************************************************************************)
(* UpdatedBlockTip: new nCachedBlockHeight, then ProcessBlock(tip + 10).    *)
(* A masternode in the top ranks votes for the next payee of its own tier   *)
(* and adds the vote directly (no CanVote).                                *)
(***************************************************************************)
OwnVote(h) == [op |-> LocalOp, h |-> h, payee |-> NextInQueue[h, OpTier[LocalOp]]]

WillVote(h) ==
  /\ LocalOp # NoOp
  /\ LocalOp \in known /\ LocalOp \in Top
  /\ OpTier[LocalOp] \in Tiers

UpdatedBlockTip ==
  LET h == tip + 1 + FutureOffset IN
  /\ tip < MaxTip
  /\ tip' = tip + 1
  /\ IF WillVote(h) /\ h - HashLag <= tip' /\ ~HasVerifiedPaymentVote(OwnVote(h))
     THEN AddPaymentVote(OwnVote(h), "verified", TRUE)
     ELSE UNCHANGED <<votes, blocks>>
  /\ UNCHANGED <<lastVote, known, lost, early>>

\* mutant: off by one, a height is dropped at the limit
OldVotesAtLimit == {v \in DOMAIN votes : tip - v.h >= StorageLimit}

\* CheckAndRemove (blockchain synced): drop votes older than the storage
\* limit together with the tallies of their heights.
OldVotes == {v \in DOMAIN votes : tip - v.h > StorageLimit}

\* mutant: the tallies of pruned heights are kept
CheckAndRemoveKeepsBlocks ==
  /\ OldVotes # {}
  /\ votes'  = Restrict(votes, DOMAIN votes \ OldVotes)
  /\ UNCHANGED <<tip, blocks, lastVote, known, lost, early>>

CheckAndRemove ==
  /\ OldVotes # {}
  /\ votes'  = Restrict(votes, DOMAIN votes \ OldVotes)
  /\ blocks' = Restrict(blocks, DOMAIN blocks \ {v.h : v \in OldVotes})
  /\ UNCHANGED <<tip, lastVote, known, lost, early>>

\* mnodeman drops a masternode (environment)
MasternodeRemoved(o) ==
  /\ o \in known \cap Transient
  /\ known' = known \ {o}
  /\ UNCHANGED <<tip, votes, blocks, lastVote, lost, early>>

Init ==
  /\ tip = 1
  /\ votes = <<>>
  /\ blocks = <<>>
  /\ lastVote = <<>>
  /\ known = Ops
  /\ lost = {}
  /\ early = {}

Next ==
  \/ \E m \in Msgs : ReceiveVote(m)
  \/ UpdatedBlockTip
  \/ CheckAndRemove
  \/ \E o \in Ops : MasternodeRemoved(o)

Spec == Init /\ [][Next]_vars

(***************************************************************************)
(* Properties.                                                             *)
(***************************************************************************)

TypeOK ==
  /\ tip \in 1..MaxTip
  /\ DOMAIN votes \subseteq VoteIds
  /\ \A v \in DOMAIN votes : votes[v] \in {"verified", "unverified"}
  /\ DOMAIN blocks \subseteq Heights
  /\ \A h \in DOMAIN blocks : blocks[h] \in Seq(Entries)
  /\ DOMAIN lastVote \subseteq Ops /\ \A o \in DOMAIN lastVote : lastVote[o] \in Heights
  /\ known \subseteq Ops
  /\ lost \subseteq VoteIds /\ early \subseteq VoteIds

\* Every vote hash in the tally of a height is a vote stored in
\* mapMasternodePaymentVotes for that height and payee, and a payee script
\* has a single entry: AddPaymentVote, AddPayee and CheckAndRemove keep
\* mapMasternodeBlocks and mapMasternodePaymentVotes in step.
TallyMatchesVotes ==
  \A h \in DOMAIN blocks :
    /\ \A e \in Range(blocks[h]) : \A v \in e.hashes :
         v \in DOMAIN votes /\ v.h = h /\ v.payee = e.payee
    /\ \A i, j \in DOMAIN blocks[h] : blocks[h][i].payee = blocks[h][j].payee => i = j

\* A tally only grows (an entry keeps its tier and gains hashes) until the
\* whole height is dropped, and a height is dropped only once it is older
\* than the storage limit.
TallyOnlyGrows ==
  [][\A h \in DOMAIN blocks :
       IF h \in DOMAIN blocks'
       THEN \A e \in Range(blocks[h]) : \E f \in Range(blocks'[h]) :
              f.payee = e.payee /\ f.tier = e.tier /\ e.hashes \subseteq f.hashes
       ELSE tip - h > StorageLimit]_vars

\* A vote stored verified stays verified until CheckAndRemove drops it: the
\* "seen" return of the handler and AddPaymentVote's HasVerifiedPaymentVote
\* test keep every later copy, whatever its signature, from replacing it.
VerifiedStaysVerified ==
  [][\A v \in DOMAIN votes :
       votes[v] = "verified" /\ v \in DOMAIN votes' => votes'[v] = "verified"]_vars

\* A vote an honest top operator signed, that reaches the node while in
\* range and while its operator is known, is never dropped untallied by one
\* of the handler's returns (seen, out of range, invalid, already voted,
\* bad signature, AddPaymentVote failing), unless a copy of it first came
\* from a peer more than 20 blocks ahead: that copy is stored as seen
\* (masternode-payments.cpp:355) and returned as out of range, and every
\* later copy ends at the "seen" return once the vote is in range.
SignedVoteIsTallied == lost \subseteq early

\* Spec 8: at most one verified vote per (operator, height) is stored;
\* CanVote is meant to let an operator vote once per height.
OneVotePerOperatorHeight ==
  \A v, w \in DOMAIN votes :
    (votes[v] = "verified" /\ votes[w] = "verified" /\ v.op = w.op /\ v.h = w.h)
      => v = w

\* Spec 4.F / 7: a vote with an invalid signature is untrusted, so every
\* vote stored verified is one its operator signed (an honest operator's
\* vote, the local node's own vote, or anything a Byzantine operator signs).
VerifiedVoteIsSigned ==
  \A v \in DOMAIN votes :
    votes[v] = "verified" =>
      \/ v.op \in Byzantine
      \/ LocalOp \in Ops /\ OpTier[LocalOp] \in Tiers /\ v = OwnVote(v.h)
      \/ [op |-> v.op, h |-> v.h, payee |-> v.payee, sig |-> "good"] \in HonestMsgs

\* A vote stored verified is in the tally of its height unless mnodeman no
\* longer knows its operator: the only way the handler stores a verified
\* vote that AddPayee never counts is mnodeman dropping the voter between
\* GetMasternodeInfo and AddPayee's mnodeman.Find, and pruning removes a
\* height's votes and its tally together.
VerifiedVoteTalliedOrVoterGone ==
  \A v \in DOMAIN votes : votes[v] = "verified" => Tallied(v) \/ v.op \notin known

=============================================================================
