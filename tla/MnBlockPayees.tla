---------------------------- MODULE MnBlockPayees ----------------------------
(***************************************************************************)
(* CMasternodeBlockPayees (src/src/masternode-payments.cpp): the payee     *)
(* tally of ONE block height (vecPayees), how votes join it (AddPayee via  *)
(* AddPaymentVote), how the winner of a tier is picked (GetBestPayee), how *)
(* a coinbase is checked against it (IsTransactionValid) and how the miner *)
(* fills a coinbase from it (FillBlockPayments -> FillBlockPayee /          *)
(* FillNextBlockPayee).  MnPayments uses the operators of this module for  *)
(* every height; the specification below lets votes reach one height in   *)
(* every order so the coinbase operators are checked on every tally that  *)
(* can arise.                                                              *)
(***************************************************************************)
EXTENDS Integers, FiniteSets, Sequences

LOCAL INSTANCE Functions

CONSTANTS
  Ops,          \* operator outpoints
  Known,        \* operators mnodeman.Find() returns (others are unknown)
  Payees,       \* payee scripts
  BurnScript,   \* the burn-address script
  OpTier,       \* [Ops -> {1,5,10,-1}]: GetSinTypeInt() of the operator's node
  PayeeHash,    \* [Payees -> Nat], injective: order of CMasternodePayee::GetHash
  MnPayment,    \* [{1,5,10,-1} -> Nat]: GetMasternodePayment(h, tier)
  TierBurn,     \* [{1,5,10} -> Nat]: nMasternodeBurnQSTEESNODE_t
  SigRequired   \* MNPAYMENTS_SIGNATURES_REQUIRED

Tiers    == {1, 5, 10}
TierVals == Tiers \cup {-1}

ASSUME /\ Known \subseteq Ops /\ OpTier \in [Ops -> TierVals]
       /\ PayeeHash \in [Payees -> Nat]
       /\ \A p, q \in Payees : PayeeHash[p] = PayeeHash[q] => p = q
       /\ BurnScript \notin Payees /\ SigRequired \in Nat \ {0}

(***************************************************************************)
(* Tally operators; vecPayees is a sequence of entries [payee, tier,      *)
(* hashes] in the order they were created, a vote is any record with     *)
(* fields op and payee (its hash).                                        *)
(***************************************************************************)

\* mutant: an unknown voter's entry gets a default tier of 0
AddPayeeDefaultTier(entries, v, voterKnown) ==
  IF \E i \in DOMAIN entries : entries[i].payee = v.payee
  THEN [i \in DOMAIN entries |->
          IF entries[i].payee = v.payee
          THEN [entries[i] EXCEPT !.hashes = entries[i].hashes \cup {v}] ELSE entries[i]]
  ELSE Append(entries, [payee |-> v.payee, tier |-> IF voterKnown THEN OpTier[v.op] ELSE 0,
                        hashes |-> {v}])

\* CMasternodeBlockPayees::AddPayee: the hash joins the entry of the same
\* script; a new entry takes the tier of the VOTING operator's node; an
\* operator mnodeman does not know adds nothing; a new entry is pushed back.
AddPayee(entries, v, voterKnown) ==
  IF \E i \in DOMAIN entries : entries[i].payee = v.payee
  THEN [i \in DOMAIN entries |->
          IF entries[i].payee = v.payee
          THEN [entries[i] EXCEPT !.hashes = entries[i].hashes \cup {v}] ELSE entries[i]]
  ELSE IF ~voterKnown THEN entries
  ELSE Append(entries, [payee |-> v.payee, tier |-> OpTier[v.op], hashes |-> {v}])

VoteCount(e) == Cardinality(e.hashes)

\* CMasternodeBlockPayees::GetBestPayee, one pass of its loop over
\* vecPayees with acc = [votes |-> nVotes, best |-> payeetmp]: an entry of
\* tier t with more votes is taken, then one with as many votes and a
\* greater hash (CMasternodePayee::GetHash covers the script and the tier;
\* an entry per script, so PayeeHash orders them).
NoEntry == [payee |-> BurnScript, tier |-> -1, hashes |-> {}]

\* mutant: a tie keeps the entry met first
BestStepFirstWins(acc, e, t) ==
  IF VoteCount(e) > acc.votes /\ e.tier = t THEN [votes |-> VoteCount(e), best |-> e] ELSE acc

BestStep(acc, e, t) ==
  LET a == IF VoteCount(e) > acc.votes /\ e.tier = t
           THEN [votes |-> VoteCount(e), best |-> e] ELSE acc
  IN  IF VoteCount(e) = a.votes /\ e.tier = t /\ PayeeHash[e.payee] > PayeeHash[a.best.payee]
      THEN [a EXCEPT !.best = e] ELSE a

RECURSIVE BestLoop(_, _, _)
BestLoop(acc, entries, t) ==
  IF entries = <<>> THEN acc ELSE BestLoop(BestStep(acc, Head(entries), t), Tail(entries), t)

\* the payee GetBestPayee returns, NoEntry when it returns false (no entry
\* of tier t: nVotes stays -1)
BestPayee(entries, t) ==
  LET r == BestLoop([votes |-> -1, best |-> NoEntry], entries, t)
  IN  IF r.votes > -1 THEN r.best ELSE NoEntry

\* CMasternodePayments::GetBlockPayee / NetworkDiagnostic: a block entry
\* exists (hasBlock) and has a best payee of tier t.
GetBlockPayee(hasBlock, entries, t) == hasBlock /\ BestPayee(entries, t) # NoEntry

\* one coinbase output at positions 3..5: a burn counts 1, a script counts
\* every entry of that script paid its tier's amount or holding
\* SIGNATURES_REQUIRED - 1 votes
SlotMatches(entries, out) ==
  IF out.script = BurnScript THEN 1
  ELSE Cardinality({i \in DOMAIN entries :
                      /\ entries[i].payee = out.script
                      /\ \/ MnPayment[entries[i].tier] = out.value
                         \/ VoteCount(entries[i]) >= SigRequired - 1})

\* CMasternodePayments::IsTransactionValid(txNew, h): no entry for h, or
\* no payee with SIGNATURES_REQUIRED votes, accepts; otherwise positions
\* 3..5 (slots) must count exactly 3.
IsTransactionValid(hasBlock, entries, slots) ==
  \/ ~hasBlock
  \/ \A e \in Range(entries) : VoteCount(e) < SigRequired
  \/ SumFunction([i \in DOMAIN slots |-> SlotMatches(entries, slots[i])]) = 3

\* mutant: every tier is paid the first tier's amount
FillTierSameAmount(hasBlock, entries, t, amounts) ==
  IF ~GetBlockPayee(hasBlock, entries, t)
  THEN <<[script |-> BurnScript, value |-> amounts[1]]>>
  ELSE <<[script |-> BestPayee(entries, t).payee, value |-> amounts[1]]>>

\* FillBlockPayee / FillNextBlockPayee for tiers 1, 5, 10: the tier's best
\* payee when NetworkDiagnostic saw one, else a burn; when GetBlockPayee
\* fails after all, the local queue lookup (always false for an unknown
\* tier) skips the tier.  amounts[t] is the output value.
FillTier(hasBlock, entries, t, amounts) ==
  IF ~GetBlockPayee(hasBlock, entries, t)
  THEN <<[script |-> BurnScript, value |-> amounts[t]]>>
  ELSE <<[script |-> BestPayee(entries, t).payee, value |-> amounts[t]]>>

FillPayee(hasBlock, entries, amounts) ==
  FillTier(hasBlock, entries, 1, amounts) \o FillTier(hasBlock, entries, 5, amounts)
    \o FillTier(hasBlock, entries, 10, amounts)

PaymentOf == [t \in Tiers |-> MnPayment[t]]
BurnOf    == TierBurn

\* FillBlockPayments appends the outputs for h, then those for h + 1, to a
\* template of two outputs; positions 3..5 are the first three appended.
CoinbaseSlots(hasBlock, entries, hasNext, nextEntries) ==
  SubSeq(FillPayee(hasBlock, entries, PaymentOf)
           \o FillPayee(hasNext, nextEntries, BurnOf), 1, 3)

(***************************************************************************)
(* Block acceptance (IsBlockValueValid, IsBlockPayeeValid) on the networks *)
(* chainparams.cpp defines.  The consensus parameters header is not in the *)
(* repository; with an int field the literal 9999999999 ("Disabled")       *)
(* wraps to 9999999999 % 2^32 = 1410065407, and with a 64-bit field it      *)
(* stays larger than every height below, so both start heights coincide  *)
(* either way.                                                             *)
(***************************************************************************)
Disabled == 1410065407

\* CMainParams, CTestNetParams, CFinalNetParams: the budget and superblock
\* fields IsBlockValueValid and IsBlockPayeeValid read
Networks ==
  {[budgetStart |-> Disabled, cycle |-> 10958, window |-> 100, superblockStart |-> Disabled],
   [budgetStart |-> 365 * 1440, cycle |-> 10958, window |-> 100, superblockStart |-> 365 * 1440]}

\* heights at the edges of the budget cycle, its window and both starts
CheckHeights == {0, 99, 100, 10958, 11057, 525599, 525600, 525700, Disabled - 1, Disabled}

\* mutant: the budget window is entered before nBudgetPaymentsStartBlock
InBudgetWindowNoStart(net, h) == h % net.cycle < net.window

\* nBlockHeight >= nBudgetPaymentsStartBlock && nOffset < nBudgetPaymentsWindowBlocks
InBudgetWindow(net, h) == h >= net.budgetStart /\ h % net.cycle < net.window

\* IsBlockValueValid: below the superblock start, inside the budget window
\* a node not synced or with SPORK_13 on accepts any value; everywhere else
\* the coinbase may not exceed the block reward (rewardMet).
IsBlockValueValid(net, h, synced, spork13, rewardMet) ==
  IF h < net.superblockStart /\ InBudgetWindow(net, h) /\ ~(synced /\ ~spork13)
  THEN TRUE ELSE rewardMet

\* IsBlockPayeeValid: a node not synced accepts; a coinbase passing
\* IsTransactionValid (txValid) is accepted; below the superblock start,
\* inside the budget window, SPORK_13 decides; otherwise SPORK_8 rejects.
IsBlockPayeeValid(net, h, synced, spork13, spork8, txValid) ==
  CASE ~synced -> TRUE
    [] txValid -> TRUE
    [] h < net.superblockStart /\ InBudgetWindow(net, h) -> spork13
    [] OTHER -> ~spork8

(***************************************************************************)
(* One height: votes of any operator for any payee arrive in any order.    *)
(***************************************************************************)
Votes == [op : Ops, payee : Payees]

VARIABLES
  payees,   \* vecPayees of mapMasternodeBlocks[h]
  stored,   \* hashes of the votes AddPaymentVote stored for h
  mined     \* positions 3..5 of the coinbase the miner filled, <<>> before

vars == <<payees, stored, mined>>

HasBlock == stored # {}

\* AddPaymentVote for height h: a vote not yet stored is stored, the block
\* entry is created if needed, and AddPayee tallies it.
AddPaymentVote(v) ==
  /\ v \notin stored
  /\ stored' = stored \cup {v}
  /\ payees' = AddPayee(payees, v, v.op \in Known)
  /\ UNCHANGED mined

\* FillBlockPayments for h on this node, at any point of the vote flow (the
\* next height has no tally yet)
FillBlockPayments ==
  /\ mined = <<>>
  /\ mined' = CoinbaseSlots(HasBlock, payees, FALSE, <<>>)
  /\ UNCHANGED <<payees, stored>>

Init == payees = <<>> /\ stored = {} /\ mined = <<>>

Next == \/ \E v \in Votes : AddPaymentVote(v)
        \/ FillBlockPayments

Spec == Init /\ [][Next]_vars

TypeOK ==
  /\ stored \subseteq Votes
  /\ payees \in Seq([payee : Payees, tier : TierVals, hashes : SUBSET Votes])
  /\ mined \in {<<>>} \cup [1..3 -> [script : Payees \cup {BurnScript}, value : Nat]]

\* Coinbase positions 3..5 can hold a burn or pay a payee any tier amount.
Outputs   == [script : Payees \cup {BurnScript}, value : {MnPayment[t] : t \in Tiers}]
Coinbases == [1..3 -> Outputs]

\* The coinbase the miner filled with FillBlockPayments passes
\* IsTransactionValid on the tally as it is now, however many votes arrived
\* after the fill: a node's miner and its validator agree even when the
\* tally moved between mining and validation.
FilledBlockStaysValid == mined # <<>> => IsTransactionValid(HasBlock, payees, mined)

\* Reference for the winner of tier t among a SET of entries: the most votes,
\* ties to the greatest hash.
MostVoted(E, t) ==
  LET c == {e \in E : e.tier = t}
  IN  IF c = {} THEN NoEntry
      ELSE CHOOSE e \in c : \A f \in c :
             \/ VoteCount(e) > VoteCount(f)
             \/ VoteCount(e) = VoteCount(f) /\ PayeeHash[e.payee] >= PayeeHash[f.payee]

\* The tally the votes V build whatever their order, when every voter is
\* known and the voters of each payee share one tier: one entry per payee
\* voted for, holding all of its votes, with that tier.
VotedTiers(V, p) == {OpTier[v.op] : v \in {w \in V : w.payee = p}}

UniformVotes(V) ==
  /\ \A v \in V : v.op \in Known
  /\ \A p \in Payees : Cardinality(VotedTiers(V, p)) <= 1

OrderFreeEntries(V) ==
  {[payee |-> p, tier |-> CHOOSE t \in VotedTiers(V, p) : TRUE,
    hashes |-> {v \in V : v.payee = p}] : p \in {v.payee : v \in V}}

\* Nodes that stored the same votes hold the same entries and elect the
\* same payee of every tier, whatever order the votes came in, as long as
\* every voter is known and each payee's voters share a tier: AddPayee
\* merges a payee's votes into one entry and GetBestPayee's tie-break on
\* the hash does not depend on the order of vecPayees.  The two ways order
\* does matter are excluded here: a new entry takes the tier of its FIRST
\* voter (AddPayee, masternode-payments.cpp:541), and a vote of an operator
\* mnodeman does not know counts only if its payee's entry already exists.
ElectionDependsOnVotesOnly ==
  UniformVotes(stored) =>
    /\ Range(payees) = OrderFreeEntries(stored)
    /\ \A t \in Tiers : BestPayee(payees, t) = MostVoted(OrderFreeEntries(stored), t)

\* Spec 4.H: once some payee holds SIGNATURES_REQUIRED votes, positions
\* 3..5 of a valid coinbase burn only for tiers without an elected payee,
\* and every other position pays an elected payee (GetBestPayee of a tier).
Elected == {t \in Tiers : GetBlockPayee(HasBlock, payees, t)}

ValidCoinbasePaysElected ==
  \A cb \in Coinbases :
    (HasBlock /\ (\E e \in Range(payees) : VoteCount(e) >= SigRequired)
       /\ IsTransactionValid(HasBlock, payees, cb))
      => /\ Cardinality({i \in 1..3 : cb[i].script = BurnScript})
              <= Cardinality(Tiers \ Elected)
         /\ \A i \in 1..3 : cb[i].script # BurnScript =>
              \E t \in Elected : cb[i].script = BestPayee(payees, t).payee

\* Coinbases a peer may send for h: every position pays one payee the
\* tier-1 amount; whether IsTransactionValid accepts one depends on the tally.
PeerCoinbases == {[i \in 1..3 |-> [script |-> q, value |-> MnPayment[1]]] : q \in Payees}

\* The IsTransactionValid verdicts IsBlockPayeeValid passes through
\* unchanged on a synced node enforcing SPORK_8, on every network and
\* height and whatever SPORK_13 says
PayeeVerdictsKept ==
  {ok \in BOOLEAN : \A net \in Networks, h \in CheckHeights, s13 \in BOOLEAN :
                      IsBlockPayeeValid(net, h, TRUE, s13, TRUE, ok) = ok}

\* whether IsBlockValueValid is exactly the block-reward check on every
\* network and height, whatever the sync state and SPORK_13 say
ValueCheckIsRewardCheck ==
  \A net \in Networks, h \in CheckHeights, s13, synced, met \in BOOLEAN :
    IsBlockValueValid(net, h, synced, s13, met) = met

\* The budget exemptions of block acceptance are dead on every network
\* chainparams defines: IsBlockValueValid is exactly the block-reward check,
\* and a synced node enforcing SPORK_8 accepts a peer's coinbase exactly
\* when IsTransactionValid does on the current tally, so
\* SPORK_13_OLD_SUPERBLOCK_FLAG cannot let an unpaid coinbase through.
BudgetExemptionUnreachable ==
  /\ ValueCheckIsRewardCheck
  /\ \A cb \in PeerCoinbases : IsTransactionValid(HasBlock, payees, cb) \in PayeeVerdictsKept

=============================================================================
