# TLA+ models of the masternode / infinity-node payment subsystem

This directory holds the model-checking project for the payment subsystem in
`src/src/`. Each module is written from the C++ source. `PROJECT.json` maps
every modelled definition to the lines it translates, lists the runs, the
mutants and the findings, and lists the hazards of the code.

## 1. The system

| Part | Source | State | Operations that change state |
|---|---|---|---|
| ChainParams | `chainparams.cpp` | per-network constants (budget and superblock fields of main, test and final in `MnBlockPayees`) | none (selected once) |
| BlockScanner | `infinitynodeman.cpp` `buildInfinitynodeList`, `CheckAndRemove` | `nLastScanHeight`, `nCachedBlockHeight` | first scan, incremental scan from `nLastScanHeight`, statement recompute |
| InfinityNodeRegistry | `infinitynodeman.cpp/.h` | `mapInfinitynodes`, `mapInfinitynodesNonMatured`, `mapLastPaid`, node ranks | `Add` (ignores duplicates), `updateMetadata` (height guard), `AddUpdateLastPaid` (keeps the max), `updateLastPaid`, `calculInfinityNodeRank` |
| StatementSchedule | `infinitynodeman.cpp` `deterministicRewardStatement`, `deterministicRewardAtHeight` | `mapStatement{BIG,MID,LIL}`, `n*LastStmHeight/Size` | rebuild from the genesis statement |
| GovernanceVotes | `infinitynodersv.cpp` | proposal -> votes | `Add` (one vote per voter, the newer height wins), `rsvScan` |
| PaymentVoteStore | `masternode-payments.cpp/.h` | `mapMasternodePaymentVotes` (hash -> vote, verified when it has signature bytes), `mapMasternodeBlocks` (height -> payee tally), `mapMasternodesLastVote` | `ProcessMessage(MASTERNODEPAYMENTVOTE)`, `AddPaymentVote`, `AddPayee`, `CanVote`, `CheckAndRemove` |
| PaymentVoter | `masternode-payments.cpp` `UpdatedBlockTip`, `ProcessBlock` | shares the store | own vote for `tip + 10` |
| PaymentValidator | `masternode-payments.cpp` `IsTransactionValid`, `FillBlockPayments` | reads the store | miner fill; coinbase check |
| Persistence | flat-file dumps | files | pure I/O |

How the parts interact:
- A new tip runs `UpdatedBlockTip`. On a masternode this makes `ProcessBlock` vote for `tip + 10` and add the vote to the store.
- The P2P threads deliver peers' votes to the same store. They run in any order, with duplicates, and some are forged.
- The miner reads the tallies of `h` and `h + 1` to fill a coinbase. The validator reads the tally of `h` to accept it.
- The infinity-node worker thread scans the chain, grows the registry and rebuilds the statement schedule.
- The registry and the schedule decide which deterministic payee each height gets.

The hard behaviours:
- Gossip votes arrive in any order, duplicated, delayed, or forged, and are interleaved with tip changes and pruning.
- A vote is stored under its hash. The hash leaves out the signature, and the vote is stored before any check.
- `CanVote` remembers only the last height an operator voted for.
- mnodeman can drop an operator while a vote of that operator is halfway through the handler.
- The miner and the validator read a tally that is still growing.
- The registry and the schedule are rebuilt from history, with a maturity lag equal to the reorg depth.

## 2. Modules

### `MnBlockPayees` (PaymentValidator, and the tally half of PaymentVoteStore)

This module holds the operators of one height's `CMasternodeBlockPayees`:
- `AddPayee`: the hash joins the entry with the same script. Otherwise a new entry is pushed to the back of the sequence with the tier of the voting operator's node, and nothing is added when mnodeman does not know the voter.
- `BestPayee`: `GetBestPayee`'s loop over `vecPayees` in order (`BestStep` is one pass, `BestLoop` the loop). A tier's entry with more votes is taken, then one with as many votes and a greater hash. `MostVoted` is the order-free reference the loop is checked against.
- `GetBlockPayee` / `NetworkDiagnostic`.
- `IsTransactionValid`, with `SlotMatches` for the outputs at positions 3..5.
- `FillTier` / `FillPayee` / `CoinbaseSlots`: `FillBlockPayee`, `FillNextBlockPayee` and `FillBlockPayments`.
- `IsBlockValueValid` and `IsBlockPayeeValid`, over the budget and superblock fields of the networks `chainparams.cpp` defines (`Networks`; main and test share them). `InBudgetWindow` is the shared `nBlockHeight >= nBudgetPaymentsStartBlock && nOffset < nBudgetPaymentsWindowBlocks` test. A coinbase enters `IsBlockPayeeValid` through its `IsTransactionValid` result, and the block value through `GetValueOut() <= blockReward`, as booleans; `PeerCoinbases` are the coinbases the property feeds it, each paying one payee at every position.
  - `Disabled` is the literal 9999999999 of main and test. The consensus parameters header is not in the repository. If the fields are `int`, the literal wraps to 1410065407; if they are 64-bit, it exceeds every height. Either way the budget start equals the superblock start.
  - `CheckHeights` are the edges of the budget cycle (10958), its window (100), the final-net start (365 * 1440) and `Disabled`.

Its specification follows one height. Its variables are:
- `payees`: `vecPayees`, a sequence in the order the entries were created (`mapMasternodeBlocks[h]` in `MnPayments` is the same sequence);
- `stored`: the hashes `AddPaymentVote` stored;
- `mined`: the coinbase the miner filled.

Its actions are `AddPaymentVote(v)` for any operator and payee, and `FillBlockPayments`, which the miner may take at any point.

`MnPayments` uses `AddPayee` through `INSTANCE`.

### `MnPayments` (PaymentVoteStore and PaymentVoter as one node sees them)

| Variable | Code |
|---|---|
| `tip` | `nCachedBlockHeight` |
| `votes` | `mapMasternodePaymentVotes`: vote id -> `"verified"` / `"unverified"` |
| `blocks` | `mapMasternodeBlocks` |
| `lastVote` | `mapMasternodesLastVote` |
| `known` | the operators `mnodeman` knows |
| `lost` | history: honest votes dropped untallied |
| `early` | history: honest votes first received above `nCachedBlockHeight + 20` |

A vote id is `[op, h, payee]`, which is what `CMasternodePaymentVote::GetHash` covers. A message adds the signature: `"good"`, `"bad"` or `"empty"`.

`ReceiveVote(m)` is the `MASTERNODEPAYMENTVOTE` handler. It is split by the return it ends at:

| Action | Where it ends | Effect |
|---|---|---|
| `ReceiveSeen` | hash already stored | dropped |
| `ReceiveOutOfRange` | range check | stored unverified |
| `ReceiveInvalid` | `IsValid`: unknown operator, or not in the top ranks | stored unverified |
| `ReceiveAlreadyVoted` | `CanVote` | stored unverified |
| `ReceiveRejected` | `CheckSignature` or `AddPaymentVote` failed | `CanVote` already recorded |
| `ReceiveAccepted` | stored and tallied | |
| `ReceiveAcceptedVoterRemoved` | accepted, but mnodeman drops the voter before `AddPayee` | stored, not tallied |

The other actions:
- `UpdatedBlockTip`: the tip moves, and on a masternode `ProcessBlock(tip + 10)` adds the node's own vote.
- `CheckAndRemove`: drops old votes and erases the tallies of their heights.
- `MasternodeRemoved`: mnodeman drops a node. This is the environment.

The environment is given by constants:
- `Byzantine`: operators whose key signs anything.
- `ForgedOps`: operators whose votes peers relay with bad or empty signatures.
- `Top`: the rank check.
- `NextInQueue`: the payee that `GetNextMasternodeInQueueForPayment` returns.

Honest operators vote for `NextInQueue` once THEIR chain reaches `h - 10`; a peer's tip may be up to `PeerLead` blocks ahead of this node's, so its vote can arrive above the window. Any message may be delivered any number of times or never.

### `InfinitynodeMan` (BlockScanner, InfinityNodeRegistry, StatementSchedule)

| Variable | Code |
|---|---|
| `tip` | `nCachedBlockHeight` |
| `registry` | the outpoints in `mapInfinitynodes` |
| `nonMatured` | `mapInfinitynodesNonMatured` |
| `lastScan` | `nLastScanHeight` |
| `stm[t]` | `mapStatementBIG/MID/LIL`: start height -> size |
| `lastStm[t]` | `n*LastStmHeight`, `n*LastStmSize` |
| `rank` | each node's `nRank` |
| `settled` | history: the scanned height each tier's statements were last built against |
| `lastPaid` | `mapLastPaid`: payee script -> last paid height (0 when absent) |
| `meta` | each node's metadata (`setMetadata`); `NoMeta` for a fresh node |
| `lastReward` | each node's `nLastRewardHeight`, set by `updateLastPaid` |

A burn is a model value, with constants for its block height, tier, expiry height, outpoint order, owner address (`NodeOwner`) and payee script (`NodeScript`). `Payments` lists the coinbase outputs of a tier payment value (script, height). `MetaUpdates` lists the metadata-address burns (owner, height, value); `MetadataHeight` is the node's metadata height, which nothing in the repository sets.

The pure operators are:
- `Alive`: the registered nodes of a tier with `height < h <= expire`.
- `RankSeq`: `calculInfinityNodeRank`, a sort by `CompareIntValue`.
- `StatementStep` / `StatementLoop` / `Statement`: one probe of `deterministicRewardStatement`'s loop, and the loop as a RECURSIVE operator over it.
- `RankUpdate`: `calculInfinityNodeRank` for the due tiers. A node's rank is one more than the number of alive nodes sorted before it, which is its position in the sorted vector.
- `RewardAtHeight`: `deterministicRewardAtHeight`. It picks the last start `s < h` with `h - s <= size` and pays rank `h - s`. A missing rank yields `DefaultNode`, which models `std::map::operator[]`.
- The scan, block by block: `ScanBlock(b, H, st)` is one pass of the loop in the order the code takes it: the coinbase (`CoinbaseScan`, `AddUpdateLastPaid` for every payment output within `PaidDepth(H)` blocks), the burns (added when matured, else non-matured), then the metadata-address outputs (`MetadataScan`, `updateMetadata` on nodes already registered). `ScanDown` runs it from the tip down and also collects the state before each block, where a failed read would stop. A complete scan ends with `UpdateLastPaid`, and sets `nLastScanHeight` to `ScannedHeight(H)` = H - `INF_MATURED_LIMIT`.

`ScanDown` and `StatementLoop` carry their state as a one-element set, and `ScanAndSchedule` computes `lastStm'` and `rank'` from the primed variables already assigned. When TLC evaluates ENABLED it does not cache operator arguments or LET definitions, and without these forms every reference would recompute them, exponentially in the loop depth. The meaning is unchanged.
- `ScanResults(H, low)`: every result `buildInfinitynodeList` can have. That covers a complete scan, and a scan that returns false after reading only the blocks above some height, when `ReadFails` is set.

The actions are:
- `UpdatedBlockTip`.
- `CheckAndRemove`, in two disjuncts:
  - `FirstScan`: the first-scan branch (`FirstScanDue`), which returns early.
  - `ScanAndSchedule`: the incremental scan (when `IncrementalScanDue`), then the statement and rank recompute of every due tier. Because `UpdatedBlockTip` takes no lock, the tip may move by one between the scan and the recompute.

### `InfNodeRegistrySpec` (what the registry promises)

This is an abstract registry with no scanning detail. It has a set of registered burns and a completeness height. Under it every burn since the start height is registered, and only matured burns can be registered.

`InfinitynodeMan` refines it through `INSTANCE ... WITH complete <- lastScan`. The property `RegistryRefinement` checks that refinement.

### `InfNodeRsv` (GovernanceVotes and its locks)

| Variable | Code |
|---|---|
| `votes` | `mapProposalVotes` |
| `added` | history: the votes passed to `Add` since the last `Clear` |
| `manLock`, `rsvLock` | the owners of `infnodeman.cs` and `infnodersv.cs` |
| `wpc`/`wq`, `rpc`, `spc`/`sq` | the program counters and queues of three threads |
| `reg` | infnodeman's `mapInfinitynodes`: the matured nodes (`ScannedNodes`) the worker's scans have added since the last `Clear()` |
| `result` | history: the last value `getResult` returned, with its arguments, the votes added to its proposal and the registry it copied |

The three threads are:
- **The infinity-node worker.** `WorkerStart`, `WorkerClear`, `WorkerAdd` and `WorkerDone` hold `infnodeman.cs` through the whole scan and take `infnodersv.cs` in each `Add`.
- **getResult.** `ResultLock` takes `infnodersv.cs`. `ResultRead` then copies the registry under `infnodeman.cs` in `GetFullInfinitynodeMap`, and weighs the proposal's votes for any opinion and mode.
- **rsvScan.** `RsvScanStart`, `RsvScanAdd` and `RsvScanDone` clear the map and re-add the matured governance votes from the tip down. The scan may stop early when a read fails.

`Add` is `CInfinitynodersv::Add`: a vote at the same or a lower height is refused, and a higher one replaces the old one at the end of the list.

`GetResult` sums `VoteWeight` over the votes with the asked opinion:
- in mode 0, every vote weighs 1;
- in modes 1 and 2, a vote weighs the `TierWeight` (2/10/20) of the LAST node of the map copy, in outpoint order, whose collateral address is the voter;
- a vote weighs 0 when the voter has no node, or when the mode is another value.

Nodes are integers, so their order is the `COutPoint` order of the `std::map`. The registry is written whole in `WorkerStart`. The worker holds `infnodeman.cs` from then to `WorkerDone`, and `getResult` copies the map under the same lock, so no other thread sees a registry in the middle of a scan.

## 3. Runs

| Run | Config | Expect | What it shows |
|---|---|---|---|
| `block_payees` | `MC_MnBlockPayees.cfg` | pass | The coinbase the miner fills stays valid however many votes arrive afterwards (`FilledBlockStaysValid`). When every voter is known and the voters of each payee share a tier, the entries of `vecPayees` and the payee `GetBestPayee` elects for every tier depend only on the set of votes stored, not on the order they came in (`ElectionDependsOnVotesOnly`). Outside those conditions order does matter, and nodes can disagree: a payee's entry takes the tier of its first voter (`masternode-payments.cpp:541`), and the vote of an operator mnodeman does not know counts only if its payee's entry already exists (`:531`). On main, test and final the budget exemptions of `IsBlockValueValid` and `IsBlockPayeeValid` can never be taken: the block value check is exactly the reward check, and a synced node enforcing SPORK_8 accepts a peer's coinbase exactly when `IsTransactionValid` does on the current tally, whatever SPORK_13 says (`BudgetExemptionUnreachable`). |
| `elected_payee` | `MC_MnBlockPayees_Elected.cfg` | violation | Under enforcement a coinbase that burns an elected tier's share is valid (spec 4.H says otherwise). |
| `votes_honest` | `MC_MnPayments.cfg` | pass | With honest peers: tallies and the vote map stay in step, an honest in-range vote is dropped untallied only when a copy of it first arrived from a peer more than the window ahead (`SignedVoteIsTallied`, `masternode-payments.cpp:362`), and tallies only grow until pruned, including when the storage limit shrinks under stored heights. A vote stored verified but missing from its tally always has an operator mnodeman has dropped: the voter-removed race at `masternode-payments.cpp:532` is the only way the handler leaves a verified vote uncounted (`VerifiedVoteTalliedOrVoterGone`). |
| `votes_adversary` | `MC_MnPayments_Adversary.cfg` | pass | With a Byzantine operator and forged copies, on a non-masternode node: the same consistency, and a verified vote is never downgraded. |
| `double_vote` | `MC_MnPayments_DoubleVote.cfg` | violation | `CanVote` lets an operator vote h1, h2, h1: two verified votes for one height. |
| `forged_copy` | `MC_MnPayments_ForgedCopy.cfg` | violation | A forged vote in an honest operator's name blocks its genuine vote. |
| `forged_verified` | `MC_MnPayments_ForgedVerified.cfg` | violation | A bad signature for a height at or below the tip is accepted and the vote counts as verified. |
| `infnode_scan` | `MC_InfinitynodeMan.cfg` | pass | The scan refines the abstract registry, including failed reads and a tip that moves under it. Statements up to the scanned height count every alive node. A freshly built schedule pays each alive node exactly once per statement. After each complete scan a node's last reward height is its script's latest coinbase payment within the paid-scan depth (`LastRewardMatchesWindow`). |
| `metadata_order` | `MC_InfinitynodeMan_Metadata.cfg` | violation | Within one scan the oldest metadata update of a node wins, and one read before the node's burn is lost, because the scan goes from the tip down; spec test 4 says the latest update wins (`MetadataIsLatest`). |
| `stale_statement` | `MC_InfinitynodeMan_Stale.cfg` | violation | A statement built before a burn matured is not rebuilt, so the stored schedule never pays that node in it (spec 4.C/4.D). |
| `rsv_store` | `MC_InfNodeRsv.cfg` | pass | The worker, getResult and rsvScan run concurrently. Each proposal keeps one vote per voter, and it is the newest one added (`StoreHoldsLatestVotes`). In modes 0 and 1, what getResult returns is the spec 4.E tally of the latest vote of every voter added since the last clear, weighed by the registry it copied (`ResultIsSpecTally`). For a voter with several nodes, the spec allows the weight of any one of them. |
| `lock_order` | `MC_InfNodeRsv_LockOrder.cfg` | violation | The worker (`infnodeman.cs` at `infinitynodeman.cpp:136`, then `infnodersv.cs` in the first-run `Clear()` at line 218 or in `Add`) and getResult (the reverse order) deadlock. TLC's trace has the worker waiting in `Clear()`. |

Each violation is a finding in `PROJECT.json`. Each property of a passing run has a mutant: a plausible bug in the mapped code that makes TLC report that property violated.

## 4. Bounds, and why they are enough

- **`MnBlockPayees`**
  - Four operators: two of tier 1, one of tier 5, and one unknown to mnodeman.
  - Three payees.
  - `SIGNATURES_REQUIRED` = 3, so enforcement happens with three voters and the `SIGNATURES_REQUIRED - 1` shortcut is reachable.
  - Tier payments differ (3, 15, 30), so a wrong amount is visible.
  - Every subset of the 12 possible votes, in every order, is reached.
- **`MnPayments`**
  - The window, vote offset and block-hash lag are scaled down keeping their order: window 20 -> 1, offset 10 -> 1, lag 101 -> 2.
  - The storage limit `max(int(1.25 n), 5000)` is not scaled in proportion: in the code 5000 dominates, in the model the minimum is 0 so the limit follows the masternode count. The honest run uses `max(n div 3, 0)`: 1 with three masternodes, 0 once o3 leaves, so heights already stored fall past the boundary when it moves (`masternode-payments.cpp:1106`). The other runs use `max(n div 4, 0)` = 0, so a height is pruned as soon as the tip passes it.
  - mnodeman adding masternodes is not modelled, so the limit never grows; a growing limit would bring pruned heights back into the range check.
  - The honest run has three operators, the tip goes from 1 to 2, and honest peers may be one block ahead (`PeerLead` = 1). At tip 1 an honest vote for height 3 is above the window (1 + 1), is stored as seen, and every copy of it at tip 2 is dropped as seen: the far-future loss is reached. With the tip at 3 and a peer lead the run takes over three minutes alone, too long for the project's runs.
  - The adversarial run has two operators and the tip goes from 1 to 2. One operator is both Byzantine and forged; it is the only one in the top ranks.
  - The violation runs keep the tip at 1. Heights 1 (at the tip) and 2 (above it) take the two branches of `CheckSignature`.
  - These bounds reach every return of the handler, both branches of `UpdatedBlockTip`, pruning and removal.
- **`InfinitynodeMan`**
  - Heights are scaled down, keeping their order: `INF_MATURED_LIMIT` 55 -> 2, begin height -> 3, genesis statement -> 4. The tip runs to 14.
  - There are seven burns:
    - five of tier 1, two of them in one block so the outpoint breaks the rank tie;
    - one of tier 5, which expires at 10, so the tier empties and the loop jumps to the tip;
    - one of tier 10, burned at 1, before the start height and below every `nLastScanHeight` the chain reaches (the lowest is 2, after a first scan at tip 4), so it is never scanned. Tier 10's schedule stays empty. A burn at 2 would be registered by the scan after that first scan (see the divergences below).
  - One tier-1 burn lands one block before a statement start, so it matures after that statement was built.
  - The tier-1 statements have several sizes and follow each other.
  - `ReadFails` lets any block read fail in the pass run.
  - The chain may stop at any height from 1 to 14. That includes 5 = begin height + `INF_MATURED_LIMIT`, where a completed first scan leaves `nLastScanHeight` at the begin height and the next scan runs as a first run.
  - Payments: script s1 (node n1) is paid at 5, 10 and 11, and s2 (node n3) at 12. With `PaidScanDepth` = 3 the window (H-3 .. H) holds 10 and 11 together, so keeping the maximum matters, and 5 falls out of every window past 8.
  - Metadata: n1's owner updates at 6 and 8 (both after its burn at 5 matured), n3's owner at 4 (before its burn) and 7. The violation run has no read failures.
- **`InfNodeRsv`**
  - There are three voters. Two of them have two votes each, and c has one.
  - One voter's first vote goes to the legacy burn address and is not matured. Another voter changes opinion.
  - There are four nodes. Voter a owns two, of tiers 5 and 10, so the last-node weighting matters. c's node is burnt at 6 and matures only at tip 8, so c votes while it has no node.
  - The tip runs to 8. Together these reach replacement, refusal, clears by both threads, every lock interleaving, and getResult reading an empty, a partial and a full registry.

## 5. Fairness

No run checks a liveness property, and every specification is `Init /\ [][Next]_vars`.
- **Pruning in `MnPayments`.** Old votes go only when the maintenance thread calls `CheckAndRemove`. "Eventually pruned" would only restate a weak-fairness assumption on that call.
- **Scanning in `InfinitynodeMan`.** The infinity-node thread calls `CheckAndRemove` repeatedly, but nothing in the code makes a block read succeed. A scanner that catches up needs fairness on successful scans, which is an assumption about the node's block store, not a guarantee of the code. `RegistryRefinement` checks the safety side: however often reads fail, the registry never holds a wrong node.
- **Message delivery.** The network may lose votes.

`MC_InfNodeRsv.cfg` does not check deadlock. The code really can stop: the worker and getResult can block each other for good, as `lock_order` shows.

## 6. Not modelled, and why

- P2P sync (`MASTERNODEPAYMENTSYNC`, `Sync`, `RequestLowDataPaymentBlocks`): these only send inventory.
- `CheckPreviousBlockVotes`: it only updates a write-only counter and logs.
- Regtest's `CRegTestParams`: it never sets the budget, superblock and payment-start fields, so they are indeterminate. Any value would have to be allowed, and some admit the budget window that `BudgetExemptionUnreachable` rules out on the other networks. Checking that needs a violation run of its own.
- Signing failures.
- Protocol-version checks: all peers are current.
- Block hashing and Tor control.
- Persistence: pure I/O.
- In `buildInfinitynodeList`:
  - the order of transactions within a block: metadata burns are put after the node burns of the same block (the model assumes no owner updates in the block of its own burn);
  - the parsing of the metadata string (address and IP): an update is a value;
  - the metadata height guard of `updateMetadata` is a constant, because `CInfinitynode` is not in the repository;
  - the callers `initialInfinitynodeList` and `updateInfinitynodeList`: nothing in this repository calls them. `updateInfinitynodeList(h)` only requires `h >= nLastScanHeight`, so such a call could move `nLastScanHeight` back to h - 55. Without a caller, the model would have to invent when it happens;
  - `calculAllInfinityNodesRankAtLastStm` and `getLastStatement`: nothing in this repository calls them;
  - the testnet `nLowHeight = 1`;
  - reorganisations.

### Divergences recorded without a run

- **Burns below the start height.** A first scan that completes at a tip below `nInfinityNodeBeginHeight + INF_MATURED_LIMIT` sets `nLastScanHeight` to tip - 55, under the start height. The next incremental scan reads from there (`infinitynodeman.cpp:222`) and registers burns made before the start height. A node whose first scan ran later never reads those blocks, so two nodes can rank and pay different registries. TLC shows it on the `infnode_scan` chain with n5 burnt at 2 instead of 1: the first scan at tip 4 leaves `nLastScanHeight` at 2, and the scan at tip 5 registers and ranks n5. The abstract registry of `InfNodeRegistrySpec` admits no burn below the start height, so the checked chain keeps n5 at 1; a run for this would exceed the project's 12 runs.

- **Payment window.** Spec 4.D (line 90) pays statement `s` over heights `s .. s + size - 1`, with rank `h - s + 1`. `deterministicRewardAtHeight` pays it over `s + 1 .. s + size`, with rank `h - s`. The model follows the code, and `FreshScheduleRoundRobin` checks that the code's window is consistent in itself.
- **Voter removed before `AddPayee`.** `ReceiveAcceptedVoterRemoved` stores a verified vote that is never tallied (`AddPayee` at `masternode-payments.cpp:532` looks the voter up again). Spec 4.F expects a verified vote to be counted. The model keeps the action. `VerifiedVoteTalliedOrVoterGone` (run `votes_honest`) checks that this race is the only exception. The spec's stronger claim has no run, because the project is at its limit of 12 runs.
- **Tie-break hash.** The spec (`spec.md:51`, `:109`) breaks a vote tie by `max(vote_hash)`. `GetBestPayee` (`masternode-payments.cpp:566`) compares `CMasternodePayee::GetHash`, a hash of the script and the tier. The model orders payees by an injective `PayeeHash`, so it checks that the tie-break is consistent, not which hash it uses.
- **Governance weight in mode 2.** Spec 4.E and its worked example 5 expect 21: a voter without a node weighs 1. `getResult` (`infinitynodersv.cpp:87-98`) starts at 0 in mode 2 as in mode 1, so it returns 20. On the `rsv_store` instance, checking mode 2 against spec 4.E fails at once: a's vote, read with an empty registry, counts 0 and not 1. `ResultIsSpecTally` therefore checks modes 0 and 1 only. A run for mode 2 would exceed the project's 12 runs.

## 7. Plan for the following sittings

1. **Reorganisations.** A tip that moves back by at most the maturity lag, checked against `RegistryRefinement`.
2. **Composition.** The validator uses both the vote tallies of `MnPayments` and the deterministic schedule of `InfinitynodeMan`.
3. **Governance weighting, mode 2, and partial tallies.** `getResult` can run between two `Add` calls of `rsvScan`, and then it returns a partial tally of the chain's votes (`infinitynodersv.cpp:110`). This and mode 2 would each need a violation run.
