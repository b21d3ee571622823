# Sequentia Wallet Kit: a verification project

TLA+ modules, TLC runs and TLAPS proofs for SWK, a Rust wallet kit forked from
Blockstream's LWK. All source paths are relative to `src/`.

## The system

| Part | State | Operations that change it |
|---|---|---|
| Wallet cache, `lwk_wollet/src/cache.rs` | txids, scripts, heights, unspent outputs, unblinded secrets, tip, timestamps, last unused indexes | `update`, `extend_unblinded`, `add_txids_from_txs_store` |
| Updates, `update.rs` | the log of persisted updates, the next index | `apply_update`, `apply_transaction`, `persist` (append or coalesce), `merge_updates`, `restore_updates` |
| Builder, `wollet.rs` | merge threshold, stores | `build` |
| Scan, `clients/` | what one scan has read so far | `get_history`, `tip`, `download_txs`, `download_headers`, `full_scan` |
| Boltz swaps, `lwk_boltz/src` | swap data, pending and completed lists | `advance`, `persist`, `move_to_completed`, restore |
| Cross-chain swaps, `btc/xchain.rs`, `btc/htlc.rs`, `seqdex_htlc.rs` | two HTLC legs, on chain | reveal gate, deadline, claim, refund |
| Transaction builder, `tx_builder.rs` | none; inputs, outputs and fee of one transaction | `finish`, `build` |
| Application, `lwk_app/src`, `lwk_tiny_jrpc/src` | wallets and signers behind a mutex, the state file | request handlers, the scanning thread, `persist`, `stop` |
| Stores, `lwk_common/src/store.rs` | a map of keys to bytes | `get`, `put`, `remove` |

`PROJECT.json` lists every part, the ones not modelled included, and the hazards
of each at its line.

How the core interacts: a scan takes a snapshot of the wallet (`Wollet::state`),
asks the server for the history of batch after batch of scripts, for the tip and
for what it must download, and returns an `Update` marked with the status (a
hash) of the wallet it was made for. The caller applies it; the wallet refuses
one made for another status or whose tip is more than one block lower than its
own. An applied update is appended to a log in a key-value store, or written over
the previous one when both only change the tip. When the log is longer than the
merge threshold it is merged into one update. `build()` replays the log.

What is hard about it: the server moves between two requests; the wallet moves
between the snapshot and the update; the process may stop between any two
writes; and coalescing and merging rewrite updates that others were made on top
of, so that replaying takes a way the live wallet never took.

Around the core: a swap through Boltz follows statuses that are repeated, missed
and late, and writes its data and two lists to a store. A cross-chain swap decides
from several requests to moving chains whether to reveal a preimage. The builder
makes transactions from the unspent outputs, also to replace unconfirmed ones. The
application serves requests, scans in a thread and keeps a state file.

## Modules

- `WolletCache` (pure): the cache, the update, and one operator per function on
  them: `Apply` (`apply_update_inner`), `UpdateUnspent`, `Merge`, `Coalesce`,
  `TransactionUpdate` (`apply_transaction`), `BlinderUpdate` (`BuiltTx::update`).
- `Wollet`: one wallet and its two stores. Each write to a store is a step of
  its own. `pc` says between which two writes the owner is. `trail` is a history
  variable: `trail[i]` is the live cache when the first `i` updates on disk had
  been applied. `Spec` lets the caller apply any update that `Follows`: one that
  is coalesced carries a tip and does not lower the last unused indexes.
- `FullScan`: the wallet, a server (mempool with replacement and eviction,
  blocks, disconnected blocks) and the scan, one request per step. `fresh` is a
  history variable: how far the server's present state has come (into a scan, an
  update, the wallet).
- `MCFullScan`: the instance TLC checks.
- `Wollet_proof`: theorems about `Wollet`. `FullScan_proof`: theorems about the
  scan. `ScanStore_proof`: the two together, for a server that stands still during
  a scan.
- `SwapPromise`: the abstract specification of a swap. The user's money is their
  own, staked, owed, received or back; the record of the swap closes only when
  nothing is left to do, or expires.
- `BoltzSwap`: the three handlers (`advance` of submarine, reverse and chain
  swaps), creation, the lists, restoring. A handler is one step up to its next
  external effect or write. Boltz, the payer and the channel are external: Boltz is
  honest, updates may be repeated, missed or dropped. `budget` bounds what goes
  wrong. `returned`, `unlisted` and `interrupted` are history variables.
  `BoltzSwap` implements `SwapPromise` (`KeepsPromise`, by `INSTANCE ... WITH`).
  `MCBoltzSwap` is its instance, `BoltzSwap_proof` and `BoltzPromise_proof` hold its
  theorems.
- `AppState` (pure): the state, what each request does to it, what it appends to or
  rewrites in the state file, and the replay. `App` adds the threads: main, the one
  worker of the JSON-RPC server, the scanner. `MCApp` is the instance, `App_proof`
  holds the theorems.
- `XChain`: the taker's requests, the gate (`evaluate_gate`), the deadline, claim
  and refund, with Bitcoin reorganisations that Sequentia follows. `raced`,
  `deepest` and `undone` are history variables. `MCXChain`, `XChain_proof`.
- `TxBuilder`: `finish_inner`, one step per stage. `FeeRescue` composes it with the
  mempool and the builders `replace_tx_of`, `bump_fee_of`, `cpfp_of`.
  `MCFeeRescue` is the instance, `FeeRescue_proof` holds the theorems.

Abstractions. A transaction is an identifier, and only outputs that pay the wallet
are outpoints. The status is everything the hash covers; the hash is taken to be
free of collisions. The block of a height is named by its fork, and so is its
timestamp. A replayed update is applied in one step, since it only reads the
updates store. Server and scan steps are taken while the wallet is idle: they
commute with the writes of the stores.

Operators commented as mutants are deliberately wrong variants of the definition
that follows them. Each shows that a property notices that bug.

## Runs

Instance of the wallet: `f` funds the wallet, `a` spends it with change, `b`
replaces `a`; two
external and two internal scripts in batches of one (each script read on its own
is the finest interleaving of requests); in `stores` and `moving` heights 0..4 with
two blocks competing for each. Three transactions give a parent, a child and a
conflict, which is what the unspent set depends on. `MaxEvents` bounds the moves of
the server, `MaxLocal` the local calls, `MaxDrop` the blocks disconnected in a row:
with 2, the server can fall by two blocks at once or one at a time, with a scan in
between. So that three moves suffice for that, the server starts at `StartHeight` = 2,
with no transaction of the wallet in its blocks. Reorganisations of three blocks are
not explored.

| Run | Question | States | Result |
|---|---|---|---|
| `stores` | merge threshold 1 or none, both kinds of txs store, 3 moves of the server, none during a scan | 1 742 781 | holds |
| `moving` | no merging, tip-only updates coalesced, Esplora client, 3 moves, also during a scan | 393 054 | holds |
| `boltz` | one swap of each kind with stops, failures, repeats and a lost store; two reverse swaps sharing the store | 215 576 | holds |
| `app` | two names, two descriptors, two sessions, requests in any order | 947 925 | holds |
| `xchain` | depth 2, two reorganisations, heights up to 5 | 2 088 643 | holds |
| `builder` | up to four transactions on top of each other | 1 109 512 | holds |
| `v_spent` | is every unspent output of the wallet unspent on the server? | | violated |
| `v_merge` | does replaying a merged update keep the unspent outputs? | | violated |
| `v_coalesce` | does a log with the update of an explicit built transaction reopen? | | violated |
| `v_crash` | does a scan recover from a stop during the removal loop? | | violated |
| `v_settled` | has a reverse swap that is recorded as settled paid the user? | | violated |
| `v_volatile` | does a restart forget a signer loaded with `persist=false`? | | violated |

In `stores` and `moving` a wallet whose txs store is in memory may stop between any
two writes. One with a persisted txs store may stop between calls and before a merge
removes anything, not while it writes transactions or removes updates; `v_crash`
shows what a stop during the removal does to it. Deadlock is checked in
every wallet run but `v_crash`, where a refused `build()` is the end. The other
runs end where swaps are over, the application is down or the bounds are reached.

The properties that hold: replaying restores the status (`RestoresStatus`) and,
without merging, the whole cache (`RestoresCache`); with merging it adds no
unspent output (`AddsNoUnspent`) and loses one only in the case `v_merge` shows or
when a live transaction spends it (`LosesOnlyReturned`); `build()` refuses what the
wallet persisted in two cases only (`Reopens`, below); scans produce only updates
coalescing can handle (`CoalescesForward`);
the transaction of every unspent output is in the history (`UnspentInHistory`).
A scan of a server that stood still brings the wallet to its heights and tip
(`HeightsFollow`, if the server's transactions are within the gap limit: `InReach`,
always so in the instance) and to every unspent output (`NoUnspentMissing`); every
unspent output has its secrets, script and transaction (`BalanceComputable`).

`Reopens` excepts what the code does refuse, and the run reaches both cases. Two
tip-only updates that lower the tip by a block each are coalesced into one that
lowers it by two, which `restore_updates` refuses as `UpdateHeightTooOld`
(`FellTogether`). A stop after a second update is written and before the merge
removes it leaves, with a persisted txs store, a first update without its
transactions, so that the second is refused as `UpdateOnDifferentStatus`
(`HalfMerged`). Both leave a wallet that cannot be opened until its updates are
deleted.

Why two runs. The properties of `stores` are about a server that stands still while
a scan reads it (`MidScan = FALSE`), those of `moving` hold however it moves. With
moves during a scan two properties of `stores` are false, though only after more
moves than a run can make; TLC was run once with larger bounds to confirm it:

- `CoalescesForward`, with five moves. The server evicts a transaction between the
  requests for the external and for the internal scripts, so that a tip-only update
  carries a lower last unused index than the update it is written over. After it
  the log is not shown to replay to the same status, so `RestoresStatus`,
  `RestoresCache` and `Reopens` are claimed for a still server only.
- `UnspentInHistory`, with six moves. A torn scan deletes a parent and keeps its
  child; a later one deletes the child, and `update_unspent` puts the output of the
  parent back, whose transaction is no longer in the history. The comment at
  `lwk_wollet/src/wollet.rs:639` says of these lookups that "all these values should
  be in the cache".

With `MidScan = FALSE` the properties of `stores` other than `Reopens` were also
checked once with four moves from height 0 (22.7 million states, 18 minutes), and hold.

The violated ones are disagreements between the code and its own comments, docs
or tests. `PROJECT.json` quotes each under `findings`.

What the other runs show, and what they take for granted:

- `boltz`. The handlers implement `SwapPromise`; a swap that is owed money is
  pending (`OwedIsPending`) and gets it (`OwedIsReceived`); the pending list misses
  no open swap (`PendingKept`); the lockup txid is kept (`KeepsLockupTxid`, except
  for a chain swap's mempool update without a transaction, which erases it); ended
  swaps leave the list (`Finishes`, except when the process stopped between a
  broadcast and its record). Assumptions: handlers run on one thread
  (`Parallel = FALSE`; with TRUE a swap is lost from the list), and constructing the
  claim of a *reverse* swap does not give Boltz the preimage
  (`RevealsTo = {"chain"}`).
- `v_settled` drops that last assumption, and the promise is then broken. The two
  runs differ in it on purpose. `construct_claim` is in an external library; the
  repository says that it reveals the preimage for chain swaps
  (`lwk_boltz/src/chain_swaps.rs:857`) and calls it in the same way for reverse ones.
- `app`. The state file replays (`Restarts`: a start fails only where the store of a
  wallet refuses to open, `BuildRefused`) to the state (`RestartRestores`); `Scan`
  waits for an entire loop
  (`ScanSees`) and returns (`ScanEnds`); stopping ends (`StopEnds`). A `Scan` being
  served when `stop()` is called is excepted: it waits for ever. Assumption: clients
  call only after the replay (`EarlyClients = FALSE`). The code does not enforce it,
  since the server listens before the file is read; with TRUE, TLC finds both
  `RestartRestores` and `Restarts` violated.
  What a restart does not restore exactly: tokens and the policy asset come back with
  their assets, whether they were removed or not. A signer loaded with
  `persist=false` comes back if a request rewrote the file after it was loaded:
  `as_requests` writes every signer, its mnemonic included. `RestartRestores` allows
  both outcomes for such a signer; `v_volatile` states what the command line promises.
- `xchain`. `LegsBound`, `SurvivesShallow`, `ClaimFirst` and `Settles` except a swap
  where a leg was undone between finding it and the reveal (`raced`), which the
  gate's requests do not notice. The three last ones also except reorganisations of
  `MinDepth` blocks or more. `MarginAssumption` says what the margin must cover.
- `builder`. Built transactions balance (`Balanced`), spend no coin twice unless the
  caller lists it twice (`SpendsOnce`; the code keeps the caller's lists as they are,
  and a coin that is listed twice is two inputs, which the node refuses), pay what
  they weigh (`FeeFits`), are refused only for a reason
  (`RefusesRightly`), conflict only with what they replace (`ConflictsAsMeant`),
  spend no output of what they evict (`Relayable`), and a bump pays the same
  (`BumpPaysSame`). Excepted: sums past 2^64 (`Wraps`), and the rescue of a
  transaction whose outputs were spent since (`SpentSince`), where the code builds a
  transaction the node refuses. Constants are scaled down (`U64` = 76, `Scale` = 9)
  so that overflow and rounding happen.

Bounds: two swaps suffice for a lost write of a list; two names and descriptors for
a name loaded again; two reorganisations for one before and one after the reveal;
four transactions for a parent, a child, a rescue and one received.

Fairness. `moving` (`KeepsUp`): the caller keeps scanning, applies or drops what a scan
returned, and a started call runs to its end. The first two are what the scanning
loop of `lwk_app/src/lib.rs` does; the third is a thread that is scheduled. The
server stops moving because its moves are bounded; one that moves during every scan
can keep a wallet behind for ever. A wallet whose server falls two blocks behind
refuses every update until the server has caught up, as the code intends: `KeepsUp`
excepts a server that stays behind, and a wallet that `build()` refuses. `boltz`:
strong fairness of each handler, for an application that restores
its swaps and calls `advance()` again until they end; Boltz and the user may stop.
`app`: every thread is scheduled, and main polls `is_running()`; nobody has to call.
`xchain`: the taker refunds when it can, and both chains grow.

## Proofs

`XChain_proof` proves `TypeCorrect`, `GateBindsLegs`, `DepthProtects` and
`ClaimBeforeRefund` for every depth, locktime, margin and bound that satisfies the
ASSUMEs. They speak of what a reorganisation did later, so the invariant `Safe` also
says where the anchors of the legs lie while the taker is between two requests. The
exceptions of the properties (`raced`, `deepest`) are those of the theorems.

`BoltzSwap_proof` proves, for any set of swaps, kinds and budgets, `TypeCorrect`, and
with handlers on one thread (`~Parallel`) `PendingListComplete`:
`Spec => []PendingKept`. The invariant `Inv` adds that one handler at a time is in
the store (`Exclusive`), that the list it has read is the one on disk (`CopyFresh`),
and for each swap (`Local`) that an end that was persisted is not taken back by the
status in memory, in a running `advance()` or in a late update. It does not depend
on `RevealsTo`.

`BoltzPromise_proof` proves `PromiseKept` (`BoltzSwap` implements `SwapPromise`),
`OwedStaysPending` and `LockupTxidKept`. The invariant `Deal` adds to `Inv`, for each
swap, where both sides of the money are at each of Boltz's statuses (`Phase`, `Side`),
what the client may conclude from a status it has heard, however late (`HeardAll`),
that a swap whose record is closed is settled (`SettledAll`), and what the job in hand
and the list say about it (`Tasked`, `Listing`). The only hypothesis is `~Parallel`:
handlers run on one thread. The constants of the run also have
`"reverse" \notin RevealsTo` and `RestoreAt \cap Unresolved = {}`; the theorems do not
assume them, and say instead which swaps they protect (`Plain`):

- A reverse swap is not `Plain` when constructing its claim reveals the preimage
  (`Revealing`). Boltz then settles the invoice before the user is paid, and the code
  ends the swap (`v_settled`).
- A swap that was restored from Boltz's list is not `Plain` when the list may show it at
  a status where a refund or a claim is due at once (`Belated`). The code restores at
  whatever status the list gives, and the restored object knows less than the one that
  was lost.

`PromiseKept`: every step is a step of `SwapPromise`, or moves a single swap that is not
plain. `OwedStaysPending`: a swap that Boltz was paid for and the user was not is in the
pending list, unless its record was lost with the store or it is `Revealing`. With the
constants of the run every swap is plain, and the two are `KeepsPromise` and
`OwedIsPending`.

`Wollet_proof` proves, for any sets of transactions, scripts, heights and options:

- `TypeCorrect`: `Spec => []TypeOK`, for every kind of store.
- `ReplayRestoresStatus`: `Spec => []RestoresStatus` when the txs store is in
  memory. The invariant `RestoresStatus` speaks of an idle wallet only, so it is
  strengthened to `Replay`: the updates on disk have no hole (`Numbered`), each
  leads from the status it was made for to the next one on the trail
  (`Chained`), and at every point between two writes the cache, the update in
  hand or the merged update is at its place on the trail (`OnTrail`). The lemmas
  `MergeStatus` and `CoalesceStatus` say that a merged or coalesced update does
  to the status what the two did.
- `LogRestoresCache`: `Spec => []RestoresCache`, also with the txs store in memory.
  The invariant `Exact` is `Chained` for the unspent outputs: each update on disk leads
  from those of one cache of the trail to those of the next. Without merging the only
  updates rewritten are tip-only ones, which leave the unspent outputs alone.
- `LogReopens`: `Spec => []Reopens`, also with the txs store in memory. By `Replay` the
  status always matches, so only the tip check can refuse; `Gentle` says that an update
  on disk that was not coalesced lowers the tip of its cache by no more than a block.
- `MergedReopens`: when moreover the threshold is 0 or 1 nothing is refused at all;
  `Short` says at most one update is on disk between two calls, hence a second one is
  stored just as it was accepted.
- `BalanceIsComputable`: `Spec => []BalanceComputable` for every wallet that is not
  utxo-only, whatever its stores. The invariant `Backed` says the same between two
  writes, when a transaction that is not in the store yet is in the update in hand;
  the lemma `ApplyBacked` that an update makes nothing unspent without its secrets,
  script and transaction.

`FullScan_proof` proves, however the server moves and wherever the process stops:

- `ScannedBalanceIsComputable`: the same for the composition, where updates come
  from scans and local calls and need not satisfy `Follows`.
- `HeightsFollowServer`: `SpecAll => []HeightsFollow`. The invariant `Sound` follows
  one scan from request to request: while the server has not moved since it began,
  what it has read is what the server has for the scripts read so far and those it
  still has to read are the rest of the chains, so that the update in hand takes the
  snapshot to the server's heights. `InReach` is needed because a scan stops at the
  gap limit: a transaction beyond it is not found, by design.

`ScanStore_proof` takes one more hypothesis, `Quiet`: the server stands still during a
scan, the txs store is in memory, and every built transaction has a confidential
output of the wallet. Its three parts are needed: the first as said under Runs, the
second for the replay (`v_crash`), the third because of `v_coalesce`.

- `ScanImplementsWollet`: `SpecAll => Spec`. Every step of the composition is a step
  of `Wollet`; the point is `Follows`, on which the theorems of `Wollet_proof` rest.
  The invariant `DiskGrounded` says that the last unused indexes of a tip-only update
  are those of the history it was made on.
- `ScansCoalesceForward`, `ScannedWalletRestores` (`RestoresStatus` and
  `RestoresCache`) and `ScannedWalletReopens` (`Reopens`) follow.
- `UnspentStaysInHistory`: `UnspentInHistory` while `InReach` holds, for a wallet that
  is not utxo-only. The invariant `InHistory` says of every cache of the trail that
  its history is closed under parents (`Closed`), and of every update that it deletes
  or keeps the parents of what it deletes (`Kept`), since those are what
  `update_unspent` puts back.

`App_proof` proves, for any wallets, signers, assets, requests and sessions:

- `StateFileReplays` (`Restarts`) and `RestartBringsBack` (`RestartRestores`), with
  `~EarlyClients`: clients do not call during the replay. Without it both are false.
  The invariant `Kept` says that the file replays to the state up to what is not
  persisted (`Matches`), and, while it is being replayed, that the lines still to come
  are its last ones and the state is the one after the others. `FileKeeps` shows it
  for every request: a line at the end is replayed last (`ReplayAppend`), and what
  `persist_all` writes, in any order in which each memo follows its wallet, replays
  line by line to the state it was written from (`AsRequestsReplay`). `Typed` adds that
  the state is `Proper`: memos belong to loaded wallets, no descriptor is loaded
  twice, and only finitely many things are loaded.

The lemmas of `App_proof` take as hypotheses that the natural numbers are well ordered
and that the entries of a finite map can be listed (`WellOrdered`, `Enumerated`). Both
are proved at its end and are no assumptions of the theorems.

`FeeRescue_proof` proves, for any coins, assets, amounts, orders and number of
transactions, also where sums wrap:

- `NoDoubleSpend`: `Spec => []SpendsOnce`. The invariant `Taken` follows the inputs
  from stage to stage: they are the caller's coins, pinned ones and candidates, of assets
  that have been handled, and each is an input as often as it was listed.
- `ConflictsOnlyAsMeant`: `Spec => []ConflictsAsMeant`. It needs the wallet's
  transactions too (`Ledger`: no two live ones spend the same coin, and what the wallet
  may spend is what they leave) and what each purpose pins (`Requested`).
- `ReplacementStands`: `Spec => []Relayable`. If nothing spent the outputs of the
  replaced transaction it has no descendants, so it alone is evicted (`GoneOnly`), and
  `avoid_utxos` keeps its outputs out of the inputs.

The ASSUMEs they use: finitely many coins to begin with (`FundsAssumption`), received
transactions spend no coin of the wallet (`IncomingAssumption`), orders pin nothing
themselves and add only foreign coins (`OrderAssumption`, `ForeignAssumption`).

Sequences of any length. The replay of a file, the descendants of a transaction and the
largest index of a batch are defined by recursion or are extrema of sets. What the
theorems need of them is proved by the least counterexample: a set of natural numbers
with an element has a least one (`LeastNatural`, from the library's theorem on
well-founded relations).

Leaves cite `Zenon`, `ZenonT` or `SMTT` where one prover is much faster than the other
or needs more than its usual time; `USE SMTT(30)` in `App_proof` does so for the module.

Assumptions of all of them: the named ASSUMEs on the constants, and the hypotheses
above.

Only model-checked, and why:

- Liveness (`KeepsUp`, `Finishes`, `OwedIsReceived`, `ScanEnds`, `StopEnds`,
  `Settles`): fairness and ENABLED are out of the prover's reach.
- `AddsNoUnspent` and `LosesOnlyReturned` compare a replay through merged updates with
  the live wallet; an invariant would have to follow every merged update on disk back
  to the ones it was made from. `NoUnspentMissing` is about the instance's small
  tree of spenders: in general `update_unspent` depends on an order it does not
  keep (`v_spent`).
- Replaying with a persisted txs store, and with moves during a scan.
- `App`'s `TypeOK` and `ScanSees`: not proved yet, though nothing stands in the way.
  They need the types of the threads, counters, tips and caches and an invariant of the
  scanning loop, which the theorems about the state file do without.
- `FeeRescue`'s `TypeOK`, `Balanced`, `FeeFits`, `RefusesRightly` and `BumpPaysSame`
  are about sums over sets and sequences (`FoldSet`). That a sum is a number, and that
  it splits over disjoint sets, needs an induction over a fold, whose operator
  parameter the provers cannot instantiate.

## Not modelled

Updates of versions before 4 and with status 0; encodings and encryption;
`reunblind`; the `no_persist` variants; a log written with the txs store in memory
and opened with a persisted one; failing stores; the waterfalls scan; runs
of a utxo-only wallet (`UpdateUnspentUtxosOnly` is there, no run takes it);
descriptors without a wildcard; HTTP retries; outputs of a built transaction that
are confidential and not the wallet's. Reads (balances, addresses, transaction
lists) have no state of their own. Cryptography, bindings, device protocols and
formatting are out of scope.

Swaps: quotes, BOLT12, amounts, `remove_swap`, key indexes, the length of timeouts,
a swap restored from Boltz's list at `transaction.claimed`. Cross-chain: the opposite
direction, scripts, fees. Application: requests that only read, sign or broadcast,
torn lines and failed writes of the file, several workers. Builder: LiquiDEX, drains,
blinding, real weights, confidential recipients of a bump, AMP0. These modules cover
a small share of the repository: most of its lines are bindings, device protocols,
cryptography, encodings, command lines and tests.

## Plan

1. `Wollet`: failing stores, `reunblind`, a utxo-only wallet, the waterfalls scan.
2. `BoltzSwap`: handlers on several threads; restoring at every status.
3. `XChain`: the opposite direction.
4. Proofs: replaying with a persisted txs store and a clean exit; the unspent
   outputs of a merged log; the scanning loop (`ScanSees`); the builder's sums.
