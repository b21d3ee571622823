------------------------------- MODULE Wollet --------------------------------
(***************************************************************************)
(* A Wollet and its two key-value stores (lwk_wollet/src/update.rs,        *)
(* cache.rs, wollet.rs): applying an update, persisting it, coalescing it  *)
(* with the previous one, merging the persisted updates, and rebuilding    *)
(* the wallet from the stores.  A put or a remove of the store is atomic   *)
(* (FileStore writes a temporary file and renames it) and the process may  *)
(* stop between any two of them, which is why every write is a step of     *)
(* its own; what only touches memory between two writes is one step.       *)
(***************************************************************************)
EXTENDS WolletCache

CONSTANTS
    Options,    \* builder options a wallet may be opened with
    CrashPoint, \* [BOOLEAN -> SUBSET PC]: where the process may stop, by
                \* whether the txs store is persisted
    NoMerge,    \* merge_threshold: None
    NoUpdate

VARIABLES
    opt,        \* the options of this wallet
    pc,         \* where the single owner of the Wollet is
    cache,      \* Wollet::cache, in memory
    bodies,     \* txs_store: the transactions under "wollet:tx:.."
    txidsKey,   \* txs_store: the list under "wollet:txids"
    disk,       \* updates_store: index -> update
    next,       \* next_update_index
    upd,        \* the update being applied and persisted
    merged,     \* merge_updates: the accumulator
    idx,        \* loop index of restore_updates and merge_updates
    opening,    \* inside WolletBuilder::build
    trail       \* history variable: trail[i] is the cache of the wallet
                \* when the first i updates on disk had been applied

vars == <<opt, pc, cache, bodies, txidsKey, disk, next, upd, merged, idx,
          opening, trail>>

\* build() refuses a persisted txs store with any other threshold than 1.
OptionSet == {o \in [txsPersisted : BOOLEAN, utxoOnly : BOOLEAN,
                     threshold : Nat \cup {NoMerge}] :
                o.txsPersisted => o.threshold = 1}

ASSUME OptionsAssumption == Options \subseteq OptionSet
ASSUME NoMergeAssumption == NoMerge \notin Nat
ASSUME NoUpdateAssumption == NoUpdate \notin Update

\* "down": no process; "idle": the caller holds the Wollet; "failed": build
\* returned an error.  The rest are the points between two store writes.
PC == {"down", "failed", "restore", "addtxids", "idle", "puttxs", "persist",
       "merge", "remove"}

ASSUME CrashPointAssumption == CrashPoint \in [BOOLEAN -> SUBSET (PC \ {"down"})]

Init ==
    /\ opt \in Options
    /\ pc = "idle"
    /\ cache = EmptyCache
    /\ bodies = {} /\ txidsKey = {}
    /\ disk = [i \in {} |-> NoUpdate]
    /\ next = 0
    /\ upd = NoUpdate /\ merged = NoUpdate /\ idx = 0 /\ opening = FALSE
    /\ trail = [i \in {0} |-> EmptyCache]

MergeDue(n) == opt.threshold # NoMerge /\ opt.threshold < n

-----------------------------------------------------------------------------
(* apply_update, apply_transaction: the in-memory part.                    *)

\* Mutant of TxsInMemory: the transactions of the update replace the stored ones.
TxsReplaced(u) ==
    IF opt.txsPersisted
    THEN UNCHANGED <<bodies, txidsKey>>
    ELSE /\ bodies' = u.txs
         /\ txidsKey' = IF u.txs = {} THEN txidsKey ELSE cache'.txids

\* Where extend_all_txs stands: a store in memory is updated on the spot, a
\* persisted one by the writes that PutTx and PutTxids make.
TxsInMemory(u) ==
    IF opt.txsPersisted
    THEN UNCHANGED <<bodies, txidsKey>>
    ELSE /\ bodies' = bodies \cup u.txs
         /\ txidsKey' = IF u.txs = {} THEN txidsKey ELSE cache'.txids

StartApply(u) ==
    /\ pc = "idle"
    /\ Applicable(cache, u)
    /\ cache' = Apply(cache, bodies \cup u.txs, u, opt.utxoOnly)
    /\ TxsInMemory(u)
    /\ upd' = u
    /\ pc' = IF opt.txsPersisted THEN "puttxs" ELSE "persist"
    /\ UNCHANGED <<opt, disk, next, merged, idx, opening, trail>>

ApplyTransaction(t) == StartApply(TransactionUpdate(cache, t, opt.utxoOnly))

ApplyBlinder(t) == StartApply(BlinderUpdate(cache, t))

-----------------------------------------------------------------------------
(* extend_all_txs on a persisted store.                                    *)

PutTx ==
    /\ pc = "puttxs"
    /\ \E t \in upd.txs \ bodies : bodies' = bodies \cup {t}
    /\ UNCHANGED <<opt, pc, cache, txidsKey, disk, next, upd, merged, idx,
                   opening, trail>>

PutTxids ==
    /\ pc = "puttxs"
    /\ upd.txs \subseteq bodies
    /\ txidsKey' = IF upd.txs = {} THEN txidsKey ELSE cache.txids
    /\ pc' = "persist"
    /\ UNCHANGED <<opt, cache, bodies, disk, next, upd, merged, idx, opening,
                   trail>>

-----------------------------------------------------------------------------
(* UpdatesPersister::persist.                                              *)

CanCoalesce(u) ==
    /\ OnlyTip(u)
    /\ next > 0
    /\ next - 1 \in DOMAIN disk
    /\ OnlyTip(disk[next - 1])

PersistCoalesced ==
    /\ pc = "persist"
    /\ CanCoalesce(upd)
    /\ disk' = [disk EXCEPT ![next - 1] = Coalesce(disk[next - 1], upd)]
    /\ trail' = [trail EXCEPT ![next] = cache]
    /\ pc' = "idle" /\ upd' = NoUpdate
    /\ UNCHANGED <<opt, cache, bodies, txidsKey, next, merged, idx, opening>>

\* A persisted txs store already has the transactions.
Stored(u) == IF opt.txsPersisted THEN [u EXCEPT !.txs = {}] ELSE u

Put(i, u) == [j \in DOMAIN disk \cup {i} |-> IF j = i THEN u ELSE disk[j]]

PersistNew ==
    /\ pc = "persist"
    /\ ~CanCoalesce(upd)
    /\ disk' = Put(next, Stored(upd))
    /\ trail' = [j \in DOMAIN trail \cup {next + 1} |->
                    IF j = next + 1 THEN cache ELSE trail[j]]
    /\ next' = next + 1
    /\ upd' = NoUpdate
    /\ IF MergeDue(next + 1)
       THEN pc' = "merge" /\ idx' = 0
       ELSE pc' = "idle" /\ idx' = idx
    /\ UNCHANGED <<opt, cache, bodies, txidsKey, merged, opening>>

-----------------------------------------------------------------------------
(* UpdatesPersister::merge_updates, called with next_index = next.         *)

\* extended with the txids of the txs store, as build() does at its end
WithTxids(c) == [c EXCEPT !.txids = @ \cup txidsKey]

AfterMerge == IF opening THEN "addtxids" ELSE "idle"

MergeOne ==
    /\ pc = "merge"
    /\ idx < next
    /\ idx \in DOMAIN disk
    /\ merged' = IF idx = 0 THEN disk[0] ELSE Merge(merged, disk[idx])
    /\ idx' = idx + 1
    /\ UNCHANGED <<opt, pc, cache, bodies, txidsKey, disk, next, upd, opening,
                   trail>>

MergeRead ==
    /\ pc = "merge"
    /\ idx = next
    /\ pc' = "remove"
    /\ UNCHANGED <<opt, cache, bodies, txidsKey, disk, next, upd, merged, idx,
                   opening, trail>>

\* Remove from the last to the first; idx is the number still to remove.
RemoveOne ==
    /\ pc = "remove"
    /\ idx > 0
    /\ disk' = [j \in DOMAIN disk \ {idx - 1} |-> disk[j]]
    /\ trail' = [j \in DOMAIN trail \ {idx} |-> trail[j]]
    /\ idx' = idx - 1
    /\ UNCHANGED <<opt, pc, cache, bodies, txidsKey, next, upd, merged, opening>>

StoreMerged ==
    /\ pc = "remove"
    /\ idx = 0
    /\ disk' = Put(0, merged)
    /\ trail' = [j \in {0, 1} |-> IF j = 1 THEN WithTxids(cache) ELSE trail[0]]
    /\ next' = 1
    /\ merged' = NoUpdate
    /\ pc' = AfterMerge
    /\ UNCHANGED <<opt, cache, bodies, txidsKey, upd, idx, opening>>

-----------------------------------------------------------------------------
(* The process stops; WolletBuilder::build.                                *)

Crash ==
    /\ pc \in CrashPoint[opt.txsPersisted]
    /\ pc' = "down"
    /\ cache' = EmptyCache
    /\ IF opt.txsPersisted
       THEN UNCHANGED <<bodies, txidsKey>>
       ELSE bodies' = {} /\ txidsKey' = {}
    /\ next' = 0 /\ upd' = NoUpdate /\ merged' = NoUpdate /\ idx' = 0
    /\ opening' = FALSE
    /\ UNCHANGED <<opt, disk, trail>>

Build ==
    /\ pc = "down"
    /\ pc' = "restore"
    /\ opening' = TRUE
    /\ UNCHANGED <<opt, cache, bodies, txidsKey, disk, next, upd, merged, idx,
                   trail>>

\* restore_updates: one more update is replayed ..
RestoreOne ==
    /\ pc = "restore"
    /\ idx \in DOMAIN disk
    /\ Applicable(cache, disk[idx])
    /\ cache' = Apply(cache, bodies \cup disk[idx].txs, disk[idx], opt.utxoOnly)
    /\ bodies' = bodies \cup disk[idx].txs
    /\ txidsKey' = IF disk[idx].txs = {} THEN txidsKey ELSE cache'.txids
    /\ idx' = idx + 1
    /\ UNCHANGED <<opt, pc, disk, next, upd, merged, opening, trail>>

\* .. or refused, and build returns the error ..
RestoreRefused ==
    /\ pc = "restore"
    /\ idx \in DOMAIN disk
    /\ ~Applicable(cache, disk[idx])
    /\ pc' = "failed"
    /\ UNCHANGED <<opt, cache, bodies, txidsKey, disk, next, upd, merged, idx,
                   opening, trail>>

\* .. or there is none left.
RestoreDone ==
    /\ pc = "restore"
    /\ idx \notin DOMAIN disk
    /\ next' = idx
    /\ IF MergeDue(idx)
       THEN pc' = "merge" /\ idx' = 0
       ELSE pc' = "addtxids" /\ idx' = idx
    /\ UNCHANGED <<opt, cache, bodies, txidsKey, disk, upd, merged, opening,
                   trail>>

AddTxids ==
    /\ pc = "addtxids"
    /\ cache' = WithTxids(cache)
    /\ pc' = "idle"
    /\ opening' = FALSE
    /\ UNCHANGED <<opt, bodies, txidsKey, disk, next, upd, merged, idx, trail>>

-----------------------------------------------------------------------------
(* Steps of the store and of build, whoever drives the wallet.             *)
StoreStep ==
    \/ PutTx \/ PutTxids
    \/ PersistCoalesced \/ PersistNew
    \/ MergeOne \/ MergeRead \/ RemoveOne \/ StoreMerged
    \/ Build
    \/ RestoreOne \/ RestoreRefused \/ RestoreDone \/ AddTxids

\* What coalescing relies on: an only-tip update that follows an only-tip update
\* carries a tip and does not lower the last unused indexes.
Follows(u) ==
    CanCoalesce(u) =>
        /\ u.tip # NoBlock
        /\ \A ch \in Chain : u.lastUnused[ch] >= disk[next - 1].lastUnused[ch]

\* The wallet under any caller: any update that Follows.
Next ==
    \/ \E u \in Update : Follows(u) /\ StartApply(u)
    \/ StoreStep
    \/ Crash

Spec == Init /\ [][Next]_vars

-----------------------------------------------------------------------------
(* Properties.                                                             *)

\* Every variable stays in its type, whatever update the caller applies.
TypeOK ==
    /\ opt \in OptionSet
    /\ pc \in PC
    /\ cache \in Cache
    /\ bodies \in SUBSET Tx /\ txidsKey \in SUBSET Tx
    /\ DOMAIN disk \in SUBSET Nat /\ \A i \in DOMAIN disk : disk[i] \in Update
    /\ next \in Nat /\ idx \in Nat /\ opening \in BOOLEAN
    /\ upd \in Update \cup {NoUpdate} /\ merged \in Update \cup {NoUpdate}
    /\ DOMAIN trail \in SUBSET Nat /\ \A i \in DOMAIN trail : trail[i] \in Cache

\* Coalesced updates that lowered the tip by a block each are one update on disk
\* that lowers it by more, which apply_update_inner calls too old.
FellTogether == SameStatus(cache, disk[idx]) /\ OnlyTip(disk[idx])

\* The process stopped between writing a second update and removing it.  With a
\* persisted txs store the first one is on disk without its transactions, so
\* replaying it does not reach the status the second one was made for.
HalfMerged == opt.txsPersisted /\ idx = 1

\* build() refuses what the wallet itself persisted in these two cases only: with
\* UpdateHeightTooOld an update that coalescing made, with UpdateOnDifferentStatus
\* the second update of a merge that a stop cut short.
Reopens == pc = "failed" => FellTogether \/ HalfMerged

\* While the caller holds the wallet its status is the one of the wallet that
\* wrote the updates, although they were coalesced, merged and replayed since.
RestoresStatus == pc = "idle" => Status(cache) = Status(trail[next])

\* The same for the whole cache, the unspent outputs included, when updates are
\* not merged.
RestoresCache == pc = "idle" /\ opt.threshold = NoMerge => cache = trail[next]

\* Replaying a merged update gives an unspent output of the live wallet up only
\* when a live transaction spends it, or when its transaction was deleted and
\* came back between two merges.
LosesOnlyReturned ==
    pc = "idle" => \A o \in trail[next].unspent \ cache.unspent :
        \/ \E t \in Keys(cache.heights) : o \in Spends[t]
        \/ \E i \in DOMAIN disk : TxOf[o] \in disk[i].del \cap Keys(disk[i].new)

\* A test of merge says a merged update gives the same UTXOs: replaying keeps
\* every unspent output that no live transaction spends.
KeepsUnspent ==
    pc = "idle" => \A o \in trail[next].unspent \ cache.unspent :
        \E t \in Keys(cache.heights) : o \in Spends[t]

\* Replaying never adds an unspent output.
AddsNoUnspent == pc = "idle" => cache.unspent \subseteq trail[next].unspent

\* The updates a scan and the caller hand over are the ones coalescing relies on.
CoalescesForward == pc = "persist" => Follows(upd)

\* utxos() and balance() find the secrets and the index of every unspent
\* outpoint, and explicit_utxos() the transaction it is an output of.
BalanceComputable ==
    pc = "idle" => \A o \in cache.unspent :
        /\ o \in cache.unblinded
        /\ ScriptOf[o] \in cache.scripts
        /\ TxOf[o] \in bodies

\* utxos() finds a height, or that there is none yet, for every unspent
\* outpoint: its transaction is in the wallet's history ("all these values should
\* be in the cache").
UnspentInHistory ==
    pc = "idle" => \A o \in cache.unspent : TxOf[o] \in Keys(cache.heights)
=============================================================================
