---------------------------- MODULE Wollet_proof -----------------------------
(***************************************************************************)
(* Replaying the persisted updates gives back the status of the wallet     *)
(* that wrote them, for every set of transactions, every sequence of       *)
(* updates and a crash between any two writes, when the transactions are   *)
(* kept in the updates (an in-memory txs store).  build() refuses such a   *)
(* log only for an update that coalescing made, and never with a merge     *)
(* threshold of 0 or 1; without merging the log gives back the whole       *)
(* cache.  What is read about an unspent output is always there, whatever  *)
(* the stores are.                                                         *)
(***************************************************************************)
EXTENDS Wollet, TLAPS

\* What an update does to the part of the cache that is hashed.
ApplyStatus(s, u) ==
    [txids |-> s.txids \cup u.txs,
     scripts |-> s.scripts \cup u.scripts,
     heights |-> UpdateHeights(s.heights, u.new, u.del),
     unblinded |-> s.unblinded \cup u.unblinds,
     tip |-> IF u.tip = NoBlock THEN s.tip ELSE u.tip,
     timestamps |-> Extend(s.timestamps, u.timestamps),
     lastUnused |-> [ch \in Chain |-> MaxOf(s.lastUnused[ch], u.lastUnused[ch])]]

-----------------------------------------------------------------------------
(* The inductive invariant.                                                *)

\* The updates on disk are numbered 0 .. n-1 and the trail 0 .. n.
Log(n) == DOMAIN disk = 0..(n - 1) /\ DOMAIN trail = 0..n

Numbered ==
    \E n \in Nat :
        /\ Log(n)
        /\ pc \in {"idle", "persist", "merge", "addtxids"} => n = next
        /\ pc = "remove" => n = idx
        /\ pc = "restore" => idx <= n

\* Every update on disk leads from its status to the next one.
Chained ==
    /\ trail[0] = EmptyCache
    /\ \A i \in DOMAIN disk :
        /\ disk[i].status = Status(trail[i])
        /\ Status(trail[i + 1]) = ApplyStatus(Status(trail[i]), disk[i])

\* An update u that leads from trail[i] to status s.
Leads(i, u, s) ==
    /\ u \in Update
    /\ u.status = Status(trail[i])
    /\ s = ApplyStatus(Status(trail[i]), u)

\* Where the wallet is on the trail, at each point between two writes.
OnTrail ==
    /\ pc = "down" => idx = 0 /\ cache = EmptyCache
    /\ pc \in {"idle", "merge", "addtxids"} => Status(cache) = Status(trail[next])
    /\ pc = "restore" => Status(cache) = Status(trail[idx])
    /\ pc = "persist" => Leads(next, upd, Status(cache)) /\ Follows(upd)
    /\ pc = "merge" => /\ 0 < next /\ idx <= next
                       /\ 0 < idx => Leads(0, merged, Status(trail[idx]))
    /\ pc = "remove" => Leads(0, merged, Status(cache))

\* The list of txids in memory never runs ahead of the cache.
InMemory == ~opt.txsPersisted /\ pc # "puttxs" /\ txidsKey \subseteq cache.txids

Replay == Numbered /\ Chained /\ OnTrail /\ InMemory

-----------------------------------------------------------------------------
(* Lemmas on the operators of WolletCache.                                 *)

\* HashMap::extend and retain stay within a map's type.
LEMMA HeightMapTypes ==
    ASSUME NEW m \in HeightMap, NEW n \in HeightMap, NEW S
    PROVE  /\ Extend(m, n) \in HeightMap
           /\ Without(m, S) \in HeightMap
BY DEF Extend, Without, HeightMap

\* Extending a map of timestamps gives a map of timestamps.
LEMMA TimeMapTypes ==
    ASSUME NEW m \in TimeMap, NEW n \in TimeMap
    PROVE  Extend(m, n) \in TimeMap
BY DEF Extend, TimeMap

\* The larger last unused index of each chain is an index.
LEMMA MaxTypes ==
    ASSUME NEW m \in IndexMap, NEW n \in IndexMap
    PROVE  [ch \in Chain |-> MaxOf(m[ch], n[ch])] \in IndexMap
BY DEF MaxOf, IndexMap

\* An update takes a cache to a cache.
LEMMA ApplyType ==
    ASSUME NEW c \in Cache, NEW u \in Update, NEW B \in SUBSET Tx,
           NEW x \in BOOLEAN
    PROVE  Apply(c, B, u, x) \in Cache
<1>1. /\ c.txids \cup u.txs \in SUBSET Tx
      /\ c.scripts \cup u.scripts \in SUBSET Script
      /\ c.unblinded \cup u.unblinds \in SUBSET OutPoint
      /\ (IF u.tip = NoBlock THEN c.tip ELSE u.tip) \in Block
  BY DEF Cache, Update
<1>2. UpdateHeights(c.heights, u.new, u.del) \in HeightMap
  <2>1. c.heights \in HeightMap /\ u.new \in HeightMap
    BY DEF Cache, Update
  <2> QED BY <2>1, HeightMapTypes DEF UpdateHeights
<1>3. Extend(c.timestamps, u.timestamps) \in TimeMap
  <2>1. c.timestamps \in TimeMap /\ u.timestamps \in TimeMap
    BY DEF Cache, Update
  <2> QED BY <2>1, TimeMapTypes
<1>4. [ch \in Chain |-> MaxOf(c.lastUnused[ch], u.lastUnused[ch])] \in IndexMap
  <2>1. c.lastUnused \in IndexMap /\ u.lastUnused \in IndexMap
    BY DEF Cache, Update
  <2> QED BY <2>1, MaxTypes
<1>5. UpdateUnspentUtxosOnly(c.unspent, B, u.unspent) \in SUBSET OutPoint
  BY DEF UpdateUnspentUtxosOnly, Cache, Update
<1>6. UpdateUnspent(c.unspent, c.unblinded \cup u.unblinds,
                    c.scripts \cup u.scripts, B, u.new, u.del) \in SUBSET OutPoint
  <2>1. /\ c.unspent \in SUBSET OutPoint
        /\ c.unblinded \cup u.unblinds \in SUBSET OutPoint
    BY Zenon DEF Cache, Update
  <2> QED BY <2>1 DEF UpdateUnspent, Readable
<1> QED BY <1>1, <1>2, <1>3, <1>4, <1>5, <1>6, Zenon DEF Apply, NewTip, Cache

\* The status of an updated cache depends on the status of the cache alone.
LEMMA StatusApply ==
    ASSUME NEW c, NEW u, NEW B, NEW x
    PROVE  Status(Apply(c, B, u, x)) = ApplyStatus(Status(c), u)
BY DEF Status, Apply, NewTip, ApplyStatus

\* The status of a cache is a status.
LEMMA StatusType ==
    ASSUME NEW c \in Cache
    PROVE  Status(c) \in StatusSet
BY DEF Status, Cache, StatusSet

\* Cache::default is a cache.
LEMMA EmptyType == EmptyCache \in Cache
BY HeightAssumption, GenesisAssumption
   DEF EmptyCache, Cache, NoHeights, NoTimes, HeightMap, TimeMap, IndexMap,
       Genesis, Block

\* Update::merge: one update with the effect of two on the status.
LEMMA MergeStatus ==
    ASSUME NEW s \in StatusSet, NEW u \in Update, NEW v \in Update
    PROVE  ApplyStatus(ApplyStatus(s, u), v) = ApplyStatus(s, Merge(u, v))
<1> DEFINE lhs == ApplyStatus(ApplyStatus(s, u), v)
           rhs == ApplyStatus(s, Merge(u, v))
<1>1. lhs.heights = rhs.heights
  <2>1. s.heights \in HeightMap /\ u.new \in HeightMap /\ v.new \in HeightMap
    BY DEF StatusSet, Update
  <2>2. /\ lhs.heights = Extend(Without(Extend(Without(s.heights, u.del), u.new), v.del), v.new)
        /\ rhs.heights = Extend(Without(s.heights, u.del \cup v.del),
                                Extend(Without(u.new, v.del), v.new))
    BY Zenon DEF ApplyStatus, Merge, UpdateHeights
  <2> QED BY <2>1, <2>2, Zenon DEF HeightMap, Extend, Without
<1>2. lhs.timestamps = rhs.timestamps
  <2>1. s.timestamps \in TimeMap /\ u.timestamps \in TimeMap /\ v.timestamps \in TimeMap
    BY DEF StatusSet, Update
  <2>2. /\ lhs.timestamps = Extend(Extend(s.timestamps, u.timestamps), v.timestamps)
        /\ rhs.timestamps = Extend(s.timestamps, Extend(u.timestamps, v.timestamps))
    BY Zenon DEF ApplyStatus, Merge
  <2> QED BY <2>1, <2>2 DEF TimeMap, Extend
<1>3. lhs.lastUnused = rhs.lastUnused
  <2>1. s.lastUnused \in IndexMap /\ u.lastUnused \in IndexMap /\ v.lastUnused \in IndexMap
    BY DEF StatusSet, Update
  <2>2. /\ lhs.lastUnused = [ch \in Chain |->
              MaxOf(MaxOf(s.lastUnused[ch], u.lastUnused[ch]), v.lastUnused[ch])]
        /\ rhs.lastUnused = [ch \in Chain |->
              MaxOf(s.lastUnused[ch], MaxOf(u.lastUnused[ch], v.lastUnused[ch]))]
    BY Zenon DEF ApplyStatus, Merge
  <2> QED BY <2>1, <2>2 DEF IndexMap, MaxOf
<1>4. /\ lhs.txids = rhs.txids
      /\ lhs.scripts = rhs.scripts
      /\ lhs.unblinded = rhs.unblinded
      /\ lhs.tip = rhs.tip
  BY Zenon DEF ApplyStatus, Merge
<1>5. /\ lhs = [txids |-> lhs.txids, scripts |-> lhs.scripts, heights |-> lhs.heights,
                unblinded |-> lhs.unblinded, tip |-> lhs.tip,
                timestamps |-> lhs.timestamps, lastUnused |-> lhs.lastUnused]
      /\ rhs = [txids |-> rhs.txids, scripts |-> rhs.scripts, heights |-> rhs.heights,
                unblinded |-> rhs.unblinded, tip |-> rhs.tip,
                timestamps |-> rhs.timestamps, lastUnused |-> rhs.lastUnused]
  BY Zenon DEF ApplyStatus
<1> HIDE DEF lhs, rhs
<1>6. lhs = rhs
  BY <1>1, <1>2, <1>3, <1>4, <1>5
<1> QED BY <1>6 DEF lhs, rhs

\* Update::merge of two updates is an update.
LEMMA MergeType ==
    ASSUME NEW u \in Update, NEW v \in Update
    PROVE  Merge(u, v) \in Update
<1>1. u.new \in HeightMap /\ v.new \in HeightMap
  BY DEF Update
<1>2. Extend(Without(u.new, v.del), v.new) \in HeightMap
  BY <1>1, HeightMapTypes
<1>3. u.timestamps \in TimeMap /\ v.timestamps \in TimeMap
  BY DEF Update
<1>4. Extend(u.timestamps, v.timestamps) \in TimeMap
  BY <1>3, TimeMapTypes
<1>5. u.lastUnused \in IndexMap /\ v.lastUnused \in IndexMap
  BY DEF Update
<1>6. [ch \in Chain |-> MaxOf(u.lastUnused[ch], v.lastUnused[ch])] \in IndexMap
  BY <1>5, MaxTypes
<1> QED BY <1>2, <1>4, <1>6 DEF Merge, Update

\* persist: an only-tip update written over an only-tip update.
LEMMA CoalesceStatus ==
    ASSUME NEW s \in StatusSet, NEW u \in Update, NEW v \in Update,
           OnlyTip(u), OnlyTip(v), v.tip # NoBlock,
           \A ch \in Chain : v.lastUnused[ch] >= u.lastUnused[ch]
    PROVE  ApplyStatus(ApplyStatus(s, u), v) = ApplyStatus(s, Coalesce(u, v))
<1> DEFINE lhs == ApplyStatus(ApplyStatus(s, u), v)
           rhs == ApplyStatus(s, Coalesce(u, v))
<1>1. lhs.heights = rhs.heights
  <2>1. s.heights \in HeightMap /\ u.new \in HeightMap /\ v.new \in HeightMap
    BY DEF StatusSet, Update
  <2>2. /\ lhs.heights = Extend(Without(Extend(Without(s.heights, u.del), u.new), v.del), v.new)
        /\ rhs.heights = Extend(Without(s.heights, v.del), v.new)
    BY DEF ApplyStatus, Coalesce, UpdateHeights, Update
  <2>3. u.del = {} /\ \A t \in Tx : u.new[t] = Absent
    BY <2>1 DEF OnlyTip, Keys, HeightMap
  <2>4. Extend(Without(s.heights, u.del), u.new) = s.heights
    BY <2>1, <2>3 DEF HeightMap, Extend, Without
  <2> QED BY ONLY <2>2, <2>4
<1>2. lhs.timestamps = rhs.timestamps
  <2>1. s.timestamps \in TimeMap /\ u.timestamps \in TimeMap /\ v.timestamps \in TimeMap
    BY DEF StatusSet, Update
  <2>2. /\ lhs.timestamps = Extend(Extend(s.timestamps, u.timestamps), v.timestamps)
        /\ rhs.timestamps = Extend(s.timestamps, Extend(u.timestamps, v.timestamps))
    BY DEF ApplyStatus, Coalesce, Update
  <2> QED BY <2>1, <2>2 DEF TimeMap, Extend
<1>3. lhs.lastUnused = rhs.lastUnused
  <2>1. s.lastUnused \in IndexMap /\ u.lastUnused \in IndexMap /\ v.lastUnused \in IndexMap
    BY DEF StatusSet, Update
  <2>2. /\ lhs.lastUnused = [ch \in Chain |->
              MaxOf(MaxOf(s.lastUnused[ch], u.lastUnused[ch]), v.lastUnused[ch])]
        /\ rhs.lastUnused = [ch \in Chain |-> MaxOf(s.lastUnused[ch], v.lastUnused[ch])]
    BY DEF ApplyStatus, Coalesce, Update
  <2> QED BY <2>1, <2>2 DEF IndexMap, MaxOf
<1>4. /\ lhs.txids = rhs.txids
      /\ lhs.scripts = rhs.scripts
      /\ lhs.unblinded = rhs.unblinded
      /\ lhs.tip = rhs.tip
  BY DEF ApplyStatus, Coalesce, Update, OnlyTip
<1>5. /\ lhs = [txids |-> lhs.txids, scripts |-> lhs.scripts, heights |-> lhs.heights,
                unblinded |-> lhs.unblinded, tip |-> lhs.tip,
                timestamps |-> lhs.timestamps, lastUnused |-> lhs.lastUnused]
      /\ rhs = [txids |-> rhs.txids, scripts |-> rhs.scripts, heights |-> rhs.heights,
                unblinded |-> rhs.unblinded, tip |-> rhs.tip,
                timestamps |-> rhs.timestamps, lastUnused |-> rhs.lastUnused]
  BY Zenon DEF ApplyStatus
<1> HIDE DEF lhs, rhs
<1>6. lhs = rhs
  BY <1>1, <1>2, <1>3, <1>4, <1>5
<1> QED BY <1>6 DEF lhs, rhs

\* What persist writes over an only-tip update is an update.
LEMMA CoalesceType ==
    ASSUME NEW u \in Update, NEW v \in Update
    PROVE  /\ Coalesce(u, v) \in Update
           /\ Coalesce(u, v).status = u.status
<1>1. u.timestamps \in TimeMap /\ v.timestamps \in TimeMap
  BY DEF Update
<1>2. Extend(u.timestamps, v.timestamps) \in TimeMap
  BY <1>1, TimeMapTypes
<1> QED BY <1>2, Zenon DEF Coalesce, Update

-----------------------------------------------------------------------------
(* Type correctness.                                                       *)

\* What TypeOK needs to be inductive: the loop variables hold an update where
\* the code reads one.
Typed ==
    /\ 0 \in DOMAIN trail
    /\ pc \in {"puttxs", "persist"} => upd \in Update
    /\ pc = "merge" => 0 < next /\ (0 < idx => merged \in Update)
    /\ pc = "remove" => merged \in Update

\* What persist writes is an update, and the update itself when the txs
\* store is in memory.
LEMMA StoredType ==
    ASSUME NEW u \in Update
    PROVE  Stored(u) \in Update /\ (~opt.txsPersisted => Stored(u) = u)
BY DEF Stored, Update

\* A fresh wallet is well typed.
LEMMA TypeInit == Init => TypeOK /\ Typed
BY OptionsAssumption, EmptyType DEF Init, TypeOK, Typed, PC

\* The wallet under a caller that applies any update whatever.
AnyNext ==
    \/ \E u \in Update : StartApply(u)
    \/ StoreStep
    \/ Crash

\* The updates that coalescing relies on are updates.
LEMMA NextIsAny == [Next]_vars => [AnyNext]_vars
BY DEF Next, AnyNext

\* No step of the wallet, of its stores or of build() breaks the types.
LEMMA TypeStep ==
    ASSUME TypeOK, Typed, [AnyNext]_vars
    PROVE  TypeOK' /\ Typed'
<1>0. opt.utxoOnly \in BOOLEAN /\ opt.threshold \in Nat \cup {NoMerge}
  BY DEF TypeOK, OptionSet
<1>1. ASSUME NEW u \in Update, StartApply(u)
      PROVE  TypeOK' /\ Typed'
  <2>1. u.txs \in SUBSET Tx
    BY DEF Update
  <2>2. Apply(cache, bodies \cup u.txs, u, opt.utxoOnly) \in Cache
    BY <1>0, <2>1, ApplyType DEF TypeOK
  <2>3. cache' \in Cache /\ cache'.txids \in SUBSET Tx
    BY <1>1, <2>2, Zenon DEF StartApply, Cache
  <2> QED BY <1>1, <2>1, <2>3, Zenon DEF StartApply, TxsInMemory, TypeOK, Typed, PC
<1>2. CASE PutTx
  <2>1. upd.txs \in SUBSET Tx
    BY <1>2 DEF PutTx, Typed, Update
  <2> QED BY <1>2, <2>1 DEF PutTx, TypeOK, Typed
<1>3. CASE PutTxids
  <2>1. cache.txids \in SUBSET Tx
    BY DEF TypeOK, Cache
  <2> QED BY <1>3, <2>1 DEF PutTxids, TypeOK, Typed, PC
<1>4. CASE PersistCoalesced
  <2>1. upd \in Update /\ next - 1 \in DOMAIN disk /\ disk[next - 1] \in Update
    BY <1>4 DEF PersistCoalesced, CanCoalesce, TypeOK, Typed
  <2>2. Coalesce(disk[next - 1], upd) \in Update
    BY <2>1, CoalesceType
  <2> QED BY <1>4, <2>2 DEF PersistCoalesced, TypeOK, Typed, PC
<1>5. CASE PersistNew
  <2>1. Stored(upd) \in Update
    BY <1>5, StoredType DEF PersistNew, Typed
  <2> QED BY <1>5, <2>1 DEF PersistNew, Put, TypeOK, Typed, PC
<1>6. CASE MergeOne
  <2>1. disk[idx] \in Update
    BY <1>6 DEF MergeOne, TypeOK
  <2>2. idx # 0 => Merge(merged, disk[idx]) \in Update
    BY <1>6, <2>1, MergeType DEF MergeOne, TypeOK, Typed
  <2> QED BY <1>6, <2>1, <2>2 DEF MergeOne, TypeOK, Typed
<1>7. CASE MergeRead
  BY <1>7 DEF MergeRead, TypeOK, Typed, PC
<1>8. CASE RemoveOne
  BY <1>8 DEF RemoveOne, TypeOK, Typed
<1>9. CASE StoreMerged
  BY <1>9 DEF StoreMerged, WithTxids, Cache, Put, AfterMerge, TypeOK, Typed, PC
<1>10. CASE Crash
  BY <1>10, EmptyType, Zenon DEF Crash, TypeOK, Typed, PC
<1>11. CASE Build
  BY <1>11 DEF Build, TypeOK, Typed, PC
<1>12. CASE RestoreOne
  <2>1. disk[idx] \in Update /\ disk[idx].txs \in SUBSET Tx
    BY <1>12, Zenon DEF RestoreOne, TypeOK, Update
  <2>2. Apply(cache, bodies \cup disk[idx].txs, disk[idx], opt.utxoOnly) \in Cache
    BY <1>0, <2>1, ApplyType, Zenon DEF TypeOK
  <2>3. cache' \in Cache /\ cache'.txids \in SUBSET Tx
    BY <1>12, <2>2, Zenon DEF RestoreOne, Cache
  <2>4. bodies' \in SUBSET Tx /\ txidsKey' \in SUBSET Tx
    BY <1>12, <2>1, <2>3, Zenon DEF RestoreOne, TypeOK
  <2>5. /\ pc = "restore" /\ idx' = idx + 1
        /\ UNCHANGED <<opt, pc, disk, next, upd, merged, opening, trail>>
    BY <1>12 DEF RestoreOne
  <2>6. TypeOK'
    BY <2>3, <2>4, <2>5 DEF TypeOK
  <2>7. Typed'
    BY <2>5 DEF Typed
  <2> QED BY <2>6, <2>7
<1>13. CASE RestoreRefused
  BY <1>13 DEF RestoreRefused, TypeOK, Typed, PC
<1>14. CASE RestoreDone
  BY <1>0, <1>14 DEF RestoreDone, MergeDue, TypeOK, Typed, PC
<1>15. CASE AddTxids
  BY <1>15, Zenon DEF AddTxids, WithTxids, TypeOK, Typed, PC, Cache
<1>16. CASE UNCHANGED vars
  BY <1>16 DEF vars, TypeOK, Typed
<1> QED BY <1>1, <1>2, <1>3, <1>4, <1>5, <1>6, <1>7, <1>8, <1>9, <1>10, <1>11,
           <1>12, <1>13, <1>14, <1>15, <1>16 DEF AnyNext, StoreStep

\* In particular no step under a caller that keeps to those.
LEMMA TypeNext == TypeOK /\ Typed /\ [Next]_vars => TypeOK' /\ Typed'
BY NextIsAny, TypeStep

\* Every variable of the wallet and of its stores keeps its type, whatever
\* updates the caller applies and wherever the process stops.
THEOREM TypeCorrect == Spec => []TypeOK
<1>1. Init => TypeOK /\ Typed
  BY TypeInit
<1>2. TypeOK /\ Typed /\ [Next]_vars => (TypeOK /\ Typed)'
  BY TypeNext
<1> QED BY <1>1, <1>2, PTL DEF Spec

-----------------------------------------------------------------------------
(* Replay is inductive.                                                    *)

\* A fresh wallet has an empty log.
LEMMA ReplayInit ==
    ASSUME Init, \A o \in Options : ~o.txsPersisted
    PROVE  Replay
<1>1. Log(0)
  BY DEF Init, Log
<1>2. Numbered
  BY <1>1 DEF Numbered, Init
<1>3. Chained
  BY DEF Chained, Init
<1>4. OnTrail
  BY DEF OnTrail, Init
<1>5. InMemory
  BY DEF InMemory, Init
<1> QED BY <1>2, <1>3, <1>4, <1>5 DEF Replay

\* apply_update, apply_transaction: memory moves ahead of the disk by one update.
LEMMA ReplayStartApply ==
    ASSUME TypeOK, Replay, NEW u \in Update, Follows(u), StartApply(u)
    PROVE  Replay'
<1> USE DEF Replay
<1>1. pc = "idle" /\ pc' = "persist" /\ UNCHANGED <<opt, disk, next, trail>>
  BY DEF StartApply, InMemory
<1>2. Numbered'
  BY <1>1 DEF Numbered, Log
<1>3. Chained'
  BY <1>1 DEF Chained
<1>4. OnTrail'
  <2>1. Status(cache) = Status(trail[next])
    BY <1>1 DEF OnTrail
  <2>2. upd' = u /\ u.status = Status(cache)
    BY Zenon DEF StartApply, Applicable, SameStatus
  <2>3. Status(cache') = ApplyStatus(Status(cache), u)
    BY StatusApply DEF StartApply
  <2>4. Follows(upd)'
    BY <1>1, <2>2 DEF Follows, CanCoalesce
  <2> QED BY <1>1, <2>1, <2>2, <2>3, <2>4, Zenon DEF OnTrail, Leads
<1>5. InMemory'
  <2>1. cache'.txids = cache.txids \cup u.txs
    BY Zenon DEF StartApply, Apply
  <2> QED BY <1>1, <2>1, Zenon DEF InMemory, StartApply, TxsInMemory
<1> QED BY <1>2, <1>3, <1>4, <1>5

\* persist, coalescing: the last update on disk leads to the new status.
LEMMA ReplayPersistCoalesced ==
    ASSUME TypeOK, Typed, Replay, PersistCoalesced
    PROVE  Replay'
<1> USE DEF Replay
<1>1. /\ pc = "persist" /\ pc' = "idle" /\ UNCHANGED <<opt, cache, txidsKey, next>>
      /\ CanCoalesce(upd)
  BY DEF PersistCoalesced
<1>2. /\ Log(next) /\ next \in Nat /\ next > 0 /\ next - 1 \in DOMAIN disk
      /\ OnlyTip(upd) /\ OnlyTip(disk[next - 1])
  BY <1>1 DEF Numbered, CanCoalesce, TypeOK
<1> DEFINE prev == disk[next - 1]
           s == Status(trail[next - 1])
<1>3. /\ upd \in Update /\ prev \in Update /\ s \in StatusSet
      /\ next - 1 \in DOMAIN trail /\ next \in DOMAIN trail
  BY <1>1, <1>2, StatusType DEF TypeOK, Typed, Log
<1>4. /\ prev.status = s
      /\ Status(trail[next]) = ApplyStatus(s, prev)
      /\ Status(cache) = ApplyStatus(Status(trail[next]), upd)
  BY <1>1, <1>2 DEF Chained, OnTrail, Leads
<1>5. Status(cache) = ApplyStatus(s, Coalesce(prev, upd))
  <2>1. upd.tip # NoBlock /\ \A ch \in Chain : upd.lastUnused[ch] >= prev.lastUnused[ch]
    BY <1>1, Zenon DEF OnTrail, Follows
  <2> QED BY <1>2, <1>3, <1>4, <2>1, CoalesceStatus
<1>6. Coalesce(prev, upd).status = s
  BY <1>3, <1>4, CoalesceType
<1>7. /\ disk' = [disk EXCEPT ![next - 1] = Coalesce(prev, upd)]
      /\ trail' = [trail EXCEPT ![next] = cache]
  BY DEF PersistCoalesced
<1> HIDE DEF prev, s
<1>8. Numbered'
  BY <1>1, <1>2, <1>7 DEF Numbered, Log
<1>9. Chained'
  <2>1. trail'[0] = EmptyCache
    BY <1>2, <1>7 DEF Chained, Log
  <2>2. ASSUME NEW i \in DOMAIN disk'
        PROVE  /\ disk'[i].status = Status(trail'[i])
               /\ Status(trail'[i + 1]) = ApplyStatus(Status(trail'[i]), disk'[i])
    <3>1. i \in 0..(next - 1) /\ i \in DOMAIN disk /\ i + 1 \in DOMAIN trail /\ i \in DOMAIN trail
      BY <1>2, <1>7, <2>2 DEF Log
    <3>2. CASE i = next - 1
      <4>1. trail'[i] = trail[next - 1] /\ trail'[i + 1] = cache
            /\ disk'[i] = Coalesce(prev, upd)
        BY <1>2, <1>3, <1>7, <3>1, <3>2
      <4> QED BY <4>1, <1>5, <1>6 DEF s
    <3>3. CASE i # next - 1
      <4>1. trail'[i] = trail[i] /\ trail'[i + 1] = trail[i + 1] /\ disk'[i] = disk[i]
        BY <1>2, <1>7, <3>1, <3>3
      <4> QED BY <3>1, <4>1 DEF Chained
    <3> QED BY <3>2, <3>3
  <2> QED BY <2>1, <2>2 DEF Chained
<1>10. OnTrail'
  <2>1. trail'[next] = cache
    BY <1>3, <1>7
  <2> QED BY <1>1, <2>1, Zenon DEF OnTrail
<1>11. InMemory'
  BY <1>1 DEF InMemory
<1> QED BY <1>8, <1>9, <1>10, <1>11

\* persist, appending: the log grows by the update just applied.
LEMMA ReplayPersistNew ==
    ASSUME TypeOK, Typed, Replay, PersistNew
    PROVE  Replay'
<1> USE DEF Replay
<1>1. /\ pc = "persist" /\ pc' \in {"idle", "merge"} /\ next' = next + 1
      /\ UNCHANGED <<opt, cache, txidsKey>>
      /\ pc' = "merge" => idx' = 0
  BY DEF PersistNew
<1>2. Log(next) /\ next \in Nat
  BY <1>1 DEF Numbered, TypeOK
<1>3. Leads(next, upd, Status(cache))
  BY <1>1 DEF OnTrail
<1>4. Stored(upd) = upd
  BY <1>1, StoredType DEF Typed, InMemory
<1>5. /\ DOMAIN disk' = 0..next /\ DOMAIN trail' = 0..(next + 1)
      /\ disk'[next] = upd /\ trail'[next + 1] = cache
      /\ \A i \in 0..(next - 1) : disk'[i] = disk[i]
      /\ \A i \in 0..next : trail'[i] = trail[i]
  BY <1>2, <1>4 DEF PersistNew, Put, Log
<1>6. Numbered'
  BY <1>1, <1>2, <1>5 DEF Numbered, Log
<1>7. Chained'
  <2>1. trail'[0] = EmptyCache
    BY <1>2, <1>5 DEF Chained
  <2>2. ASSUME NEW i \in DOMAIN disk'
        PROVE  /\ disk'[i].status = Status(trail'[i])
               /\ Status(trail'[i + 1]) = ApplyStatus(Status(trail'[i]), disk'[i])
    <3>1. CASE i = next
      BY <1>2, <1>3, <1>5, <3>1 DEF Leads
    <3>2. CASE i # next
      <4>1. i \in DOMAIN disk /\ i \in 0..(next - 1) /\ i + 1 \in 0..next
        BY <1>2, <1>5, <2>2, <3>2 DEF Log
      <4>2. trail'[i] = trail[i] /\ trail'[i + 1] = trail[i + 1] /\ disk'[i] = disk[i]
        BY <1>2, <1>5, <4>1
      <4> QED BY <4>1, <4>2 DEF Chained
    <3> QED BY <3>1, <3>2
  <2> QED BY <2>1, <2>2 DEF Chained
<1>8. OnTrail'
  <2>1. trail'[next'] = cache /\ next' > 0 /\ next' \in Nat
    BY <1>1, <1>2, <1>5
  <2>2. pc' = "merge" => idx' =< next' /\ ~(0 < idx')
    BY <1>1, <2>1
  <2> QED BY <1>1, <2>1, <2>2, Zenon DEF OnTrail
<1>9. InMemory'
  BY <1>1 DEF InMemory
<1> QED BY <1>6, <1>7, <1>8, <1>9

\* merge_updates only reads: the accumulator leads from the first to the idx-th
\* point of the trail.
LEMMA ReplayMergeOne ==
    ASSUME TypeOK, Typed, Replay, MergeOne
    PROVE  Replay'
<1> USE DEF Replay
<1>1. /\ pc = "merge" /\ pc' = pc /\ idx' = idx + 1 /\ idx < next /\ idx \in DOMAIN disk
      /\ UNCHANGED <<opt, cache, txidsKey, disk, next, trail>>
  BY DEF MergeOne
<1>2. Log(next) /\ next \in Nat /\ idx \in Nat
  BY <1>1 DEF Numbered, TypeOK
<1>3. /\ disk[idx] \in Update /\ disk[idx].status = Status(trail[idx])
      /\ Status(trail[idx + 1]) = ApplyStatus(Status(trail[idx]), disk[idx])
  BY <1>1 DEF Chained, TypeOK
<1>4. Leads(0, merged', Status(trail[idx + 1]))
  <2>1. CASE idx = 0
    <3>1. merged' = disk[0]
      BY <2>1 DEF MergeOne
    <3> QED BY <1>3, <2>1, <3>1 DEF Leads
  <2>2. CASE idx # 0
    <3>1. merged' = Merge(merged, disk[idx])
      BY <2>2 DEF MergeOne
    <3>2. Leads(0, merged, Status(trail[idx]))
      BY <1>1, <1>2, <2>2 DEF OnTrail
    <3>3. Status(trail[0]) \in StatusSet
      BY StatusType DEF TypeOK, Typed
    <3>4. Merge(merged, disk[idx]) \in Update
          /\ Merge(merged, disk[idx]).status = merged.status
      BY <1>3, <3>2, MergeType, Zenon DEF Leads, Merge
    <3>5. ApplyStatus(Status(trail[0]), Merge(merged, disk[idx])) = Status(trail[idx + 1])
      BY <1>3, <3>2, <3>3, MergeStatus DEF Leads
    <3> QED BY <3>1, <3>2, <3>4, <3>5 DEF Leads
  <2> QED BY <2>1, <2>2
<1>5. Numbered'
  BY <1>1 DEF Numbered, Log
<1>6. Chained'
  BY <1>1 DEF Chained
<1>7. OnTrail'
  <2>1. Leads(0, merged, Status(trail[idx]))'
    BY <1>1, <1>4 DEF Leads
  <2>2. (Status(cache) = Status(trail[next]))'
    BY <1>1 DEF OnTrail
  <2>3. pc' = "merge" /\ 0 < next' /\ idx' <= next'
    BY <1>1, <1>2
  <2> QED BY <2>1, <2>2, <2>3, Zenon DEF OnTrail
<1>8. InMemory'
  BY <1>1 DEF InMemory
<1> QED BY <1>5, <1>6, <1>7, <1>8

\* merge_updates has read every update: the accumulator leads to the status
\* of the wallet.
LEMMA ReplayMergeRead ==
    ASSUME TypeOK, Typed, Replay, MergeRead
    PROVE  Replay'
<1> USE DEF Replay
<1>1. /\ pc = "merge" /\ pc' = "remove" /\ idx = next
      /\ UNCHANGED <<opt, cache, txidsKey, disk, next, merged, idx, trail>>
  BY DEF MergeRead
<1>2. Numbered'
  BY <1>1 DEF Numbered, Log
<1>3. Chained'
  BY <1>1, SMTT(20) DEF Chained
<1>4. OnTrail'
  BY <1>1 DEF OnTrail, Leads, Typed
<1>5. InMemory'
  BY <1>1 DEF InMemory
<1> QED BY <1>2, <1>3, <1>4, <1>5

\* Removing from the last to the first leaves a shorter log at every point.
LEMMA ReplayRemoveOne ==
    ASSUME TypeOK, Typed, Replay, RemoveOne
    PROVE  Replay'
<1> USE DEF Replay
<1>1. /\ pc = "remove" /\ pc' = pc /\ idx > 0 /\ idx' = idx - 1
      /\ UNCHANGED <<opt, cache, txidsKey, merged>>
  BY DEF RemoveOne
<1>2. Log(idx) /\ idx \in Nat
  BY <1>1 DEF Numbered, TypeOK
<1>3. /\ DOMAIN disk' = 0..(idx - 2) /\ DOMAIN trail' = 0..(idx - 1)
      /\ \A i \in 0..(idx - 2) : disk'[i] = disk[i]
      /\ \A i \in 0..(idx - 1) : trail'[i] = trail[i]
  BY <1>1, <1>2 DEF RemoveOne, Log
<1>4. Numbered'
  <2>1. Log(idx)'
    BY <1>1, <1>2, <1>3 DEF Log
  <2> QED BY <1>1, <1>2, <2>1 DEF Numbered
<1>5. Chained'
  <2>1. trail'[0] = EmptyCache
    BY <1>1, <1>2, <1>3 DEF Chained
  <2>2. ASSUME NEW i \in DOMAIN disk'
        PROVE  /\ disk'[i].status = Status(trail'[i])
               /\ Status(trail'[i + 1]) = ApplyStatus(Status(trail'[i]), disk'[i])
    <3>1. /\ i \in DOMAIN disk /\ disk'[i] = disk[i]
          /\ trail'[i] = trail[i] /\ trail'[i + 1] = trail[i + 1]
      BY <1>1, <1>2, <1>3, <2>2, SMTT(20) DEF Log
    <3> QED BY <3>1 DEF Chained
  <2> QED BY <2>1, <2>2 DEF Chained
<1>6. OnTrail'
  <2>1. trail'[0] = trail[0]
    BY <1>1, <1>2, <1>3
  <2> QED BY <1>1, <2>1 DEF OnTrail, Leads
<1>7. InMemory'
  BY <1>1 DEF InMemory
<1> QED BY <1>4, <1>5, <1>6, <1>7

\* The txids of a store in memory are those of the cache.
LEMMA TxidsInMemory ==
    ASSUME TypeOK, Replay
    PROVE  WithTxids(cache) = cache
<1>1. cache.txids \cup txidsKey = cache.txids
  BY DEF Replay, InMemory
<1> QED BY <1>1 DEF WithTxids, TypeOK, Cache

\* merge_updates stores the accumulator as the only update.
LEMMA ReplayStoreMerged ==
    ASSUME TypeOK, Typed, Replay, StoreMerged
    PROVE  Replay'
<1> USE DEF Replay
<1>1. /\ pc = "remove" /\ pc' \in {"idle", "addtxids"} /\ idx = 0 /\ next' = 1
      /\ UNCHANGED <<opt, cache, txidsKey>>
  BY DEF StoreMerged, AfterMerge
<1>2. Log(0)
  BY <1>1 DEF Numbered
<1>3. /\ DOMAIN disk' = 0..0 /\ DOMAIN trail' = 0..1 /\ disk'[0] = merged
      /\ trail'[0] = trail[0] /\ trail'[1] = cache
  BY <1>2, TxidsInMemory DEF StoreMerged, Put, Log
<1>4. Numbered'
  BY <1>1, <1>3 DEF Numbered, Log
<1>5. Chained'
  <2>1. Leads(0, merged, Status(cache))
    BY <1>1 DEF OnTrail
  <2>2. \A i \in DOMAIN disk' : i = 0 /\ i + 1 = 1
    BY <1>3
  <2> QED BY <1>3, <2>1, <2>2 DEF Chained, Leads
<1>6. OnTrail'
  BY <1>1, <1>3, Zenon DEF OnTrail
<1>7. InMemory'
  BY <1>1 DEF InMemory
<1> QED BY <1>4, <1>5, <1>6, <1>7

\* The process stops: the log on disk is what it was.
LEMMA ReplayCrash ==
    ASSUME Replay, Crash
    PROVE  Replay'
<1> USE DEF Replay
<1>1. /\ pc' = "down" /\ idx' = 0 /\ cache' = EmptyCache /\ txidsKey' = {}
      /\ UNCHANGED <<opt, disk, trail>>
  BY Zenon DEF Crash, InMemory
<1>2. Numbered'
  BY <1>1 DEF Numbered, Log
<1>3. Chained'
  BY <1>1 DEF Chained
<1>4. OnTrail'
  BY <1>1 DEF OnTrail
<1>5. InMemory'
  BY <1>1 DEF InMemory
<1> QED BY <1>2, <1>3, <1>4, <1>5

\* build() starts from an empty cache and the first update.
LEMMA ReplayBuild ==
    ASSUME Replay, Build
    PROVE  Replay'
<1> USE DEF Replay
<1>1. /\ pc = "down" /\ pc' = "restore"
      /\ UNCHANGED <<opt, cache, txidsKey, disk, idx, trail>>
  BY DEF Build
<1>2. Numbered'
  BY <1>1 DEF Numbered, Log, OnTrail
<1>3. Chained'
  BY <1>1 DEF Chained
<1>4. OnTrail'
  BY <1>1 DEF OnTrail, Chained
<1>5. InMemory'
  BY <1>1 DEF InMemory
<1> QED BY <1>2, <1>3, <1>4, <1>5

\* restore_updates replays one update: the cache moves one on along the trail.
LEMMA ReplayRestoreOne ==
    ASSUME TypeOK, Replay, RestoreOne
    PROVE  Replay'
<1> USE DEF Replay
<1>1. /\ pc = "restore" /\ pc' = pc /\ idx \in DOMAIN disk /\ idx' = idx + 1
      /\ UNCHANGED <<opt, disk, trail>>
  BY DEF RestoreOne
<1>2. Numbered'
  <2>1. PICK n \in Nat : Log(n)
    BY DEF Numbered
  <2>2. idx \in Nat /\ idx + 1 <= n /\ Log(n)'
    BY <1>1, <2>1 DEF Log, TypeOK
  <2> QED BY <1>1, <2>1, <2>2 DEF Numbered
<1>3. Chained'
  BY <1>1 DEF Chained
<1>4. OnTrail'
  <2>1. Status(cache') = ApplyStatus(Status(cache), disk[idx])
    BY StatusApply, Zenon DEF RestoreOne
  <2>2. Status(cache) = Status(trail[idx])
    BY <1>1 DEF OnTrail
  <2>3. Status(trail[idx + 1]) = ApplyStatus(Status(trail[idx]), disk[idx])
    BY <1>1 DEF Chained
  <2> QED BY <1>1, <2>1, <2>2, <2>3 DEF OnTrail
<1>5. InMemory'
  <2>1. cache'.txids = cache.txids \cup disk[idx].txs
    BY Zenon DEF RestoreOne, Apply
  <2>2. txidsKey' = txidsKey \/ txidsKey' = cache'.txids
    BY DEF RestoreOne
  <2> QED BY <1>1, <2>1, <2>2 DEF InMemory
<1> QED BY <1>2, <1>3, <1>4, <1>5, SMTT(20)

\* A refused update changes nothing on disk.
LEMMA ReplayRestoreRefused ==
    ASSUME Replay, RestoreRefused
    PROVE  Replay'
<1>1. /\ pc' = "failed" /\ UNCHANGED <<opt, cache, txidsKey, disk, next, idx, trail>>
  BY DEF RestoreRefused
<1> QED BY <1>1, Zenon DEF Replay, Numbered, Log, Chained, OnTrail, InMemory

\* restore_updates ends at the last update of the log.
LEMMA ReplayRestoreDone ==
    ASSUME TypeOK, Replay, RestoreDone
    PROVE  Replay'
<1> USE DEF Replay
<1>1. /\ pc = "restore" /\ pc' \in {"merge", "addtxids"} /\ idx \notin DOMAIN disk
      /\ next' = idx
      /\ pc' = "merge" => idx' = 0 /\ MergeDue(idx)
      /\ UNCHANGED <<opt, cache, txidsKey, disk, trail>>
  BY DEF RestoreDone
<1>2. Log(idx)
  <2>1. PICK n \in Nat : Log(n) /\ idx <= n
    BY <1>1 DEF Numbered
  <2>2. idx = n
    BY <1>1, <2>1 DEF Log, TypeOK
  <2> QED BY <2>1, <2>2
<1>3. Numbered'
  BY <1>1, <1>2 DEF Numbered, Log, TypeOK
<1>4. Chained'
  BY <1>1 DEF Chained
<1>5. OnTrail'
  <2>1. MergeDue(idx) => 0 < idx
    BY DEF MergeDue, TypeOK, OptionSet
  <2> QED BY <1>1, <2>1 DEF OnTrail, TypeOK
<1>6. InMemory'
  BY <1>1 DEF InMemory
<1> QED BY <1>3, <1>4, <1>5, <1>6

\* add_txids_from_txs_store adds nothing when the store is in memory.
LEMMA ReplayAddTxids ==
    ASSUME TypeOK, Replay, AddTxids
    PROVE  Replay'
<1> USE DEF Replay
<1>1. /\ pc = "addtxids" /\ pc' = "idle"
      /\ UNCHANGED <<opt, txidsKey, disk, next, idx, trail>>
  BY DEF AddTxids
<1>2. cache' = cache
  BY TxidsInMemory DEF AddTxids
<1> QED BY <1>1, <1>2, Zenon DEF Numbered, Log, Chained, OnTrail, InMemory

\* Every step keeps the inductive invariant.
LEMMA ReplayNext ==
    ASSUME TypeOK, Typed, Replay, [Next]_vars
    PROVE  Replay'
<1>1. CASE UNCHANGED vars
  BY <1>1, Zenon DEF vars, Replay, Numbered, Log, Chained, OnTrail, Leads, Follows,
              CanCoalesce, InMemory
<1>2. CASE PutTx \/ PutTxids
  BY <1>2, Zenon DEF PutTx, PutTxids, Replay, InMemory
<1> QED BY <1>1, <1>2, ReplayStartApply, ReplayPersistCoalesced, ReplayPersistNew,
           ReplayMergeOne, ReplayMergeRead, ReplayRemoveOne, ReplayStoreMerged,
           ReplayCrash, ReplayBuild, ReplayRestoreOne, ReplayRestoreRefused,
           ReplayRestoreDone, ReplayAddTxids DEF Next, StoreStep

\* With the transactions kept in the updates, replaying what coalescing and
\* merge_updates left on disk gives a wallet of the status it had when it last
\* persisted, for any updates and a process that stops anywhere.
THEOREM ReplayRestoresStatus ==
    ASSUME \A o \in Options : ~o.txsPersisted
    PROVE  Spec => []RestoresStatus
<1>1. Init => TypeOK /\ Typed /\ Replay
  BY TypeInit, ReplayInit
<1>2. TypeOK /\ Typed /\ Replay /\ [Next]_vars => (TypeOK /\ Typed /\ Replay)'
  BY TypeNext, ReplayNext
<1>3. Replay => RestoresStatus
  BY DEF Replay, OnTrail, RestoresStatus
<1> QED BY <1>1, <1>2, <1>3, PTL DEF Spec

-----------------------------------------------------------------------------
(* What build() refuses.                                                   *)

\* The tip is part of the status.
LEMMA TipOfStatus ==
    ASSUME NEW c, NEW d, Status(c) = Status(d)
    PROVE  c.tip = d.tip
BY DEF Status

\* restore_updates refuses no update of the log for its status, and the first one
\* not at all.
LEMMA RefusedTooOld ==
    ASSUME TypeOK, Replay, RestoreRefused
    PROVE  /\ idx \in DOMAIN disk /\ 0 < idx
           /\ SameStatus(cache, disk[idx])
           /\ ~NotTooOld(trail[idx], disk[idx])
<1>1. pc = "restore" /\ idx \in DOMAIN disk /\ ~Applicable(cache, disk[idx])
  BY DEF RestoreRefused
<1>2. Status(cache) = Status(trail[idx]) /\ disk[idx].status = Status(trail[idx])
  BY <1>1 DEF Replay, OnTrail, Chained
<1>3. cache.tip = trail[idx].tip
  BY <1>2, TipOfStatus
<1>4. ~NotTooOld(trail[idx], disk[idx])
  BY <1>1, <1>2, <1>3 DEF Applicable, SameStatus, NotTooOld
<1>5. idx \in Nat /\ disk[idx] \in Update
  BY <1>1 DEF TypeOK
<1>6. idx # 0
  <2>1. SUFFICES ASSUME idx = 0 PROVE FALSE
    OBVIOUS
  <2>2. trail[0] = EmptyCache
    BY SMTT(20) DEF Replay, Chained
  <2>3. EmptyCache.tip.height = 0
    BY DEF EmptyCache, Genesis
  <2>4. disk[0].tip # NoBlock => disk[0].tip.height \in Nat
    BY <1>5, <2>1, HeightAssumption, Zenon DEF Update, Block
  <2> QED BY <1>4, <2>1, <2>2, <2>3, <2>4 DEF NotTooOld
<1> QED BY <1>1, <1>2, <1>4, <1>5, <1>6 DEF SameStatus

\* An update on disk that would be too old is one that coalescing made: any other
\* is there as it was accepted.
Gentle ==
    /\ pc = "failed" => FellTogether
    /\ pc = "persist" => NotTooOld(trail[next], upd)
    /\ \A i \in DOMAIN disk : 0 < i /\ ~OnlyTip(disk[i]) => NotTooOld(trail[i], disk[i])

\* Every step leaves it so.
LEMMA GentleNext ==
    ASSUME TypeOK, Typed, Replay, Gentle, [Next]_vars
    PROVE  Gentle'
<1>1. ASSUME NEW u \in Update, StartApply(u)
      PROVE  Gentle'
  <2>1. /\ pc = "idle" /\ pc' = "persist" /\ upd' = u /\ NotTooOld(cache, u)
        /\ UNCHANGED <<disk, next, trail>>
    BY <1>1, Zenon DEF StartApply, Applicable, Replay, InMemory
  <2>2. cache.tip = trail[next].tip
    BY <2>1, TipOfStatus DEF Replay, OnTrail
  <2>3. NotTooOld(trail[next], u)
    BY <2>1, <2>2 DEF NotTooOld
  <2> QED BY <2>1, <2>3 DEF Gentle
<1>2. CASE PutTx \/ PutTxids
  BY <1>2 DEF PutTx, PutTxids, Replay, InMemory
<1>3. CASE PersistCoalesced
  <2>1. /\ pc = "persist" /\ pc' = "idle" /\ CanCoalesce(upd)
        /\ disk' = [disk EXCEPT ![next - 1] = Coalesce(disk[next - 1], upd)]
        /\ trail' = [trail EXCEPT ![next] = cache]
    BY <1>3, Zenon DEF PersistCoalesced
  <2>2. Log(next) /\ next \in Nat
    BY <2>1 DEF Replay, Numbered, TypeOK
  <2>3. OnlyTip(Coalesce(disk[next - 1], upd))
    <3>1. OnlyTip(upd) /\ upd \in Update
      BY <2>1 DEF CanCoalesce, Replay, OnTrail, Leads
    <3> QED BY <3>1 DEF OnlyTip, Coalesce, Update
  <2>4. ASSUME NEW i \in DOMAIN disk', 0 < i, ~OnlyTip(disk'[i])
        PROVE  NotTooOld(trail'[i], disk'[i])
    <3>1. i \in DOMAIN disk /\ i # next - 1 /\ disk'[i] = disk[i]
      BY <2>1, <2>3, <2>4
    <3>2. trail'[i] = trail[i]
      BY <2>1, <2>2, <3>1 DEF Log
    <3> QED BY <2>4, <3>1, <3>2 DEF Gentle
  <2> QED BY <2>1, <2>4 DEF Gentle
<1>4. CASE PersistNew
  <2>1. pc = "persist" /\ pc' \in {"merge", "idle"}
    BY <1>4 DEF PersistNew
  <2>2. Log(next) /\ next \in Nat
    BY <2>1 DEF Replay, Numbered, TypeOK
  <2>3. Stored(upd) = upd
    BY <2>1, StoredType DEF Typed, Replay, InMemory
  <2>4. /\ DOMAIN disk' = 0..next /\ disk'[next] = upd
        /\ \A i \in 0..next : trail'[i] = trail[i]
        /\ \A i \in 0..(next - 1) : disk'[i] = disk[i] /\ i \in DOMAIN disk
    BY <1>4, <2>2, <2>3 DEF PersistNew, Put, Log
  <2>5. ASSUME NEW i \in DOMAIN disk', 0 < i, ~OnlyTip(disk'[i])
        PROVE  NotTooOld(trail'[i], disk'[i])
    <3>1. CASE i = next
      BY <2>1, <2>2, <2>4, <3>1 DEF Gentle
    <3>2. CASE i # next
      <4>1. i \in 0..(next - 1) /\ i \in 0..next
        BY <2>2, <2>4, <3>2
      <4>2. disk'[i] = disk[i] /\ trail'[i] = trail[i] /\ i \in DOMAIN disk
        BY <2>4, <4>1
      <4> QED BY <2>5, <4>2 DEF Gentle
    <3> QED BY <3>1, <3>2
  <2> QED BY <2>1, <2>5, Zenon DEF Gentle
<1>5. CASE MergeOne \/ MergeRead
  BY <1>5 DEF MergeOne, MergeRead, Gentle
<1>6. CASE RemoveOne
  <2>1. /\ pc = "remove" /\ UNCHANGED pc
        /\ disk' = [j \in DOMAIN disk \ {idx - 1} |-> disk[j]]
        /\ trail' = [j \in DOMAIN trail \ {idx} |-> trail[j]]
    BY <1>6 DEF RemoveOne
  <2>2. Log(idx) /\ idx \in Nat
    BY <2>1 DEF Replay, Numbered, TypeOK
  <2>3. ASSUME NEW i \in DOMAIN disk', 0 < i, ~OnlyTip(disk'[i])
        PROVE  NotTooOld(trail'[i], disk'[i])
    <3>1. i \in DOMAIN disk /\ disk'[i] = disk[i] /\ trail'[i] = trail[i]
      BY <2>1, <2>2, <2>3, SMTT(20) DEF Log
    <3> QED BY <2>3, <3>1 DEF Gentle
  <2> QED BY <2>1, <2>3 DEF Gentle
<1>7. CASE StoreMerged
  <2>1. pc = "remove" /\ idx = 0 /\ pc' \in {"idle", "addtxids"}
    BY <1>7 DEF StoreMerged, AfterMerge
  <2>2. Log(0)
    BY <2>1 DEF Replay, Numbered
  <2>3. DOMAIN disk' = {0}
    BY <1>7, <2>2 DEF StoreMerged, Put, Log
  <2> QED BY <2>1, <2>3 DEF Gentle
<1>8. CASE Crash \/ Build \/ RestoreOne \/ RestoreDone \/ AddTxids
  BY <1>8, Zenon DEF Crash, Build, RestoreOne, RestoreDone, AddTxids, Gentle
<1>9. CASE RestoreRefused
  <2>1. pc' = "failed" /\ UNCHANGED <<cache, disk, idx, trail>>
    BY <1>9 DEF RestoreRefused
  <2>2. FellTogether
    BY <1>9, RefusedTooOld, Zenon DEF Gentle, FellTogether
  <2> QED BY <2>1, <2>2 DEF Gentle, FellTogether
<1>10. CASE UNCHANGED vars
  BY <1>10 DEF vars, Gentle, FellTogether
<1> QED BY <1>1, <1>2, <1>3, <1>4, <1>5, <1>6, <1>7, <1>8, <1>9, <1>10
        DEF Next, StoreStep

\* A wallet that keeps its transactions in the updates can be opened again, after a
\* stop anywhere and with any merge threshold, unless coalescing made an update
\* that lowers the tip by more than a block.
THEOREM LogReopens ==
    ASSUME \A o \in Options : ~o.txsPersisted
    PROVE  Spec => []Reopens
<1>1. Init => TypeOK /\ Typed /\ Replay /\ Gentle
  BY TypeInit, ReplayInit DEF Init, Gentle
<1>2. TypeOK /\ Typed /\ Replay /\ Gentle /\ [Next]_vars
        => (TypeOK /\ Typed /\ Replay /\ Gentle)'
  BY TypeNext, ReplayNext, GentleNext
<1>3. Gentle => Reopens
  BY DEF Gentle, Reopens
<1> QED BY <1>1, <1>2, <1>3, PTL DEF Spec

-----------------------------------------------------------------------------
(* build() never refuses a log that is merged at every second update.      *)

\* With a threshold of 0 or 1 at most one update is on disk between two calls,
\* so none that a second one relies on is coalesced, and the second is on disk
\* as it was accepted.
Short ==
    /\ opt.threshold \in {0, 1}
    /\ pc # "failed"
    /\ pc \in {"idle", "persist", "addtxids"} => next <= 1
    /\ pc = "persist" => NotTooOld(trail[next], upd)
    /\ \A i \in DOMAIN disk : 0 < i => NotTooOld(trail[i], disk[i])

\* A fresh wallet has no update on disk.
LEMMA ShortInit ==
    ASSUME Init, \A o \in Options : o.threshold \in {0, 1}
    PROVE  Short
BY DEF Init, Short

\* Every step keeps the log short and its updates acceptable.
LEMMA ShortNext ==
    ASSUME TypeOK, Typed, Replay, Short, [Next]_vars
    PROVE  Short'
<1>0. /\ opt.threshold \in {0, 1} /\ opt.threshold # NoMerge
      /\ \A n \in Nat : ~MergeDue(n) => n <= 1
      /\ MergeDue(2)
  BY NoMergeAssumption DEF Short, MergeDue
<1>1. ASSUME NEW u \in Update, StartApply(u)
      PROVE  Short'
  <2>1. /\ pc = "idle" /\ pc' = "persist" /\ upd' = u /\ NotTooOld(cache, u)
        /\ UNCHANGED <<opt, disk, next, trail>>
    BY <1>1, Zenon DEF StartApply, Applicable, Replay, InMemory
  <2>2. cache.tip = trail[next].tip
    BY <2>1, TipOfStatus DEF Replay, OnTrail
  <2>3. NotTooOld(trail[next], u)
    BY <2>1, <2>2 DEF NotTooOld
  <2> QED BY <2>1, <2>3 DEF Short
<1>2. CASE PutTx \/ PutTxids
  BY <1>2 DEF PutTx, PutTxids, Replay, InMemory
<1>3. CASE PersistCoalesced
  <2>1. /\ pc = "persist" /\ pc' = "idle" /\ UNCHANGED <<opt, next>>
        /\ disk' = [disk EXCEPT ![next - 1] = Coalesce(disk[next - 1], upd)]
    BY <1>3, SMTT(20) DEF PersistCoalesced
  <2>2. Log(next) /\ next \in Nat /\ next <= 1
    BY <2>1 DEF Replay, Numbered, Short, TypeOK
  <2>3. \A i \in DOMAIN disk' : ~(0 < i)
    BY <2>1, <2>2 DEF Log
  <2> QED BY <2>1, <2>3 DEF Short
<1>4. CASE PersistNew
  <2>1. /\ pc = "persist" /\ UNCHANGED opt /\ next' = next + 1
        /\ pc' \in {"merge", "idle"} /\ (pc' = "idle" => ~MergeDue(next + 1))
    BY <1>4 DEF PersistNew
  <2>2. Log(next) /\ next \in Nat /\ next <= 1
    BY <2>1 DEF Replay, Numbered, Short, TypeOK
  <2>3. pc' = "idle" => next' <= 1
    BY <1>0, <2>1, <2>2
  <2>4. Stored(upd) = upd
    BY <2>1, StoredType DEF Typed, Replay, InMemory
  <2>5. /\ DOMAIN disk' = 0..next /\ disk'[next] = upd /\ trail'[next] = trail[next]
    BY <1>4, <2>2, <2>4 DEF PersistNew, Put, Log
  <2>6. ASSUME NEW i \in DOMAIN disk', 0 < i
        PROVE  NotTooOld(trail'[i], disk'[i])
    <3>1. i = next
      BY <2>2, <2>5, <2>6
    <3> QED BY <2>1, <2>5, <3>1, Zenon DEF Short
  <2> QED BY <2>1, <2>3, <2>6, Zenon DEF Short
<1>5. CASE MergeOne \/ MergeRead
  BY <1>5 DEF MergeOne, MergeRead, Short
<1>6. CASE RemoveOne
  <2>1. /\ pc = "remove" /\ UNCHANGED <<opt, pc>>
        /\ disk' = [j \in DOMAIN disk \ {idx - 1} |-> disk[j]]
        /\ trail' = [j \in DOMAIN trail \ {idx} |-> trail[j]]
    BY <1>6 DEF RemoveOne
  <2>2. Log(idx) /\ idx \in Nat
    BY <2>1 DEF Replay, Numbered, TypeOK
  <2>3. ASSUME NEW i \in DOMAIN disk', 0 < i
        PROVE  NotTooOld(trail'[i], disk'[i])
    <3>1. i \in DOMAIN disk /\ disk'[i] = disk[i] /\ trail'[i] = trail[i]
      BY <2>1, <2>2, <2>3, SMTT(20) DEF Log
    <3> QED BY <2>3, <3>1 DEF Short
  <2> QED BY <2>1, <2>3 DEF Short
<1>7. CASE StoreMerged
  <2>1. pc = "remove" /\ idx = 0 /\ pc' \in {"idle", "addtxids"} /\ next' = 1 /\ UNCHANGED opt
    BY <1>7 DEF StoreMerged, AfterMerge
  <2>2. Log(0)
    BY <2>1 DEF Replay, Numbered
  <2>3. DOMAIN disk' = {0}
    BY <1>7, <2>2 DEF StoreMerged, Put, Log
  <2> QED BY <2>1, <2>3 DEF Short
<1>8. CASE Crash \/ Build \/ RestoreOne
  BY <1>8, Zenon DEF Crash, Build, RestoreOne, Short
<1>9. CASE RestoreRefused
  BY <1>9, RefusedTooOld DEF Short
<1>10. CASE RestoreDone
  <2>1. /\ next' = idx /\ UNCHANGED <<opt, disk, trail>> /\ pc' \in {"merge", "addtxids"}
        /\ pc' = "addtxids" => ~MergeDue(idx)
    BY <1>10 DEF RestoreDone
  <2> QED BY <1>0, <2>1 DEF Short, TypeOK
<1>11. CASE AddTxids
  BY <1>11 DEF AddTxids, Short
<1>12. CASE UNCHANGED vars
  BY <1>12 DEF vars, Short
<1> QED BY <1>1, <1>2, <1>3, <1>4, <1>5, <1>6, <1>7, <1>8, <1>9, <1>10, <1>11,
           <1>12 DEF Next, StoreStep

\* A wallet that merges at every second update (merge threshold 0 or 1) and
\* keeps its transactions in the updates can always be opened again.
THEOREM MergedReopens ==
    ASSUME \A o \in Options : ~o.txsPersisted /\ o.threshold \in {0, 1}
    PROVE  Spec => [](pc # "failed")
<1>1. Init => TypeOK /\ Typed /\ Replay /\ Short
  BY TypeInit, ReplayInit, ShortInit
<1>2. TypeOK /\ Typed /\ Replay /\ Short /\ [Next]_vars
        => (TypeOK /\ Typed /\ Replay /\ Short)'
  BY TypeNext, ReplayNext, ShortNext
<1>3. Short => pc # "failed"
  BY DEF Short
<1> QED BY <1>1, <1>2, <1>3, PTL DEF Spec

-----------------------------------------------------------------------------
(* Without merging, replaying gives back the whole cache.                  *)

\* The unspent outputs after update u, whose transactions are kept in memory.
UnspentAfter(c, u) == Apply(c, c.txids \cup u.txs, u, opt.utxoOnly).unspent

\* When nothing is merged, the unspent outputs follow the trail as the status
\* does.
Exact ==
    /\ bodies = cache.txids
    /\ opt.threshold = NoMerge =>
        /\ pc \notin {"merge", "remove"}
        /\ \A i \in DOMAIN disk : trail[i + 1].unspent = UnspentAfter(trail[i], disk[i])
        /\ pc \in {"idle", "addtxids"} => cache.unspent = trail[next].unspent
        /\ pc = "restore" => cache.unspent = trail[idx].unspent
        /\ pc = "persist" => cache.unspent = UnspentAfter(trail[next], upd)

\* A cache is its status and its unspent outputs.
LEMMA CacheEqual ==
    ASSUME NEW c \in Cache, NEW d \in Cache, Status(c) = Status(d), c.unspent = d.unspent
    PROVE  c = d
<1>1. /\ c.txids = d.txids /\ c.scripts = d.scripts /\ c.heights = d.heights
      /\ c.unblinded = d.unblinded /\ c.tip = d.tip /\ c.timestamps = d.timestamps
      /\ c.lastUnused = d.lastUnused
  BY DEF Status
<1> QED BY <1>1, SMTT(20) DEF Cache

\* A coalesced update leaves the unspent outputs its two updates leave.
LEMMA CoalesceUnspent ==
    ASSUME NEW c \in Cache, NEW d \in Cache, NEW u \in Update, NEW v \in Update,
           OnlyTip(u), OnlyTip(v), d.unspent = UnspentAfter(c, u)
    PROVE  UnspentAfter(d, v) = UnspentAfter(c, Coalesce(u, v))
<1>1. ASSUME NEW e \in Cache, NEW w \in Update, OnlyTip(w)
      PROVE  UnspentAfter(e, w) = IF opt.utxoOnly THEN {} ELSE e.unspent
  <2>1. w.unspent = {} /\ w.del = {} /\ Keys(w.new) = {} /\ w.txs = {} /\ w.unblinds = {}
    BY <1>1, Zenon DEF OnlyTip
  <2>2. UpdateUnspentUtxosOnly(e.unspent, e.txids \cup w.txs, w.unspent) = {}
    BY <2>1, Zenon DEF UpdateUnspentUtxosOnly
  <2>3. UpdateUnspent(e.unspent, e.unblinded \cup w.unblinds, e.scripts \cup w.scripts,
                      e.txids \cup w.txs, w.new, w.del) = e.unspent
    BY <2>1, Zenon DEF UpdateUnspent, Readable, InputsOf
  <2> QED BY <2>2, <2>3, Zenon DEF UnspentAfter, Apply
<1>2. Coalesce(u, v) \in Update /\ OnlyTip(Coalesce(u, v))
  BY CoalesceType, ZenonT(30) DEF Coalesce, OnlyTip, Update
<1> QED BY <1>1, <1>2, Zenon

\* Before the first update.
LEMMA ExactInit ==
    ASSUME Init
    PROVE  Exact
BY DEF Init, Exact, EmptyCache

\* Every step of a wallet with its transactions in memory keeps Exact.
LEMMA ExactNext ==
    ASSUME TypeOK, Typed, Replay, Exact, [Next]_vars
    PROVE  Exact'
<1> USE DEF Exact
<1>0. ~opt.txsPersisted /\ pc # "puttxs" /\ txidsKey \subseteq cache.txids
  BY DEF Replay, InMemory
<1>1. ASSUME NEW u \in Update, StartApply(u)
      PROVE  Exact'
  <2>1. /\ pc = "idle" /\ pc' = "persist" /\ upd' = u
        /\ UNCHANGED <<opt, disk, next, trail>>
        /\ cache' = Apply(cache, bodies \cup u.txs, u, opt.utxoOnly)
        /\ bodies' = bodies \cup u.txs
    BY <1>0, <1>1, Zenon DEF StartApply, TxsInMemory
  <2>2. bodies' = cache'.txids
    BY <2>1, Zenon DEF Apply
  <2>3. ASSUME opt.threshold = NoMerge
        PROVE  cache'.unspent = UnspentAfter(trail[next], u)
    <3>1. cache = trail[next]
      <4>1. cache \in Cache /\ trail[next] \in Cache
        <5>1. Log(next) /\ next \in Nat
          BY <2>1, Zenon DEF TypeOK, Replay, Numbered
        <5>2. next \in DOMAIN trail
          BY <5>1 DEF Log
        <5> QED BY <5>2 DEF TypeOK
      <4>2. Status(cache) = Status(trail[next])
        BY <2>1, Zenon DEF Replay, OnTrail
      <4> QED BY <2>1, <2>3, <4>1, <4>2, CacheEqual, Zenon
    <3> QED BY <2>1, <3>1, Zenon DEF UnspentAfter
  <2> QED BY <2>1, <2>2, <2>3, Zenon DEF UnspentAfter
<1>2. CASE PersistCoalesced
  <2>1. /\ pc = "persist" /\ pc' = "idle" /\ UNCHANGED <<opt, cache, bodies, next>>
        /\ OnlyTip(upd) /\ OnlyTip(disk[next - 1]) /\ next > 0
        /\ disk' = [disk EXCEPT ![next - 1] = Coalesce(disk[next - 1], upd)]
        /\ trail' = [trail EXCEPT ![next] = cache]
    BY <1>2 DEF PersistCoalesced, CanCoalesce
  <2>2. Log(next) /\ next \in Nat /\ next - 1 \in 0..next /\ next - 1 \in DOMAIN disk
    <3>1. Log(next) /\ next \in Nat
      BY <2>1, Zenon DEF Replay, Numbered, TypeOK
    <3> QED BY <2>1, <3>1 DEF Log
  <2>3. ASSUME opt.threshold = NoMerge, NEW i \in DOMAIN disk'
        PROVE  trail'[i + 1].unspent = UnspentAfter(trail'[i], disk'[i])
    <3>1. i \in 0..(next - 1) /\ i \in DOMAIN disk /\ i + 1 \in DOMAIN trail /\ i \in DOMAIN trail
      BY <2>1, <2>2, <2>3, SMTT(20) DEF Log
    <3>2. CASE i = next - 1
      <4>1. trail'[i] = trail[next - 1] /\ trail'[i + 1] = cache
            /\ disk'[i] = Coalesce(disk[next - 1], upd)
        <5>1. i # next /\ i + 1 = next
          BY <2>2, <3>2
        <5>2. trail'[i] = trail[i] /\ trail'[next] = cache
          BY <2>1, <3>1, <5>1, SMTT(20)
        <5>3. disk'[i] = Coalesce(disk[next - 1], upd)
          BY <2>1, <2>2, <3>2, SMTT(20)
        <5> QED BY <3>2, <5>1, <5>2, <5>3, Zenon
      <4>2. /\ trail[next - 1] \in Cache /\ trail[next] \in Cache
            /\ disk[next - 1] \in Update /\ upd \in Update
        <5>1. next - 1 \in DOMAIN trail /\ next \in DOMAIN trail
          BY <2>2 DEF Log
        <5>2. (\A j \in DOMAIN trail : trail[j] \in Cache) /\ (\A j \in DOMAIN disk : disk[j] \in Update)
          BY DEF TypeOK
        <5>3. upd \in Update
          BY <2>1 DEF Typed
        <5> QED BY <2>2, <5>1, <5>2, <5>3
      <4>3. trail[next].unspent = UnspentAfter(trail[next - 1], disk[next - 1])
        <5>1. (next - 1) + 1 = next
          <6>1. next \in Nat
            BY <2>2, Zenon
          <6> QED BY ONLY <6>1
        <5>2. trail[(next - 1) + 1].unspent = UnspentAfter(trail[next - 1], disk[next - 1])
          BY <2>2, <2>3, ZenonT(30)
        <5>3. trail[(next - 1) + 1] = trail[next]
          BY <5>1
        <5> QED BY ONLY <5>2, <5>3
      <4>4. cache.unspent = UnspentAfter(trail[next], upd)
        BY <2>1, <2>3
      <4> QED BY <2>1, <4>1, <4>2, <4>3, <4>4, CoalesceUnspent
    <3>3. CASE i # next - 1
      <4>1. trail'[i] = trail[i] /\ trail'[i + 1] = trail[i + 1] /\ disk'[i] = disk[i]
        BY <2>1, <2>2, <3>1, <3>3
      <4> QED BY <2>3, <3>1, <4>1
    <3> QED BY <3>2, <3>3, Zenon
  <2>4. cache.unspent = trail'[next].unspent
    BY <2>1, <2>2 DEF Log
  <2>5. \A c, u : UnspentAfter(c, u)' = UnspentAfter(c, u)
    BY <2>1, Zenon DEF UnspentAfter
  <2> QED BY <2>1, <2>3, <2>4, Zenon DEF UnspentAfter
<1>3. CASE PersistNew
  <2>1. /\ pc = "persist" /\ UNCHANGED <<opt, cache, bodies>> /\ next' = next + 1
        /\ opt.threshold = NoMerge => pc' = "idle"
        /\ pc' \in {"idle", "merge"}
    BY <1>3 DEF PersistNew, MergeDue
  <2>2. Log(next) /\ next \in Nat
    BY <2>1, Zenon DEF Replay, Numbered, TypeOK
  <2>3. Stored(upd) = upd
    BY <1>0, <2>1, StoredType, Zenon DEF Typed
  <2>4. /\ DOMAIN disk' = 0..next /\ DOMAIN trail' = 0..(next + 1)
        /\ disk'[next] = upd /\ trail'[next + 1] = cache
        /\ \A i \in 0..(next - 1) : disk'[i] = disk[i]
        /\ \A i \in 0..next : trail'[i] = trail[i]
    BY <1>3, <2>2, <2>3 DEF PersistNew, Put, Log
  <2>5. ASSUME opt.threshold = NoMerge, NEW i \in DOMAIN disk'
        PROVE  trail'[i + 1].unspent = UnspentAfter(trail'[i], disk'[i])
    <3>1. CASE i = next
      <4>1. trail'[i] = trail[next] /\ trail'[i + 1] = cache /\ disk'[i] = upd
        BY <2>2, <2>4, <3>1
      <4> QED BY <2>1, <2>5, <4>1, ZenonT(30)
    <3>2. CASE i # next
      <4>1. i \in DOMAIN disk /\ i \in 0..(next - 1) /\ i + 1 \in 0..next
        BY <2>2, <2>4, <2>5, <3>2, SMTT(20) DEF Log
      <4>2. trail'[i] = trail[i] /\ trail'[i + 1] = trail[i + 1] /\ disk'[i] = disk[i]
        BY <2>2, <2>4, <4>1
      <4> QED BY <2>5, <4>1, <4>2, Zenon
    <3> QED BY <3>1, <3>2, Zenon
  <2>6. cache.unspent = trail'[next'].unspent
    BY <2>1, <2>4, SMTT(20)
  <2> QED BY <2>1, <2>5, <2>6, Zenon DEF UnspentAfter
<1>4. CASE MergeOne \/ MergeRead \/ RemoveOne
  BY <1>4 DEF MergeOne, MergeRead, RemoveOne
<1>5. CASE StoreMerged
  BY <1>5, Zenon DEF StoreMerged
<1>6. CASE Crash
  BY <1>0, <1>6, Zenon DEF Crash, EmptyCache, UnspentAfter
<1>7. CASE Build
  <2>1. idx = 0 /\ cache = EmptyCache /\ trail[0] = EmptyCache
    BY <1>7 DEF Build, Replay, OnTrail, Chained
  <2> QED BY <1>7, <2>1, Zenon DEF Build, UnspentAfter
<1>8. CASE RestoreOne
  <2>1. /\ pc = "restore" /\ pc' = pc /\ idx \in DOMAIN disk /\ idx' = idx + 1
        /\ UNCHANGED <<opt, disk, trail, upd, next>> /\ bodies' = bodies \cup disk[idx].txs
        /\ cache' = Apply(cache, bodies \cup disk[idx].txs, disk[idx], opt.utxoOnly)
    BY <1>8, Zenon DEF RestoreOne
  <2>2. bodies' = cache'.txids
    BY <2>1, Zenon DEF Apply
  <2>3. ASSUME opt.threshold = NoMerge
        PROVE  cache'.unspent = trail[idx + 1].unspent
    <3>1. cache = trail[idx]
      <4>1. cache \in Cache /\ trail[idx] \in Cache
        <5>1. PICK n \in Nat : Log(n) /\ idx =< n
          BY <2>1, Zenon DEF Replay, Numbered
        <5>2. idx \in DOMAIN trail
          BY <5>1 DEF Log, TypeOK
        <5> QED BY <5>2 DEF TypeOK
      <4>2. Status(cache) = Status(trail[idx])
        BY <2>1, Zenon DEF Replay, OnTrail
      <4> QED BY <2>1, <2>3, <4>1, <4>2, CacheEqual, ZenonT(30)
    <3> QED BY <2>1, <2>3, <3>1, Zenon DEF UnspentAfter
  <2> QED BY <2>1, <2>2, <2>3, Zenon DEF UnspentAfter
<1>9. CASE RestoreRefused
  BY <1>9, Zenon DEF RestoreRefused, UnspentAfter
<1>10. CASE RestoreDone
  <2>1. /\ pc = "restore" /\ next' = idx /\ UNCHANGED <<opt, cache, bodies, disk, trail, upd>>
        /\ opt.threshold = NoMerge => pc' = "addtxids"
        /\ pc' \in {"merge", "addtxids"}
    BY <1>10 DEF RestoreDone, MergeDue
  <2> QED BY <2>1, Zenon DEF UnspentAfter
<1>11. CASE AddTxids
  <2>1. /\ pc = "addtxids" /\ pc' = "idle" /\ UNCHANGED <<opt, bodies, disk, next, trail, upd>>
        /\ cache' = cache
    BY <1>11, TxidsInMemory DEF AddTxids
  <2> QED BY <2>1, Zenon DEF UnspentAfter
<1>12. CASE UNCHANGED vars
  BY <1>12, Zenon DEF vars, UnspentAfter
<1>13. CASE PutTx \/ PutTxids
  BY <1>0, <1>13, Zenon DEF PutTx, PutTxids
<1> QED BY <1>1, <1>2, <1>3, <1>4, <1>5, <1>6, <1>7, <1>8, <1>9, <1>10, <1>11, <1>12, <1>13, ZenonT(30)
        DEF Next, StoreStep

\* With the transactions kept in the updates and no merging, build() gives back
\* the very cache of the wallet that persisted them, the unspent outputs included,
\* whatever was coalesced and wherever the process stopped.
THEOREM LogRestoresCache ==
    ASSUME \A o \in Options : ~o.txsPersisted
    PROVE  Spec => []RestoresCache
<1>1. Init => TypeOK /\ Typed /\ Replay /\ Exact
  BY TypeInit, ReplayInit, ExactInit
<1>2. TypeOK /\ Typed /\ Replay /\ Exact /\ [Next]_vars
        => (TypeOK /\ Typed /\ Replay /\ Exact)'
  BY TypeNext, ReplayNext, ExactNext
<1>3. TypeOK /\ Replay /\ Exact => RestoresCache
  <2> SUFFICES ASSUME TypeOK, Replay, Exact, pc = "idle", opt.threshold = NoMerge
               PROVE  cache = trail[next]
    BY DEF RestoresCache
  <2>1. cache \in Cache /\ trail[next] \in Cache
    BY SMTT(20) DEF TypeOK, Replay, Numbered, Log
  <2>2. Status(cache) = Status(trail[next]) /\ cache.unspent = trail[next].unspent
    BY DEF Replay, OnTrail, Exact
  <2> QED BY <2>1, <2>2, CacheEqual
<1> QED BY <1>1, <1>2, <1>3, PTL DEF Spec

-----------------------------------------------------------------------------
(* What the balance is computed from.                                      *)

\* Everything utxos() and explicit_utxos() read about outpoint o is there; a
\* transaction that extend_all_txs has still to write is in the update.
Known(o, txs) == o \in cache.unblinded /\ ScriptOf[o] \in cache.scripts /\ TxOf[o] \in txs

Backed ==
    /\ ~opt.utxoOnly
    /\ pc = "puttxs" => upd \in Update
    /\ \A o \in cache.unspent :
          Known(o, bodies \cup (IF pc = "puttxs" THEN upd.txs ELSE {}))

\* Apply backs every outpoint it makes unspent by the transactions it was given.
LEMMA ApplyBacked ==
    ASSUME NEW c \in Cache, NEW u \in Update, NEW B, NEW D, B \subseteq D,
           \A o \in c.unspent :
               o \in c.unblinded /\ ScriptOf[o] \in c.scripts /\ TxOf[o] \in B,
           NEW o \in Apply(c, D, u, FALSE).unspent
    PROVE  /\ o \in Apply(c, D, u, FALSE).unblinded
           /\ ScriptOf[o] \in Apply(c, D, u, FALSE).scripts
           /\ TxOf[o] \in D
<1>. DEFINE unblinded == c.unblinded \cup u.unblinds
            scripts == c.scripts \cup u.scripts
<1>1. /\ Apply(c, D, u, FALSE).unblinded = unblinded
      /\ Apply(c, D, u, FALSE).scripts = scripts
      /\ Apply(c, D, u, FALSE).unspent
            = UpdateUnspent(c.unspent, unblinded, scripts, D, u.new, u.del)
  BY Zenon DEF Apply
<1>. HIDE DEF unblinded, scripts
<1>2. \/ o \in c.unspent
      \/ o \in unblinded /\ TxOf[o] \in D /\ ScriptOf[o] \in scripts
  BY <1>1, Zenon DEF UpdateUnspent, Readable
<1>. QED
  BY <1>1, <1>2, Zenon DEF unblinded, scripts

\* Every step of a wallet that does not take the server's list keeps Backed.
LEMMA BackedStep ==
    ASSUME TypeOK, Typed, Backed, [AnyNext]_vars
    PROVE  Backed'
<1>. USE DEF Backed
<1>0. opt.utxoOnly = FALSE
  BY Zenon DEF TypeOK, OptionSet
<1>1. ASSUME NEW u \in Update, StartApply(u)
      PROVE  Backed'
  <2>. DEFINE D == bodies \cup u.txs
  <2>1. /\ pc = "idle" /\ opt' = opt /\ upd' = u
        /\ cache' = Apply(cache, D, u, FALSE)
        /\ pc' = IF opt.txsPersisted THEN "puttxs" ELSE "persist"
        /\ bodies' = IF opt.txsPersisted THEN bodies ELSE D
    BY <1>0, <1>1, Zenon DEF StartApply, TxsInMemory
  <2>2. D = bodies' \cup (IF pc' = "puttxs" THEN upd'.txs ELSE {})
    BY <2>1, Zenon
  <2>3. \A o \in cache.unspent : o \in cache.unblinded /\ ScriptOf[o] \in cache.scripts
                                 /\ TxOf[o] \in bodies
    BY <2>1, Zenon DEF Known
  <2>4. \A o \in cache'.unspent :
            o \in cache'.unblinded /\ ScriptOf[o] \in cache'.scripts /\ TxOf[o] \in D
    <3>1. cache \in Cache /\ bodies \subseteq D
      BY ZenonT(30) DEF TypeOK
    <3>. HIDE DEF D
    <3>. QED BY <2>1, <2>3, <3>1, ApplyBacked, ZenonT(30)
  <2>. HIDE DEF D
  <2>. QED BY <2>1, <2>2, <2>4, Zenon DEF Known
<1>2. CASE PutTx
  <2>1. /\ UNCHANGED <<opt, pc, cache, upd>> /\ bodies \subseteq bodies'
    BY <1>2 DEF PutTx
  <2>. QED BY <2>1 DEF Known
<1>3. CASE PutTxids
  <2>1. /\ UNCHANGED <<opt, cache, bodies>> /\ pc = "puttxs" /\ pc' = "persist"
        /\ upd.txs \subseteq bodies
    BY <1>3 DEF PutTxids
  <2>. QED BY <2>1 DEF Known
<1>4. CASE RestoreOne
  <2>. DEFINE D == bodies \cup disk[idx].txs
  <2>1. /\ pc = "restore" /\ pc' = pc /\ opt' = opt /\ idx \in DOMAIN disk /\ bodies' = D
        /\ cache' = Apply(cache, D, disk[idx], FALSE)
    BY <1>0, <1>4, Zenon DEF RestoreOne
  <2>2. \A o \in cache.unspent : o \in cache.unblinded /\ ScriptOf[o] \in cache.scripts
                                 /\ TxOf[o] \in bodies
    BY <2>1 DEF Known
  <2>3. \A o \in cache'.unspent :
            o \in cache'.unblinded /\ ScriptOf[o] \in cache'.scripts /\ TxOf[o] \in D
    <3>1. cache \in Cache /\ bodies \subseteq D /\ disk[idx] \in Update
      BY <2>1, Zenon DEF TypeOK
    <3>. HIDE DEF D
    <3>. QED BY <2>1, <2>2, <3>1, ApplyBacked, Zenon
  <2>. HIDE DEF D
  <2>. QED BY <2>1, <2>3, Zenon DEF Known
<1>5. CASE AddTxids
  <2>1. /\ pc = "addtxids" /\ pc' = "idle" /\ UNCHANGED <<opt, bodies>>
        /\ cache'.unspent = cache.unspent /\ cache'.unblinded = cache.unblinded
        /\ cache'.scripts = cache.scripts
    BY <1>5 DEF AddTxids, WithTxids, TypeOK, Cache
  <2>. QED BY <2>1 DEF Known
<1>6. CASE Crash
  BY <1>6, Zenon DEF Crash, EmptyCache
<1>7. CASE PersistCoalesced \/ PersistNew \/ MergeOne \/ MergeRead \/ RemoveOne
           \/ StoreMerged \/ Build \/ RestoreRefused \/ RestoreDone
  <2>1. UNCHANGED <<opt, cache, bodies>> /\ pc # "puttxs" /\ pc' # "puttxs"
    BY <1>7, Zenon DEF PersistCoalesced, PersistNew, MergeOne, MergeRead, RemoveOne,
                StoreMerged, AfterMerge, Build, RestoreRefused, RestoreDone
  <2>. QED BY <2>1, Zenon DEF Known
<1>8. CASE UNCHANGED vars
  BY <1>8, Zenon DEF vars, Known
<1>. QED BY <1>1, <1>2, <1>3, <1>4, <1>5, <1>6, <1>7, <1>8, Zenon DEF AnyNext, StoreStep

\* A fresh wallet has no unspent outpoint.
LEMMA BackedInit ==
    ASSUME Init, \A o \in Options : ~o.utxoOnly
    PROVE  Backed
<1>1. ~opt.utxoOnly
  BY DEF Init
<1>2. pc # "puttxs"
  BY SMTT(20) DEF Init
<1>3. cache.unspent = {}
  BY DEF Init, EmptyCache
<1> QED BY <1>1, <1>2, <1>3 DEF Backed

\* Whatever updates the caller applies, whatever the stores are and wherever the
\* process stops, utxos(), explicit_utxos() and balance() find the secrets, the
\* index and the transaction of every unspent outpoint, unless the wallet takes
\* its unspent outpoints from the server's list (utxo_only).
THEOREM BalanceIsComputable ==
    ASSUME \A o \in Options : ~o.utxoOnly
    PROVE  Spec => []BalanceComputable
<1>1. Init => TypeOK /\ Typed /\ Backed
  <2>1. Init => Backed
    BY BackedInit
  <2>. QED BY <2>1, TypeInit
<1>2. TypeOK /\ Typed /\ Backed /\ [Next]_vars => (TypeOK /\ Typed /\ Backed)'
  BY NextIsAny, TypeStep, BackedStep
<1>3. Backed => BalanceComputable
  BY DEF Backed, BalanceComputable, Known
<1>. QED BY <1>1, <1>2, <1>3, PTL DEF Spec

=============================================================================
