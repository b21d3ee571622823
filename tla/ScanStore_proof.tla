--------------------------- MODULE ScanStore_proof ---------------------------
(***************************************************************************)
(* A wallet that follows a server and keeps its transactions in the        *)
(* updates.  While the server stands still during a scan, what is applied  *)
(* is what coalescing relies on, so the composition implements module      *)
(* Wollet and inherits what is proved there; and the transaction of every  *)
(* unspent output stays in the wallet's history.                           *)
(***************************************************************************)
EXTENDS FullScan_proof

-----------------------------------------------------------------------------
(* The updates of the scans and of the caller are the ones coalescing      *)
(* relies on, so the composition implements the wallet.                    *)

\* The server stands still while a scan reads it, the transactions are kept in
\* the updates, and what the caller builds has a confidential output of its own.
Quiet ==
    /\ ~MidScan
    /\ \A o \in Options : ~o.txsPersisted
    /\ \A t \in Built : t \notin Explicit /\ \E o \in OutPoint : TxOf[o] = t

NoneUsed(u) == \A ch \in Chain : u.lastUnused[ch] = 0

\* The indexes of an update without transactions are those of the history it
\* was made on; merged ones start from an empty history.
DiskGrounded ==
    /\ \A i \in DOMAIN disk : Bare(disk[i]) => Grounded(disk[i].lastUnused, trail[i].heights)
    /\ pc = "persist" /\ Bare(upd) => Grounded(upd.lastUnused, trail[next].heights)
    /\ pc = "merge" /\ idx > 0 /\ Bare(merged) =>
        trail[idx].heights = NoHeights /\ NoneUsed(merged)
    /\ pc = "remove" /\ Bare(merged) => NoneUsed(merged)

\* Without transactions the heights stay.
LEMMA BareHeights ==
    ASSUME NEW s \in StatusSet, NEW u \in Update, Bare(u)
    PROVE  ApplyStatus(s, u).heights = s.heights
<1>1. s.heights \in HeightMap /\ u.new \in HeightMap /\ u.del = {} /\ Keys(u.new) = {}
  BY DEF StatusSet, Update, Bare
<1>2. \A t \in Tx : u.new[t] = Absent
  BY <1>1 DEF Keys, HeightMap
<1>3. UpdateHeights(s.heights, u.new, {}) = s.heights
  BY <1>1, <1>2 DEF UpdateHeights, Extend, Without, HeightMap
<1>. QED BY <1>1, <1>3 DEF ApplyStatus

\* Two updates merge into one without transactions only if neither has any.
LEMMA BareMerge ==
    ASSUME NEW u \in Update, NEW v \in Update, Bare(Merge(u, v))
    PROVE  /\ Bare(u) /\ Bare(v)
           /\ NoneUsed(u) /\ NoneUsed(v) => NoneUsed(Merge(u, v))
<1>1. /\ u.new \in HeightMap /\ v.new \in HeightMap
      /\ u.txs \cup v.txs = {} /\ u.unblinds \cup v.unblinds = {}
      /\ u.del \cup v.del = {} /\ u.scripts \cup v.scripts = {}
      /\ Keys(Extend(Without(u.new, v.del), v.new)) = {}
  BY DEF Merge, Bare, Update
<1>2. \A t \in Tx : u.new[t] = Absent /\ v.new[t] = Absent
  BY <1>1, Zenon DEF Keys, Extend, Without, HeightMap
<1>3. Keys(u.new) = {} /\ Keys(v.new) = {}
  BY <1>1, <1>2 DEF Keys, HeightMap
<1>4. NoneUsed(u) /\ NoneUsed(v) => NoneUsed(Merge(u, v))
  BY DEF NoneUsed, Merge, MaxOf
<1>. QED BY <1>1, <1>3, <1>4, SMTT(20) DEF Bare

\* No script is used in an empty history.
LEMMA GroundedEmpty ==
    ASSUME NEW u, Grounded(u.lastUnused, NoHeights)
    PROVE  NoneUsed(u)
BY DEF Grounded, NoneUsed, UsedIn, NoHeights

\* The heights are part of the status.
LEMMA HeightsOfStatus ==
    ASSUME NEW c, NEW d, Status(c) = Status(d)
    PROVE  c.heights = d.heights /\ c.lastUnused = d.lastUnused
BY DEF Status

\* An update on disk without transactions leaves the heights of the trail.
LEMMA BareOnTrail ==
    ASSUME TypeOK, Replay, NEW i \in DOMAIN disk, Bare(disk[i])
    PROVE  trail[i + 1].heights = trail[i].heights
<1>1. disk[i] \in Update
  BY DEF TypeOK
<1>2. trail[i] \in Cache
  <2>1. i \in DOMAIN trail
    BY DEF Replay, Numbered, Log
  <2>. QED BY <2>1 DEF TypeOK
<1>3. Status(trail[i + 1]) = ApplyStatus(Status(trail[i]), disk[i])
  BY DEF Replay, Chained
<1>4. ApplyStatus(Status(trail[i]), disk[i]).heights = Status(trail[i]).heights
  BY <1>1, <1>2, BareHeights, StatusType, SMTT(20)
<1>. QED BY <1>3, <1>4 DEF Status

\* A scan of a server that stood still does not lower an index that the previous
\* update raised when neither brings a transaction.
LEMMA PendingFollows ==
    ASSUME Sound, Replay, DiskGrounded, ~MidScan, ApplyPending
    PROVE  Follows(pending)
<1>1. /\ pending \in Update /\ pending # NoUpdate /\ pending.tip # NoBlock /\ pc = "idle"
      /\ pending.status = Status(cache)
  BY DEF ApplyPending, Sound, ScanTyped, StartApply, Applicable, SameStatus
<1>. SUFFICES ASSUME CanCoalesce(pending), NEW ch \in Chain
              PROVE  pending.lastUnused[ch] >= disk[next - 1].lastUnused[ch]
  BY <1>1 DEF Follows
<1>. DEFINE i == next - 1
            d == disk[i]
<1>2. /\ Bare(pending) /\ Bare(d) /\ i \in DOMAIN disk /\ d \in Update
  BY DEF CanCoalesce, OnlyTip, Bare, Sound, TypeOK
<1>3. next \in Nat /\ i + 1 = next
  BY DEF CanCoalesce, Sound, TypeOK
<1>4. Status(cache) = Status(trail[next])
  BY <1>1 DEF Replay, OnTrail
<1>5. Grounded(d.lastUnused, trail[i].heights)
  BY <1>2 DEF DiskGrounded
<1>6. trail[next].heights = trail[i].heights
  BY <1>2, <1>3, BareOnTrail, SMTT(20) DEF Sound
<1>7. pending.status.heights = trail[i].heights /\ pending.status.lastUnused = trail[next].lastUnused
  BY <1>1, <1>4, <1>6, SMTT(20) DEF Status
<1>8. trail[next].lastUnused = [c \in Chain |-> MaxOf(trail[i].lastUnused[c], d.lastUnused[c])]
  <2>1. Status(trail[i + 1]) = ApplyStatus(Status(trail[i]), d)
    BY <1>2 DEF Replay, Chained
  <2>. QED BY <1>3, <2>1, SMTT(20) DEF Status, ApplyStatus
<1>9. Keeps(pending)
  BY <1>1, <1>2, SMTT(20) DEF Sound, PendingInv
<1>10. d.lastUnused[ch] \in Nat /\ pending.lastUnused[ch] \in Nat /\ trail[i].lastUnused[ch] \in Nat
  <2>1. i \in DOMAIN trail
    BY <1>2 DEF Replay, Numbered, Log
  <2>2. trail[i] \in Cache
    BY <2>1 DEF Sound, TypeOK
  <2>. QED BY <1>1, <1>2, <2>2, SMTT(20) DEF Update, Cache, IndexMap
<1>11. CASE d.lastUnused[ch] = 0
  BY <1>10, <1>11
<1>12. ASSUME NEW s \in Script, Scanned(ch), ChainOf[s] = ch,
              d.lastUnused[ch] = IndexOf[s] + 1, UsedIn(trail[i].heights, s)
       PROVE  pending.lastUnused[ch] >= d.lastUnused[ch]
  <2>. HIDE DEF d, i
  <2>1. IndexOf[s] \in Nat
    BY TxAssumption
  <2>2. IndexOf[s] < trail[next].lastUnused[ch]
    BY <1>8, <1>10, <1>12, <2>1, SMTT(20) DEF MaxOf
  <2>3. pending.lastUnused[ch] > IndexOf[s]
    BY <1>7, <1>9, <1>12, <2>2, Zenon DEF Keeps
  <2>. QED BY <1>10, <1>12, <2>1, <2>3, SMTT(20)
<1>. QED BY <1>5, <1>11, <1>12 DEF Grounded

\* What the caller applies on its own is never an update of the tip only.
LEMMA LocalFollows ==
    ASSUME TypeOK, Quiet, NEW t \in Tx
    PROVE  /\ ~OnlyTip(TransactionUpdate(cache, t, opt.utxoOnly))
           /\ ~Bare(TransactionUpdate(cache, t, opt.utxoOnly))
           /\ t \in Built => ~OnlyTip(BlinderUpdate(cache, t)) /\ ~Bare(BlinderUpdate(cache, t))
<1>1. TransactionUpdate(cache, t, opt.utxoOnly).txs = {t}
  BY DEF TransactionUpdate
<1>2. t \in Built => BlinderUpdate(cache, t).unblinds # {}
  BY DEF BlinderUpdate, Quiet
<1>. QED BY <1>1, <1>2, Zenon DEF OnlyTip, Bare

\* Every step of the composition is a step of the wallet, or leaves it alone.
LEMMA ImplementsStep ==
    ASSUME Sound, Replay, DiskGrounded, Quiet, [NextAll]_allVars
    PROVE  [Next]_vars
<1>1. TypeOK /\ ScanTyped
  BY DEF Sound
<1>2. ASSUME ApplyPending, pending \in Update, StartApply(pending)
      PROVE  \E u \in Update : Follows(u) /\ StartApply(u)
  BY <1>2, PendingFollows DEF Quiet
<1>3. ASSUME NEW t \in Local, TransactionUpdate(cache, t, opt.utxoOnly) \in Update,
             LocalTransaction(t)
      PROVE  \E u \in Update : Follows(u) /\ StartApply(u)
  <2>1. Follows(TransactionUpdate(cache, t, opt.utxoOnly))
    BY <1>1, CallerAssumption, LocalFollows DEF Follows, CanCoalesce
  <2>. QED BY <1>3, <2>1 DEF LocalTransaction, ApplyTransaction
<1>4. ASSUME NEW t \in Built, BlinderUpdate(cache, t) \in Update, LocalBlinder(t)
      PROVE  \E u \in Update : Follows(u) /\ StartApply(u)
  <2>1. Follows(BlinderUpdate(cache, t))
    BY <1>1, CallerAssumption, LocalFollows DEF Follows, CanCoalesce
  <2>. QED BY <1>4, <2>1 DEF LocalBlinder, ApplyBlinder
<1>. QED BY <1>1, <1>2, <1>3, <1>4, WalletMoves, Zenon DEF Next

\* Coalescing, persisting and merging keep the indexes grounded.
LEMMA GroundedStore ==
    ASSUME TypeOK, Typed, Replay, DiskGrounded, StoreStep
    PROVE  DiskGrounded'
<1>0. ~opt.txsPersisted /\ pc # "puttxs"
  BY DEF Replay, InMemory
<1>1. CASE PersistCoalesced
  <2>1. /\ pc = "persist" /\ pc' = "idle" /\ next' = next /\ next > 0
        /\ OnlyTip(upd) /\ OnlyTip(disk[next - 1])
        /\ disk' = [disk EXCEPT ![next - 1] = Coalesce(disk[next - 1], upd)]
        /\ trail' = [trail EXCEPT ![next] = cache]
    BY <1>1 DEF PersistCoalesced, CanCoalesce
  <2>2. /\ Log(next) /\ next \in Nat /\ next - 1 \in DOMAIN disk /\ upd \in Update
        /\ (next - 1) + 1 = next
    BY <2>1 DEF Replay, Numbered, TypeOK, Log, Typed
  <2>3. ASSUME NEW i \in DOMAIN disk', Bare(disk'[i])
        PROVE  Grounded(disk'[i].lastUnused, trail'[i].heights)
    <3>1. i \in DOMAIN disk /\ i \in 0..(next - 1)
      BY <2>1, <2>2, <2>3 DEF Log
    <3>2. trail'[i] = trail[i]
      BY <2>1, <2>2, <3>1 DEF Log
    <3>3. CASE i = next - 1
      <4>1. disk'[i] = Coalesce(disk[next - 1], upd)
        BY <2>1, <2>2, <3>3
      <4>2. disk'[i].lastUnused = upd.lastUnused
        BY <2>2, <4>1, Zenon DEF Coalesce, Update
      <4>3. Grounded(upd.lastUnused, trail[next].heights)
        BY <2>1, Zenon DEF DiskGrounded, OnlyTip, Bare
      <4>4. Bare(disk[next - 1])
        BY <2>1 DEF OnlyTip, Bare
      <4>5. trail[(next - 1) + 1].heights = trail[next - 1].heights
        BY <2>2, <4>4, BareOnTrail, SMTT(20)
      <4>. QED BY <2>2, <3>2, <3>3, <4>2, <4>3, <4>5, ZenonT(30)
    <3>4. CASE i # next - 1
      <4>1. disk'[i] = disk[i]
        BY <2>1, <2>2, <3>1, <3>4, ZenonT(30)
      <4>. QED BY <2>3, <3>1, <3>2, <4>1 DEF DiskGrounded
    <3>. QED BY <3>3, <3>4, SMTT(20)
  <2>. QED BY <2>1, <2>3 DEF DiskGrounded
<1>2. CASE PersistNew
  <2>1. /\ pc = "persist" /\ pc' \in {"idle", "merge"} /\ (pc' = "merge" => idx' = 0)
    BY <1>2 DEF PersistNew
  <2>2. Log(next) /\ next \in Nat /\ Stored(upd) = upd
    BY <1>0, <2>1, StoredType, SMTT(20) DEF Replay, Numbered, TypeOK, Typed
  <2>3. /\ DOMAIN disk' = 0..next /\ disk'[next] = upd
        /\ \A i \in 0..(next - 1) : disk'[i] = disk[i]
        /\ \A i \in 0..next : trail'[i] = trail[i]
    BY <1>2, <2>2 DEF PersistNew, Put, Log
  <2>4. ASSUME NEW i \in DOMAIN disk', Bare(disk'[i])
        PROVE  Grounded(disk'[i].lastUnused, trail'[i].heights)
    <3>1. CASE i = next
      <4>1. disk'[i] = upd /\ trail'[i] = trail[next]
        BY <2>2, <2>3, <3>1, ZenonT(30)
      <4>. QED BY <2>1, <2>4, <4>1 DEF DiskGrounded
    <3>2. CASE i # next
      <4>1. i \in DOMAIN disk /\ disk'[i] = disk[i] /\ trail'[i] = trail[i]
        BY <2>2, <2>3, <2>4, <3>2 DEF Log
      <4>. QED BY <2>4, <4>1 DEF DiskGrounded
    <3>. QED BY <3>1, <3>2, SMTT(20)
  <2>5. ~(pc' = "merge" /\ idx' > 0)
    BY <2>1
  <2>. QED BY <2>1, <2>4, <2>5, SMTT(20) DEF DiskGrounded
<1>3. CASE MergeOne
  <2>1. /\ pc = "merge" /\ idx < next /\ idx \in DOMAIN disk /\ idx \in Nat
        /\ merged' = IF idx = 0 THEN disk[0] ELSE Merge(merged, disk[idx])
        /\ idx' = idx + 1 /\ UNCHANGED <<pc, disk, trail>>
    BY <1>3, SMTT(20) DEF MergeOne, TypeOK
  <2>2. disk[idx] \in Update /\ trail[0] = EmptyCache
    BY <2>1 DEF TypeOK, Replay, Chained
  <2>3. ASSUME Bare(merged')
        PROVE  trail[idx + 1].heights = NoHeights /\ NoneUsed(merged')
    <3>1. CASE idx = 0
      <4>1. merged' = disk[0] /\ trail[0].heights = NoHeights
        BY <2>1, <2>2, <3>1, SMTT(20) DEF EmptyCache
      <4>2. trail[0 + 1].heights = trail[0].heights
        BY <2>1, <2>3, <3>1, <4>1, BareOnTrail, SMTT(20)
      <4>3. Grounded(disk[0].lastUnused, NoHeights)
        BY <2>1, <2>3, <3>1, <4>1, SMTT(20) DEF DiskGrounded
      <4>. QED BY <3>1, <4>1, <4>2, <4>3, GroundedEmpty, ZenonT(30)
    <3>2. CASE idx # 0
      <4>1. merged' = Merge(merged, disk[idx]) /\ idx > 0
        BY <2>1, <3>2, SMTT(20)
      <4>2. merged \in Update
        BY <2>1, <4>1 DEF Replay, OnTrail, Leads
      <4>3. /\ Bare(merged) /\ Bare(disk[idx])
            /\ NoneUsed(merged) /\ NoneUsed(disk[idx]) => NoneUsed(Merge(merged, disk[idx]))
        BY <2>2, <2>3, <4>1, <4>2, BareMerge, ZenonT(30)
      <4>4. trail[idx].heights = NoHeights /\ NoneUsed(merged)
        BY <2>1, <4>1, <4>3, SMTT(20) DEF DiskGrounded
      <4>5. Grounded(disk[idx].lastUnused, NoHeights)
        BY <2>1, <4>3, <4>4 DEF DiskGrounded
      <4>6. trail[idx + 1].heights = trail[idx].heights
        BY <2>1, <4>3, BareOnTrail, ZenonT(30)
      <4>. QED BY <4>1, <4>3, <4>4, <4>5, <4>6, GroundedEmpty, SMTT(20)
    <3>. QED BY <3>1, <3>2
  <2>. QED BY <2>1, <2>3, SMTT(20) DEF DiskGrounded
<1>4. CASE MergeRead
  <2>1. /\ pc = "merge" /\ pc' = "remove" /\ idx = next
        /\ UNCHANGED <<disk, trail, merged>>
    BY <1>4 DEF MergeRead
  <2>2. idx > 0
    BY <2>1, ZenonT(30) DEF Replay, OnTrail
  <2>. QED BY <2>1, <2>2 DEF DiskGrounded, NoneUsed
<1>5. CASE RemoveOne
  <2>1. /\ pc = "remove" /\ pc' = "remove" /\ merged' = merged /\ idx > 0 /\ idx \in Nat
        /\ disk' = [j \in DOMAIN disk \ {idx - 1} |-> disk[j]]
        /\ trail' = [j \in DOMAIN trail \ {idx} |-> trail[j]]
    BY <1>5 DEF RemoveOne, TypeOK
  <2>2. Log(idx)
    BY <2>1 DEF Replay, Numbered
  <2>3. \A i \in DOMAIN disk' : i \in DOMAIN disk /\ disk'[i] = disk[i] /\ trail'[i] = trail[i]
    BY <2>1, <2>2, SMTT(20) DEF Log
  <2>. QED BY <2>1, <2>3, SMTT(20) DEF DiskGrounded, NoneUsed
<1>6. CASE StoreMerged
  <2>1. /\ pc = "remove" /\ idx = 0 /\ pc' \in {"idle", "addtxids"}
        /\ disk' = Put(0, merged)
        /\ trail' = [j \in {0, 1} |-> IF j = 1 THEN cache ELSE trail[0]]
    BY <1>6, TxidsInMemory DEF StoreMerged, AfterMerge
  <2>2. Log(0) /\ 0..(0 - 1) = {}
    BY <2>1 DEF Replay, Numbered
  <2>3. DOMAIN disk' = {0} /\ disk'[0] = merged /\ trail'[0] = trail[0]
    BY <2>1, <2>2, SMTT(20) DEF Put, Log
  <2>4. Bare(merged) => Grounded(merged.lastUnused, trail[0].heights)
    BY <2>1 DEF DiskGrounded, NoneUsed, Grounded
  <2>. QED BY <2>1, <2>3, <2>4 DEF DiskGrounded
<1>7. CASE Build \/ RestoreOne \/ RestoreRefused \/ AddTxids
  <2>1. UNCHANGED <<disk, trail>> /\ pc' \notin {"persist", "merge", "remove"}
    BY <1>7 DEF Build, RestoreOne, RestoreRefused, AddTxids
  <2>. QED BY <2>1 DEF DiskGrounded
<1>8. CASE RestoreDone
  <2>1. UNCHANGED <<disk, trail>> /\ pc' \notin {"persist", "remove"} /\ (pc' = "merge" => idx' = 0)
    BY <1>8 DEF RestoreDone
  <2>. QED BY <2>1 DEF DiskGrounded
<1>9. CASE PutTx \/ PutTxids
  BY <1>0, <1>9 DEF PutTx, PutTxids
<1>. QED BY <1>1, <1>2, <1>3, <1>4, <1>5, <1>6, <1>7, <1>8, <1>9, ZenonT(30) DEF StoreStep

\* Every step of the composition keeps the indexes on disk grounded.
LEMMA DiskGroundedNext ==
    ASSUME Sound, Replay, DiskGrounded, Quiet, [NextAll]_allVars
    PROVE  DiskGrounded'
<1>. USE DEF Sound
<1>1. ASSUME NEW u \in Update, StartApply(u),
             Bare(u) => Grounded(u.lastUnused, u.status.heights)
      PROVE  DiskGrounded'
  <2>1. /\ pc = "idle" /\ pc' \in {"puttxs", "persist"} /\ upd' = u
        /\ u.status = Status(cache) /\ UNCHANGED <<disk, trail, next>>
    BY <1>1 DEF StartApply, Applicable, SameStatus
  <2>2. u.status.heights = trail[next].heights
    <3>1. Status(cache) = Status(trail[next])
      BY <2>1, SMTT(20) DEF Replay, OnTrail
    <3>2. u.status.heights = cache.heights
      BY <2>1 DEF Status
    <3>. QED BY <3>1, <3>2, HeightsOfStatus, SMTT(20)
  <2>. QED BY <1>1, <2>1, <2>2, ZenonT(30) DEF DiskGrounded
<1>2. ASSUME ApplyPending, pending \in Update, StartApply(pending)
      PROVE  DiskGrounded'
  BY <1>1, <1>2 DEF PendingInv, ApplyPending
<1>3. ASSUME NEW t \in Local, TransactionUpdate(cache, t, opt.utxoOnly) \in Update,
             LocalTransaction(t)
      PROVE  DiskGrounded'
  BY <1>1, <1>3, CallerAssumption, LocalFollows, Zenon DEF LocalTransaction, ApplyTransaction
<1>4. ASSUME NEW t \in Built, BlinderUpdate(cache, t) \in Update, LocalBlinder(t)
      PROVE  DiskGrounded'
  BY <1>1, <1>4, CallerAssumption, LocalFollows, ZenonT(30) DEF LocalBlinder, ApplyBlinder
<1>5. CASE Crash
  BY <1>5, SMTT(20) DEF Crash, DiskGrounded
<1>6. CASE UNCHANGED vars
  BY <1>6 DEF vars, DiskGrounded, NoneUsed
<1>. QED BY <1>2, <1>3, <1>4, <1>5, <1>6, GroundedStore, WalletMoves, Zenon

\* What the composition keeps, and the steps of the wallet it takes.
LEMMA QuietInvariant ==
    ASSUME Quiet
    PROVE  /\ InitAll => Sound /\ Replay /\ DiskGrounded
           /\ Sound /\ Replay /\ DiskGrounded /\ [NextAll]_allVars
                => (Sound /\ Replay /\ DiskGrounded)' /\ [Next]_vars
<1>1. InitAll => Sound
  BY ScanInit DEF Sound
<1>2. InitAll => Replay
  <2>1. InitAll => Init
    BY DEF InitAll
  <2>. QED BY <2>1, ReplayInit DEF Quiet
<1>3. InitAll => DiskGrounded
  BY DEF InitAll, Init, DiskGrounded
<1>4. ASSUME Sound, Replay, DiskGrounded, [NextAll]_allVars
      PROVE  (Sound /\ Replay /\ DiskGrounded)' /\ [Next]_vars
  <2>1. [Next]_vars
    BY <1>4, ImplementsStep
  <2>. QED BY <1>4, <2>1, SoundNext, ReplayNext, DiskGroundedNext, SMTT(20) DEF Sound
<1>. QED BY <1>1, <1>2, <1>3, <1>4, SMTT(20)

\* A wallet that follows a server which stands still while it is read behaves as
\* the wallet of module Wollet does under a caller whose updates Follow.
THEOREM ScanImplementsWollet ==
    ASSUME Quiet
    PROVE  SpecAll => Spec
<1>1. InitAll => Init
  BY DEF InitAll
<1>. QED BY <1>1, QuietInvariant, PTL DEF SpecAll, Spec

\* persist coalesces only an update with a tip that does not lower the last
\* unused indexes of the update it overwrites.
THEOREM ScansCoalesceForward ==
    ASSUME Quiet
    PROVE  SpecAll => []CoalescesForward
<1>1. Replay => CoalescesForward
  BY DEF Replay, OnTrail, CoalescesForward
<1>. QED BY <1>1, QuietInvariant, PTL DEF SpecAll

\* Reopening a wallet that follows a server gives back its status, and its whole
\* cache when updates are not merged.
THEOREM ScannedWalletRestores ==
    ASSUME Quiet
    PROVE  SpecAll => [](RestoresStatus /\ RestoresCache)
<1>1. \A o \in Options : ~o.txsPersisted
  BY DEF Quiet
<1>2. Spec => []RestoresStatus
  BY <1>1, ReplayRestoresStatus
<1>3. Spec => []RestoresCache
  BY <1>1, LogRestoresCache
<1>. QED BY <1>2, <1>3, ScanImplementsWollet, PTL

\* A wallet that follows a server can be opened again, unless coalescing made an
\* update that lowers the tip by more than a block.
THEOREM ScannedWalletReopens ==
    ASSUME Quiet
    PROVE  SpecAll => []Reopens
<1>1. \A o \in Options : ~o.txsPersisted
  BY DEF Quiet
<1>2. Spec => []Reopens
  BY <1>1, LogReopens
<1>. QED BY <1>2, ScanImplementsWollet, PTL

-----------------------------------------------------------------------------
(* The transaction of every unspent output is in the wallet's history.     *)

\* The heights an update leads to, from the status it was made on.
Result(u) == UpdateHeights(u.status.heights, u.new, u.del)

\* A history with a transaction has the ones whose wallet outputs it spends.
Closed(h) == \A t \in Keys(h) : \A o \in Spends[t] : TxOf[o] \in Keys(h)

\* An update that deletes a transaction deletes or keeps the ones it spent from.
Kept(u) == \A t \in u.del : \A o \in Spends[t] : TxOf[o] \in u.del \cup Keys(Result(u))

InHistory ==
    /\ Closed(server.heights)
    /\ scan.pc # "off" => Closed(scan.snap.heights)
    /\ pending # NoUpdate => Closed(Result(pending)) /\ Kept(pending)
    /\ \A i \in DOMAIN trail : Closed(trail[i].heights)
    /\ \A i \in DOMAIN disk : Kept(disk[i])
    /\ pc = "persist" => Kept(upd)
    /\ pc = "merge" /\ idx > 0 => Kept(merged)
    /\ pc = "remove" => Kept(merged)
    /\ Closed(cache.heights)
    /\ \A o \in cache.unspent : TxOf[o] \in Keys(cache.heights)

\* The keys of the heights an update leads to.
LEMMA ResultKeys ==
    ASSUME NEW h \in HeightMap, NEW n \in HeightMap, NEW d \in SUBSET Tx
    PROVE  Keys(UpdateHeights(h, n, d)) = (Keys(h) \ d) \cup Keys(n)
BY Zenon DEF UpdateHeights, Extend, Without, Keys, HeightMap

\* The history of a server that drops a transaction with all its descendants.
LEMMA DescendantsClosed ==
    ASSUME NEW T \in SUBSET Tx, NEW x \in Tx, OnServer(x), x \notin Descendants(T),
           NEW o \in Spends[x]
    PROVE  TxOf[o] \notin Descendants(T)
<1>1. PICK S \in SUBSET Tx : /\ T \subseteq S /\ x \notin S
                             /\ \A y \in Tx : OnServer(y) /\ Parents(y) \cap S # {} => y \in S
  BY DEF Descendants
<1>2. TxOf[o] \in Parents(x)
  BY DEF Parents
<1>3. TxOf[o] \notin S
  BY <1>1, <1>2, Zenon
<1>. QED BY <1>1, <1>3, SMTT(20) DEF Descendants

\* Whatever the server does, it has the parents of every transaction it has.
LEMMA ServerClosed ==
    ASSUME ServerTyped, Closed(server.heights), ServerStep
    PROVE  Closed(server'.heights)
<1>1. server.heights \in HeightMap
  BY DEF ServerTyped
<1>2. \A t \in Tx : t \in Keys(server.heights) <=> OnServer(t)
  BY <1>1 DEF Keys, OnServer, HeightMap
<1>3. \A t \in Tx : \A o \in Spends[t] : TxOf[o] \in Tx
  BY TxAssumption, Zenon
<1>4. ASSUME NEW T \in SUBSET Tx, NEW x \in Tx, OnServer(x), x \notin Descendants(T), NEW o \in Spends[x]
      PROVE  OnServer(TxOf[o]) /\ TxOf[o] \notin Descendants(T)
  BY <1>2, <1>3, <1>4, DescendantsClosed, Zenon DEF Closed
<1>5. ASSUME NEW t \in Tx, Broadcast(t)
      PROVE  Closed(server'.heights)
  <2>. DEFINE T == {x \in Conflicts(t) : OnServer(x)}
              gone == Descendants(T)
  <2>1. /\ \A p \in Parents(t) : OnServer(p) /\ p \notin gone
        /\ server'.heights = [Without(server.heights, gone) EXCEPT ![t] = Unconf]
    <3>1. server' = [server EXCEPT !.heights = [Without(@, gone) EXCEPT ![t] = Unconf]]
      BY <1>5 DEF Broadcast
    <3>2. \A p \in Parents(t) : OnServer(p) /\ p \notin gone
      BY <1>5 DEF Broadcast
    <3>. QED BY <3>1, <3>2 DEF ServerTyped
  <2>2. T \in SUBSET Tx
    BY DEF Conflicts
  <2>. HIDE DEF gone, T
  <2>3. \A x \in Tx : x \in Keys(server'.heights) <=> x = t \/ (OnServer(x) /\ x \notin gone)
    BY <1>1, <2>1, HeightAssumption, Zenon DEF Without, Keys, OnServer, HeightMap
  <2>4. DOMAIN server'.heights = Tx
    BY <1>1, <2>1, Zenon DEF Without, HeightMap
  <2>5. ASSUME NEW x \in Keys(server'.heights), NEW o \in Spends[x]
        PROVE  TxOf[o] \in Keys(server'.heights)
    <3>1. x \in Tx /\ TxOf[o] \in Tx
      BY <1>3, <2>4, Zenon DEF Keys
    <3>2. CASE x = t
      <4>1. TxOf[o] \in Parents(t)
        BY <3>2 DEF Parents
      <4>. QED BY <2>1, <2>3, <3>1, <4>1, ZenonT(30)
    <3>3. CASE OnServer(x) /\ x \notin gone
      BY <1>4, <2>2, <2>3, <3>1, <3>3, ZenonT(30) DEF gone
    <3>. QED BY <2>3, <3>1, <3>2, <3>3
  <2>. QED BY <2>5 DEF Closed
<1>6. ASSUME NEW t \in Tx, Evict(t)
      PROVE  Closed(server'.heights)
  <2>. DEFINE gone == Descendants({t})
  <2>1. server'.heights = Without(server.heights, gone)
    BY <1>6, SMTT(20) DEF Evict, ServerTyped
  <2>2. \A x \in Tx : x \in Keys(server'.heights) <=> OnServer(x) /\ x \notin gone
    BY <1>1, <2>1 DEF Without, Keys, OnServer, HeightMap
  <2>3. DOMAIN server'.heights = Tx
    BY <1>1, <2>1, Zenon DEF Without, HeightMap
  <2>4. ASSUME NEW x \in Keys(server'.heights), NEW o \in Spends[x]
        PROVE  TxOf[o] \in Keys(server'.heights)
    <3>1. x \in Tx /\ TxOf[o] \in Tx
      BY <1>3, <2>3, SMTT(20) DEF Keys
    <3>. QED BY <1>4, <2>2, <3>1, ZenonT(30)
  <2>. QED BY <2>4 DEF Closed
<1>7. ASSUME Keys(server'.heights) = Keys(server.heights)
      PROVE  Closed(server'.heights)
  BY <1>7 DEF Closed
<1>8. ASSUME NEW T \in SUBSET Tx, NEW f \in Fork, Mine(T, f)
      PROVE  Keys(server'.heights) = Keys(server.heights)
  <2>1. PICK h \in Height : server'.heights = [t \in Tx |-> IF t \in T THEN h ELSE server.heights[t]]
    BY <1>8, ZenonT(30) DEF Mine
  <2>2. \A t \in T : server.heights[t] # Absent
    BY <1>8, HeightAssumption DEF Mine, InMempool
  <2>. QED BY <1>1, <2>1, <2>2, HeightAssumption, Zenon DEF Keys, HeightMap
<1>9. ASSUME Disconnect
      PROVE  Keys(server'.heights) = Keys(server.heights)
  <2>1. PICK h \in Height : server'.heights = [t \in Tx |-> IF server.heights[t] = h THEN Unconf
                                                           ELSE server.heights[t]]
    <3>1. TipHeight(server) \in Height
      <4>1. PICK n \in Nat : Keys(server.blocks) = 0..n
        BY Zenon DEF ServerTyped
      <4>. QED BY <4>1, TipTyped
    <3>. QED BY <1>9, <3>1 DEF Disconnect
  <2>. QED BY <1>1, <2>1, HeightAssumption, ZenonT(30) DEF Keys, HeightMap
<1>. QED BY <1>5, <1>6, <1>7, <1>8, <1>9, Zenon DEF ServerStep

\* An applied update keeps the transaction of every unspent output in history.
LEMMA ApplyInHistory ==
    ASSUME NEW c \in Cache, NEW u \in Update, NEW B, Kept(u), u.status = Status(c),
           \A o \in c.unspent : TxOf[o] \in Keys(c.heights)
    PROVE  /\ Apply(c, B, u, FALSE).heights = Result(u)
           /\ \A o \in Apply(c, B, u, FALSE).unspent : TxOf[o] \in Keys(Result(u))
<1>. DEFINE unblinded == c.unblinded \cup u.unblinds
            scripts == c.scripts \cup u.scripts
<1>1. u.status.heights = c.heights /\ c.heights \in HeightMap /\ u.new \in HeightMap
      /\ u.del \in SUBSET Tx
  <2>1. Status(c).heights = c.heights
    BY DEF Status
  <2>2. c.heights \in HeightMap
    BY Zenon DEF Cache
  <2>3. u.new \in HeightMap /\ u.del \in SUBSET Tx
    BY Zenon DEF Update
  <2>. QED BY <2>1, <2>2, <2>3, ZenonT(30)
<1>2. Apply(c, B, u, FALSE).heights = Result(u)
  <2>1. Apply(c, B, u, FALSE).heights = UpdateHeights(c.heights, u.new, u.del)
    BY Zenon DEF Apply
  <2>. QED BY <1>1, <2>1, Zenon DEF Result
<1>3. Apply(c, B, u, FALSE).unspent = UpdateUnspent(c.unspent, unblinded, scripts, B, u.new, u.del)
  BY Zenon DEF Apply
<1>4. Keys(Result(u)) = (Keys(c.heights) \ u.del) \cup Keys(u.new)
  <2>1. Keys(UpdateHeights(c.heights, u.new, u.del)) = (Keys(c.heights) \ u.del) \cup Keys(u.new)
    BY <1>1, ResultKeys, SMTT(20)
  <2>. QED BY <1>1, <2>1, ZenonT(30) DEF Result
<1>. HIDE DEF unblinded, scripts
<1>5. ASSUME NEW o \in UpdateUnspent(c.unspent, unblinded, scripts, B, u.new, u.del)
      PROVE  TxOf[o] \in Keys(Result(u))
  <2>1. /\ TxOf[o] \notin u.del
        /\ \/ o \in c.unspent
           \/ TxOf[o] \in Keys(u.new)
           \/ o \in InputsOf(u.del \cap B)
    BY <1>5, Zenon DEF UpdateUnspent, Readable
  <2>2. CASE o \in InputsOf(u.del \cap B)
    <3>1. PICK t \in u.del : o \in Spends[t]
      BY <2>2, Zenon DEF InputsOf
    <3>. QED BY <2>1, <3>1, Zenon DEF Kept
  <2>. QED BY <1>4, <2>1, <2>2, Zenon
<1>. QED BY <1>2, <1>3, <1>5, Zenon

\* Two updates in a row that delete whole families merge into one that does.
LEMMA KeptMerge ==
    ASSUME NEW u \in Update, NEW v \in Update, Kept(u), Kept(v),
           v.status.heights = Result(u)
    PROVE  Kept(Merge(u, v))
<1>. DEFINE m == Merge(u, v)
            n == Extend(Without(u.new, v.del), v.new)
<1>1. /\ m.status = u.status /\ m.del = u.del \cup v.del /\ m.new = n
  BY Zenon DEF Merge
<1>2. /\ u.new \in HeightMap /\ v.new \in HeightMap /\ u.status.heights \in HeightMap
      /\ u.del \in SUBSET Tx /\ v.del \in SUBSET Tx
  BY Zenon DEF Update, StatusSet
<1>3. Without(u.new, v.del) \in HeightMap /\ n \in HeightMap
  BY <1>2, HeightMapTypes, ZenonT(30)
<1>4. Keys(n) = (Keys(u.new) \ v.del) \cup Keys(v.new)
  BY <1>2, ResultKeys, SMTT(20) DEF UpdateHeights
<1>5. Keys(Result(u)) = (Keys(u.status.heights) \ u.del) \cup Keys(u.new)
  BY <1>2, ResultKeys DEF Result
<1>6. Result(u) \in HeightMap
  BY <1>2, HeightMapTypes, ZenonT(30) DEF Result, UpdateHeights
<1>7. Keys(Result(v)) = (Keys(Result(u)) \ v.del) \cup Keys(v.new)
  BY <1>2, <1>6, ResultKeys, SMTT(20) DEF Result
<1>8. Keys(Result(m)) = (Keys(u.status.heights) \ (u.del \cup v.del)) \cup Keys(n)
  <2>1. u.del \cup v.del \in SUBSET Tx
    BY <1>2, Zenon
  <2>2. Result(m) = UpdateHeights(u.status.heights, n, u.del \cup v.del)
    BY <1>1, Zenon DEF Result
  <2>. HIDE DEF m, n
  <2>. QED BY <1>2, <1>3, <2>1, <2>2, ResultKeys, SMTT(20)
<1>. HIDE DEF m, n
<1>9. Keys(Result(m)) = Keys(Result(v))
  BY <1>4, <1>5, <1>7, <1>8, ZenonT(30)
<1>10. ASSUME NEW t \in u.del \cup v.del, NEW o \in Spends[t]
       PROVE  TxOf[o] \in u.del \cup v.del \cup Keys(Result(v))
  BY <1>7, Zenon DEF Kept
<1>. QED BY <1>1, <1>9, <1>10, Zenon DEF Kept, m

\* A scan of a server that stood still, within reach, deletes whole families.
LEMMA PendingKept ==
    ASSUME Sound, InHistory, InReach, ~MidScan, ScanSome
    PROVE  Closed(Result(ScanUpdate)) /\ Kept(ScanUpdate)
<1>1. scan.pc = "download" /\ scan.pc # "off"
  BY DEF ScanSome
<1>2. scan.heights = server.heights
  BY <1>1, FoundAll, SMTT(20) DEF Steady
<1>3. Result(ScanUpdate) = scan.heights
  BY <1>1, ScanHeights, Zenon DEF Result, Sound
<1>4. ScanUpdate.del = Keys(scan.snap.heights) \ Keys(scan.heights)
  BY ZenonT(30) DEF ScanUpdate, Deleted
<1>5. Closed(scan.snap.heights) /\ Closed(server.heights)
  BY <1>1 DEF InHistory
<1>. QED BY <1>2, <1>3, <1>4, <1>5, ZenonT(30) DEF Closed, Kept

\* What the caller applies on its own deletes nothing and spends known outputs.
LEMMA LocalKept ==
    ASSUME Sound, InHistory, NEW t \in Tx
    PROVE  /\ Kept(TransactionUpdate(cache, t, opt.utxoOnly))
           /\ Parents(t) \subseteq Keys(cache.heights)
                => Closed(Result(TransactionUpdate(cache, t, opt.utxoOnly)))
           /\ Kept(BlinderUpdate(cache, t)) /\ Closed(Result(BlinderUpdate(cache, t)))
<1>. DEFINE u == TransactionUpdate(cache, t, opt.utxoOnly)
            v == BlinderUpdate(cache, t)
            n == [NoHeights EXCEPT ![t] = Unconf]
<1>1. /\ u.del = {} /\ u.new = n /\ u.status.heights = cache.heights
      /\ v.del = {} /\ v.new = NoHeights /\ v.status.heights = cache.heights
  BY Zenon DEF TransactionUpdate, BlinderUpdate, Status
<1>. HIDE DEF u, v
<1>2. cache.heights \in HeightMap /\ n \in HeightMap /\ NoHeights \in HeightMap
  BY Zenon DEF Sound, TypeOK, Cache, NoHeights, HeightMap
<1>3. Keys(n) = {t} /\ Keys(NoHeights) = {}
  BY HeightAssumption, Zenon DEF Keys, NoHeights
<1>. HIDE DEF n
<1>4. Keys(Result(u)) = Keys(cache.heights) \cup {t} /\ Keys(Result(v)) = Keys(cache.heights)
  <2>1. {} \in SUBSET Tx
    OBVIOUS
  <2>2. Keys(UpdateHeights(cache.heights, n, {})) = (Keys(cache.heights) \ {}) \cup Keys(n)
    BY <1>2, <2>1, ResultKeys
  <2>3. Keys(UpdateHeights(cache.heights, NoHeights, {}))
          = (Keys(cache.heights) \ {}) \cup Keys(NoHeights)
    BY <1>2, <2>1, ResultKeys, ZenonT(30)
  <2>4. Result(u) = UpdateHeights(cache.heights, n, {})
        /\ Result(v) = UpdateHeights(cache.heights, NoHeights, {})
    BY <1>1 DEF Result
  <2>. QED BY <1>3, <2>2, <2>3, <2>4, ZenonT(30)
<1>5. Kept(u) /\ Kept(v)
  BY <1>1, Zenon DEF Kept
<1>6. Closed(cache.heights)
  BY Zenon DEF InHistory
<1>7. Parents(t) \subseteq Keys(cache.heights) => Closed(Result(u))
  BY <1>4, <1>6, Zenon DEF Closed, Parents
<1>8. Closed(Result(v))
  BY <1>4, <1>6, Zenon DEF Closed
<1>. QED BY <1>5, <1>7, <1>8, Zenon DEF u, v

\* Persisting, merging and replaying keep whole families.
LEMMA StoreInHistory ==
    ASSUME Sound, Replay, InHistory, opt.utxoOnly = FALSE, StoreStep, UNCHANGED scanVars
    PROVE  InHistory'
<1>t. TypeOK /\ Typed
  BY Zenon DEF Sound
<1>0. /\ ~opt.txsPersisted /\ pc # "puttxs"
      /\ server' = server /\ scan' = scan /\ pending' = pending
  BY DEF Replay, InMemory, scanVars
<1>s. /\ Closed(server'.heights)
      /\ scan'.pc # "off" => Closed(scan'.snap.heights)
      /\ pending' # NoUpdate => Closed(Result(pending')) /\ Kept(pending')
  BY <1>0, Zenon DEF InHistory
<1>1. CASE PersistCoalesced
  <2>1. /\ pc = "persist" /\ pc' = "idle" /\ cache' = cache /\ upd \in Update
        /\ OnlyTip(upd)
        /\ disk' = [disk EXCEPT ![next - 1] = Coalesce(disk[next - 1], upd)]
        /\ trail' = [trail EXCEPT ![next] = cache]
    BY <1>t, <1>1, Zenon DEF PersistCoalesced, CanCoalesce, Typed
  <2>2. Kept(Coalesce(disk[next - 1], upd))
    <3>1. Coalesce(disk[next - 1], upd).del = {}
      BY <2>1, Zenon DEF Coalesce, OnlyTip, Update
    <3>. QED BY <3>1, Zenon DEF Kept
  <2>3. \A i \in DOMAIN disk' : Kept(disk'[i])
    BY <2>1, <2>2, Zenon DEF InHistory
  <2>4. \A i \in DOMAIN trail' : Closed(trail'[i].heights)
    BY <2>1, Zenon DEF InHistory
  <2>. QED BY <1>s, <2>1, <2>3, <2>4, ZenonT(30) DEF InHistory
<1>2. CASE PersistNew
  <2>1. /\ pc = "persist" /\ pc' \in {"idle", "merge"} /\ (pc' = "merge" => idx' = 0)
        /\ cache' = cache
        /\ disk' = Put(next, Stored(upd))
        /\ trail' = [j \in DOMAIN trail \cup {next + 1} |->
                        IF j = next + 1 THEN cache ELSE trail[j]]
    BY <1>2 DEF PersistNew
  <2>2. Stored(upd) = upd
    BY <1>t, <1>0, <2>1, StoredType, ZenonT(30) DEF Typed
  <2>3. \A i \in DOMAIN disk' : Kept(disk'[i])
    BY <2>1, <2>2, Zenon DEF InHistory, Put
  <2>4. \A i \in DOMAIN trail' : Closed(trail'[i].heights)
    BY <2>1, ZenonT(30) DEF InHistory
  <2>5. ~(pc' = "merge" /\ idx' > 0)
    BY <2>1, SMTT(20)
  <2>. QED BY <1>s, <2>1, <2>3, <2>4, <2>5, ZenonT(30) DEF InHistory
<1>3. CASE MergeOne
  <2>1. /\ pc = "merge" /\ idx < next /\ idx \in DOMAIN disk /\ idx \in Nat
        /\ merged' = IF idx = 0 THEN disk[0] ELSE Merge(merged, disk[idx])
        /\ UNCHANGED <<pc, cache, disk, trail>>
    BY <1>t, <1>3, ZenonT(30) DEF MergeOne, TypeOK
  <2>2. disk[idx] \in Update /\ disk[idx].status = Status(trail[idx])
    BY <1>t, <2>1 DEF TypeOK, Replay, Chained
  <2>3. Kept(merged')
    <3>1. CASE idx = 0
      BY <2>1, <3>1 DEF InHistory
    <3>2. CASE idx # 0
      <4>1. merged' = Merge(merged, disk[idx]) /\ idx > 0
        BY <2>1, <3>2, SMTT(20)
      <4>2. Leads(0, merged, Status(trail[idx]))
        BY <2>1, <4>1, ZenonT(30) DEF Replay, OnTrail
      <4>3. merged \in Update /\ Status(trail[idx]).heights = Result(merged)
        BY <4>2, SMTT(20) DEF Leads, ApplyStatus, Result
      <4>4. Kept(merged) /\ Kept(disk[idx])
        BY <2>1, <4>1, Zenon DEF InHistory
      <4>. QED BY <2>2, <4>1, <4>3, <4>4, KeptMerge, ZenonT(30)
    <3>. QED BY <3>1, <3>2, ZenonT(30)
  <2>. QED BY <1>s, <2>1, <2>3, ZenonT(30) DEF InHistory
<1>4. CASE MergeRead
  <2>1. /\ pc = "merge" /\ pc' = "remove" /\ idx = next
        /\ UNCHANGED <<cache, disk, trail, merged>>
    BY <1>4 DEF MergeRead
  <2>2. idx > 0
    BY <2>1, Zenon DEF Replay, OnTrail
  <2>. QED BY <1>s, <2>1, <2>2, ZenonT(30) DEF InHistory
<1>5. CASE RemoveOne
  <2>1. /\ pc = "remove" /\ pc' = "remove" /\ merged' = merged /\ cache' = cache
        /\ disk' = [j \in DOMAIN disk \ {idx - 1} |-> disk[j]]
        /\ trail' = [j \in DOMAIN trail \ {idx} |-> trail[j]]
    BY <1>5, Zenon DEF RemoveOne
  <2>2. \A i \in DOMAIN disk' : Kept(disk'[i])
    BY <2>1, Zenon DEF InHistory
  <2>3. \A i \in DOMAIN trail' : Closed(trail'[i].heights)
    BY <2>1, Zenon DEF InHistory
  <2>. QED BY <1>s, <2>1, <2>2, <2>3, ZenonT(30) DEF InHistory
<1>6. CASE StoreMerged
  <2>0. WithTxids(cache) = cache
    BY <1>t, TxidsInMemory, Zenon
  <2>1. /\ pc = "remove" /\ pc' \in {"idle", "addtxids"} /\ cache' = cache
        /\ disk' = Put(0, merged)
        /\ trail' = [j \in {0, 1} |-> IF j = 1 THEN cache ELSE trail[0]]
    BY <1>6, <2>0, Zenon DEF StoreMerged, AfterMerge
  <2>2. \A i \in DOMAIN disk' : Kept(disk'[i])
    BY <2>1, Zenon DEF InHistory, Put
  <2>3. 0 \in DOMAIN trail
    BY SMTT(20) DEF Replay, Numbered, Log
  <2>4. \A i \in DOMAIN trail' : Closed(trail'[i].heights)
    BY <2>1, <2>3, Zenon DEF InHistory
  <2>. QED BY <1>s, <2>1, <2>2, <2>4, ZenonT(30) DEF InHistory
<1>7. CASE RestoreOne
  <2>. DEFINE u == disk[idx]
              B == bodies \cup u.txs
  <2>1. /\ pc = "restore" /\ pc' = "restore" /\ idx \in DOMAIN disk /\ u.status = Status(cache)
        /\ cache' = Apply(cache, B, u, FALSE) /\ UNCHANGED <<disk, trail>>
    BY <1>7, Zenon DEF RestoreOne, Applicable, SameStatus
  <2>2. u \in Update /\ Kept(u) /\ cache \in Cache
    BY <1>t, <2>1, ZenonT(30) DEF TypeOK, InHistory
  <2>3. \A o \in cache.unspent : TxOf[o] \in Keys(cache.heights)
    BY Zenon DEF InHistory
  <2>. HIDE DEF u, B
  <2>4. /\ cache'.heights = Result(u)
        /\ \A o \in cache'.unspent : TxOf[o] \in Keys(Result(u))
    BY <2>1, <2>2, <2>3, ApplyInHistory, ZenonT(30)
  <2>5. Closed(Result(u))
    <3>1. /\ Status(trail[idx + 1]) = ApplyStatus(Status(trail[idx]), u)
          /\ u.status = Status(trail[idx])
      BY <2>1, Zenon DEF Replay, Chained, u
    <3>2. trail[idx + 1].heights = Result(u)
      BY <3>1, Zenon DEF Status, ApplyStatus, Result
    <3>3. idx + 1 \in DOMAIN trail
      BY <2>1, SMTT(20) DEF Replay, Numbered, Log
    <3>. QED BY <3>2, <3>3, Zenon DEF InHistory
  <2>. QED BY <1>s, <2>1, <2>4, <2>5, ZenonT(30) DEF InHistory
<1>8. CASE Build \/ RestoreRefused \/ RestoreDone
  <2>1. UNCHANGED <<disk, trail, cache>> /\ pc' \notin {"persist", "remove"}
        /\ (pc' = "merge" => idx' = 0)
    BY <1>8 DEF Build, RestoreRefused, RestoreDone
  <2>2. ~(pc' = "merge" /\ idx' > 0)
    BY ONLY <2>1, SMTT(20)
  <2>. QED BY <1>s, <2>1, <2>2, ZenonT(30) DEF InHistory
<1>9. CASE AddTxids
  <2>1. /\ UNCHANGED <<disk, trail>> /\ pc' = "idle"
        /\ cache'.heights = cache.heights /\ cache'.unspent = cache.unspent
    BY <1>t, <1>9, ZenonT(30) DEF AddTxids, WithTxids, TypeOK, Cache
  <2>. QED BY <1>s, <2>1 DEF InHistory
<1>10. CASE PutTx \/ PutTxids
  BY <1>0, <1>10 DEF PutTx, PutTxids
<1>. QED BY <1>1, <1>2, <1>3, <1>4, <1>5, <1>6, <1>7, <1>8, <1>9, <1>10, ZenonT(30) DEF StoreStep

\* Every step keeps the transaction of every unspent output in history.
LEMMA InHistoryNext ==
    ASSUME Sound, Replay, InHistory, InReach, ~MidScan, opt.utxoOnly = FALSE,
           [NextAll]_allVars
    PROVE  InHistory'
<1>. USE DEF Sound
<1>1. CASE ServerStep
  <2>1. UNCHANGED vars /\ scan' = scan /\ pending' = pending
    BY <1>1, ServerFrame, Zenon
  <2>2. Closed(server'.heights)
    BY <1>1, ServerClosed, Zenon DEF InHistory
  <2>. QED BY <2>1, <2>2 DEF vars, InHistory
<1>2. CASE ScanStart
  <2>1. UNCHANGED vars /\ server' = server /\ pending' = pending /\ scan'.snap = cache
    BY <1>2, Zenon DEF ScanStart
  <2>. QED BY <2>1, Zenon DEF vars, InHistory
<1>3. CASE ReadBatch \/ ReadTip
  <2>1. UNCHANGED vars /\ server' = server /\ pending' = pending
        /\ scan'.snap = scan.snap /\ scan.pc # "off"
    BY <1>3, ReadBatchFields, ReadTipFields, Zenon DEF ReadBatch, ReadTip
  <2>. QED BY <2>1, Zenon DEF vars, InHistory
<1>4. CASE ScanFails \/ ScanNone
  <2>1. UNCHANGED vars /\ server' = server /\ pending' = pending /\ scan'.pc = "off"
    BY <1>4, SMTT(20) DEF ScanFails, ScanNone, NoScan
  <2>. QED BY <2>1, Zenon DEF vars, InHistory
<1>5. CASE ScanSome
  <2>1. UNCHANGED vars /\ server' = server /\ pending' = ScanUpdate /\ scan'.pc = "off"
    BY <1>5 DEF ScanSome, NoScan
  <2>2. Closed(Result(pending')) /\ Kept(pending')
    BY <1>5, <2>1, PendingKept, Zenon
  <2>. QED BY <2>1, <2>2, Zenon DEF vars, InHistory
<1>6. ASSUME NEW u \in Update, StartApply(u), Kept(u), Closed(Result(u)),
             server' = server, scan' = scan, pending' \in {pending, NoUpdate}
      PROVE  InHistory'
  <2>. DEFINE B == bodies \cup u.txs
  <2>1. /\ u.status = Status(cache) /\ cache' = Apply(cache, B, u, FALSE)
        /\ upd' = u /\ pc' \in {"puttxs", "persist"} /\ UNCHANGED <<disk, trail>>
    BY <1>6, Zenon DEF StartApply, Applicable, SameStatus
  <2>2. cache \in Cache /\ \A o \in cache.unspent : TxOf[o] \in Keys(cache.heights)
    BY Zenon DEF TypeOK, InHistory
  <2>. HIDE DEF B
  <2>3. /\ cache'.heights = Result(u)
        /\ \A o \in cache'.unspent : TxOf[o] \in Keys(Result(u))
    BY <1>6, <2>1, <2>2, ApplyInHistory, Zenon
  <2>. QED BY <1>6, <2>1, <2>3, Zenon DEF InHistory
<1>7. CASE ApplyPending
  <2>1. /\ pending \in Update /\ pending # NoUpdate /\ StartApply(pending)
        /\ server' = server /\ scan' = scan /\ pending' = NoUpdate
    BY <1>7, Zenon DEF ApplyPending, ScanTyped
  <2>2. Kept(pending) /\ Closed(Result(pending))
    BY <2>1, Zenon DEF InHistory
  <2>. QED BY <1>6, <2>1, <2>2, Zenon
<1>8. CASE RefusePending
  <2>1. UNCHANGED vars /\ server' = server /\ pending' = NoUpdate /\ scan' = scan
    BY <1>8 DEF RefusePending
  <2>. QED BY <2>1, Zenon DEF vars, InHistory
<1>9. ASSUME NEW t \in Local, LocalTransaction(t)
      PROVE  InHistory'
  <2>1. /\ t \in Tx /\ Parents(t) \subseteq Keys(cache.heights)
        /\ StartApply(TransactionUpdate(cache, t, opt.utxoOnly))
        /\ server' = server /\ scan' = scan /\ pending' = pending
    BY <1>9, CallerAssumption, Zenon DEF LocalTransaction, ApplyTransaction, LocalCall
  <2>2. TransactionUpdate(cache, t, opt.utxoOnly) \in Update
    BY <2>1, LocalUpdateType, Zenon
  <2>. QED BY <1>6, <2>1, <2>2, LocalKept, Zenon
<1>10. ASSUME NEW t \in Built, LocalBlinder(t)
       PROVE  InHistory'
  <2>1. /\ t \in Tx /\ StartApply(BlinderUpdate(cache, t))
        /\ server' = server /\ scan' = scan /\ pending' = pending
    BY <1>10, CallerAssumption DEF LocalBlinder, ApplyBlinder, LocalCall
  <2>2. BlinderUpdate(cache, t) \in Update
    BY <2>1, LocalUpdateType, Zenon
  <2>. QED BY <1>6, <2>1, <2>2, LocalKept, ZenonT(30)
<1>11. CASE StopProcess
  <2>1. /\ UNCHANGED <<disk, trail>> /\ cache' = EmptyCache /\ pc' = "down"
        /\ scan'.pc = "off" /\ pending' = NoUpdate /\ server' = server
    BY <1>11, ZenonT(30) DEF StopProcess, Crash, NoScan
  <2>2. cache'.unspent = {} /\ Keys(cache'.heights) = {}
    BY <2>1 DEF EmptyCache, NoHeights, Keys
  <2>. QED BY <2>1, <2>2, Zenon DEF InHistory, Closed
<1>12. CASE WalletStep
  BY <1>12, StoreInHistory, Zenon DEF WalletStep
<1>13. CASE UNCHANGED allVars
  BY <1>13, Zenon DEF allVars, vars, scanVars, InHistory
<1>. QED BY <1>1, <1>2, <1>3, <1>4, <1>5, <1>7, <1>8, <1>9, <1>10, <1>11, <1>12, <1>13, ZenonT(30)
         DEF NextAll, ScanStep

\* utxos() finds the height of every unspent outpoint of a wallet whose server
\* stands still while it is read, however updates are coalesced, merged and
\* replayed and wherever the process stops, as long as every transaction of the
\* server is within the gap limit or below the index of full_scan_to_index.
THEOREM UnspentStaysInHistory ==
    ASSUME Quiet, \A o \in Options : ~o.utxoOnly
    PROVE  SpecAll /\ []InReach => []UnspentInHistory
<1>. DEFINE Full == opt.utxoOnly = FALSE
            IInv == Sound /\ Replay /\ DiskGrounded /\ InHistory /\ Full
<1>1. InitAll => IInv
  <2>1. InitAll => Sound /\ Replay /\ DiskGrounded
    BY QuietInvariant, Zenon
  <2>2. ASSUME InitAll PROVE InHistory
    <3>1. /\ server.heights = NoHeights /\ scan.pc = "off" /\ pending = NoUpdate
      BY <2>2, Zenon DEF InitAll, NoScan
    <3>2. /\ pc = "idle" /\ cache = EmptyCache /\ DOMAIN disk = {}
          /\ trail = [i \in {0} |-> EmptyCache]
      BY <2>2, ZenonT(30) DEF InitAll, Init
    <3>3. EmptyCache.heights = NoHeights /\ EmptyCache.unspent = {}
      BY DEF EmptyCache
    <3>4. Closed(NoHeights)
      BY Zenon DEF Closed, Keys, NoHeights
    <3>. QED BY <3>1, <3>2, <3>3, <3>4, Zenon DEF InHistory
  <2>3. InitAll => Full
    BY OptionsAssumption DEF InitAll, Init, OptionSet
  <2>. QED BY <2>1, <2>2, <2>3
<1>2. IInv /\ InReach /\ [NextAll]_allVars => IInv'
  <2>. SUFFICES ASSUME IInv, InReach, [NextAll]_allVars
                PROVE  IInv'
    BY Zenon
  <2>1. (Sound /\ Replay /\ DiskGrounded)' /\ [Next]_vars
    BY QuietInvariant
  <2>2. InHistory'
    BY InHistoryNext, Zenon DEF Quiet
  <2>3. opt' = opt
    <3>1. CASE StoreStep
      BY <3>1, Zenon DEF StoreStep, PutTx, PutTxids, PersistCoalesced, PersistNew, MergeOne, MergeRead,
                  RemoveOne, StoreMerged, Build, RestoreOne, RestoreRefused, RestoreDone, AddTxids
    <3>. QED BY <2>1, <3>1, Zenon DEF Next, StartApply, Crash, vars
  <2>. QED BY <2>1, <2>2, <2>3, Zenon
<1>3. IInv => UnspentInHistory
  BY Zenon DEF InHistory, UnspentInHistory
<1>. HIDE DEF IInv
<1>. QED BY <1>1, <1>2, <1>3, PTL DEF SpecAll

=============================================================================
