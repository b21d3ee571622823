--------------------------- MODULE FullScan_proof ----------------------------
(***************************************************************************)
(* What a scan hands to the wallet, for every set of transactions, scripts *)
(* and chains, every batch size and any number of moves of the server:     *)
(* the balance of the wallet can always be computed, and a scan of a       *)
(* server that stood still brings it to the server's heights and tip.      *)
(***************************************************************************)
EXTENDS FullScan, Wollet_proof, WellFoundedInduction

-----------------------------------------------------------------------------
(* The largest element of a bounded set of natural numbers.                *)

\* A nonempty set of natural numbers has a least element.
LEMMA LeastNatural ==
    ASSUME NEW S, S \subseteq Nat, S # {}
    PROVE  \E m \in S : \A n \in S : m <= n
<1>1. PICK m \in S : \A n \in S : ~(<<n, m>> \in OpToRel(<, Nat))
  BY NatLessThanWellFounded, WFMin, Zenon
<1>2. ASSUME NEW n \in S PROVE m <= n
  <2>1. <<n, m>> \in Nat \X Nat
    BY <1>2
  <2>2. ~(n < m)
    BY <1>1, <1>2, <2>1 DEF OpToRel
  <2>. QED BY <1>2, <2>2
<1>. QED BY <1>2

\* A bounded one has a greatest, and Max finds it.
LEMMA GreatestNatural ==
    ASSUME NEW S, S \subseteq Nat, S # {}, NEW b \in Nat, \A n \in S : n <= b
    PROVE  Max(S) \in S /\ \A n \in S : n <= Max(S)
<1>. DEFINE T == {b - n : n \in S}
<1>1. T \subseteq Nat /\ T # {}
  <2>1. \A n \in S : b - n \in Nat
    OBVIOUS
  <2>2. PICK n \in S : TRUE
    BY ZenonT(30)
  <2>3. b - n \in T
    BY Zenon
  <2>4. ASSUME NEW t \in T PROVE t \in Nat
    BY <2>1, Zenon
  <2>. QED BY <2>3, <2>4, Zenon
<1>2. PICK m \in T : \A n \in T : m <= n
  <2>. HIDE DEF T
  <2>. QED BY <1>1, LeastNatural, Zenon
<1>3. PICK k \in S : m = b - k
  BY <1>2
<1>4. \A n \in S : n <= k
  <2>. SUFFICES ASSUME NEW n \in S PROVE n <= k
    OBVIOUS
  <2>1. m <= b - n
    BY <1>2
  <2>. QED BY <1>3, <2>1
<1>5. \E x \in S : \A y \in S : x >= y
  BY <1>4
<1>. QED BY <1>5, Zenon DEF Max

-----------------------------------------------------------------------------
(* Types.                                                                  *)

\* The server has the blocks up to its tip.
ServerTyped ==
    /\ server \in [heights : HeightMap, blocks : TimeMap]
    /\ \E n \in Nat : Keys(server.blocks) = 0..n

ScanRecord == [pc : {"history", "tip"}, snap : Cache, at : 1..Len(ChainOrder), batch : Nat,
               heights : HeightMap, hashes : TimeMap, scripts : SUBSET Script,
               lastUnused : IndexMap]

DownloadRecord == [pc : {"download"}, tip : Block, snap : Cache, heights : HeightMap,
                   hashes : TimeMap, scripts : SUBSET Script, lastUnused : IndexMap]

\* A scan is off, reading or downloading, and the caller holds at most the
\* update of the one before.
ScanTyped ==
    /\ scan \in {NoScan} \cup ScanRecord \cup DownloadRecord
    /\ pending # NoUpdate => pending \in Update /\ pending.tip # NoBlock
    /\ scan.pc # "off" => pending = NoUpdate /\ fresh \in {"scan", "none"}

\* The height of the tip, and the tip.
LEMMA TipTyped ==
    ASSUME ServerTyped, NEW n \in Nat, Keys(server.blocks) = 0..n
    PROVE  /\ TipHeight(server) = n /\ n \in Height
           /\ TipOf(server) \in Block
<1>1. Max(0..n) = n
  <2>1. n \in 0..n /\ \A y \in 0..n : n >= y
    OBVIOUS
  <2>2. \A x \in 0..n : (\A y \in 0..n : x >= y) => x = n
    BY <2>1
  <2>. QED BY <2>1, <2>2 DEF Max
<1>2. TipHeight(server) = n
  BY <1>1 DEF TipHeight
<1>3. n \in Keys(server.blocks)
  OBVIOUS
<1>4. n \in Height /\ server.blocks[n] \in Fork
  BY <1>3 DEF ServerTyped, Keys, TimeMap
<1>. QED BY <1>2, <1>4 DEF TipOf, Block

\* What a move of the server leaves alone.
LEMMA ServerFrame ==
    ASSUME ServerStep
    PROVE  /\ UNCHANGED vars /\ scan' = scan /\ pending' = pending /\ fresh' = "none"
           /\ pc = "idle" /\ (MidScan \/ scan.pc = "off")
BY Zenon DEF ServerStep, Broadcast, Evict, Mine, Disconnect, ServerMay

\* A move of the server.
LEMMA ServerType ==
    ASSUME ServerTyped, ServerStep
    PROVE  ServerTyped'
<1>. PICK n \in Nat : Keys(server.blocks) = 0..n
  BY DEF ServerTyped
<1>1. TipHeight(server) = n /\ n \in Height
  BY TipTyped
<1>2. server.heights \in HeightMap /\ server.blocks \in TimeMap
  BY DEF ServerTyped
<1>3. ASSUME NEW t \in Tx, Broadcast(t) PROVE ServerTyped'
  <2>1. PICK gone : server' = [server EXCEPT !.heights =
                                  [Without(@, gone) EXCEPT ![t] = Unconf]]
    BY <1>3, Zenon DEF Broadcast
  <2>2. [Without(server.heights, gone) EXCEPT ![t] = Unconf] \in HeightMap
    BY <1>2, HeightMapTypes DEF HeightMap
  <2>. QED BY <2>1, <2>2 DEF ServerTyped
<1>4. ASSUME NEW t \in Tx, Evict(t) PROVE ServerTyped'
  <2>1. server' = [server EXCEPT !.heights = Without(@, Descendants({t}))]
    BY <1>4 DEF Evict
  <2>2. Without(server.heights, Descendants({t})) \in HeightMap
    BY <1>2, HeightMapTypes, Zenon
  <2>. QED BY <2>1, <2>2 DEF ServerTyped
<1>5. ASSUME NEW T \in SUBSET Tx, NEW f \in Fork, Mine(T, f) PROVE ServerTyped'
  <2>1. n + 1 \in Height
        /\ server' = [heights |-> [t \in Tx |-> IF t \in T THEN n + 1 ELSE server.heights[t]],
                      blocks |-> [server.blocks EXCEPT ![n + 1] = f]]
    BY <1>1, <1>5 DEF Mine
  <2>2. server'.heights \in HeightMap
    BY <1>2, <2>1 DEF HeightMap
  <2>3. server'.blocks \in TimeMap
    BY <1>2, <2>1 DEF TimeMap
  <2>4. Keys(server'.blocks) = 0..(n + 1)
    <3>1. f # Absent
      BY HeightAssumption
    <3>2. DOMAIN server.blocks = Height /\ server'.blocks = [server.blocks EXCEPT ![n + 1] = f]
      BY <1>2, <2>1 DEF TimeMap
    <3>3. Keys(server'.blocks) = Keys(server.blocks) \cup {n + 1}
      BY <2>1, <3>1, <3>2 DEF Keys
    <3>. QED BY <3>3
  <2>. QED BY <2>1, <2>2, <2>3, <2>4 DEF ServerTyped
<1>6. CASE Disconnect
  <2>1. n > 0
        /\ server' = [heights |-> [t \in Tx |-> IF server.heights[t] = n
                                                THEN Unconf ELSE server.heights[t]],
                      blocks |-> [server.blocks EXCEPT ![n] = Absent]]
    BY <1>1, <1>6 DEF Disconnect
  <2>2. server'.heights \in HeightMap
    BY <1>2, <2>1 DEF HeightMap
  <2>3. server'.blocks \in TimeMap
    BY <1>2, <2>1, Zenon DEF TimeMap
  <2>4. Keys(server'.blocks) = 0..(n - 1)
    <3>1. DOMAIN server.blocks = Height /\ server'.blocks = [server.blocks EXCEPT ![n] = Absent]
      BY <1>2, <2>1 DEF TimeMap
    <3>2. Keys(server'.blocks) = Keys(server.blocks) \ {n}
      BY <1>1, <3>1 DEF Keys
    <3>3. \A x : x \in (0..n) \ {n} <=> x \in 0..(n - 1)
      BY <2>1
    <3>. QED BY <3>2, <3>3
  <2>5. n - 1 \in Nat
    BY <2>1
  <2>. QED BY <2>1, <2>2, <2>3, <2>4, <2>5 DEF ServerTyped
<1>. QED BY <1>3, <1>4, <1>5, <1>6 DEF ServerStep

-----------------------------------------------------------------------------
(* One batch of get_history.                                               *)

BatchChain == ChainOrder[scan.at]
BatchScripts == ScriptBatch(BatchChain, scan.batch)
BatchUsed == {s \in BatchScripts : History(s) # {}}
BatchFound == UNION {History(s) : s \in BatchScripts}
Need(ch) == MaxOf(ToIndex, scan.snap.lastUnused[ch])
BatchDone == BatchFound = {} /\ Need(BatchChain) <= 1 + scan.batch * BatchSize
BatchLast == BatchDone /\ scan.at = Len(ChainOrder)

\* What a turn of the loop makes of the scan.
LEMMA ReadBatchFields ==
    ASSUME ScanTyped, ReadBatch
    PROVE  /\ scan \in ScanRecord
           /\ scan.pc = "history" /\ pc = "idle"
           /\ scan'.pc = IF BatchLast THEN "tip" ELSE "history"
           /\ scan'.snap = scan.snap
           /\ scan'.at = IF BatchDone /\ ~BatchLast THEN scan.at + 1 ELSE scan.at
           /\ scan'.batch = IF BatchDone THEN 0 ELSE scan.batch + 1
           /\ scan'.heights = [t \in Tx |-> IF t \in BatchFound
                                            THEN server.heights[t] ELSE scan.heights[t]]
           /\ scan'.hashes = [h \in Height |->
                 IF Client = "esplora" /\ \E t \in BatchFound : server.heights[t] = h
                 THEN server.blocks[h] ELSE scan.hashes[h]]
           /\ scan'.scripts = IF BatchCached(scan.snap, BatchScripts)
                              THEN scan.scripts ELSE scan.scripts \cup BatchScripts
           /\ scan'.lastUnused = [scan.lastUnused EXCEPT ![BatchChain] =
                 IF BatchUsed = {} THEN @ ELSE 1 + Max({IndexOf[s] : s \in BatchUsed})]
           /\ DOMAIN scan' = DOMAIN scan
           /\ UNCHANGED <<vars, server, pending, fresh>>
<1>1. scan \in ScanRecord /\ scan.pc = "history"
  BY DEF ReadBatch, ScanTyped, NoScan, DownloadRecord
<1>2. scan' = [scan EXCEPT
                 !.scripts = IF BatchCached(scan.snap, BatchScripts)
                             THEN @ ELSE @ \cup BatchScripts,
                 !.lastUnused[BatchChain] =
                     IF BatchUsed = {} THEN @ ELSE 1 + Max({IndexOf[s] : s \in BatchUsed}),
                 !.heights = [t \in Tx |-> IF t \in BatchFound THEN server.heights[t] ELSE @[t]],
                 !.hashes = [h \in Height |->
                     IF Client = "esplora" /\ \E t \in BatchFound : server.heights[t] = h
                     THEN server.blocks[h] ELSE @[h]],
                 !.batch = IF BatchDone THEN 0 ELSE @ + 1,
                 !.at = IF BatchDone /\ ~BatchLast THEN @ + 1 ELSE @,
                 !.pc = IF BatchLast THEN "tip" ELSE @]
  BY Zenon DEF ReadBatch, BatchChain, BatchScripts, BatchUsed, BatchFound, Need, BatchDone, BatchLast
<1>3. pc = "idle" /\ UNCHANGED <<vars, server, pending, fresh>>
  BY DEF ReadBatch
<1>. QED BY <1>1, <1>2, <1>3 DEF ScanRecord

\* The child numbers of a batch.
LEMMA BatchBounds ==
    ASSUME NEW b \in Nat
    PROVE  /\ b * BatchSize \in Nat /\ (b + 1) * BatchSize \in Nat
           /\ (b + 1) * BatchSize = b * BatchSize + BatchSize
           /\ b * BatchSize >= b
           /\ 0 * BatchSize = 0
<1>1. BatchSize \in Nat /\ BatchSize >= 1
  BY BatchAssumption
<1>2. \A x, y \in Nat : x * y \in Nat
  OBVIOUS
<1>3. (b + 1) * BatchSize = b * BatchSize + BatchSize
  BY <1>1
<1>4. b * BatchSize \in Nat /\ (b + 1) * BatchSize \in Nat
  BY <1>1, <1>2
<1>5. b * BatchSize >= b
  <2>1. BatchSize - 1 \in Nat /\ BatchSize = (BatchSize - 1) + 1
    BY <1>1
  <2>2. b * (BatchSize - 1) \in Nat
    BY <1>2, <2>1
  <2>3. b * BatchSize = b * (BatchSize - 1) + b
    BY <1>1, <2>1
  <2>. QED BY <2>2, <2>3
<1>. QED BY <1>1, <1>3, <1>4, <1>5

\* The last used script of a batch.
LEMMA LastOfBatch ==
    ASSUME ScanTyped, scan \in ScanRecord, BatchUsed # {}
    PROVE  LET m == Max({IndexOf[s] : s \in BatchUsed})
           IN  /\ m \in Nat /\ \E s \in BatchUsed : IndexOf[s] = m
               /\ \A s \in BatchUsed : IndexOf[s] <= m
<1>. DEFINE S == {IndexOf[s] : s \in BatchUsed}
            b == (scan.batch + 1) * BatchSize
<1>1. scan.batch \in Nat
  BY DEF ScanRecord
<1>2. b \in Nat
  BY <1>1, BatchBounds
<1>3. S \subseteq Nat /\ S # {}
  BY TxAssumption DEF BatchUsed, BatchScripts, ScriptBatch
<1>4. \A n \in S : n <= b
  BY <1>2, TxAssumption DEF BatchUsed, BatchScripts, ScriptBatch
<1>5. Max(S) \in S /\ \A n \in S : n <= Max(S)
  <2>. HIDE DEF S, b
  <2>. QED BY <1>2, <1>3, <1>4, GreatestNatural, Zenon
<1>. QED BY <1>3, <1>5, Zenon

\* The chain that is being scanned.
LEMMA ChainTyped ==
    ASSUME scan \in ScanRecord
    PROVE  BatchChain \in Chain /\ scan.at \in 1..Len(ChainOrder) /\ scan.at \in Nat
BY OrderAssumption DEF ScanRecord, BatchChain

\* A turn of the loop stays in the types.
LEMMA ReadBatchType ==
    ASSUME ServerTyped, ScanTyped, ReadBatch
    PROVE  ScanTyped' /\ scan' \in ScanRecord
<1>1. scan \in ScanRecord /\ scan.pc = "history"
  BY ReadBatchFields
<1>2. server.heights \in HeightMap /\ server.blocks \in TimeMap
  BY DEF ServerTyped
<1>3. scan'.pc \in {"history", "tip"} /\ scan'.snap \in Cache /\ scan'.batch \in Nat
  BY <1>1, ReadBatchFields DEF ScanRecord
<1>4. scan'.at \in 1..Len(ChainOrder)
  BY <1>1, ReadBatchFields, ChainTyped, OrderAssumption DEF BatchLast
<1>5. scan'.heights \in HeightMap
  BY <1>1, <1>2, ReadBatchFields DEF ScanRecord, HeightMap
<1>6. scan'.hashes \in TimeMap
  BY <1>1, <1>2, ReadBatchFields DEF ScanRecord, TimeMap
<1>7. scan'.scripts \in SUBSET Script
  BY <1>1, ReadBatchFields DEF ScanRecord, BatchScripts, ScriptBatch
<1>8. scan'.lastUnused \in IndexMap
  <2>1. scan.lastUnused \in IndexMap
    BY <1>1 DEF ScanRecord
  <2>2. CASE BatchUsed = {}
    BY <2>1, <2>2, ReadBatchFields DEF IndexMap
  <2>3. CASE BatchUsed # {}
    <3>1. 1 + Max({IndexOf[s] : s \in BatchUsed}) \in Nat
      BY <1>1, <2>3, LastOfBatch
    <3>. QED BY <2>1, <2>3, <3>1, ReadBatchFields DEF IndexMap
  <2>. QED BY <2>2, <2>3
<1>9. scan' \in ScanRecord
  <2>1. DOMAIN scan' = {"pc", "snap", "at", "batch", "heights", "hashes", "scripts", "lastUnused"}
    BY <1>1, ReadBatchFields DEF ScanRecord
  <2>. QED BY <1>1, <1>3, <1>4, <1>5, <1>6, <1>7, <1>8, <2>1, ReadBatchFields, ZenonT(30) DEF ScanRecord, ReadBatch
<1>. QED BY <1>1, <1>9, ReadBatchFields DEF ScanTyped

\* full_scan starts on a snapshot of the wallet.
LEMMA ScanStartFields ==
    ASSUME TypeOK, ScanStart
    PROVE  /\ scan' \in ScanRecord /\ scan'.pc = "history" /\ scan'.snap = cache
           /\ scan'.at = 1 /\ scan'.batch = 0
           /\ scan'.heights = NoHeights /\ scan'.lastUnused = [c \in Chain |-> 0]
           /\ pending = NoUpdate /\ fresh' = "scan" /\ UNCHANGED <<vars, server, pending>>
<1>1. /\ NoHeights \in HeightMap /\ NoTimes \in TimeMap /\ cache \in Cache
      /\ [c \in Chain |-> 0] \in IndexMap /\ 1 \in 1..Len(ChainOrder)
  BY OrderAssumption DEF NoHeights, NoTimes, HeightMap, TimeMap, IndexMap, TypeOK
<1>. QED BY <1>1 DEF ScanStart, ScanRecord

\* It reads the tip after the last batch.
LEMMA ReadTipFields ==
    ASSUME ServerTyped, ScanTyped, ReadTip
    PROVE  /\ scan \in ScanRecord /\ scan.pc = "tip"
           /\ scan' \in DownloadRecord /\ scan'.pc = "download"
           /\ scan'.tip = TipOf(server) /\ scan'.snap = scan.snap
           /\ scan'.heights = scan.heights /\ scan'.lastUnused = scan.lastUnused
           /\ UNCHANGED <<vars, server, pending, fresh>>
<1>1. scan \in ScanRecord /\ scan.pc = "tip"
  BY DEF ReadTip, ScanTyped, NoScan, DownloadRecord
<1>2. TipOf(server) \in Block
  BY TipTyped, Zenon DEF ServerTyped
<1>. QED BY <1>1, <1>2, SMTT(20) DEF ReadTip, ScanRecord, DownloadRecord

\* What the scan returns is an update with a tip.
LEMMA ScanUpdateType ==
    ASSUME ServerTyped, ScanTyped, scan.pc = "download"
    PROVE  /\ scan \in DownloadRecord
           /\ ScanUpdate \in Update
           /\ ScanUpdate.tip # NoBlock
<1>1. scan \in DownloadRecord
  BY DEF ScanTyped, NoScan, ScanRecord
<1>2. /\ scan.snap \in Cache /\ scan.heights \in HeightMap /\ scan.tip \in Block
      /\ scan.scripts \in SUBSET Script /\ scan.lastUnused \in IndexMap
      /\ scan.hashes \in TimeMap
  BY <1>1 DEF DownloadRecord
<1>3. Status(scan.snap) \in StatusSet
  BY <1>2, StatusType
<1>4. ToDownload \subseteq Tx /\ Deleted \subseteq Tx
  BY <1>2 DEF ToDownload, Deleted, Keys, HeightMap, Cache
<1>5. Timestamps \in TimeMap
  <2>1. \A h \in Height : Header(h) \in Fork \cup {Absent}
    BY <1>2 DEF Header, TimeMap, ServerTyped
  <2>. QED BY <2>1 DEF Timestamps, TimeMap
<1>6. [t \in Tx |-> IF scan.heights[t] # scan.snap.heights[t]
                    THEN scan.heights[t] ELSE Absent] \in HeightMap
  BY <1>2 DEF HeightMap
<1>7. scan.tip # NoBlock
  BY <1>2, NoBlockAssumption
<1>8. {o \in Unblindable : /\ TxOf[o] \in ToDownload
                           /\ ScriptOf[o] \in scan.snap.scripts \cup scan.scripts} \subseteq OutPoint
  BY TxAssumption
<1>. HIDE DEF ToDownload, Deleted, Timestamps
<1>. QED BY <1>1, <1>2, <1>3, <1>4, <1>5, <1>6, <1>7, <1>8, ZenonT(30) DEF ScanUpdate, Update

\* The types of the server and the scan are kept by every step.
LEMMA ScanTypeNext ==
    ASSUME TypeOK, ServerTyped, ScanTyped, [NextAll]_allVars
    PROVE  ServerTyped' /\ ScanTyped'
<1>1. CASE ServerStep
  <2>1. scan' = scan /\ pending' = pending /\ fresh' = "none"
    BY <1>1, ServerFrame
  <2>. QED BY <1>1, <2>1, ServerType DEF ScanTyped
<1>2. CASE ScanStart
  BY <1>2, ScanStartFields, SMTT(20) DEF ScanTyped, ServerTyped
<1>3. CASE ReadBatch
  BY <1>3, ReadBatchType, ReadBatchFields DEF ServerTyped
<1>4. CASE ReadTip
  BY <1>4, ReadTipFields DEF ScanTyped, ServerTyped, ScanRecord
<1>5. CASE ScanFails \/ ScanNone
  BY <1>5 DEF ScanFails, ScanNone, ScanTyped, ServerTyped, NoScan
<1>6. CASE ScanSome
  <2>1. scan.pc = "download" /\ pending' = ScanUpdate /\ scan' = NoScan /\ server' = server
    BY <1>6 DEF ScanSome
  <2>. QED BY <2>1, ScanUpdateType DEF ScanTyped, ServerTyped, NoScan
<1>7. CASE ApplyPending \/ RefusePending
  BY <1>7, SMTT(20) DEF ApplyPending, RefusePending, ScanTyped, ServerTyped
<1>8. CASE (\E t \in Local : LocalTransaction(t)) \/ (\E t \in Built : LocalBlinder(t))
  BY <1>8 DEF LocalTransaction, LocalBlinder, LocalCall, ScanTyped, ServerTyped
<1>9. CASE StopProcess
  BY <1>9 DEF StopProcess, ScanTyped, ServerTyped, NoScan
<1>10. CASE WalletStep
  BY <1>10 DEF WalletStep, scanVars, ScanTyped, ServerTyped
<1>11. CASE UNCHANGED allVars
  BY <1>11 DEF allVars, scanVars, ScanTyped, ServerTyped
<1>. QED BY <1>1, <1>2, <1>3, <1>4, <1>5, <1>6, <1>7, <1>8, <1>9, <1>10, <1>11, ZenonT(30)
         DEF NextAll, ScanStep

-----------------------------------------------------------------------------
(* What a scan knows of the server.                                        *)

\* Transaction t is in the history of script s, on a server that has it.
Touches(s, t) == \E o \in OutPoint : ScriptOf[o] = s /\ (TxOf[o] = t \/ o \in Spends[t])

\* Some transaction of h pays script s or spends from it.
UsedIn(h, s) == \E t \in Tx : h[t] # Absent /\ Touches(s, t)

\* Each last unused index is 0 or follows a script that is used in h.
Grounded(lastUnused, h) ==
    \A ch \in Chain :
        \/ lastUnused[ch] = 0
        \/ /\ Scanned(ch)
           /\ \E s \in Script : /\ ChainOf[s] = ch /\ lastUnused[ch] = IndexOf[s] + 1
                                /\ UsedIn(h, s)

\* The scan has read script s for certain: it is in a batch before the present
\* one, or its chain is done and it is within the gap or below the index the scan
\* had to reach.
Passed(s) ==
    \/ /\ WithinGap(s) \/ IndexOf[s] < Need(ChainOf[s])
       /\ IF scan.pc = "history"
          THEN \E i \in 1..(scan.at - 1) : ChainOrder[i] = ChainOf[s]
          ELSE Scanned(ChainOf[s])
    \/ /\ scan.pc = "history" /\ ChainOf[s] = BatchChain
       /\ IndexOf[s] < scan.batch * BatchSize

\* The server has not moved since the scan started.
Steady == ~MidScan \/ fresh = "scan"

\* The scan has the server's transactions of script s and counts s as used.
Complete(s) ==
    /\ \A t \in Tx : server.heights[t] # Absent /\ Touches(s, t)
                        => scan.heights[t] = server.heights[t]
    /\ UsedIn(server.heights, s) => scan.lastUnused[ChainOf[s]] > IndexOf[s]

ScanFollows ==
    /\ \A t \in Tx : scan.heights[t] \in {Absent, server.heights[t]}
    /\ \A s \in Script : Passed(s) => Complete(s)
    /\ scan.pc = "download" => scan.tip = TipOf(server)

ScanInv ==
    scan.pc # "off" => /\ Grounded(scan.lastUnused, scan.heights)
                       /\ Steady => ScanFollows

\* The transactions of a batch.
LEMMA BatchHistory ==
    /\ \A s : History(s) = {t \in Tx : server.heights[t] # Absent /\ Touches(s, t)}
    /\ \A s \in BatchScripts, t \in Tx :
          server.heights[t] # Absent /\ Touches(s, t) => t \in BatchFound
    /\ \A s \in BatchScripts : UsedIn(server.heights, s) <=> s \in BatchUsed
    /\ \A t \in BatchFound : t \in Tx /\ server.heights[t] # Absent
<1>1. \A s : History(s) = {t \in Tx : server.heights[t] # Absent /\ Touches(s, t)}
  BY DEF History, OnServer, Touches
<1>. QED BY <1>1 DEF BatchFound, BatchUsed, UsedIn

\* Reading more transactions keeps what is grounded grounded.
LEMMA GroundedMore ==
    ASSUME NEW lastUnused, NEW h, NEW k, Grounded(lastUnused, h),
           \A t \in Tx : h[t] # Absent => k[t] # Absent
    PROVE  Grounded(lastUnused, k)
BY DEF Grounded, UsedIn

\* A turn of the loop: the indexes follow used scripts.
LEMMA ReadBatchGrounded ==
    ASSUME ServerTyped, ScanTyped, ScanInv, ReadBatch
    PROVE  Grounded(scan'.lastUnused, scan'.heights)
<1>1. scan \in ScanRecord /\ scan.pc = "history" /\ BatchChain \in Chain
      /\ scan.lastUnused \in IndexMap
  BY ReadBatchFields, ChainTyped, ZenonT(30) DEF ScanRecord
<1>2. \A t \in Tx : scan.heights[t] # Absent => scan'.heights[t] # Absent
  BY ReadBatchFields, BatchHistory, SMTT(20)
<1>3. Grounded(scan.lastUnused, scan'.heights)
  BY <1>1, <1>2, GroundedMore, SMTT(20) DEF ScanInv
<1>4. ASSUME NEW ch \in Chain, ch # BatchChain \/ BatchUsed = {}
      PROVE  scan'.lastUnused[ch] = scan.lastUnused[ch]
  BY <1>1, <1>4, ReadBatchFields DEF IndexMap
<1>5. ASSUME BatchUsed # {}
      PROVE  /\ Scanned(BatchChain)
             /\ \E s \in Script : /\ ChainOf[s] = BatchChain
                                  /\ scan'.lastUnused[BatchChain] = IndexOf[s] + 1
                                  /\ UsedIn(scan'.heights, s)
  <2>1. PICK s \in BatchUsed : IndexOf[s] = Max({IndexOf[r] : r \in BatchUsed})
    BY <1>1, <1>5, LastOfBatch, ZenonT(30)
  <2>2. s \in Script /\ ChainOf[s] = BatchChain /\ s \in BatchScripts /\ IndexOf[s] \in Nat
    BY <2>1, TxAssumption DEF BatchUsed, BatchScripts, ScriptBatch
  <2>3. scan'.lastUnused[BatchChain] = 1 + IndexOf[s]
    BY <1>1, <1>5, <2>1, ReadBatchFields, Zenon DEF IndexMap
  <2>4. UsedIn(scan'.heights, s)
    <3>1. PICK t \in Tx : server.heights[t] # Absent /\ Touches(s, t)
      BY <2>1, <2>2, BatchHistory DEF UsedIn
    <3>2. t \in BatchFound
      BY <2>2, <3>1, BatchHistory, SMTT(20)
    <3>3. scan'.heights[t] = server.heights[t]
      BY <3>2, ReadBatchFields
    <3>. QED BY <3>1, <3>3, SMTT(20) DEF UsedIn
  <2>5. Scanned(BatchChain)
    BY <1>1, ChainTyped DEF Scanned, BatchChain
  <2>. QED BY <2>2, <2>3, <2>4, <2>5
<1>. QED
  <2>. SUFFICES ASSUME NEW ch \in Chain
                PROVE  \/ scan'.lastUnused[ch] = 0
                       \/ /\ Scanned(ch)
                          /\ \E s \in Script : /\ ChainOf[s] = ch
                                               /\ scan'.lastUnused[ch] = IndexOf[s] + 1
                                               /\ UsedIn(scan'.heights, s)
    BY DEF Grounded
  <2>1. CASE ch # BatchChain \/ BatchUsed = {}
    BY <1>3, <1>4, <2>1 DEF Grounded
  <2>2. CASE ch = BatchChain /\ BatchUsed # {}
    BY <1>5, <2>2
  <2>. QED BY <2>1, <2>2

\* The script s is in the present batch.
LEMMA InBatch ==
    ASSUME scan \in ScanRecord, NEW s \in Script
    PROVE  s \in BatchScripts <=> /\ ChainOf[s] = BatchChain
                                  /\ IndexOf[s] >= scan.batch * BatchSize
                                  /\ IndexOf[s] < scan.batch * BatchSize + BatchSize
<1>1. (scan.batch + 1) * BatchSize = scan.batch * BatchSize + BatchSize
  BY BatchBounds DEF ScanRecord
<1>. QED BY <1>1 DEF BatchScripts, ScriptBatch

\* What a turn of the loop adds to the scripts read is its batch: when it ends the
\* chain, every script the scan had to reach has been read.
LEMMA PassedNext ==
    ASSUME ScanTyped, ReadBatch, NEW s \in Script, Passed(s)'
    PROVE  Passed(s) \/ s \in BatchScripts
<1>. DEFINE b == scan.batch * BatchSize
<1>1. /\ scan \in ScanRecord /\ scan.pc = "history" /\ scan.batch \in Nat
      /\ scan.at \in 1..Len(ChainOrder) /\ scan.at \in Nat
  BY ReadBatchFields, ChainTyped DEF ScanRecord
<1>2. /\ b \in Nat /\ (scan.batch + 1) * BatchSize = b + BatchSize
      /\ b >= scan.batch /\ 0 * BatchSize = 0 /\ BatchSize \in Nat
  BY <1>1, BatchBounds, BatchAssumption
<1>3. IndexOf[s] \in Nat
  BY TxAssumption, SMTT(20)
<1>4. (\A ch : Need(ch)' = Need(ch)) /\ WithinGap(s)' = WithinGap(s)
  BY ReadBatchFields DEF Need, WithinGap, History, OnServer
<1>5. Need(BatchChain) \in Nat
  BY <1>1, BatchAssumption, ChainTyped, ZenonT(30) DEF Need, MaxOf, ScanRecord, Cache, IndexMap
<1>6. s \in BatchScripts <=> /\ ChainOf[s] = BatchChain /\ IndexOf[s] >= b
                             /\ IndexOf[s] < b + BatchSize
  BY <1>1, InBatch
<1>7. CASE BatchDone
  <2>1. scan'.batch = 0 /\ Need(BatchChain) <= 1 + b
    BY <1>7, ReadBatchFields, SMTT(20) DEF BatchDone
  <2>2. IF scan'.pc = "history" THEN scan'.at = scan.at + 1
        ELSE scan'.pc = "tip" /\ scan.at = Len(ChainOrder)
    BY <1>7, ReadBatchFields, SMTT(20) DEF BatchLast
  <2>3. ~(scan'.pc = "history" /\ ChainOf[s] = BatchChain' /\ IndexOf[s] < scan'.batch * BatchSize)
    BY <1>2, <1>3, <2>1, SMTT(20)
  <2>4. /\ WithinGap(s) \/ IndexOf[s] < Need(ChainOf[s])
        /\ IF scan'.pc = "history"
           THEN \E i \in 1..(scan'.at - 1) : ChainOrder[i] = ChainOf[s]
           ELSE Scanned(ChainOf[s])
    BY <1>4, <2>3 DEF Passed
  <2>5. PICK i \in 1..scan.at : ChainOrder[i] = ChainOf[s]
    <3>1. CASE scan'.pc = "history"
      <4>1. scan'.at - 1 = scan.at
        BY <1>1, <2>2, <3>1
      <4>. QED BY <2>4, <3>1, <4>1
    <3>2. CASE scan'.pc # "history"
      BY <2>2, <2>4, <3>2, ZenonT(30) DEF Scanned
    <3>. QED BY <3>1, <3>2
  <2>6. CASE i < scan.at
    <3>1. i \in 1..(scan.at - 1)
      BY <1>1, <2>6
    <3>. QED BY <1>1, <2>4, <2>5, <3>1 DEF Passed
  <2>7. CASE i = scan.at
    <3>1. ChainOf[s] = BatchChain
      BY <2>5, <2>7, Zenon DEF BatchChain
    <3>2. CASE IndexOf[s] < b
      BY <1>1, <3>1, <3>2, Zenon DEF Passed
    <3>3. CASE IndexOf[s] >= b
      <4>1. IndexOf[s] < b + BatchSize
        <5>1. CASE WithinGap(s)
          <6>. SUFFICES ASSUME ~(IndexOf[s] < b + BatchSize)
                        PROVE  FALSE
            OBVIOUS
          <6>1. scan.batch \in 0..IndexOf[s] /\ (scan.batch + 1) * BatchSize <= IndexOf[s]
            <7>. HIDE DEF b
            <7>. QED BY <1>1, <1>2, <1>3, SMTT(20)
          <6>2. PICK r \in BatchScripts : History(r) # {}
            BY <3>1, <5>1, <6>1 DEF WithinGap, BatchScripts
          <6>3. BatchFound # {}
            BY <6>2 DEF BatchFound
          <6>. QED BY <1>7, <6>3 DEF BatchDone
        <5>2. CASE IndexOf[s] < Need(BatchChain)
          <6>1. BatchSize >= 1
            BY BatchAssumption
          <6>. HIDE DEF b
          <6>. QED BY <1>2, <1>3, <1>5, <2>1, <5>2, <6>1, SMTT(20)
        <5>. QED BY <2>4, <3>1, <5>1, <5>2
      <4>. QED BY <1>6, <3>1, <3>3, <4>1, ZenonT(30)
    <3>. HIDE DEF b
    <3>. QED BY <1>2, <1>3, <3>2, <3>3, SMTT(20)
  <2>. QED BY <1>1, <2>5, <2>6, <2>7, SMTT(20)
<1>8. CASE ~BatchDone
  <2>1. scan'.pc = "history" /\ scan'.at = scan.at /\ scan'.batch = scan.batch + 1
    BY <1>8, ReadBatchFields DEF BatchLast
  <2>2. BatchChain' = BatchChain
    BY <2>1, ZenonT(30) DEF BatchChain
  <2>3. CASE /\ WithinGap(s) \/ IndexOf[s] < Need(ChainOf[s])
             /\ \E i \in 1..(scan.at - 1) : ChainOrder[i] = ChainOf[s]
    BY <1>1, <2>3 DEF Passed
  <2>4. CASE ChainOf[s] = BatchChain /\ IndexOf[s] < b + BatchSize
    <3>1. CASE IndexOf[s] < b
      BY <1>1, <2>4, <3>1 DEF Passed
    <3>2. CASE IndexOf[s] >= b
      BY <1>6, <2>4, <3>2, ZenonT(30)
    <3>. HIDE DEF b
    <3>. QED BY <1>2, <1>3, <3>1, <3>2, SMTT(20)
  <2>5. \/ /\ WithinGap(s) \/ IndexOf[s] < Need(ChainOf[s])
           /\ \E i \in 1..(scan.at - 1) : ChainOrder[i] = ChainOf[s]
        \/ ChainOf[s] = BatchChain /\ IndexOf[s] < b + BatchSize
    BY <1>2, <1>4, <2>1, <2>2 DEF Passed
  <2>. QED BY <2>3, <2>4, <2>5, ZenonT(30)
<1>. QED BY <1>7, <1>8

\* A turn of the loop: what has been read is complete.
LEMMA ReadBatchFollows ==
    ASSUME ServerTyped, ScanTyped, ScanFollows, ReadBatch
    PROVE  ScanFollows'
<1>1. /\ scan \in ScanRecord /\ scan.pc = "history" /\ BatchChain \in Chain
      /\ scan.lastUnused \in IndexMap /\ server' = server /\ scan'.pc # "download"
      /\ scan.at \in 1..Len(ChainOrder) /\ scan.at \in Nat /\ scan.batch \in Nat
  BY ReadBatchFields, ChainTyped DEF ScanRecord
<1>2. \A t \in Tx : scan'.heights[t] \in {scan.heights[t], server.heights[t]}
  BY ReadBatchFields, ZenonT(30)
<1>3. \A t \in Tx : scan'.heights[t] \in {Absent, server'.heights[t]}
  BY <1>1, <1>2, Zenon DEF ScanFollows
<1>4. ASSUME NEW s \in Script, Passed(s)'
      PROVE  Complete(s)'
  <2>1. Passed(s) \/ s \in BatchScripts
    BY <1>4, PassedNext
  <2>2. ASSUME NEW t \in Tx, server.heights[t] # Absent, Touches(s, t)
        PROVE  scan'.heights[t] = server.heights[t]
    <3>1. CASE Passed(s)
      BY <1>2, <2>2, <3>1, ZenonT(30) DEF ScanFollows, Complete
    <3>2. CASE s \in BatchScripts
      <4>1. t \in BatchFound
        BY <2>2, <3>2, BatchHistory, Zenon
      <4>. QED BY <4>1, ReadBatchFields
    <3>. QED BY <2>1, <3>1, <3>2, Zenon
  <2>3. ASSUME UsedIn(server.heights, s)
        PROVE  scan'.lastUnused[ChainOf[s]] > IndexOf[s]
    <3>. DEFINE m == Max({IndexOf[r] : r \in BatchUsed})
    <3>0. IndexOf[s] \in Nat /\ ChainOf[s] \in Chain
      BY TxAssumption
    <3>1. CASE s \in BatchScripts
      <4>1. s \in BatchUsed /\ ChainOf[s] = BatchChain
        BY <2>3, <3>1, BatchHistory, ZenonT(30) DEF BatchScripts, ScriptBatch
      <4>2. m \in Nat /\ IndexOf[s] <= m
        BY <1>1, <4>1, LastOfBatch
      <4>3. scan'.lastUnused[BatchChain] = 1 + m
        BY <1>1, <4>1, ReadBatchFields, Zenon DEF IndexMap
      <4>. HIDE DEF m
      <4>. QED BY <3>0, <4>1, <4>2, <4>3, SMTT(20)
    <3>2. CASE Passed(s)
      <4>1. scan.lastUnused[ChainOf[s]] > IndexOf[s]
        BY <2>3, <3>2 DEF ScanFollows, Complete
      <4>2. CASE ChainOf[s] # BatchChain \/ BatchUsed = {}
        <5>1. scan'.lastUnused[ChainOf[s]] = scan.lastUnused[ChainOf[s]]
          BY <1>1, <3>0, <4>2, ReadBatchFields, SMTT(20) DEF IndexMap
        <5>. QED BY <4>1, <5>1, ZenonT(30)
      <4>3. CASE ChainOf[s] = BatchChain /\ BatchUsed # {}
        <5>1. ~\E i \in 1..(scan.at - 1) : ChainOrder[i] = ChainOf[s]
          BY <1>1, <4>3, OrderAssumption, SMTT(20) DEF BatchChain
        <5>2. IndexOf[s] < scan.batch * BatchSize
          BY <1>1, <3>2, <5>1 DEF Passed
        <5>3. PICK r \in BatchUsed : m \in Nat /\ IndexOf[r] = m
          BY <1>1, <4>3, LastOfBatch, ZenonT(30)
        <5>4. m >= scan.batch * BatchSize
          BY <5>3 DEF BatchUsed, BatchScripts, ScriptBatch
        <5>5. scan'.lastUnused[BatchChain] = 1 + m
          BY <1>1, <4>3, ReadBatchFields, Zenon DEF IndexMap
        <5>6. scan.batch * BatchSize \in Nat
          BY <1>1, BatchBounds, ZenonT(30)
        <5>. HIDE DEF m
        <5>. QED BY <3>0, <4>3, <5>2, <5>3, <5>4, <5>5, <5>6, SMTT(20)
      <4>. QED BY <4>2, <4>3, ZenonT(30)
    <3>. QED BY <2>1, <3>1, <3>2
  <2>. QED BY <1>1, <2>2, <2>3 DEF Complete
<1>. QED BY <1>1, <1>3, <1>4, ZenonT(30) DEF ScanFollows

\* An update with nothing but a tip, timestamps and indexes.
Bare(u) ==
    /\ u.txs = {} /\ u.unblinds = {} /\ Keys(u.new) = {} /\ u.del = {} /\ u.scripts = {}

\* Update u has the last unused index of every used script below the ones of the
\* wallet it was made for.
Keeps(u) ==
    \A s \in Script :
        UsedIn(u.status.heights, s) /\ Scanned(ChainOf[s])
            /\ IndexOf[s] < u.status.lastUnused[ChainOf[s]]
        => u.lastUnused[ChainOf[s]] > IndexOf[s]

\* What the caller holds: an update without transactions is grounded in the
\* wallet's own and, unless the server moved, lowers no index.
PendingInv ==
    pending # NoUpdate /\ Bare(pending) =>
        /\ Grounded(pending.lastUnused, pending.status.heights)
        /\ ~MidScan => Keeps(pending)

\* The heights a scan's update leads to are the ones the scan found.
LEMMA ScanHeights ==
    ASSUME ServerTyped, ScanTyped, scan.pc = "download"
    PROVE  UpdateHeights(ScanUpdate.status.heights, ScanUpdate.new, ScanUpdate.del)
              = scan.heights
<1>1. scan.heights \in HeightMap /\ scan.snap.heights \in HeightMap
  BY ScanUpdateType DEF DownloadRecord, Cache
<1>2. /\ ScanUpdate.status.heights = scan.snap.heights /\ ScanUpdate.del = Deleted
      /\ ScanUpdate.new = [t \in Tx |-> IF scan.heights[t] # scan.snap.heights[t]
                                        THEN scan.heights[t] ELSE Absent]
  BY Zenon DEF ScanUpdate, Status
<1>3. \A t \in Tx : t \in Deleted <=> scan.snap.heights[t] # Absent /\ scan.heights[t] = Absent
  BY <1>1, SMTT(20) DEF Deleted, Keys, HeightMap
<1>. DEFINE h == UpdateHeights(scan.snap.heights, ScanUpdate.new, ScanUpdate.del)
<1>4. h = [t \in Tx |-> IF ScanUpdate.new[t] = Absent
                        THEN IF t \in Deleted THEN Absent ELSE scan.snap.heights[t]
                        ELSE ScanUpdate.new[t]]
  BY <1>1, <1>2, SMTT(20) DEF UpdateHeights, Extend, Without, HeightMap
<1>5. \A t \in Tx : h[t] = scan.heights[t]
  BY <1>2, <1>3, <1>4
<1>6. DOMAIN scan.heights = Tx /\ scan.heights = [t \in Tx |-> scan.heights[t]]
  BY <1>1 DEF HeightMap
<1>7. h = scan.heights
  BY <1>4, <1>5, <1>6, ZenonT(30)
<1>. QED BY <1>2, <1>7

\* A scan that finds no change of the transactions found the wallet's own.
LEMMA BareScan ==
    ASSUME ServerTyped, ScanTyped, scan.pc = "download", Bare(ScanUpdate)
    PROVE  scan.heights = scan.snap.heights
<1>1. scan.heights \in HeightMap /\ scan.snap.heights \in HeightMap
  BY ScanUpdateType DEF DownloadRecord, Cache
<1>2. /\ ScanUpdate.status.heights = scan.snap.heights /\ ScanUpdate.new \in HeightMap
      /\ ScanUpdate.del = {} /\ Keys(ScanUpdate.new) = {}
  BY ScanUpdateType, Zenon DEF ScanUpdate, Status, Bare, Update
<1>3. \A t \in Tx : ScanUpdate.new[t] = Absent
  BY <1>2, SMTT(20) DEF Keys, HeightMap
<1>4. UpdateHeights(scan.snap.heights, ScanUpdate.new, {}) = scan.snap.heights
  BY <1>1, <1>3 DEF UpdateHeights, Extend, Without, HeightMap
<1>. QED BY <1>2, <1>4, ScanHeights

\* full_scan returns an update.
LEMMA ScanSomePending ==
    ASSUME ServerTyped, ScanTyped, ScanInv, ScanSome
    PROVE  PendingInv'
<1>1. scan.pc = "download" /\ pending' = ScanUpdate /\ scan \in DownloadRecord
  BY ScanUpdateType DEF ScanSome
<1>2. Grounded(scan.lastUnused, scan.heights) /\ (~MidScan => ScanFollows)
  BY <1>1 DEF ScanInv, Steady
<1>3. /\ ScanUpdate.lastUnused = scan.lastUnused
      /\ ScanUpdate.status.heights = scan.snap.heights
      /\ ScanUpdate.status.lastUnused = scan.snap.lastUnused
  BY Zenon DEF ScanUpdate, Status
<1>. SUFFICES ASSUME Bare(ScanUpdate)
              PROVE  /\ Grounded(scan.lastUnused, scan.snap.heights)
                     /\ ~MidScan => Keeps(ScanUpdate)
  BY <1>1, <1>3, Zenon DEF PendingInv
<1>4. scan.heights = scan.snap.heights
  BY <1>1, BareScan, Zenon
<1>5. ASSUME ~MidScan PROVE Keeps(ScanUpdate)
  <2>. SUFFICES ASSUME NEW s \in Script, UsedIn(scan.heights, s), Scanned(ChainOf[s]),
                       IndexOf[s] < scan.snap.lastUnused[ChainOf[s]]
                PROVE  scan.lastUnused[ChainOf[s]] > IndexOf[s]
    BY <1>3, <1>4, Zenon DEF Keeps
  <2>1. UsedIn(server.heights, s)
    BY <1>2, <1>5, ZenonT(30) DEF UsedIn, ScanFollows
  <2>2. IndexOf[s] < Need(ChainOf[s])
    <3>1. IndexOf[s] \in Nat /\ scan.snap.lastUnused[ChainOf[s]] \in Nat /\ ToIndex \in Nat
      BY <1>1, TxAssumption, BatchAssumption, Zenon DEF DownloadRecord, Cache, IndexMap
    <3>. QED BY <3>1 DEF Need, MaxOf
  <2>3. Passed(s)
    BY <1>1, <2>2, ZenonT(30) DEF Passed
  <2>. QED BY <1>2, <1>5, <2>1, <2>3, Zenon DEF ScanFollows, Complete
<1>. QED BY <1>2, <1>4, <1>5

\* What a scan knows of the server stays while neither moves.
LEMMA ScanFollowsFrame ==
    ASSUME server' = server, scan' = scan, ScanFollows
    PROVE  ScanFollows'
<1>1. \A s \in Script : WithinGap(s)' <=> WithinGap(s)
  BY Zenon DEF WithinGap, History, OnServer
<1>2. \A s \in Script : Passed(s)' => Passed(s)
  BY <1>1, Zenon DEF Passed, Need, BatchChain
<1>3. \A s \in Script : Complete(s) => Complete(s)'
  BY DEF Complete
<1>. QED BY <1>2, <1>3 DEF ScanFollows

\* Every step keeps what a scan knows and what the caller holds.
LEMMA ScanInvNext ==
    ASSUME TypeOK, ServerTyped, ScanTyped, ScanInv, PendingInv, [NextAll]_allVars
    PROVE  ScanInv' /\ PendingInv'
<1>1. CASE ServerStep
  <2>1. scan' = scan /\ pending' = pending /\ fresh' = "none" /\ (MidScan \/ scan.pc = "off")
    BY <1>1, ServerFrame
  <2>2. scan.pc # "off" => ~Steady'
    BY <2>1, Zenon DEF Steady
  <2>. QED BY <2>1, <2>2 DEF ScanInv, PendingInv
<1>2. CASE ScanStart
  <2>1. scan' \in ScanRecord /\ scan'.pc = "history" /\ scan'.at = 1 /\ scan'.batch = 0
        /\ scan'.heights = NoHeights /\ scan'.lastUnused = [c \in Chain |-> 0]
        /\ pending' = NoUpdate
    BY <1>2, ScanStartFields, Zenon
  <2>2. Grounded(scan'.lastUnused, scan'.heights)
    BY <2>1, Zenon DEF Grounded
  <2>3. ~\E s \in Script : Passed(s)'
    <3>1. 1..(scan'.at - 1) = {} /\ scan'.batch * BatchSize = 0
      BY <2>1, BatchAssumption
    <3>2. \A s \in Script : ~(IndexOf[s] < 0)
      BY TxAssumption, SMTT(20)
    <3>. QED BY <2>1, <3>1, <3>2, Zenon DEF Passed
  <2>4. ScanFollows'
    BY <2>1, <2>3 DEF ScanFollows, NoHeights
  <2>. QED BY <2>1, <2>2, <2>4 DEF ScanInv, PendingInv
<1>3. CASE ReadBatch
  <2>1. scan.pc = "history" /\ pending' = pending /\ fresh' = fresh /\ pending = NoUpdate
    BY <1>3, ReadBatchFields, Zenon DEF ScanTyped
  <2>2. Steady' = Steady
    BY <2>1 DEF Steady
  <2>3. Steady => ScanFollows'
    BY <1>3, <2>1, ReadBatchFollows DEF ScanInv
  <2>4. Grounded(scan'.lastUnused, scan'.heights)
    BY <1>3, ReadBatchGrounded, Zenon
  <2>. QED BY <2>1, <2>2, <2>3, <2>4, Zenon DEF ScanInv, PendingInv
<1>4. CASE ReadTip
  <2>1. /\ scan.pc = "tip" /\ scan'.pc = "download" /\ scan'.tip = TipOf(server)
        /\ scan'.snap = scan.snap /\ scan'.heights = scan.heights
        /\ scan'.lastUnused = scan.lastUnused /\ server' = server /\ pending' = pending
        /\ fresh' = fresh /\ pending = NoUpdate
    BY <1>4, ReadTipFields, Zenon DEF ScanTyped
  <2>2. \A s \in Script : Passed(s)' => Passed(s)
    BY <2>1, ZenonT(30) DEF Passed, Need, WithinGap, History, OnServer
  <2>3. \A s \in Script : Complete(s) => Complete(s)'
    BY <2>1 DEF Complete
  <2>4. ScanFollows => ScanFollows'
    BY <2>1, <2>2, <2>3, ZenonT(30) DEF ScanFollows
  <2>. QED BY <2>1, <2>4, Zenon DEF ScanInv, PendingInv, Steady
<1>5. CASE ScanFails \/ ScanNone
  <2>1. scan' = NoScan /\ pending' = pending
    BY <1>5 DEF ScanFails, ScanNone
  <2>. QED BY <2>1 DEF ScanInv, PendingInv, NoScan
<1>6. CASE ScanSome
  <2>1. scan' = NoScan
    BY <1>6, ZenonT(30) DEF ScanSome
  <2>. QED BY <1>6, <2>1, ScanSomePending DEF ScanInv, NoScan
<1>7. CASE ApplyPending \/ RefusePending
  <2>1. scan' = scan /\ pending' = NoUpdate /\ pending # NoUpdate
    BY <1>7, Zenon DEF ApplyPending, RefusePending
  <2>. QED BY <2>1 DEF ScanInv, PendingInv, ScanTyped
<1>8. CASE (\E t \in Local : LocalTransaction(t)) \/ (\E t \in Built : LocalBlinder(t))
  <2>1. UNCHANGED <<server, scan, pending>> /\ fresh' = "none"
    BY <1>8 DEF LocalTransaction, LocalBlinder, LocalCall
  <2>2. ScanFollows => ScanFollows'
    BY <2>1, ScanFollowsFrame, Zenon
  <2>. QED BY <2>1, <2>2 DEF ScanInv, PendingInv, Steady
<1>9. CASE StopProcess
  BY <1>9, ZenonT(30) DEF StopProcess, ScanInv, PendingInv, NoScan
<1>10. CASE WalletStep \/ UNCHANGED allVars
  <2>1. UNCHANGED <<server, scan, pending, fresh>>
    BY <1>10 DEF WalletStep, allVars, scanVars
  <2>2. ScanFollows => ScanFollows'
    BY <2>1, ScanFollowsFrame
  <2>. QED BY <2>1, <2>2 DEF ScanInv, PendingInv, Steady
<1>. QED BY <1>1, <1>2, <1>3, <1>4, <1>5, <1>6, <1>7, <1>8, <1>9, <1>10, ZenonT(30)
         DEF NextAll, ScanStep

-----------------------------------------------------------------------------
(* The composition takes steps of the wallet.                              *)

\* The updates of the local calls.
LEMMA LocalUpdateType ==
    ASSUME TypeOK, NEW t \in Tx
    PROVE  /\ TransactionUpdate(cache, t, opt.utxoOnly) \in Update
           /\ BlinderUpdate(cache, t) \in Update
<1>1. /\ cache \in Cache /\ Status(cache) \in StatusSet /\ opt.utxoOnly \in BOOLEAN
      /\ cache.lastUnused \in IndexMap /\ cache.unspent \in SUBSET OutPoint
  BY StatusType, Zenon DEF TypeOK, OptionSet, Cache
<1>2. NoHeights \in HeightMap /\ NoTimes \in TimeMap /\ [NoHeights EXCEPT ![t] = Unconf] \in HeightMap
  BY DEF NoHeights, NoTimes, HeightMap, TimeMap
<1>3. {o \in Unblindable : TxOf[o] = t /\ ScriptOf[o] \in cache.scripts} \subseteq OutPoint
  BY TxAssumption
<1>4. TransactionUpdate(cache, t, opt.utxoOnly) \in Update
  BY <1>1, <1>2, <1>3, Zenon DEF TransactionUpdate, Update
<1>5. BlinderUpdate(cache, t) \in Update
  BY <1>1, <1>2, Zenon DEF BlinderUpdate, Update
<1>. QED BY <1>4, <1>5, Zenon

\* What each step of the composition is to the wallet.
LEMMA WalletMoves ==
    ASSUME TypeOK, ScanTyped, [NextAll]_allVars
    PROVE  \/ ApplyPending /\ pending \in Update /\ StartApply(pending)
           \/ \E t \in Local : /\ TransactionUpdate(cache, t, opt.utxoOnly) \in Update
                               /\ LocalTransaction(t)
           \/ \E t \in Built : BlinderUpdate(cache, t) \in Update /\ LocalBlinder(t)
           \/ StoreStep /\ UNCHANGED scanVars
           \/ Crash /\ fresh' = "none" /\ pending' = NoUpdate /\ scan' = NoScan
           \/ UNCHANGED vars
<1>1. CASE ServerStep
  BY <1>1, ServerFrame, SMTT(20)
<1>2. CASE ScanStep
  BY <1>2, SMTT(20) DEF ScanStep, ScanStart, ReadBatch, ReadTip, ScanFails, ScanSome, ScanNone
<1>3. CASE ApplyPending
  BY <1>3 DEF ApplyPending, ScanTyped
<1>4. CASE RefusePending
  BY <1>4 DEF RefusePending
<1>5. ASSUME NEW t \in Local, LocalTransaction(t)
      PROVE  TransactionUpdate(cache, t, opt.utxoOnly) \in Update
  BY LocalUpdateType, CallerAssumption
<1>6. ASSUME NEW t \in Built, LocalBlinder(t)
      PROVE  BlinderUpdate(cache, t) \in Update
  BY LocalUpdateType, CallerAssumption
<1>7. CASE StopProcess
  BY <1>7 DEF StopProcess
<1>8. CASE WalletStep
  BY <1>8 DEF WalletStep
<1>9. CASE UNCHANGED allVars
  BY <1>9 DEF allVars
<1>. QED BY <1>1, <1>2, <1>3, <1>4, <1>5, <1>6, <1>7, <1>8, <1>9, ZenonT(30) DEF NextAll

\* Whatever the server does, the wallet takes steps of its own.
LEMMA WalletSteps ==
    ASSUME TypeOK, ScanTyped, [NextAll]_allVars
    PROVE  [AnyNext]_vars
<1>1. ASSUME NEW t \in Local, TransactionUpdate(cache, t, opt.utxoOnly) \in Update,
             LocalTransaction(t)
      PROVE  \E u \in Update : StartApply(u)
  BY <1>1, Zenon DEF LocalTransaction, ApplyTransaction
<1>2. ASSUME NEW t \in Built, BlinderUpdate(cache, t) \in Update, LocalBlinder(t)
      PROVE  \E u \in Update : StartApply(u)
  BY <1>2 DEF LocalBlinder, ApplyBlinder
<1>. QED BY <1>1, <1>2, WalletMoves DEF AnyNext

\* A fresh wallet beside a server that has a chain.
LEMMA ScanInit ==
    ASSUME InitAll
    PROVE  TypeOK /\ Typed /\ ServerTyped /\ ScanTyped /\ ScanInv /\ PendingInv
<1>1. TypeOK /\ Typed
  BY TypeInit, ZenonT(30) DEF InitAll
<1>2. ScanTyped /\ ScanInv /\ PendingInv
  BY DEF InitAll, ScanTyped, ScanInv, PendingInv, NoScan
<1>3. ServerTyped
  <2>. DEFINE blocks == [h \in Height |-> IF h <= StartHeight THEN 1 ELSE Absent]
  <2>1. /\ NoHeights \in HeightMap /\ StartHeight \in Nat /\ 1 # Absent
        /\ 0..StartHeight \subseteq Height /\ blocks \in TimeMap
    BY HeightAssumption, ServerGenesisAssumption DEF NoHeights, HeightMap, TimeMap
  <2>2. Keys(blocks) = 0..StartHeight
    <3>1. DOMAIN blocks = Height /\ \A h \in Height : blocks[h] # Absent <=> h <= StartHeight
      BY <2>1
    <3>2. \A h \in Height : h \in Nat
      BY HeightAssumption
    <3>. HIDE DEF blocks
    <3>. QED BY <2>1, <3>1, <3>2 DEF Keys
  <2>3. server = [heights |-> NoHeights, blocks |-> blocks]
    BY DEF InitAll
  <2>. HIDE DEF blocks
  <2>4. server.blocks = blocks /\ server \in [heights : HeightMap, blocks : TimeMap]
    BY <2>1, <2>3
  <2>. QED BY <2>1, <2>2, <2>4, Zenon DEF ServerTyped
<1>. QED BY <1>1, <1>2, <1>3

Sound == TypeOK /\ Typed /\ ServerTyped /\ ScanTyped /\ ScanInv /\ PendingInv

\* Whatever the server does, the scans and the wallet keep the facts above.
LEMMA SoundNext ==
    ASSUME Sound, [NextAll]_allVars
    PROVE  Sound'
BY WalletSteps, TypeStep, ScanTypeNext, ScanInvNext DEF Sound

\* utxos(), explicit_utxos() and balance() find what they read about every
\* unspent outpoint of a wallet that follows a server, whatever the server does
\* during a scan, whatever the stores are and wherever the process stops.
THEOREM ScannedBalanceIsComputable ==
    ASSUME \A o \in Options : ~o.utxoOnly
    PROVE  SpecAll => []BalanceComputable
<1>1. InitAll => Sound /\ Backed
  <2>1. InitAll => Sound
    BY ScanInit DEF Sound
  <2>2. InitAll => Backed
    <3>1. InitAll => Init
      BY DEF InitAll
    <3>. QED BY <3>1, BackedInit
  <2>. QED BY <2>1, <2>2
<1>2. Sound /\ Backed /\ [NextAll]_allVars => (Sound /\ Backed)'
  <2>. SUFFICES ASSUME Sound, Backed, [NextAll]_allVars
                PROVE  (Sound /\ Backed)'
    OBVIOUS
  <2>1. [AnyNext]_vars
    BY WalletSteps, SMTT(20) DEF Sound
  <2>. QED BY <2>1, SoundNext, BackedStep DEF Sound
<1>3. Backed => BalanceComputable
  BY DEF Backed, BalanceComputable, Known
<1>. QED BY <1>1, <1>2, <1>3, PTL DEF SpecAll

-----------------------------------------------------------------------------
(* A wallet that has applied the update of a steady scan has the server's  *)
(* history.                                                                *)

\* While the server has not moved, the update of the scan leads to its heights
\* and its tip, and so has the wallet once it applied it.
Current ==
    /\ fresh = "pending" /\ pending # NoUpdate /\ InReach =>
        /\ UpdateHeights(pending.status.heights, pending.new, pending.del) = server.heights
        /\ pending.tip = TipOf(server)
    /\ fresh = "wallet" =>
        /\ pc \notin {"down", "restore"} /\ pending = NoUpdate
        /\ InReach => cache.heights = server.heights /\ cache.tip = TipOf(server)

\* At the end of a steady scan every transaction has been found.
LEMMA FoundAll ==
    ASSUME Sound, InReach, Steady, scan.pc = "download"
    PROVE  scan.heights = server.heights /\ scan.tip = TipOf(server)
<1>1. ScanFollows
  BY DEF Sound, ScanInv
<1>2. scan \in DownloadRecord /\ scan.heights \in HeightMap /\ server.heights \in HeightMap
  BY ScanUpdateType, Zenon DEF Sound, DownloadRecord, ServerTyped
<1>3. ASSUME NEW t \in Tx, server.heights[t] # Absent
      PROVE  scan.heights[t] = server.heights[t]
  <2>1. PICK s \in Script : /\ Touches(s, t) /\ Scanned(ChainOf[s])
                            /\ WithinGap(s) \/ IndexOf[s] < ToIndex
    BY <1>3, BatchHistory, ZenonT(30) DEF InReach, OnServer
  <2>2. WithinGap(s) \/ IndexOf[s] < Need(ChainOf[s])
    <3>1. IndexOf[s] \in Nat /\ scan.snap.lastUnused[ChainOf[s]] \in Nat /\ ToIndex \in Nat
      BY <1>2, TxAssumption, BatchAssumption, Zenon DEF DownloadRecord, Cache, IndexMap
    <3>2. IndexOf[s] < ToIndex => IndexOf[s] < Need(ChainOf[s])
      BY <3>1, SMTT(20) DEF Need, MaxOf
    <3>. QED BY <2>1, <3>2
  <2>3. Passed(s)
    BY <2>1, <2>2, Zenon DEF Passed
  <2>. QED BY <1>1, <1>3, <2>1, <2>3, Zenon DEF ScanFollows, Complete
<1>4. scan.heights = server.heights
  <2>1. \A t \in Tx : scan.heights[t] = server.heights[t]
    BY <1>1, <1>3, Zenon DEF ScanFollows
  <2>. QED BY <1>2, <2>1, SMTT(20) DEF HeightMap
<1>. QED BY <1>1, <1>4 DEF ScanFollows

\* Applying an update that was made for the wallet as it is.
LEMMA AppliedHeights ==
    ASSUME NEW u \in Update, TypeOK, StartApply(u)
    PROVE  /\ cache'.heights = UpdateHeights(u.status.heights, u.new, u.del)
           /\ cache'.tip = IF u.tip = NoBlock THEN cache.tip ELSE u.tip
           /\ pc' \in {"puttxs", "persist"}
<1>1. u.status = Status(cache) /\ cache' = Apply(cache, bodies \cup u.txs, u, opt.utxoOnly)
  BY ZenonT(30) DEF StartApply, Applicable, SameStatus
<1>2. u.status.heights = cache.heights
  BY <1>1 DEF Status
<1>3. /\ cache'.heights = UpdateHeights(cache.heights, u.new, u.del)
      /\ cache'.tip = IF u.tip = NoBlock THEN cache.tip ELSE u.tip
  BY <1>1, Zenon DEF Apply, NewTip
<1>4. pc' \in {"puttxs", "persist"}
  BY Zenon DEF StartApply
<1>. QED BY <1>2, <1>3, <1>4, Zenon

\* The steps of the stores leave heights and tip alone once the wallet is open.
LEMMA StoreKeeps ==
    ASSUME TypeOK, StoreStep, pc \notin {"down", "restore"}
    PROVE  cache'.heights = cache.heights /\ cache'.tip = cache.tip
           /\ pc' \notin {"down", "restore"}
<1>1. CASE AddTxids
  BY <1>1 DEF AddTxids, WithTxids, TypeOK, Cache
<1>2. CASE PutTx \/ PutTxids \/ PersistCoalesced \/ PersistNew
  BY <1>2, Zenon DEF PutTx, PutTxids, PersistCoalesced, PersistNew
<1>3. CASE MergeOne \/ MergeRead \/ RemoveOne \/ StoreMerged
  BY <1>3 DEF MergeOne, MergeRead, RemoveOne, StoreMerged, AfterMerge
<1>4. CASE Build \/ RestoreOne \/ RestoreRefused \/ RestoreDone
  BY <1>4, Zenon DEF Build, RestoreOne, RestoreRefused, RestoreDone
<1>. QED BY <1>1, <1>2, <1>3, <1>4 DEF StoreStep

\* Every step keeps a current wallet current or marks it stale.
LEMMA CurrentNext ==
    ASSUME Sound, Current, [NextAll]_allVars
    PROVE  Current'
<1>. DEFINE Same == cache'.heights = cache.heights /\ cache'.tip = cache.tip
<1>s. TypeOK /\ ScanTyped /\ ServerTyped
  BY Zenon DEF Sound
<1>r. server' = server => (InReach' <=> InReach)
  <2>. SUFFICES ASSUME server' = server PROVE InReach' <=> InReach
    OBVIOUS
  <2>1. \A t \in Tx : OnServer(t)' <=> OnServer(t)
    BY Zenon DEF OnServer
  <2>2. \A x : History(x)' = History(x)
    BY <2>1, Zenon DEF History
  <2>3. \A x : WithinGap(x)' <=> WithinGap(x)
    BY <2>2, ZenonT(30) DEF WithinGap
  <2>. QED
    BY <2>1, <2>2, <2>3, Zenon DEF InReach, Scanned
<1>0. ASSUME server' = server, pending' = pending, fresh' = fresh,
             fresh = "wallet" => Same /\ pc' \notin {"down", "restore"}
      PROVE  Current'
  <2>1. InReach' => InReach
    BY <1>0, <1>r
  <2>2. fresh' = "pending" /\ pending' # NoUpdate /\ InReach' =>
          /\ UpdateHeights(pending'.status.heights, pending'.new, pending'.del) = server'.heights
          /\ pending'.tip = TipOf(server')
    BY <1>0, <2>1 DEF Current
  <2>3. fresh' = "wallet" =>
          /\ pc' \notin {"down", "restore"} /\ pending' = NoUpdate
          /\ InReach' => cache'.heights = server'.heights /\ cache'.tip = TipOf(server')
    BY <1>0, <2>1, Zenon DEF Current
  <2>. QED BY <2>2, <2>3, ZenonT(30) DEF Current
<1>f. ASSUME fresh' # "pending", fresh' # "wallet" PROVE Current'
  BY <1>f, ZenonT(30) DEF Current
<1>1. CASE ServerStep
  BY <1>1, ServerFrame, ZenonT(30) DEF Current
<1>2. CASE ScanStart
  <2>1. fresh' = "scan"
    BY <1>2, Zenon DEF ScanStart
  <2>. QED BY <1>f, <2>1
<1>3. CASE ReadBatch \/ ReadTip
  <2>1. UNCHANGED <<server, pending, fresh, pc, cache>>
    BY <1>3, Zenon DEF ReadBatch, ReadTip, vars
  <2>2. fresh = "wallet" => pc \notin {"down", "restore"}
    BY ZenonT(30) DEF Current
  <2>. QED BY <1>0, <2>1, <2>2
<1>4. CASE ScanFails
  <2>1. fresh' = "none"
    BY <1>4, Zenon DEF ScanFails
  <2>. QED BY <1>f, <2>1
<1>5. CASE ScanNone
  <2>1. UNCHANGED <<server, pending, pc, cache>> /\ fresh' = IF fresh = "scan" THEN "none-found" ELSE fresh
    BY <1>5 DEF ScanNone, vars
  <2>2. fresh = "wallet" => pc \notin {"down", "restore"}
    BY DEF Current
  <2>3. fresh' # fresh => fresh' = "none-found"
    BY <2>1
  <2>. QED BY <1>0, <2>1, <2>2, <2>3 DEF Current
<1>6. CASE ScanSome
  <2>1. /\ scan.pc = "download" /\ pending' = ScanUpdate /\ server' = server
        /\ fresh' = IF fresh = "scan" THEN "pending" ELSE fresh
    BY <1>6 DEF ScanSome
  <2>2. fresh \in {"scan", "none"}
    BY <1>s, <2>1, Zenon DEF ScanTyped
  <2>3. ASSUME fresh = "scan", InReach
        PROVE  /\ UpdateHeights(ScanUpdate.status.heights, ScanUpdate.new, ScanUpdate.del) = server.heights
               /\ ScanUpdate.tip = TipOf(server)
    <3>1. scan.heights = server.heights /\ scan.tip = TipOf(server)
      BY <2>1, <2>3, FoundAll, Zenon DEF Steady
    <3>2. ScanUpdate.tip = scan.tip
      BY Zenon DEF ScanUpdate
    <3>. QED BY <1>s, <2>1, <3>1, <3>2, ScanHeights, Zenon
  <2>. QED BY <1>r, <2>1, <2>2, <2>3, Zenon DEF Current
<1>7. CASE ApplyPending
  <2>1. /\ pending \in Update /\ pending.tip # NoBlock /\ StartApply(pending)
        /\ pending' = NoUpdate /\ server' = server
        /\ fresh' = IF fresh = "pending" THEN "wallet" ELSE fresh
        /\ pending # NoUpdate
    BY <1>s, <1>7, Zenon DEF ApplyPending, ScanTyped
  <2>2. /\ cache'.heights = UpdateHeights(pending.status.heights, pending.new, pending.del)
        /\ cache'.tip = pending.tip /\ pc' \in {"puttxs", "persist"}
    BY <1>s, <2>1, AppliedHeights, Zenon
  <2>3. fresh # "wallet" /\ fresh' # "pending"
    BY <2>1, ZenonT(30) DEF Current
  <2>4. ASSUME fresh' = "wallet", InReach'
        PROVE  cache'.heights = server'.heights /\ cache'.tip = TipOf(server')
    <3>1. fresh = "pending" /\ InReach
      BY <1>r, <2>1, <2>3, <2>4, ZenonT(30)
    <3>. QED BY <2>1, <2>2, <3>1 DEF Current
  <2>. QED BY <2>1, <2>2, <2>3, <2>4, Zenon DEF Current
<1>8. CASE RefusePending
  <2>1. UNCHANGED <<server, fresh, pc, cache>> /\ pending # NoUpdate /\ pending' = NoUpdate
    BY <1>8, Zenon DEF RefusePending, vars
  <2>. QED BY <2>1 DEF Current
<1>9. CASE (\E t \in Local : LocalTransaction(t)) \/ (\E t \in Built : LocalBlinder(t))
  BY <1>9, ZenonT(30) DEF LocalTransaction, LocalBlinder, LocalCall, Current
<1>10. CASE StopProcess
  BY <1>10 DEF StopProcess, Current
<1>11. CASE WalletStep
  <2>1. StoreStep /\ UNCHANGED <<server, pending, fresh>>
    BY <1>11 DEF WalletStep, scanVars
  <2>2. fresh = "wallet" => Same /\ pc' \notin {"down", "restore"}
    BY <1>s, <2>1, StoreKeeps, ZenonT(30) DEF Current
  <2>. QED BY <1>0, <2>1, <2>2
<1>12. CASE UNCHANGED allVars
  <2>1. UNCHANGED <<server, pending, fresh, pc, cache>>
    BY <1>12 DEF allVars, vars, scanVars
  <2>2. fresh = "wallet" => pc \notin {"down", "restore"}
    BY DEF Current
  <2>. QED BY <1>0, <2>1, <2>2
<1>. QED BY <1>1, <1>2, <1>3, <1>4, <1>5, <1>6, <1>7, <1>8, <1>9, <1>10, <1>11, <1>12, ZenonT(30)
         DEF NextAll, ScanStep

\* Whatever the server does and wherever the process stops: once an update of a
\* scan during which the server did not move has been applied, and until the
\* server moves again, the wallet has the server's transactions, their heights
\* and its tip, if each of them pays or spends a script within the gap limit or
\* below the index of full_scan_to_index.
THEOREM HeightsFollowServer == SpecAll => []HeightsFollow
<1>1. InitAll => Sound /\ Current
  <2>1. InitAll => Sound
    BY ScanInit, SMTT(20) DEF Sound
  <2>2. InitAll => Current
    BY DEF InitAll, Current
  <2>. QED BY <2>1, <2>2
<1>2. Sound /\ Current /\ [NextAll]_allVars => (Sound /\ Current)'
  BY SoundNext, CurrentNext, ZenonT(30)
<1>3. Current => HeightsFollow
  BY DEF Current, HeightsFollow, Settled
<1>. QED BY <1>1, <1>2, <1>3, PTL DEF SpecAll
=============================================================================
