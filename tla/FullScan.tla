------------------------------ MODULE FullScan -------------------------------
(***************************************************************************)
(* A Wollet, the blockchain server it follows and the scan that connects   *)
(* them: get_history, download_txs, download_headers and full_scan of      *)
(* lwk_wollet/src/clients/blocking/mod.rs and clients/asyncr/esplora.rs.   *)
(*                                                                         *)
(* A scan works on a snapshot of the wallet (WolletConciseState) and makes *)
(* one request per batch of scripts, one for the tip and then the          *)
(* downloads.  The server may move between two requests, and the wallet    *)
(* may change before the resulting update is applied.                      *)
(*                                                                         *)
(* Server and scan steps commute with the writes of the stores, which read *)
(* neither, so they are taken only while the wallet is idle.               *)
(***************************************************************************)
EXTENDS Wollet, Sequences, FiniteSetsExt

CONSTANTS
    ChainOrder, \* as_single_descriptors: the chains in scan order
    BatchSize,  \* BATCH_SIZE
    ToIndex,    \* the index of full_scan_to_index, 0 for full_scan
    Client,     \* "electrum" (blocking) or "esplora" (async)
    Local,      \* transactions the caller passes to apply_transaction
    Built,      \* transactions the caller builds with tx_builder().build()
    MaxEvents,  \* bound: moves of the server
    MaxLocal,   \* bound: local calls
    StartHeight, \* the server's tip when the wallet is created
    MaxDrop,    \* bound: blocks the server disconnects in a row
    MidScan     \* whether the server moves while a scan runs

VARIABLES
    server,     \* the server's view: heights of transactions, block of a height
    scan,       \* the scan in progress
    pending,    \* the update the last scan returned and the caller holds
    fresh,      \* history: how far the present state of the server has come
    events, locals, drops

scanVars == <<server, scan, pending, fresh, events, locals, drops>>
allVars == <<vars, scanVars>>

ASSUME ClientAssumption == Client \in {"electrum", "esplora"}
ASSUME BatchAssumption == BatchSize \in Nat \ {0} /\ ToIndex \in Nat
ASSUME OrderAssumption ==
    /\ ChainOrder \in Seq(Chain) /\ Len(ChainOrder) > 0
    /\ \A i, j \in 1..Len(ChainOrder) : ChainOrder[i] = ChainOrder[j] => i = j

ASSUME CallerAssumption == Local \subseteq Tx /\ Built \subseteq Tx

\* A fresh cache starts from a zero hash, the server from a chain of its own.
ASSUME ServerGenesisAssumption ==
    1 \in Fork /\ StartHeight \in Nat /\ 0..StartHeight \subseteq Height

-----------------------------------------------------------------------------
(* The server.                                                             *)

TipHeight(s) == Max(Keys(s.blocks))
TipOf(s) == [height |-> TipHeight(s), fork |-> s.blocks[TipHeight(s)]]

OnServer(t) == server.heights[t] # Absent
InMempool(t) == server.heights[t] = Unconf

Parents(t) == {TxOf[o] : o \in Spends[t]}
Conflicts(t) == {x \in Tx \ {t} : Spends[x] \cap Spends[t] # {}}

\* T and every transaction on the server that descends from it: the least set
\* that holds T and is closed under children.
Descendants(T) ==
    LET closed == {S \in SUBSET Tx :
                      /\ T \subseteq S
                      /\ \A x \in Tx : OnServer(x) /\ Parents(x) \cap S # {} => x \in S}
    IN  {x \in Tx : \A S \in closed : x \in S}

ServerMay ==
    /\ pc = "idle"
    /\ events < MaxEvents
    /\ MidScan \/ scan.pc = "off"
    /\ events' = events + 1
    /\ fresh' = "none"
    /\ UNCHANGED <<vars, scan, pending, locals>>

\* t enters the mempool, replacing unconfirmed transactions it conflicts with.
Broadcast(t) ==
    /\ ServerMay
    /\ ~OnServer(t)
    /\ \A p \in Parents(t) : OnServer(p)
    /\ \A x \in Conflicts(t) : OnServer(x) => InMempool(x)
    /\ LET gone == Descendants({x \in Conflicts(t) : OnServer(x)})
       IN  /\ Parents(t) \cap gone = {}
           /\ server' = [server EXCEPT !.heights =
                            [Without(@, gone) EXCEPT ![t] = Unconf]]
    /\ UNCHANGED drops

Evict(t) ==
    /\ ServerMay
    /\ InMempool(t)
    /\ server' = [server EXCEPT !.heights = Without(@, Descendants({t}))]
    /\ UNCHANGED drops

\* A block with the transactions T on top of the tip.
Mine(T, f) ==
    /\ ServerMay
    /\ TipHeight(server) + 1 \in Height
    /\ \A t \in T : InMempool(t) /\ \A p \in Parents(t) \ T : ~InMempool(p)
    /\ LET h == TipHeight(server) + 1
       IN  server' = [heights |-> [t \in Tx |->
                                     IF t \in T THEN h ELSE server.heights[t]],
                      blocks |-> [server.blocks EXCEPT ![h] = f]]
    /\ drops' = 0

\* The tip is disconnected, its transactions return to the mempool: half of a
\* reorganisation, or a second server behind the same name that lags.
Disconnect ==
    /\ ServerMay
    /\ TipHeight(server) > 0
    /\ drops < MaxDrop
    /\ LET h == TipHeight(server)
       IN  server' = [heights |-> [t \in Tx |-> IF server.heights[t] = h
                                                THEN Unconf
                                                ELSE server.heights[t]],
                      blocks |-> [server.blocks EXCEPT ![h] = Absent]]
    /\ drops' = drops + 1

ServerStep ==
    \/ \E t \in Tx : Broadcast(t) \/ Evict(t)
    \/ \E T \in SUBSET Tx, f \in Fork : Mine(T, f)
    \/ Disconnect

-----------------------------------------------------------------------------
(* The scan.                                                               *)

NoScan == [pc |-> "off"]

\* The caller starts full_scan_to_index on a snapshot of the wallet.
ScanStart ==
    /\ pc = "idle"
    /\ scan.pc = "off" /\ pending = NoUpdate
    /\ scan' = [pc |-> "history", snap |-> cache, at |-> 1, batch |-> 0,
                heights |-> NoHeights, hashes |-> NoTimes, scripts |-> {},
                lastUnused |-> [c \in Chain |-> 0]]
    /\ fresh' = "scan"
    /\ UNCHANGED <<vars, server, pending, events, locals, drops>>

\* get_script_batch: the scripts of a batch, and whether the last is cached.
ScriptBatch(chain, batch) ==
    {s \in Script : /\ ChainOf[s] = chain
                    /\ IndexOf[s] >= batch * BatchSize
                    /\ IndexOf[s] < (batch + 1) * BatchSize}

BatchCached(c, batchScripts) ==
    \A s \in batchScripts :
        (\A r \in batchScripts : IndexOf[r] <= IndexOf[s]) => s \in c.scripts

\* The server's history of a script: transactions that pay it or spend from it.
History(s) ==
    {t \in Tx : OnServer(t) /\ \E o \in OutPoint :
        ScriptOf[o] = s /\ (TxOf[o] = t \/ o \in Spends[t])}

\* One turn of the loop of get_history.
ReadBatch ==
    /\ pc = "idle"
    /\ scan.pc = "history"
    /\ LET chain == ChainOrder[scan.at]
           batch == ScriptBatch(chain, scan.batch)
           used == {s \in batch : History(s) # {}}
           found == UNION {History(s) : s \in batch}
           index == MaxOf(ToIndex, scan.snap.lastUnused[chain])
           done == found = {} /\ index <= 1 + scan.batch * BatchSize
           last == done /\ scan.at = Len(ChainOrder)
       IN  scan' = [scan EXCEPT
                      !.scripts = IF BatchCached(scan.snap, batch)
                                  THEN @ ELSE @ \cup batch,
                      !.lastUnused[chain] =
                          IF used = {} THEN @
                          ELSE 1 + Max({IndexOf[s] : s \in used}),
                      !.heights = [t \in Tx |->
                          IF t \in found THEN server.heights[t] ELSE @[t]],
                      !.hashes = [h \in Height |->
                          IF Client = "esplora" /\ \E t \in found :
                                server.heights[t] = h
                          THEN server.blocks[h] ELSE @[h]],
                      !.batch = IF done THEN 0 ELSE @ + 1,
                      !.at = IF done /\ ~last THEN @ + 1 ELSE @,
                      !.pc = IF last THEN "tip" ELSE @]
    /\ UNCHANGED <<vars, server, pending, fresh, events, locals, drops>>

\* full_scan_to_index: self.tip().
ReadTip ==
    /\ pc = "idle"
    /\ scan.pc = "tip"
    /\ scan' = [pc |-> "download", tip |-> TipOf(server), snap |-> scan.snap,
                heights |-> scan.heights, hashes |-> scan.hashes,
                scripts |-> scan.scripts, lastUnused |-> scan.lastUnused]
    /\ UNCHANGED <<vars, server, pending, fresh, events, locals, drops>>

\* download_txs: only transactions the snapshot does not have.
ToDownload == Keys(scan.heights) \ scan.snap.txids

\* download_headers: the blocking client looks for the heights of the wallet's
\* transactions, the async one for the timestamps it has.
HeightsInDb ==
    IF Client = "electrum"
    THEN {scan.snap.heights[t] : t \in Tx} \cap Height
    ELSE Keys(scan.snap.timestamps)

HeightsToDownload ==
    (({scan.heights[t] : t \in Tx} \cap Height) \cup {scan.tip.height})
        \ HeightsInDb

Header(h) == IF scan.hashes[h] # Absent THEN scan.hashes[h] ELSE server.blocks[h]

\* A transaction has left the server or a height its chain: the request, and
\* full_scan with it, returns an error.
DownloadFails ==
    \/ \E t \in ToDownload : ~OnServer(t)
    \/ \E h \in HeightsToDownload : Header(h) = Absent

Timestamps == [h \in Height |-> IF h \in HeightsToDownload THEN Header(h) ELSE Absent]

Changed ==
    \/ ToDownload # {}
    \/ scan.lastUnused # scan.snap.lastUnused
    \/ scan.scripts # {}
    \/ HeightsToDownload # {}
    \/ scan.tip # scan.snap.tip

\* Mutant of Deleted: a transaction evicted from the mempool is forgotten.
DeletedConfirmed == {t \in Tx : scan.snap.heights[t] \in Height} \ Keys(scan.heights)

\* txid_height_delete: what the wallet has and the server no longer reports.
Deleted == Keys(scan.snap.heights) \ Keys(scan.heights)

ScanUpdate ==
    [status |-> Status(scan.snap),
     txs |-> ToDownload,
     unblinds |-> {o \in Unblindable :
                      /\ TxOf[o] \in ToDownload
                      /\ ScriptOf[o] \in scan.snap.scripts \cup scan.scripts},
     new |-> [t \in Tx |-> IF scan.heights[t] # scan.snap.heights[t]
                           THEN scan.heights[t] ELSE Absent],
     del |-> Deleted,
     timestamps |-> Timestamps,
     scripts |-> scan.scripts,
     tip |-> scan.tip,
     unspent |-> {},
     lastUnused |-> scan.lastUnused]

ScanFails ==
    /\ pc = "idle"
    /\ scan.pc = "download"
    /\ DownloadFails
    /\ scan' = NoScan
    /\ fresh' = "none"
    /\ UNCHANGED <<vars, server, pending, events, locals, drops>>

\* full_scan returns Some(update) ..
ScanSome ==
    /\ pc = "idle"
    /\ scan.pc = "download"
    /\ ~DownloadFails
    /\ Changed
    /\ pending' = ScanUpdate
    /\ scan' = NoScan
    /\ fresh' = IF fresh = "scan" THEN "pending" ELSE fresh
    /\ UNCHANGED <<vars, server, events, locals, drops>>

\* .. or None.
ScanNone ==
    /\ pc = "idle"
    /\ scan.pc = "download"
    /\ ~DownloadFails
    /\ ~Changed
    /\ scan' = NoScan
    /\ fresh' = IF fresh = "scan" THEN "none-found" ELSE fresh
    /\ UNCHANGED <<vars, server, pending, events, locals, drops>>

ScanStep == ScanStart \/ ReadBatch \/ ReadTip \/ ScanFails \/ ScanSome \/ ScanNone

-----------------------------------------------------------------------------
(* The caller.                                                             *)

\* apply_update of what the scan returned ..
ApplyPending ==
    /\ pending # NoUpdate
    /\ StartApply(pending)
    /\ pending' = NoUpdate
    /\ fresh' = IF fresh = "pending" THEN "wallet" ELSE fresh
    /\ UNCHANGED <<server, scan, events, locals, drops>>

\* .. which returns UpdateOnDifferentStatus or UpdateHeightTooOld.
RefusePending ==
    /\ pc = "idle"
    /\ pending # NoUpdate
    /\ ~Applicable(cache, pending)
    /\ pending' = NoUpdate
    /\ UNCHANGED <<vars, server, scan, fresh, events, locals, drops>>

LocalCall ==
    /\ locals < MaxLocal
    /\ locals' = locals + 1
    /\ fresh' = "none"
    /\ UNCHANGED <<server, scan, pending, events, drops>>

\* The caller applies a transaction whose inputs the wallet knows.
LocalTransaction(t) ==
    /\ Parents(t) \subseteq Keys(cache.heights)
    /\ ApplyTransaction(t)
    /\ LocalCall

\* The caller keeps the blinders of a transaction it built from its UTXOs.
LocalBlinder(t) ==
    /\ Spends[t] # {} /\ Spends[t] \subseteq cache.unspent
    /\ ApplyBlinder(t)
    /\ LocalCall

\* The process stops: the scan and its result go with it.
StopProcess ==
    /\ Crash
    /\ scan' = NoScan /\ pending' = NoUpdate /\ fresh' = "none"
    /\ UNCHANGED <<server, events, locals, drops>>

WalletStep ==
    /\ StoreStep
    /\ UNCHANGED scanVars

-----------------------------------------------------------------------------
InitAll ==
    /\ Init
    /\ server = [heights |-> NoHeights,
                 blocks |-> [h \in Height |-> IF h <= StartHeight THEN 1 ELSE Absent]]
    /\ scan = NoScan /\ pending = NoUpdate /\ fresh = "none"
    /\ events = 0 /\ locals = 0 /\ drops = 0

NextAll ==
    \/ ServerStep
    \/ ScanStep
    \/ ApplyPending \/ RefusePending
    \/ \E t \in Local : LocalTransaction(t)
    \/ \E t \in Built : LocalBlinder(t)
    \/ StopProcess
    \/ WalletStep

SpecAll == InitAll /\ [][NextAll]_allVars

\* The caller keeps scanning and applies or drops what it gets, and a started
\* call runs to its end.
Fairness ==
    /\ WF_allVars(ScanStep)
    /\ WF_allVars(ApplyPending \/ RefusePending)
    /\ WF_allVars(WalletStep)

FairSpec == SpecAll /\ Fairness

-----------------------------------------------------------------------------
(* Properties.                                                             *)

Settled == pc = "idle" /\ fresh = "wallet"

\* get_history gets as far as script s: no batch before it is without a history.
WithinGap(s) ==
    \A j \in 0..IndexOf[s] :
        (j + 1) * BatchSize <= IndexOf[s] =>
            \E r \in ScriptBatch(ChainOf[s], j) : History(r) # {}

Scanned(ch) == \E i \in 1..Len(ChainOrder) : ChainOrder[i] = ch

\* Every transaction of the server pays or spends a script that a scan gets to.
InReach ==
    \A t \in Tx : OnServer(t) => \E s \in Script :
        /\ t \in History(s) /\ Scanned(ChainOf[s])
        /\ WithinGap(s) \/ IndexOf[s] < ToIndex

\* Once an update of a scan during which the server did not move has been
\* applied, the wallet has the server's transactions, heights and tip.
HeightsFollow ==
    Settled /\ InReach => cache.heights = server.heights /\ cache.tip = TipOf(server)

\* A caller that keeps scanning is never stuck: again and again a scan completes
\* on the server as it is and its update is accepted.  Excepted are a process that
\* keeps stopping, a wallet that build() refuses (Reopens says when) and a server
\* that stays two blocks or more behind the wallet.
KeepsUp ==
    \/ []<><<StopProcess>>_allVars
    \/ <>[](pc = "failed")
    \/ <>[](TipHeight(server) + 1 < cache.tip.height)
    \/ []<>(fresh \in {"wallet", "none-found"})

\* The outputs the server's transactions leave unspent.
ServerUnspent ==
    {o \in Unblindable : OnServer(TxOf[o])
        /\ \A t \in Tx : OnServer(t) => o \notin Spends[t]}

\* .. and none of its unspent outputs is missing from the wallet's ..
NoUnspentMissing == Settled => ServerUnspent \subseteq cache.unspent

\* .. nor is one of the wallet's spent.
NoUnspentSpent == Settled => cache.unspent \subseteq ServerUnspent
=============================================================================
