--------------------------------- MODULE App ---------------------------------
(***************************************************************************)
(* The application (lwk_app): its start, which replays the state file      *)
(* through its own JSON-RPC server; the single worker thread of that       *)
(* server (lwk_tiny_jrpc); the thread that scans the wallets in a loop;    *)
(* Scan requests, which wait for an entire loop; stopping and joining the  *)
(* threads; and a process that is killed.  The wallets keep their caches   *)
(* in stores of their own, by descriptor.                                  *)
(*                                                                         *)
(* scan_loops_started and scan_loops_completed are compared only with each *)
(* other: looping says whether they differ, togo how many completions a    *)
(* Scan request still waits for.  How long a thread sleeps is left open,   *)
(* and with it interrupt_wait, which only shortens a sleep.                *)
(***************************************************************************)
EXTENDS AppState

CONSTANTS
    EarlyClients,   \* clients may call while the state file is replayed
    MaxTip,         \* bound: blocks of the chain
    MaxRequest,     \* bound: requests that change the state
    MaxCall,        \* bound: Scan and Stop requests, signals, local transactions
    MaxStart        \* bound: starts of the process

ASSUME EarlyAssumption == EarlyClients \in BOOLEAN
ASSUME BoundAssumption ==
    {MaxTip, MaxRequest, MaxCall, MaxStart} \subseteq Nat

VARIABLES
    main,       \* App::run, stop and join_threads
    loading,    \* lines of the state file still to be replayed
    worker,     \* the worker thread of the JSON-RPC server
    running,    \* JsonRpcServer::running
    scanner,    \* the scanning thread
    is_scanning,\* App::is_scanning, the signal that stops it
    st,         \* State: wallets, memos, signers, assets
    do_persist, \* State::do_persist
    file,       \* the state file
    looping,    \* scan_loops_started # scan_loops_completed
    togo,       \* completed loops the Scan request still waits for
    todo,       \* names of wallets this loop has still to scan
    snap,       \* what the scanning thread took out of the lock
    cache,      \* external (Wollet): tip, local transactions of each wallet
    tip,        \* external: the tip of the chain
    asked,      \* history: the tip when the Scan request came
    failed,     \* history: a client failed during the entire loop it waits for
    budget      \* what may still happen

threads == <<main, loading, worker, running, scanner, is_scanning>>
scanning == <<looping, togo, todo, snap>>
vars == <<main, loading, worker, running, scanner, is_scanning, st, do_persist, file,
          looping, togo, todo, snap, cache, tip, asked, failed, budget>>

Cache == [tip : 0..MaxTip, txs : 0..MaxCall]
NoSnap == [name |-> None, desc |-> None, tip |-> 0, txs |-> 0, new |-> 0]

Init ==
    /\ main = "down" /\ loading = <<>>
    /\ worker = "done" /\ running = FALSE
    /\ scanner = "done" /\ is_scanning = FALSE
    /\ st = Fresh /\ do_persist = FALSE /\ file = <<>>
    /\ looping = FALSE /\ togo = 0 /\ todo = {} /\ snap = NoSnap
    /\ cache = [d \in Desc |-> [tip |-> 0, txs |-> 0]]
    /\ tip = 0 /\ asked = 0 /\ failed = FALSE
    /\ budget = [request |-> MaxRequest, call |-> MaxCall, start |-> MaxStart]

Spend(what) == budget[what] > 0 /\ budget' = [budget EXCEPT ![what] = @ - 1]

-----------------------------------------------------------------------------
(* App::run: the server starts first, then the state file is read and      *)
(* replayed line by line through a client of that server.                  *)

Run ==
    /\ main = "down" /\ Spend("start")
    /\ main' = "load" /\ loading' = file
    /\ worker' = "recv" /\ running' = TRUE
    /\ st' = Fresh /\ do_persist' = FALSE
    /\ UNCHANGED <<scanner, is_scanning, file, scanning, cache, tip, asked, failed>>

\* apply_request; an error is the end of run() (StartStateLoad)
ReplayLine ==
    /\ main = "load" /\ loading # <<>> /\ worker = "recv"
    /\ IF Accepts(st, Head(loading))
       THEN /\ st' = Apply(st, Head(loading))
            /\ file' = FileAfter(file, st, Head(loading), do_persist)
            /\ loading' = Tail(loading)
            /\ UNCHANGED main
       ELSE /\ main' = "failed"
            /\ UNCHANGED <<st, file, loading>>
    /\ UNCHANGED <<worker, running, scanner, is_scanning, do_persist, scanning, cache,
                   tip, asked, failed, budget>>

\* WalletLoad builds the wallet from its store before it inserts it; an error of
\* WolletBuilder::build() is an error of the request.
BuildRefused ==
    /\ main = "load" /\ loading # <<>> /\ worker = "recv"
    /\ Head(loading).method = "WalletLoad"
    /\ main' = "failed"
    /\ UNCHANGED <<loading, worker, running, scanner, is_scanning, st, do_persist, file,
                   scanning, cache, tip, asked, failed, budget>>

Started ==
    /\ main = "load" /\ loading = <<>>
    /\ main' = "run" /\ do_persist' = TRUE
    /\ is_scanning' = TRUE /\ scanner' = "wait"
    /\ UNCHANGED <<loading, worker, running, st, file, scanning, cache, tip, asked,
                   failed, budget>>

\* App::stop, on a signal or because a Stop request has stopped the server
Stop ==
    /\ main = "run"
    /\ IF running THEN Spend("call") ELSE UNCHANGED budget
    /\ main' = "stopping" /\ running' = FALSE /\ is_scanning' = FALSE
    /\ UNCHANGED <<loading, worker, scanner, st, do_persist, file, scanning, cache, tip,
                   asked, failed>>

\* The process is gone, after join_threads or because it was killed.
Gone ==
    /\ main' = "down" /\ loading' = <<>>
    /\ worker' = "done" /\ running' = FALSE
    /\ scanner' = "done" /\ is_scanning' = FALSE
    /\ st' = Fresh /\ do_persist' = FALSE
    /\ looping' = FALSE /\ togo' = 0 /\ todo' = {} /\ snap' = NoSnap
    /\ asked' = 0 /\ failed' = FALSE
    /\ UNCHANGED <<file, cache, tip, budget>>

\* join_threads: the worker, then the scanning thread
Joined == main = "stopping" /\ worker = "done" /\ scanner = "done" /\ Gone

Killed == main # "down" /\ budget.start > 0 /\ Gone

-----------------------------------------------------------------------------
(* The worker thread.  It looks at `running` only when no request came.    *)

Serving == worker = "recv" /\ (main \in {"run", "stopping"} \/ (EarlyClients /\ main = "load"))

\* A request that is accepted; the refused ones change nothing.
Serve(r) ==
    /\ Serving /\ Accepts(st, r) /\ Spend("request")
    /\ st' = Apply(st, r)
    /\ file' = FileAfter(file, st, r, do_persist)
    /\ UNCHANGED <<threads, do_persist, scanning, cache, tip, asked, failed>>

\* WalletSendMany, WalletDrain, WalletIssue and WalletReissue under
\* with_experimental_blinders: the wallet applies the update of the transaction it
\* has built.  (WalletBroadcast applies nothing.)
ServeTransaction(n) ==
    /\ Serving /\ st.wollets[n] # None /\ Spend("call")
    /\ cache' = [cache EXCEPT ![st.wollets[n]].txs = @ + 1]
    /\ UNCHANGED <<threads, st, do_persist, file, scanning, tip, asked, failed>>

\* Mutant: a loop that is under way counts as the entire one.
LoopsToWaitForAny == 1

\* scan(): an entire loop; if one is under way, the next one
LoopsToWaitFor == IF looping THEN 2 ELSE 1

ServeScan ==
    /\ Serving /\ main # "load" /\ Spend("call")
    /\ worker' = "scan" /\ togo' = LoopsToWaitFor
    /\ asked' = tip /\ failed' = FALSE
    /\ UNCHANGED <<main, loading, running, scanner, is_scanning, st, do_persist, file,
                   looping, todo, snap, cache, tip>>

ScanReturns ==
    /\ worker = "scan" /\ togo = 0
    /\ worker' = "recv"
    /\ UNCHANGED <<main, loading, running, scanner, is_scanning, st, do_persist, file,
                   scanning, cache, tip, asked, failed, budget>>

\* Error::Stop: the request is answered, the worker goes on until a timeout.
ServeStop ==
    /\ Serving /\ running /\ Spend("call")
    /\ running' = FALSE
    /\ UNCHANGED <<main, loading, worker, scanner, is_scanning, st, do_persist, file,
                   scanning, cache, tip, asked, failed>>

WorkerExits ==
    /\ worker = "recv" /\ ~running
    /\ worker' = "done"
    /\ UNCHANGED <<main, loading, running, scanner, is_scanning, st, do_persist, file,
                   scanning, cache, tip, asked, failed, budget>>

-----------------------------------------------------------------------------
(* The scanning thread.                                                    *)

ScannerLeaves(shared) ==
    UNCHANGED <<main, loading, worker, running, is_scanning, st, do_persist, file, tip,
                asked, budget>> /\ UNCHANGED shared

Failing == failed' = (failed \/ (worker = "scan" /\ togo = 1))

\* Mutant: without a client the thread goes back to sleep, the loop started and
\* never completed.
LoopStartsOver ==
    /\ scanner = "wait" /\ is_scanning
    /\ looping' = TRUE
    /\ \/ scanner' = "scan" /\ todo' = Loaded(st) /\ UNCHANGED failed
       \/ scanner' = "wait" /\ todo' = {} /\ Failing
    /\ ScannerLeaves(<<togo, snap, cache>>)

\* The loop takes the names of the wallets under the lock.
LoopStarts ==
    /\ scanner = "wait" /\ is_scanning
    /\ looping' = TRUE
    /\ \/ scanner' = "scan" /\ todo' = Loaded(st) /\ UNCHANGED failed
       \/ scanner' = "scan" /\ todo' = {} /\ Failing       \* no blockchain client
    /\ ScannerLeaves(<<togo, snap, cache>>)

\* wollets.get(name), state(); a wallet unloaded meanwhile is skipped
Snapshot(n) ==
    /\ scanner = "scan" /\ n \in todo
    /\ todo' = todo \ {n}
    /\ LET d == st.wollets[n] IN
        IF d = None THEN UNCHANGED <<scanner, snap>>
        ELSE /\ scanner' = "fetch"
             /\ snap' = [name |-> n, desc |-> d, tip |-> cache[d].tip,
                         txs |-> cache[d].txs, new |-> 0]
    /\ ScannerLeaves(<<looping, togo, cache, failed>>)

\* full_scan, without the lock: an update, nothing new, or an error
Fetch ==
    /\ scanner = "fetch"
    /\ \/ /\ snap.tip # tip
          /\ scanner' = "update" /\ snap' = [snap EXCEPT !.new = tip]
          /\ UNCHANGED failed
       \/ /\ snap.tip = tip
          /\ scanner' = "scan" /\ snap' = NoSnap
          /\ UNCHANGED failed
       \/ /\ scanner' = "scan" /\ snap' = NoSnap
          /\ Failing
    /\ ScannerLeaves(<<looping, togo, todo, cache>>)

\* Wollet::apply_update refuses an update for another status, a hash of the
\* descriptor and the cache.
StatusMatches(d) == d = snap.desc /\ snap.tip = cache[d].tip /\ snap.txs = cache[d].txs

\* wollets.get_mut(name), apply_update; what it returns is ignored
ApplyUpdate ==
    /\ scanner = "update"
    /\ LET d == st.wollets[snap.name] IN
        cache' = IF d # None /\ StatusMatches(d)
                 THEN [cache EXCEPT ![d].tip = snap.new]
                 ELSE cache
    /\ scanner' = "scan" /\ snap' = NoSnap
    /\ ScannerLeaves(<<looping, togo, todo, failed>>)

\* Mutant: a loop that has no wallet to scan is not counted as completed.
LoopEndsUncounted ==
    /\ scanner = "scan" /\ todo = {}
    /\ scanner' = "wait" /\ looping' = FALSE
    /\ togo' = IF togo = 0 \/ Loaded(st) = {} THEN togo ELSE togo - 1
    /\ ScannerLeaves(<<todo, snap, cache, failed>>)

LoopEnds ==
    /\ scanner = "scan" /\ todo = {}
    /\ scanner' = "wait" /\ looping' = FALSE
    /\ togo' = IF togo = 0 THEN 0 ELSE togo - 1
    /\ ScannerLeaves(<<todo, snap, cache, failed>>)

\* Mutant: the thread never looks at the signal.
ScannerStays == FALSE /\ UNCHANGED vars

ScannerExits ==
    /\ scanner = "wait" /\ ~is_scanning
    /\ scanner' = "done"
    /\ ScannerLeaves(<<scanning, cache, failed>>)

\* A block.
Block ==
    /\ tip < MaxTip
    /\ tip' = tip + 1
    /\ UNCHANGED <<threads, st, do_persist, file, scanning, cache, asked, failed, budget>>

-----------------------------------------------------------------------------
ScannerStep ==
    \/ LoopStarts \/ (\E n \in Name : Snapshot(n)) \/ Fetch \/ ApplyUpdate
    \/ LoopEnds \/ ScannerExits

Next ==
    \/ Run \/ ReplayLine \/ BuildRefused \/ Started \/ Stop \/ Joined \/ Killed
    \/ (\E r \in Request : Serve(r)) \/ (\E n \in Name : ServeTransaction(n))
    \/ ServeScan \/ ScanReturns \/ ServeStop \/ WorkerExits
    \/ ScannerStep \/ Block

Spec == Init /\ [][Next]_vars

\* Every thread is scheduled, and the main thread polls is_running().  Nobody
\* has to call, to stop or to start the application.
Fairness ==
    /\ WF_vars(ReplayLine \/ Started \/ Joined)
    /\ WF_vars(Stop /\ ~running)
    /\ WF_vars(ScanReturns \/ WorkerExits)
    /\ WF_vars(ScannerStep)

FairSpec == Spec /\ Fairness

-----------------------------------------------------------------------------
(* Properties.                                                             *)

TypeOK ==
    /\ main \in {"down", "load", "run", "stopping", "failed"}
    /\ worker \in {"recv", "scan", "done"}
    /\ scanner \in {"wait", "scan", "fetch", "update", "done"}
    /\ st \in AppState
    /\ file \in Seq(Request) /\ loading \in Seq(Request)
    /\ cache \in [Desc -> Cache]
    /\ todo \subseteq Name /\ togo \in 0..2
    /\ looping <=> (scanner \in {"scan", "fetch", "update"})

\* The state file always replays: when run() fails, it is because the store of a
\* wallet refused to be opened, never because of what earlier sessions appended
\* and rewrote.
Restarts ==
    /\ main = "failed" => loading # <<>> /\ Head(loading).method = "WalletLoad"
                          /\ Accepts(st, Head(loading))
    /\ Replayable(file)

\* A restart brings back what the last answered request left: the wallets with
\* their memos, the registry assets, every signer that is to be kept; and nothing
\* that was unloaded.  The tokens that come back are those of these assets, and the
\* policy asset always does: a token or policy asset that was removed returns, and
\* a token whose asset was removed goes.  A volatile signer may or may not come
\* back (VolatileForgotten).
RestartRestores ==
    main \in {"run", "stopping"} =>
        LET r == Replay(file)
            kept == st.assets \cap Asset
        IN  /\ r.wollets = st.wollets /\ r.memos = st.memos
            /\ r.assets = {Policy} \cup kept \cup {Token(a) : a \in kept}
            /\ \A s \in Signer :
                  r.signers[s] \in IF st.signers[s] = "volatile" THEN {"none", "volatile"}
                                                                ELSE {st.signers[s]}

\* "If false, nothing is persisted, but at following restarts this signer will not
\* be availabled" (lwk_cli/src/args.rs, SignerLoadSoftware): no restart brings back
\* a signer that was loaded without persist.
VolatileForgotten == \A s \in Signer : Replay(file).signers[s] # "volatile"

\* "Wait until an entire blockchain scan has been completed" (lwk_cli): when a
\* Scan request returns, every wallet knows the chain as it was when the
\* request came, unless the client failed.
ScanSees ==
    [][worker = "scan" /\ worker' = "recv" =>
          failed \/ \A n \in Loaded(st) : cache[st.wollets[n]].tip >= asked]_vars

\* A Scan request returns, unless the application is being stopped.
ScanEnds == (worker = "scan") ~> (worker # "scan" \/ ~is_scanning)

\* Stopping ends, unless a Scan request is being served: that one waits for a
\* loop that will not come, and join_threads waits for it.
StopEnds == (main = "stopping") ~> (main = "down" \/ worker = "scan")

=============================================================================
