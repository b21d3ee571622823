------------------------------ MODULE BoltzSwap ------------------------------
(***************************************************************************)
(* Swaps through Boltz (lwk_boltz): the submarine, reverse and chain swap  *)
(* handlers, the store they persist to, and stopping and restoring.  Boltz *)
(* is external: an honest server that moves every swap forward through its *)
(* statuses.  Its updates reach a client through a bounded broadcast       *)
(* channel: they may be repeated, missed while the client is down, or      *)
(* dropped when the channel is full.                                       *)
(*                                                                         *)
(* A handler is one step up to its next external effect (the construction  *)
(* of a transaction, its broadcast) or write to the store, so that the     *)
(* process may stop between any two of them.                               *)
(***************************************************************************)
EXTENDS Naturals, Sequences, FiniteSets

CONSTANTS
    Swap,
    Instances,  \* mixes of swaps, each with a budget of what may go wrong
    RevealsTo,  \* kinds whose cooperative construct_claim tells Boltz the preimage
    RestoreAt,  \* statuses at which a swap is restored from Boltz's own list
    Parallel,   \* handlers of different swaps run on different threads
    QueueCap    \* capacity of the broadcast channel

VARIABLES
    kind,       \* kind[s]: which of the three handlers runs s
    status,     \* external: Boltz's status of s
    user,       \* external: the user's lockup (of a reverse swap: the payment)
    boltz,      \* external: Boltz's lockup (of a submarine swap: the payment)
    preimage,   \* external: does Boltz know the preimage?
    queue,      \* updates waiting in the receiver of s
    pc,         \* where the code holding the response object of s is
    job,        \* what the running advance() will end with
    mem,        \* the data of the response object
    data,       \* store: "boltz:swap_data:.."
    pending,    \* store: list of pending swaps
    completed,  \* store: list of completed swaps
    copy,       \* the list a caller has read and will write back
    returned,   \* history: the creation of s has returned
    unlisted,   \* history: s was lost with the store or rebuilt from Boltz's list
    interrupted,\* history: stopped after a broadcast, before its record
    budget      \* stops, failures, repeats and losses of the store left

legs == <<status, user, boltz, preimage>>
store == <<data, pending, completed>>
history == <<returned, unlisted, interrupted>>
vars == <<kind, status, user, boltz, preimage, queue, pc, job, mem, data,
          pending, completed, copy, returned, unlisted, interrupted, budget>>

Kind == {"submarine", "reverse", "chain"}

SwapState == {"Initialized", "InvoiceSet", "TransactionMempool",
    "TransactionConfirmed", "InvoicePending", "InvoicePaid",
    "TransactionClaimPending", "TransactionClaimed", "TransactionLockupFailed",
    "TransactionFailed", "InvoiceFailedToPay", "SwapCreated",
    "TransactionDirect", "InvoiceSettled", "InvoiceExpired", "SwapExpired",
    "ServerTransactionMempool", "ServerTransactionConfirmed",
    "TransactionZeroconfRejected", "TransactionRefunded"}

\* SwapState::is_terminal
is_terminal(st) ==
    st \in {"TransactionClaimed", "TransactionDirect", "InvoiceSettled",
            "InvoiceExpired", "SwapExpired", "TransactionFailed"}

\* "none": a swap this instance never creates
Budget == [crash : Nat, fail : Nat, dup : Nat, lose : Nat]

ASSUME InstancesAssumption ==
    Instances \subseteq [kind : [Swap -> Kind \cup {"none"}], budget : Budget]
ASSUME RevealsAssumption == RevealsTo \subseteq Kind
ASSUME RestoreAssumption == RestoreAt \subseteq SwapState \ {"Initialized"}
ASSUME FlagAssumption == Parallel \in BOOLEAN
ASSUME CapAssumption == QueueCap \in Nat \ {0}

\* The fields of PreparePayData, InvoiceData and ChainSwapData that advance()
\* changes or reads; a txid is known or not.  claim_broadcasted of a reverse
\* swap is set and reset with its claim_txid.
SwapData == [last_state : SwapState, lockup_txid : BOOLEAN, claim_txid : BOOLEAN,
             refund_txid : BOOLEAN, invoice : BOOLEAN]

NewData(st, inv) ==
    [last_state |-> st, lockup_txid |-> FALSE, claim_txid |-> FALSE,
     refund_txid |-> FALSE, invoice |-> inv]

NoData == NewData("Initialized", FALSE)

\* The status Boltz gives a swap it has just created.
First(k) == IF k = "submarine" THEN "InvoiceSet" ELSE "SwapCreated"

\* "off": no response object; "idle": held by the caller, between two calls of
\* advance(); "claim", "refund": the transaction is constructed, not broadcast;
\* the others: the next thing to do in the store.
PC == {"off", "idle", "claim", "refund", "new", "add", "addw", "persist",
       "unpend", "unpendw", "complete", "completew"}

Leg == {"none", "locked", "claimed", "refunded"}
Flow == {"continue", "break"}
Job == [st : SwapState, flow : Flow, sent : BOOLEAN]
NoJob == [st |-> "Initialized", flow |-> "continue", sent |-> FALSE]
Message == [st : SwapState, tx : BOOLEAN]

Init ==
    /\ \E i \in Instances : kind = i.kind /\ budget = i.budget
    /\ status = [s \in Swap |-> "Initialized"]
    /\ user = [s \in Swap |-> "none"]
    /\ boltz = [s \in Swap |-> "none"]
    /\ preimage = [s \in Swap |-> FALSE]
    /\ queue = [s \in Swap |-> <<>>]
    /\ pc = [s \in Swap |-> "off"]
    /\ job = [s \in Swap |-> NoJob]
    /\ mem = [s \in Swap |-> NoData]
    /\ data = [s \in Swap |-> NoData]
    /\ pending = {} /\ completed = {}
    /\ copy = [s \in Swap |-> {}]
    /\ returned = [s \in Swap |-> FALSE]
    /\ unlisted = [s \in Swap |-> FALSE]
    /\ interrupted = [s \in Swap |-> FALSE]

-----------------------------------------------------------------------------
(* Boltz (external).                                                       *)

\* The statuses Boltz may give a swap next.  It fails or expires one only before
\* it has paid or locked its side.
Lifecycle(k) ==
    CASE k = "submarine" ->
           {"InvoiceSet"} \X {"TransactionMempool", "SwapExpired"}
           \cup {"TransactionMempool"} \X {"TransactionConfirmed",
                "TransactionZeroconfRejected"}
           \cup {"TransactionZeroconfRejected"} \X {"TransactionConfirmed"}
           \cup {"TransactionMempool", "TransactionConfirmed"} \X {"InvoicePending",
                "TransactionLockupFailed", "SwapExpired"}
           \cup {"InvoicePending"} \X {"InvoicePaid", "InvoiceFailedToPay"}
           \cup {"InvoicePaid"} \X {"TransactionClaimPending", "TransactionClaimed"}
           \cup {"TransactionClaimPending"} \X {"TransactionClaimed"}
      [] k = "reverse" ->
           {"SwapCreated"} \X {"TransactionMempool", "TransactionDirect",
                "InvoiceExpired", "SwapExpired"}
           \cup {"TransactionMempool"} \X {"TransactionConfirmed"}
           \cup {"TransactionMempool", "TransactionConfirmed"} \X {"InvoiceSettled",
                "TransactionRefunded"}
      [] k = "chain" ->
           {"SwapCreated"} \X {"TransactionMempool", "SwapExpired"}
           \cup {"TransactionMempool"} \X {"TransactionConfirmed", "SwapExpired",
                "TransactionLockupFailed", "TransactionZeroconfRejected"}
           \cup {"TransactionZeroconfRejected"} \X {"TransactionConfirmed"}
           \cup {"TransactionConfirmed"} \X {"ServerTransactionMempool",
                "TransactionFailed", "SwapExpired"}
           \cup {"ServerTransactionMempool"} \X {"ServerTransactionConfirmed"}
           \cup {"ServerTransactionMempool", "ServerTransactionConfirmed"} \X
                {"TransactionClaimed", "TransactionRefunded"}
      [] OTHER -> {}

\* Boltz waits for the user's lockup, takes it only with the preimage (which
\* paying the invoice of a submarine swap gave it), and refunds its own side
\* only when it has not learnt the preimage.
MayFollow(s, to) ==
    /\ <<status[s], to>> \in Lifecycle(kind[s])
    /\ to = "TransactionMempool" => user[s] = "locked"
    /\ kind[s] = "reverse" /\ to \in {"TransactionDirect", "InvoiceExpired", "SwapExpired"}
          => user[s] = "none"
    /\ to \in {"InvoiceSettled", "TransactionClaimed"}
          => preimage[s] \/ kind[s] = "submarine"
    /\ to = "TransactionRefunded" => ~preimage[s]

\* What the move does to the two sides of the swap.
UserAfter(s, to) ==
    CASE to \in {"TransactionClaimed", "InvoiceSettled"} -> "claimed"
      [] to = "TransactionRefunded" /\ kind[s] = "reverse" -> "refunded"
      [] OTHER -> user[s]

BoltzAfter(s, to) ==
    CASE to = "InvoicePaid" -> "claimed"
      [] \/ to = "TransactionMempool" /\ kind[s] = "reverse"
         \/ to = "ServerTransactionMempool" -> "locked"
      [] to = "TransactionRefunded" -> "refunded"
      [] OTHER -> boltz[s]

\* Mutant: an unbounded channel.
DeliveredUnbounded(s, m) ==
    IF pc[s] = "off" THEN <<>> ELSE Append(queue[s], m)

\* The broadcast channel drops its oldest update when it is full; recv() then
\* returns Lagged, an error advance() passes on without changing anything.
Delivered(s, m) ==
    IF pc[s] = "off" THEN <<>>
    ELSE Append(IF Len(queue[s]) = QueueCap THEN Tail(queue[s]) ELSE queue[s], m)

\* Updates about a lockup usually carry its transaction; the code allows for none.
Updates(st) ==
    [st : {st}, tx : IF st \in {"TransactionMempool", "TransactionConfirmed"}
                     THEN BOOLEAN ELSE {TRUE}]

\* A lockup is spent only once.
ServerStep(s, to, m) ==
    /\ MayFollow(s, to)
    /\ UserAfter(s, to) # user[s] => user[s] = "locked"
    /\ BoltzAfter(s, to) = "refunded" => boltz[s] = "locked"
    /\ status' = [status EXCEPT ![s] = to]
    /\ user' = [user EXCEPT ![s] = UserAfter(s, to)]
    /\ boltz' = [boltz EXCEPT ![s] = BoltzAfter(s, to)]
    /\ queue' = [queue EXCEPT ![s] = Delivered(s, m)]
    /\ UNCHANGED <<kind, preimage, pc, job, mem, store, copy, history, budget>>

\* The payer of a reverse swap's invoice.
Pay(s) ==
    /\ kind[s] = "reverse" /\ status[s] = "SwapCreated" /\ user[s] = "none"
    /\ returned[s]
    /\ user' = [user EXCEPT ![s] = "locked"]
    /\ UNCHANGED <<kind, status, boltz, preimage, queue, pc, job, mem, store, copy,
                   history, budget>>

\* The websocket reconnects, subscribes again and is told the present status.
Reconnect(s, m) ==
    /\ pc[s] # "off" /\ budget.dup > 0
    /\ queue' = [queue EXCEPT ![s] = Delivered(s, m)]
    /\ budget' = [budget EXCEPT !.dup = @ - 1]
    /\ UNCHANGED <<kind, legs, pc, job, mem, store, copy, history>>

-----------------------------------------------------------------------------
(* The store.  Its functions never await: on one thread nothing runs       *)
(* between their reads and writes, but the process may still stop there.   *)

InStore == PC \ {"off", "idle", "claim", "refund"}

\* Mutant: the store functions await between their reads and writes.
ScheduledAlways(s) == s \in Swap

Scheduled(s) == Parallel \/ \A o \in Swap \ {s} : pc[o] \notin InStore

Goto(s, p) == pc' = [pc EXCEPT ![s] = p]

\* persist(), and what follows it
Persist(s) ==
    /\ pc[s] \in {"new", "persist"} /\ Scheduled(s)
    /\ data' = [data EXCEPT ![s] = mem[s]]
    /\ Goto(s, CASE pc[s] = "new" -> "add"
                 [] pc[s] = "persist" /\ job[s].flow = "break" -> "unpend"
                 [] OTHER -> "idle")
    /\ UNCHANGED <<kind, legs, queue, job, mem, pending, completed, copy, history, budget>>

\* get_pending_swaps, get_completed_swaps
ReadList(s) ==
    /\ pc[s] \in {"add", "unpend", "complete"} /\ Scheduled(s)
    /\ copy' = [copy EXCEPT ![s] = IF pc[s] = "complete" THEN completed ELSE pending]
    /\ Goto(s, CASE pc[s] = "add" -> "addw"
                 [] pc[s] = "unpend" -> "unpendw"
                 [] OTHER -> "completew")
    /\ UNCHANGED <<kind, legs, queue, job, mem, store, history, budget>>

\* set_pending_swaps, set_completed_swaps
WriteList(s) ==
    /\ pc[s] \in {"addw", "unpendw", "completew"} /\ Scheduled(s)
    /\ pending' = CASE pc[s] = "addw" -> copy[s] \cup {s}
                    [] pc[s] = "unpendw" -> copy[s] \ {s}
                    [] OTHER -> pending
    /\ completed' = IF pc[s] = "completew" /\ s \notin copy[s]
                    THEN copy[s] \cup {s} ELSE completed
    /\ copy' = [copy EXCEPT ![s] = {}]
    /\ Goto(s, IF pc[s] = "unpendw" THEN "complete" ELSE "idle")
    /\ job' = IF pc[s] = "unpendw" THEN job ELSE [job EXCEPT ![s] = NoJob]
    /\ returned' = [returned EXCEPT ![s] = @ \/ pc[s] = "addw"]
    /\ UNCHANGED <<kind, legs, queue, mem, data, unlisted, interrupted, budget>>

-----------------------------------------------------------------------------
(* What an advance() ends with.                                            *)

Took(s) == queue' = [queue EXCEPT ![s] = Tail(@)]

\* The tail of advance(): the new state goes into the data, then to the store.
Ends(s, d, st, flow) ==
    /\ mem' = [mem EXCEPT ![s] = [d EXCEPT !.last_state = st]]
    /\ job' = [job EXCEPT ![s] = [st |-> st, flow |-> flow, sent |-> FALSE]]
    /\ Goto(s, "persist")
    /\ UNCHANGED <<preimage, budget>>

Continue(s, d, st) == Ends(s, d, st, "continue")
Break(s, d, st) == Ends(s, d, st, "break")

\* UnexpectedUpdate: an error, but the state is kept in memory.
Unexpected(s, st) ==
    /\ mem' = [mem EXCEPT ![s].last_state = st]
    /\ UNCHANGED <<preimage, pc, job, budget>>

\* An error that advance() only passes on after the match, as that of the claim
\* of a reverse swap: the state is kept in memory.
Noted(d, st) == [d EXCEPT !.last_state = st]

\* An error: the update is gone.  After an early return with `?` last_state has
\* not changed.
Fails(s, d) ==
    /\ budget.fail > 0
    /\ budget' = [budget EXCEPT !.fail = @ - 1]
    /\ mem' = [mem EXCEPT ![s] = d]
    /\ UNCHANGED <<preimage, pc, job>>

\* construct_claim and construct_refund need an unspent lockup.
Construct(s, d, st, what, flow, reveals) ==
    /\ (IF what = "claim" THEN boltz[s] ELSE user[s]) = "locked"
    /\ preimage' = [preimage EXCEPT ![s] = @ \/ reveals]
    /\ mem' = [mem EXCEPT ![s] = d]
    /\ job' = [job EXCEPT ![s] = [st |-> st, flow |-> flow, sent |-> FALSE]]
    /\ Goto(s, what)
    /\ UNCHANGED budget

CannotConstruct(s, d, what) ==
    /\ (IF what = "claim" THEN boltz[s] ELSE user[s]) # "locked"
    /\ mem' = [mem EXCEPT ![s] = d]
    /\ UNCHANGED <<preimage, pc, job, budget>>

\* Mutant: a failed swap ends without its refund.
RefundsNothing(s, st) == Break(s, mem[s], st)

Refunds(s, st) ==
    \/ Construct(s, mem[s], st, "refund", "break", FALSE)
    \/ CannotConstruct(s, mem[s], "refund")
    \/ Fails(s, mem[s])

\* Mutant: the update overwrites what was known.
LearnOverwrites(d, tx) == [d EXCEPT !.lockup_txid = tx]

\* Learning the txid of the lockup from an update, and asking Boltz for one
\* that is not known (fetch_lockup_txid gives None on an error).
Learn(d, tx) == [d EXCEPT !.lockup_txid = @ \/ tx]
Fetched(d) == {Learn(d, tx) : tx \in BOOLEAN}

-----------------------------------------------------------------------------
(* advance() of the three kinds of swap, up to its first effect.           *)

\* transaction.claim.pending: the invoice is paid, and Boltz asks for a signature.
\* Without an invoice, or when Boltz finds the swap not eligible, it ends.
handle_cooperative_claim(s, st) ==
    LET d == mem[s] IN
    \/ d.invoice /\ (Continue(s, d, st) \/ Fails(s, Noted(d, st)))
    \/ Break(s, d, st)

lockup_utxo_exists(s) == user[s] = "locked"

\* PreparePayResponse::advance
AdvanceSubmarine(s, st, tx) ==
    LET d == mem[s] IN
    \/ /\ st \in {"InvoiceSet", "TransactionConfirmed", "InvoicePending", "InvoicePaid"}
       /\ Continue(s, d, st)
    \/ st = "TransactionMempool" /\ Continue(s, Learn(d, tx), st)
    \/ st = "TransactionMempool" /\ tx /\ Fails(s, d)
    \/ /\ st = "InvoiceFailedToPay"
       /\ \/ Fails(s, d)
          \/ lockup_utxo_exists(s) /\ Refunds(s, st)
          \/ ~lockup_utxo_exists(s) /\ Break(s, d, st)
    \/ st = "TransactionLockupFailed" /\ Refunds(s, st)
    \/ st = "TransactionClaimPending" /\ handle_cooperative_claim(s, st)
    \/ /\ st = "TransactionClaimed"
       /\ \/ \E e \in Fetched(d) : Break(s, e, st)
          \/ ~d.lockup_txid /\ Fails(s, d)
    \/ st = "SwapExpired" /\ Break(s, d, st)
    \/ st = "TransactionZeroconfRejected" /\ Unexpected(s, st)

\* The claim of a reverse swap, unless it was broadcast before.
handle_claim_transaction_if_necessary(s, st, tx) ==
    LET d == mem[s] IN
    \/ d.claim_txid /\ Continue(s, d, st)
    \/ /\ ~d.claim_txid
       /\ \/ Construct(s, Learn(d, tx), st, "claim", "continue", "reverse" \in RevealsTo)
          \/ CannotConstruct(s, Noted(Learn(d, tx), st), "claim")
          \/ \E e \in {d, Learn(d, tx)} : Fails(s, Noted(e, st))

\* InvoiceResponse::advance
AdvanceReverse(s, st, tx) ==
    LET d == mem[s] IN
    \/ st = "SwapCreated" /\ Continue(s, d, st)
    \/ /\ st \in {"TransactionMempool", "TransactionConfirmed"}
       /\ handle_claim_transaction_if_necessary(s, st, tx)
    \/ /\ st \in {"TransactionDirect", "InvoiceSettled", "SwapExpired", "InvoiceExpired"}
       /\ Break(s, d, st)
    \/ st = "TransactionRefunded" /\ Unexpected(s, st)

\* Mutant: transaction.claimed is taken for the user's own claim.
ClaimTakenForDone(s, st) == Break(s, mem[s], st)

\* Mutant: only the cooperative claim, which Boltz then refuses.
ClaimRefused(s, st) ==
    \/ mem[s].claim_txid /\ Break(s, mem[s], st)
    \/ ~mem[s].claim_txid /\ UNCHANGED <<preimage, pc, job, mem, budget>>

\* transaction.claimed: Boltz has taken the user's lockup; the user's claim, if
\* it was not made, is made with the script path.
ClaimAfterBoltz(s, st) ==
    \/ ~mem[s].lockup_txid /\ Fails(s, mem[s])
    \/ \E d \in Fetched(mem[s]) :
          IF d.claim_txid THEN Break(s, d, st)
          ELSE \/ Construct(s, d, st, "claim", "break", FALSE)
               \/ CannotConstruct(s, d, "claim")
               \/ Fails(s, d)

\* LockupResponse::advance, build_and_broadcast_claim, build_and_broadcast_refund
AdvanceChain(s, st, tx) ==
    LET d == mem[s] IN
    \/ st \in {"SwapCreated", "ServerTransactionMempool"} /\ Continue(s, d, st)
    \/ /\ st = "TransactionMempool"
       /\ Continue(s, [d EXCEPT !.lockup_txid = tx], st)
    \/ st = "TransactionConfirmed" /\ Continue(s, Learn(d, tx), st)
    \/ /\ st = "ServerTransactionConfirmed"
       /\ \/ Construct(s, d, st, "claim", "continue", "chain" \in RevealsTo)
          \/ CannotConstruct(s, d, "claim")
          \/ Fails(s, d)
    \/ st = "TransactionClaimed" /\ ClaimAfterBoltz(s, st)
    \/ /\ st \in {"TransactionLockupFailed", "TransactionFailed", "TransactionRefunded"}
       /\ Refunds(s, st)
    \/ st = "SwapExpired" /\ Break(s, d, st)
    \/ st = "TransactionZeroconfRejected" /\ Unexpected(s, st)

Advance(s) ==
    /\ pc[s] = "idle" /\ queue[s] # <<>> /\ Scheduled(s)
    /\ LET m == Head(queue[s]) IN
        CASE kind[s] = "submarine" -> AdvanceSubmarine(s, m.st, m.tx)
          [] kind[s] = "reverse" -> AdvanceReverse(s, m.st, m.tx)
          [] OTHER -> AdvanceChain(s, m.st, m.tx)
    /\ Took(s)
    /\ UNCHANGED <<kind, status, user, boltz, store, copy, history>>

\* broadcast_tx_with_retry: the lockup is spent, the txid and then the state
\* go into the data.
Broadcast(s) ==
    /\ pc[s] \in {"claim", "refund"} /\ Scheduled(s)
    /\ (IF pc[s] = "claim" THEN boltz[s] ELSE user[s]) = "locked"
    /\ IF pc[s] = "claim"
       THEN /\ boltz' = [boltz EXCEPT ![s] = "claimed"]
            /\ preimage' = [preimage EXCEPT ![s] = TRUE]
            /\ mem' = [mem EXCEPT ![s].claim_txid = TRUE, ![s].last_state = job[s].st]
            /\ UNCHANGED user
       ELSE /\ user' = [user EXCEPT ![s] = "refunded"]
            /\ mem' = [mem EXCEPT ![s].refund_txid = TRUE, ![s].last_state = job[s].st]
            /\ UNCHANGED <<boltz, preimage>>
    /\ job' = [job EXCEPT ![s].sent = TRUE]
    /\ Goto(s, "persist")
    /\ UNCHANGED <<kind, status, queue, store, copy, history, budget>>

\* 30 attempts have failed.
BroadcastFails(s) ==
    /\ pc[s] \in {"claim", "refund"}
    /\ \/ /\ (IF pc[s] = "claim" THEN boltz[s] ELSE user[s]) # "locked"
          /\ UNCHANGED budget
       \/ /\ budget.fail > 0
          /\ budget' = [budget EXCEPT !.fail = @ - 1]
    /\ job' = [job EXCEPT ![s] = NoJob]
    /\ mem' = [mem EXCEPT ![s] = IF kind[s] = "reverse" THEN Noted(mem[s], job[s].st) ELSE @]
    /\ Goto(s, "idle")
    /\ UNCHANGED <<kind, legs, queue, store, copy, history>>

-----------------------------------------------------------------------------
(* The session and the application.                                        *)

\* The data of a new swap: prepare_pay (whatever the first status), invoice and
\* onchain_swap (the first status).
PreparePayData == NewData(First("submarine"), TRUE)
InvoiceData == NewData(First("reverse"), FALSE)
ChainSwapData == NewData(First("chain"), FALSE)

\* The first status has been received, the data is about to be persisted.  A
\* creation that fails before that leaves a swap only Boltz knows of, as a stop
\* here does.
Create(s) ==
    /\ kind[s] # "none" /\ status[s] = "Initialized"
    /\ pc[s] = "off" /\ Scheduled(s)
    /\ status' = [status EXCEPT ![s] = First(kind[s])]
    /\ mem' = [mem EXCEPT ![s] = CASE kind[s] = "submarine" -> PreparePayData
                                   [] kind[s] = "reverse" -> InvoiceData
                                   [] OTHER -> ChainSwapData]
    /\ Goto(s, "new")
    /\ UNCHANGED <<kind, user, boltz, preimage, queue, job, store, copy, history, budget>>

\* The application sends the lockup to the address of the response, as long as
\* the response has not seen the end of the swap.
Lockup(s) ==
    /\ kind[s] # "reverse" /\ pc[s] = "idle" /\ user[s] = "none"
    /\ mem[s].last_state \in {First(kind[s])}
    /\ user' = [user EXCEPT ![s] = "locked"]
    /\ UNCHANGED <<kind, status, boltz, preimage, queue, pc, job, mem, store, copy,
                   history, budget>>

\* set_lockup_txid: stored and persisted at once
SetLockupTxid(s) ==
    /\ kind[s] # "reverse" /\ pc[s] = "idle" /\ user[s] # "none" /\ Scheduled(s)
    /\ ~mem[s].lockup_txid
    /\ mem' = [mem EXCEPT ![s].lockup_txid = TRUE]
    /\ data' = [data EXCEPT ![s] = mem'[s]]
    /\ UNCHANGED <<kind, legs, queue, pc, job, pending, completed, copy, history, budget>>

\* Mutant: the response object is made without subscribing to its swap.
RespondUnsubscribed(s, d, m) ==
    /\ pc[s] = "off" /\ Scheduled(s)
    /\ mem' = [mem EXCEPT ![s] = d]
    /\ Goto(s, IF is_terminal(d.last_state) THEN "unpend" ELSE "idle")
    /\ UNCHANGED queue

\* The response object for data d; the subscription is answered with the
\* present status.  A swap in a terminal state goes to the completed list.
Respond(s, d, m) ==
    /\ pc[s] = "off" /\ Scheduled(s)
    /\ mem' = [mem EXCEPT ![s] = d]
    /\ queue' = [queue EXCEPT ![s] = <<m>>]
    /\ Goto(s, IF is_terminal(d.last_state) THEN "unpend" ELSE "idle")

\* The data a swap is restored with: the lockup txid is asked for again.
restore_prepare_pay(s) == IF user[s] # "none" THEN Fetched(data[s]) ELSE {data[s]}
restore_invoice(s) == {data[s]}
restore_lockup(s) == IF user[s] # "none" THEN Fetched(data[s]) ELSE {data[s]}

\* A swap of the pending list is restored from its data in the store.
Restore(s, m) ==
    /\ s \in pending
    /\ \E d \in CASE kind[s] = "submarine" -> restore_prepare_pay(s)
                  [] kind[s] = "reverse" -> restore_invoice(s)
                  [] OTHER -> restore_lockup(s) : Respond(s, d, m)
    /\ UNCHANGED <<kind, legs, job, store, copy, history, budget>>

\* convert_swap_restore_response_to_*: the data as Boltz's list tells it, with
\* the txid of the lockup, the user's or Boltz's, when the list has it.
Listed(s, lockup) == {Learn(NewData(status[s], FALSE), tx) : tx \in {FALSE, lockup # "none"}}
ListedSubmarine(s) == Listed(s, user[s])
ListedReverse(s) == Listed(s, boltz[s])
ListedChain(s) == Listed(s, user[s])

FromServer(s) ==
    CASE kind[s] = "submarine" -> ListedSubmarine(s)
      [] kind[s] = "reverse" -> ListedReverse(s)
      [] OTHER -> ListedChain(s)

\* The same restore functions for a swap of Boltz's list (swap_restore).
RestoreFromServer(s, m) ==
    /\ s \notin pending \cup completed /\ status[s] \in RestoreAt
    /\ \E d \in FromServer(s) : Respond(s, d, m)
    /\ unlisted' = [unlisted EXCEPT ![s] = TRUE]
    /\ UNCHANGED <<kind, legs, job, store, copy, returned, interrupted, budget>>

\* No update before the timeout: complete() returns the error, and the
\* response object is gone.
Timeout(s) ==
    /\ pc[s] = "idle" /\ queue[s] = <<>>
    /\ mem' = [mem EXCEPT ![s] = NoData]
    /\ Goto(s, "off")
    /\ UNCHANGED <<kind, legs, queue, job, store, copy, history, budget>>

\* The process stops.
Crash ==
    /\ budget.crash > 0
    /\ \E s \in Swap : pc[s] # "off"
    /\ pc' = [s \in Swap |-> "off"]
    /\ queue' = [s \in Swap |-> <<>>]
    /\ job' = [s \in Swap |-> NoJob]
    /\ mem' = [s \in Swap |-> NoData]
    /\ copy' = [s \in Swap |-> {}]
    /\ interrupted' = [s \in Swap |->
          interrupted[s] \/ (pc[s] \in {"persist", "unpend", "unpendw"} /\ job[s].sent)]
    /\ budget' = [budget EXCEPT !.crash = @ - 1]
    /\ UNCHANGED <<kind, legs, store, returned, unlisted>>

\* The next session starts with an empty store (another device, a lost file).
LoseStore ==
    /\ budget.lose > 0
    /\ \A s \in Swap : pc[s] = "off"
    /\ data' = [s \in Swap |-> NoData]
    /\ pending' = {} /\ completed' = {}
    /\ unlisted' = [s \in Swap |-> status[s] # "Initialized"]
    /\ budget' = [budget EXCEPT !.lose = @ - 1]
    /\ UNCHANGED <<kind, legs, queue, pc, job, mem, copy, returned, interrupted>>

\* What the code holding s does by itself.
Handler(s) ==
    \/ Advance(s) \/ Broadcast(s) \/ BroadcastFails(s)
    \/ Persist(s) \/ ReadList(s) \/ WriteList(s)
    \/ Timeout(s) \/ (\E m \in Updates(status[s]) : Restore(s, m))

Environment(s) ==
    \/ \E to \in SwapState : \E m \in Updates(to) : ServerStep(s, to, m)
    \/ Pay(s) \/ Create(s) \/ Lockup(s) \/ SetLockupTxid(s)
    \/ \E m \in Updates(status[s]) : Reconnect(s, m) \/ RestoreFromServer(s, m)

Next == Crash \/ LoseStore \/ \E s \in Swap : Handler(s) \/ Environment(s)

Spec == Init /\ [][Next]_vars

\* The application keeps driving its swaps: it restores the pending ones and
\* calls advance() until they are complete.  Strong fairness: the executor runs
\* every task that is ready again and again.  Boltz and the user may stop.
Fairness == \A s \in Swap : SF_vars(Handler(s))

FairSpec == Spec /\ Fairness

-----------------------------------------------------------------------------
(* Properties.                                                             *)

TypeOK ==
    /\ kind \in [Swap -> Kind \cup {"none"}]
    /\ status \in [Swap -> SwapState]
    /\ user \in [Swap -> Leg] /\ boltz \in [Swap -> Leg]
    /\ preimage \in [Swap -> BOOLEAN]
    /\ queue \in [Swap -> Seq(Message)]
    /\ \A s \in Swap : Len(queue[s]) <= QueueCap
    /\ pc \in [Swap -> PC] /\ job \in [Swap -> Job]
    /\ mem \in [Swap -> SwapData] /\ data \in [Swap -> SwapData]
    /\ pending \subseteq Swap /\ completed \subseteq Swap
    /\ copy \in [Swap -> SUBSET Swap]
    /\ returned \in [Swap -> BOOLEAN] /\ unlisted \in [Swap -> BOOLEAN]
    /\ interrupted \in [Swap -> BOOLEAN]
    /\ budget \in Budget

\* The statuses that end an advance() with Break, by kind of swap.
Ending(k) ==
    CASE k = "submarine" -> {"InvoiceFailedToPay", "TransactionLockupFailed",
                             "TransactionClaimed", "SwapExpired"}
      [] k = "reverse" -> {"TransactionDirect", "InvoiceSettled", "SwapExpired",
                           "InvoiceExpired"}
      [] OTHER -> {"TransactionClaimed", "TransactionLockupFailed",
                   "TransactionFailed", "TransactionRefunded", "SwapExpired"}

\* Where the user's money is.
Money(s) ==
    IF user[s] = "none" THEN "mine"
    ELSE IF boltz[s] = "claimed" THEN "received"
    ELSE CASE user[s] = "refunded" -> "back"
           [] user[s] = "claimed" -> "owed"
           [] OTHER -> "staked"

\* What the store says of the swap.  ClaimPending can end a submarine swap too.
Record(s) ==
    LET last == data[s].last_state IN
    IF s \in pending THEN "open"
    ELSE IF last = "SwapExpired" THEN "expired"
    ELSE IF last \in Ending(kind[s]) \cup {"TransactionClaimPending"} THEN "closed"
    ELSE "none"

Promise == INSTANCE SwapPromise WITH
    money <- [s \in Swap |-> Money(s)],
    record <- [s \in Swap |-> Record(s)]

\* However a swap goes and wherever the process stops, its money and its
\* record only move as SwapPromise allows: nothing is both received and
\* refunded, and a swap leaves the pending list closed only when there is
\* nothing left to claim or to refund.
KeepsPromise == Promise!Spec

\* When Boltz has taken the user's lockup and the user has nothing yet, the
\* swap is still in the pending list, so that a restart finds it and claims
\* (the case of the comment in LockupResponse::advance: "we still need to
\* claim from Boltz's lockup").  Swaps of Boltz's list are never pending.
OwedIsPending ==
    \A s \in Swap : Money(s) = "owed" /\ ~unlisted[s] => s \in pending

\* The pending list names every swap whose creation has returned and whose end
\* has not been persisted, whatever the handlers of other swaps do to the same
\* list and wherever the process stops.
PendingKept ==
    \A s \in Swap :
        /\ returned[s] /\ ~unlisted[s]
        /\ data[s].last_state \notin Ending(kind[s]) \cup {"TransactionClaimPending"}
        => s \in pending

\* set_lockup_txid is there so that a lockup is not sent twice: the store
\* forgets the txid only when a mempool update of a chain swap carries none.
KeepsLockupTxid ==
    [][\A s \in Swap :
         data[s].lockup_txid /\ ~data'[s].lockup_txid =>
            unlisted'[s] \/ (kind[s] = "chain" /\ data'[s].last_state = "TransactionMempool")
      ]_vars

\* What advance() logs for invoice.settled, "Reverse Swap Successful!": a
\* reverse swap recorded as settled has paid the user.
SettledIsReceived ==
    \A s \in Swap : data[s].last_state = "InvoiceSettled" => Money(s) = "received"

\* A swap Boltz has ended leaves the pending list, through any repeated, missed
\* or failing step, unless the process stopped between the broadcast of a claim
\* or refund and the record of it.
Finishes ==
    \A s \in Swap :
        (s \in pending /\ status[s] \in Ending(kind[s]))
            ~> (s \notin pending \/ interrupted[s])

\* Once Boltz has taken the user's lockup the user receives the other side, as
\* long as the store is kept.
OwedIsReceived ==
    \A s \in Swap :
        (Money(s) = "owed") ~> (Money(s) = "received" \/ unlisted[s])

=============================================================================
