-------------------------- MODULE BoltzSwap_proof ---------------------------
(***************************************************************************)
(* Proofs about BoltzSwap: type correctness, and that the pending list     *)
(* keeps every swap that is not over, for any number of swaps of any kind, *)
(* any stops, failures and repetitions, and any capacity of the channel.   *)
(***************************************************************************)
EXTENDS BoltzSwap, TLAPS

\* The statuses after which a swap is over: Boltz moves from them only to others
\* of them.
Done(k) == Ending(k) \cup {"TransactionClaimPending"}

\* All the statuses of a swap of kind k.
Known(k) ==
    {"Initialized"} \cup
    CASE k = "submarine" -> {"InvoiceSet", "TransactionMempool", "TransactionConfirmed",
           "TransactionZeroconfRejected", "InvoicePending", "InvoicePaid"} \cup Done(k)
      [] k = "reverse" -> {"SwapCreated", "TransactionMempool", "TransactionConfirmed",
           "TransactionRefunded"} \cup Ending(k)
      [] OTHER -> {"SwapCreated", "TransactionMempool", "TransactionConfirmed",
           "TransactionZeroconfRejected", "ServerTransactionMempool",
           "ServerTransactionConfirmed"} \cup Ending(k)

-----------------------------------------------------------------------------
(* What one call of advance() may do to the response object.               *)

\* The types of what it changes, and the objects of other swaps.
Typed(s) ==
    /\ preimage' \in [Swap -> BOOLEAN] /\ budget' \in Budget
    /\ mem' \in [Swap -> SwapData] /\ job' \in [Swap -> Job] /\ pc' \in [Swap -> PC]
    /\ \A o \in Swap \ {s} : /\ pc'[o] = pc[o] /\ job'[o] = job[o] /\ mem'[o] = mem[o]
                             /\ preimage'[o] = preimage[o]

\* It returns, is about to persist status st, or has a transaction to broadcast.
Outcome(s, st) ==
    \/ /\ pc'[s] = "idle" /\ job'[s] = job[s]
       /\ mem'[s].last_state \in {mem[s].last_state, st}
    \/ /\ pc'[s] = "persist" /\ mem'[s].last_state = st /\ job'[s].st = st
       /\ job'[s].flow = "break" => st \in Done(kind[s])
    \/ /\ pc'[s] \in {"claim", "refund"}
       /\ mem'[s].last_state = mem[s].last_state /\ job'[s].st = st
       /\ job'[s].flow = "break" => st \in Done(kind[s])

\* The data of a response object that has not yet taken the status of its update.
Kin(s, d) == d \in SwapData /\ d.last_state = mem[s].last_state

\* The data of one that has, although the update led to an error.
Told(d, st) == d \in SwapData /\ d.last_state = st

\* Ends: the status goes into the data; a Break only with a status that ends it.
LEMMA EndsEffect ==
    ASSUME TypeOK, NEW s \in Swap, NEW d \in SwapData, NEW st \in SwapState,
           NEW flow \in Flow, flow = "break" => st \in Done(kind[s]),
           Ends(s, d, st, flow)
    PROVE  Typed(s) /\ Outcome(s, st)
<1>1. Typed(s)
  BY Zenon DEF Ends, Typed, TypeOK, SwapData, Job, Goto, PC
<1>2. pc'[s] = "persist" /\ mem'[s].last_state = st /\ job'[s].st = st /\ job'[s].flow = flow
  BY DEF Ends, TypeOK, SwapData, Job, Goto
<1>. QED
  BY <1>1, <1>2 DEF Outcome

\* Unexpected: only the status in memory changes.
LEMMA UnexpectedEffect ==
    ASSUME TypeOK, NEW s \in Swap, pc[s] = "idle", NEW st \in SwapState, Unexpected(s, st)
    PROVE  Typed(s) /\ Outcome(s, st)
<1>1. Typed(s)
  <2>. DEFINE e == [mem[s] EXCEPT !.last_state = st]
  <2>1. mem[s] \in SwapData /\ mem' = [mem EXCEPT ![s] = e]
    BY DEF Unexpected, TypeOK
  <2>2. e \in SwapData
    BY <2>1 DEF SwapData
  <2>. HIDE DEF e
  <2>. QED
    BY <2>1, <2>2, ZenonT(30) DEF Unexpected, Typed, TypeOK
<1>2. mem'[s].last_state = st
  BY DEF Unexpected, TypeOK, SwapData
<1>. QED
  BY <1>1, <1>2 DEF Unexpected, Outcome

\* Fails: the status is at most noted.
LEMMA FailsEffect ==
    ASSUME TypeOK, NEW s \in Swap, pc[s] = "idle", NEW st, NEW d,
           Kin(s, d) \/ Told(d, st), Fails(s, d)
    PROVE  Typed(s) /\ Outcome(s, st)
<1>a. budget' \in Budget
  <2>1. budget \in [crash : Nat, fail : Nat, dup : Nat, lose : Nat] /\ budget.fail - 1 \in Nat
    BY DEF Fails, TypeOK, Budget
  <2>. QED
    BY <2>1 DEF Fails, Budget
<1>1. Typed(s)
  BY <1>a DEF Fails, Typed, TypeOK, Kin, Told
<1>2. mem'[s].last_state \in {mem[s].last_state, st}
  BY DEF Fails, TypeOK, Kin, Told
<1>. QED
  BY <1>1, <1>2 DEF Fails, Outcome

\* CannotConstruct: the same.
LEMMA CannotConstructEffect ==
    ASSUME TypeOK, NEW s \in Swap, pc[s] = "idle", NEW st, NEW d,
           Kin(s, d) \/ Told(d, st), NEW what, CannotConstruct(s, d, what)
    PROVE  Typed(s) /\ Outcome(s, st)
<1>1. Typed(s)
  BY DEF CannotConstruct, Typed, TypeOK, Kin, Told
<1>2. mem'[s].last_state \in {mem[s].last_state, st}
  BY DEF CannotConstruct, TypeOK, Kin, Told
<1>. QED
  BY <1>1, <1>2 DEF CannotConstruct, Outcome

\* Construct, whatever it reveals.
Constructed(s, d, st, what, flow) ==
    /\ preimage' \in [Swap -> BOOLEAN] /\ \A o \in Swap \ {s} : preimage'[o] = preimage[o]
    /\ mem' = [mem EXCEPT ![s] = d]
    /\ job' = [job EXCEPT ![s] = [st |-> st, flow |-> flow, sent |-> FALSE]]
    /\ pc' = [pc EXCEPT ![s] = what]
    /\ budget' = budget

\* Construct: the status waits in the job until the broadcast.
LEMMA ConstructEffect ==
    ASSUME TypeOK, NEW s \in Swap, NEW d, Kin(s, d), NEW st \in SwapState,
           NEW what \in {"claim", "refund"}, NEW flow \in Flow,
           flow = "break" => st \in Done(kind[s]),
           Constructed(s, d, st, what, flow)
    PROVE  Typed(s) /\ Outcome(s, st)
<1>1. mem' \in [Swap -> SwapData] /\ job' \in [Swap -> Job] /\ pc' \in [Swap -> PC]
  BY DEF Constructed, TypeOK, Kin, Job, PC
<1>2. \A o \in Swap \ {s} : pc'[o] = pc[o] /\ job'[o] = job[o] /\ mem'[o] = mem[o]
  BY DEF Constructed, TypeOK
<1>3. Typed(s)
  BY <1>1, <1>2 DEF Typed, Constructed, TypeOK
<1>4. /\ pc'[s] = what /\ mem'[s].last_state = mem[s].last_state
      /\ job'[s].st = st /\ job'[s].flow = flow
  BY DEF Constructed, TypeOK, Kin, Job
<1>. QED
  BY <1>3, <1>4 DEF Outcome

\* Learning a txid leaves the status alone.
LEMMA LearnKin ==
    ASSUME TypeOK, NEW s \in Swap
    PROVE  /\ Kin(s, mem[s])
           /\ \A tx \in BOOLEAN : Kin(s, Learn(mem[s], tx))
           /\ \A tx \in BOOLEAN : Kin(s, [mem[s] EXCEPT !.lockup_txid = tx])
           /\ \A d \in Fetched(mem[s]) : Kin(s, d)
<1>1. mem[s] \in SwapData
  BY DEF TypeOK
<1>2. ASSUME NEW tx \in BOOLEAN
      PROVE  Kin(s, [mem[s] EXCEPT !.lockup_txid = tx])
  BY <1>1 DEF Kin, SwapData
<1>3. ASSUME NEW tx \in BOOLEAN
      PROVE  Kin(s, Learn(mem[s], tx))
  <2>1. (mem[s].lockup_txid \/ tx) \in BOOLEAN
    OBVIOUS
  <2>. QED
    BY <1>2, <2>1, Zenon DEF Learn
<1>. QED
  BY <1>1, <1>2, <1>3 DEF Fetched, Kin

\* Noting a status.
LEMMA NotedTold ==
    ASSUME NEW s, NEW d, Kin(s, d), NEW st \in SwapState
    PROVE  Told(Noted(d, st), st)
BY DEF Kin, Told, Noted, SwapData

\* Refunds: of a status that ends the swap.
LEMMA RefundsEffect ==
    ASSUME TypeOK, NEW s \in Swap, pc[s] = "idle", NEW st \in SwapState,
           st \in Done(kind[s]), Refunds(s, st)
    PROVE  Typed(s) /\ Outcome(s, st)
<1>1. CASE Construct(s, mem[s], st, "refund", "break", FALSE)
  <2>1. Constructed(s, mem[s], st, "refund", "break")
    BY <1>1 DEF Construct, Constructed, Goto, TypeOK
  <2>. QED
    BY <2>1, LearnKin, ConstructEffect DEF Flow
<1>2. CASE CannotConstruct(s, mem[s], "refund")
  BY <1>2, LearnKin, CannotConstructEffect, Zenon
<1>3. CASE Fails(s, mem[s])
  BY <1>3, LearnKin, FailsEffect, Zenon
<1>. QED
  BY <1>1, <1>2, <1>3, Zenon DEF Refunds

\* AdvanceSubmarine
LEMMA SubmarineEffect ==
    ASSUME TypeOK, NEW s \in Swap, pc[s] = "idle", kind[s] = "submarine",
           NEW st \in SwapState, NEW tx \in BOOLEAN, AdvanceSubmarine(s, st, tx)
    PROVE  Typed(s) /\ Outcome(s, st)
<1>a. {"InvoiceFailedToPay", "TransactionLockupFailed", "TransactionClaimed", "SwapExpired",
       "TransactionClaimPending"} \subseteq Done(kind[s])
  BY DEF Done, Ending
<1>b. ASSUME NEW d, Kin(s, d), Continue(s, d, st)
      PROVE  Typed(s) /\ Outcome(s, st)
  BY <1>b, EndsEffect DEF Continue, Kin, Flow
<1>c. ASSUME NEW d, Kin(s, d), Break(s, d, st), st \in Done(kind[s])
      PROVE  Typed(s) /\ Outcome(s, st)
  BY <1>c, EndsEffect DEF Break, Kin, Flow
<1>d. ASSUME Fails(s, mem[s])
      PROVE  Typed(s) /\ Outcome(s, st)
  BY <1>d, LearnKin, FailsEffect
<1>1. CASE Continue(s, mem[s], st) \/ Continue(s, Learn(mem[s], tx), st)
  BY <1>1, <1>b, LearnKin
<1>2. CASE Fails(s, mem[s]) \/ Fails(s, Noted(mem[s], st))
  BY <1>2, <1>d, LearnKin, NotedTold, FailsEffect
<1>3. CASE st \in {"InvoiceFailedToPay", "TransactionLockupFailed"} /\ Refunds(s, st)
  BY <1>3, <1>a, RefundsEffect
<1>4. CASE /\ st \in {"InvoiceFailedToPay", "TransactionClaimPending", "SwapExpired"}
           /\ Break(s, mem[s], st)
  BY <1>4, <1>a, <1>c, LearnKin
<1>5. CASE st = "TransactionClaimed" /\ \E e \in Fetched(mem[s]) : Break(s, e, st)
  BY <1>5, <1>a, <1>c, LearnKin
<1>6. CASE Unexpected(s, st)
  BY <1>6, UnexpectedEffect
<1>. QED
  BY <1>1, <1>2, <1>3, <1>4, <1>5, <1>6
     DEF AdvanceSubmarine, handle_cooperative_claim

\* AdvanceReverse
LEMMA ReverseEffect ==
    ASSUME TypeOK, NEW s \in Swap, pc[s] = "idle", kind[s] = "reverse",
           NEW st \in SwapState, NEW tx \in BOOLEAN, AdvanceReverse(s, st, tx)
    PROVE  Typed(s) /\ Outcome(s, st)
<1>a. {"TransactionDirect", "InvoiceSettled", "SwapExpired", "InvoiceExpired"}
        \subseteq Done(kind[s])
  BY DEF Done, Ending
<1>1. CASE Continue(s, mem[s], st)
  BY <1>1, LearnKin, EndsEffect DEF Continue, Kin, Flow
<1>2. CASE Construct(s, Learn(mem[s], tx), st, "claim", "continue", "reverse" \in RevealsTo)
  <2>1. Constructed(s, Learn(mem[s], tx), st, "claim", "continue")
    BY <1>2 DEF Construct, Constructed, Goto, TypeOK
  <2>. QED
    BY <2>1, LearnKin, ConstructEffect DEF Flow
<1>3. CASE CannotConstruct(s, Noted(Learn(mem[s], tx), st), "claim")
  BY <1>3, LearnKin, NotedTold, CannotConstructEffect
<1>4. CASE \E e \in {mem[s], Learn(mem[s], tx)} : Fails(s, Noted(e, st))
  BY <1>4, LearnKin, NotedTold, FailsEffect
<1>5. CASE /\ st \in {"TransactionDirect", "InvoiceSettled", "SwapExpired", "InvoiceExpired"}
           /\ Break(s, mem[s], st)
  BY <1>5, <1>a, LearnKin, EndsEffect DEF Break, Kin, Flow
<1>6. CASE Unexpected(s, st)
  BY <1>6, UnexpectedEffect
<1>. QED
  BY <1>1, <1>2, <1>3, <1>4, <1>5, <1>6
     DEF AdvanceReverse, handle_claim_transaction_if_necessary

\* AdvanceChain
LEMMA ChainEffect ==
    ASSUME TypeOK, NEW s \in Swap, pc[s] = "idle", kind[s] \notin {"submarine", "reverse"},
           NEW st \in SwapState, NEW tx \in BOOLEAN, AdvanceChain(s, st, tx)
    PROVE  Typed(s) /\ Outcome(s, st)
<1>a. {"TransactionClaimed", "TransactionLockupFailed", "TransactionFailed",
       "TransactionRefunded", "SwapExpired"} \subseteq Done(kind[s])
  BY DEF Done, Ending
<1>b. ASSUME NEW d, Kin(s, d), Continue(s, d, st)
      PROVE  Typed(s) /\ Outcome(s, st)
  BY <1>b, EndsEffect DEF Continue, Kin, Flow
<1>c. ASSUME NEW d, Kin(s, d), Break(s, d, st), st \in Done(kind[s])
      PROVE  Typed(s) /\ Outcome(s, st)
  BY <1>c, EndsEffect DEF Break, Kin, Flow
<1>1. CASE \/ Continue(s, mem[s], st) \/ Continue(s, Learn(mem[s], tx), st)
           \/ Continue(s, [mem[s] EXCEPT !.lockup_txid = tx], st)
  BY <1>1, <1>b, LearnKin
<1>2. CASE Construct(s, mem[s], st, "claim", "continue", "chain" \in RevealsTo)
  <2>1. Constructed(s, mem[s], st, "claim", "continue")
    BY <1>2 DEF Construct, Constructed, Goto, TypeOK
  <2>. QED
    BY <2>1, LearnKin, ConstructEffect DEF Flow
<1>3. CASE CannotConstruct(s, mem[s], "claim") \/ Fails(s, mem[s])
  BY <1>3, LearnKin, CannotConstructEffect, FailsEffect, Zenon
<1>4. CASE st = "TransactionClaimed" /\ ClaimAfterBoltz(s, st)
  <2>1. CASE Fails(s, mem[s])
    BY <2>1, LearnKin, FailsEffect, Zenon
  <2>2. ASSUME NEW d \in Fetched(mem[s]),
               \/ Break(s, d, st) \/ Construct(s, d, st, "claim", "break", FALSE)
               \/ CannotConstruct(s, d, "claim") \/ Fails(s, d)
        PROVE  Typed(s) /\ Outcome(s, st)
    <3>. Kin(s, d)
      BY LearnKin
    <3>1. CASE Break(s, d, st)
      BY <3>1, <1>4, <1>a, <1>c
    <3>2. CASE Construct(s, d, st, "claim", "break", FALSE)
      <4>1. Constructed(s, d, st, "claim", "break")
        BY <3>2 DEF Construct, Constructed, Goto, TypeOK
      <4>. QED
        BY <4>1, <1>4, <1>a, ConstructEffect DEF Flow
    <3>3. CASE CannotConstruct(s, d, "claim") \/ Fails(s, d)
      BY <3>3, CannotConstructEffect, FailsEffect, SMTT(20)
    <3>. QED
      BY <2>2, <3>1, <3>2, <3>3, Zenon
  <2>. QED
    BY <1>4, <2>1, <2>2, Zenon DEF ClaimAfterBoltz
<1>5. CASE /\ st \in {"TransactionLockupFailed", "TransactionFailed", "TransactionRefunded"}
           /\ Refunds(s, st)
  BY <1>5, <1>a, RefundsEffect
<1>6. CASE st = "SwapExpired" /\ Break(s, mem[s], st)
  BY <1>6, <1>a, <1>c, LearnKin
<1>7. CASE Unexpected(s, st)
  BY <1>7, UnexpectedEffect
<1>. QED
  BY <1>1, <1>2, <1>3, <1>4, <1>5, <1>6, <1>7 DEF AdvanceChain

\* Advance: the update at the head of the queue is taken.
LEMMA AdvanceEffect ==
    ASSUME TypeOK, NEW s \in Swap, Advance(s)
    PROVE  /\ queue[s] # <<>> /\ Head(queue[s]) \in Message
           /\ Typed(s) /\ Outcome(s, Head(queue[s]).st)
<1>1. queue[s] # <<>> /\ queue[s] \in Seq(Message) /\ pc[s] = "idle"
  BY DEF Advance, TypeOK
<1>2. Head(queue[s]) \in Message
  BY <1>1
<1>3. Head(queue[s]).st \in SwapState /\ Head(queue[s]).tx \in BOOLEAN
  BY <1>2 DEF Message
<1>4. CASE kind[s] = "submarine"
  <2>1. AdvanceSubmarine(s, Head(queue[s]).st, Head(queue[s]).tx)
    BY <1>4 DEF Advance
  <2>. QED
    BY <1>1, <1>2, <1>3, <1>4, <2>1, SubmarineEffect
<1>5. CASE kind[s] = "reverse"
  <2>1. AdvanceReverse(s, Head(queue[s]).st, Head(queue[s]).tx)
    BY <1>5 DEF Advance
  <2>. QED
    BY <1>1, <1>2, <1>3, <1>5, <2>1, ReverseEffect
<1>6. CASE kind[s] \notin {"submarine", "reverse"}
  <2>1. AdvanceChain(s, Head(queue[s]).st, Head(queue[s]).tx)
    BY <1>6 DEF Advance
  <2>. QED
    BY <1>1, <1>2, <1>3, <1>6, <2>1, ChainEffect
<1>. QED
  BY <1>1, <1>2, <1>4, <1>5, <1>6

-----------------------------------------------------------------------------
(* Type correctness.                                                       *)

\* What reaches a receiver: an update, in a queue of at most QueueCap.
LEMMA DeliveredTyped ==
    ASSUME TypeOK, NEW s \in Swap, NEW m \in Message
    PROVE  Delivered(s, m) \in Seq(Message) /\ Len(Delivered(s, m)) <= QueueCap
<1>. queue[s] \in Seq(Message) /\ Len(queue[s]) <= QueueCap
  BY DEF TypeOK
<1>1. CASE pc[s] = "off"
  BY <1>1, CapAssumption DEF Delivered
<1>2. CASE pc[s] # "off" /\ Len(queue[s]) = QueueCap
  <2>1. queue[s] # <<>> /\ Tail(queue[s]) \in Seq(Message)
        /\ Len(Tail(queue[s])) = Len(queue[s]) - 1
    BY <1>2, CapAssumption
  <2>. QED
    BY <1>2, <2>1, CapAssumption DEF Delivered
<1>3. CASE pc[s] # "off" /\ Len(queue[s]) # QueueCap
  BY <1>3, CapAssumption DEF Delivered
<1>. QED
  BY <1>1, <1>2, <1>3

\* Updates carry the status they tell.
LEMMA UpdatesTyped ==
    ASSUME NEW st \in SwapState, NEW m \in Updates(st)
    PROVE  m \in Message /\ m.st = st
BY Zenon DEF Updates, Message

\* Learning a txid from data of any swap.
LEMMA LearnTyped ==
    ASSUME NEW d \in SwapData
    PROVE  /\ \A tx \in BOOLEAN : /\ Learn(d, tx) \in SwapData
                                  /\ Learn(d, tx).last_state = d.last_state
           /\ \A e \in Fetched(d) : e \in SwapData /\ e.last_state = d.last_state
<1>1. ASSUME NEW tx \in BOOLEAN
      PROVE  Learn(d, tx) \in SwapData /\ Learn(d, tx).last_state = d.last_state
  <2>1. (d.lockup_txid \/ tx) \in BOOLEAN
    OBVIOUS
  <2>. QED
    BY <2>1 DEF Learn, SwapData
<1>. QED
  BY <1>1 DEF Fetched

\* The data a restore from Boltz's list makes has Boltz's status.
LEMMA FromServerTyped ==
    ASSUME TypeOK, NEW s \in Swap, NEW d \in FromServer(s)
    PROVE  d \in SwapData /\ d.last_state = status[s]
<1>1. /\ NewData(status[s], FALSE) \in SwapData
      /\ NewData(status[s], FALSE).last_state = status[s]
  BY DEF NewData, SwapData, TypeOK
<1>2. PICK tx \in BOOLEAN : d = Learn(NewData(status[s], FALSE), tx)
  BY Zenon DEF FromServer, ListedSubmarine, ListedReverse, ListedChain, Listed
<1>. QED
  BY <1>1, <1>2, LearnTyped, Zenon

\* The initial state.
LEMMA InitTyped == Init => TypeOK
<1>. SUFFICES ASSUME Init PROVE TypeOK
  OBVIOUS
<1>1. kind \in [Swap -> Kind \cup {"none"}] /\ budget \in Budget
  BY InstancesAssumption DEF Init
<1>2. NoData \in SwapData /\ NoJob \in Job
  BY DEF NoData, NewData, SwapData, SwapState, NoJob, Job, Flow
<1>3. /\ status \in [Swap -> SwapState] /\ user \in [Swap -> Leg] /\ boltz \in [Swap -> Leg]
      /\ preimage \in [Swap -> BOOLEAN] /\ pc \in [Swap -> PC]
  BY DEF Init, SwapState, Leg, PC
<1>4. /\ queue \in [Swap -> Seq(Message)] /\ \A s \in Swap : Len(queue[s]) <= QueueCap
  BY CapAssumption DEF Init
<1>5. /\ job \in [Swap -> Job] /\ mem \in [Swap -> SwapData] /\ data \in [Swap -> SwapData]
      /\ pending \subseteq Swap /\ completed \subseteq Swap /\ copy \in [Swap -> SUBSET Swap]
  BY <1>2 DEF Init
<1>6. /\ returned \in [Swap -> BOOLEAN] /\ unlisted \in [Swap -> BOOLEAN]
      /\ interrupted \in [Swap -> BOOLEAN]
  BY DEF Init
<1>. QED
  BY <1>1, <1>3, <1>4, <1>5, <1>6 DEF TypeOK

\* Every step keeps the types.
LEMMA TypeStep == TypeOK /\ [Next]_vars => TypeOK'
<1>. SUFFICES ASSUME TypeOK, [Next]_vars PROVE TypeOK'
  OBVIOUS
<1>n. NoData \in SwapData /\ NoJob \in Job
  BY DEF NoData, NewData, SwapData, SwapState, NoJob, Job, Flow
<1>b. /\ budget \in [crash : Nat, fail : Nat, dup : Nat, lose : Nat]
      /\ budget.crash > 0 => [budget EXCEPT !.crash = @ - 1] \in Budget
      /\ budget.fail > 0 => [budget EXCEPT !.fail = @ - 1] \in Budget
      /\ budget.dup > 0 => [budget EXCEPT !.dup = @ - 1] \in Budget
      /\ budget.lose > 0 => [budget EXCEPT !.lose = @ - 1] \in Budget
  <2>1. budget \in [crash : Nat, fail : Nat, dup : Nat, lose : Nat]
    BY DEF TypeOK, Budget
  <2>2. budget.crash > 0 => budget.crash - 1 \in Nat
    BY <2>1
  <2>3. budget.fail > 0 => budget.fail - 1 \in Nat
    BY <2>1
  <2>4. budget.dup > 0 => budget.dup - 1 \in Nat
    BY <2>1
  <2>5. budget.lose > 0 => budget.lose - 1 \in Nat
    BY <2>1
  <2>. QED
    BY <2>1, <2>2, <2>3, <2>4, <2>5 DEF Budget
<1>1. CASE Crash
  <2>1. interrupted' \in [Swap -> BOOLEAN]
    <3>1. \A s \in Swap : (interrupted[s] \/ (pc[s] \in {"persist", "unpend", "unpendw"}
                                             /\ job[s].sent)) \in BOOLEAN
      OBVIOUS
    <3>. QED
      BY <1>1, <3>1 DEF Crash
  <2>2. /\ pc' \in [Swap -> PC] /\ queue' \in [Swap -> Seq(Message)]
        /\ \A s \in Swap : Len(queue'[s]) <= QueueCap
        /\ job' \in [Swap -> Job] /\ mem' \in [Swap -> SwapData]
        /\ copy' \in [Swap -> SUBSET Swap] /\ budget' \in Budget
    BY <1>1, <1>n, <1>b, CapAssumption DEF Crash, PC
  <2>. QED
    BY <1>1, <2>1, <2>2 DEF Crash, TypeOK, legs, store
<1>2. CASE LoseStore
  <2>1. unlisted' \in [Swap -> BOOLEAN]
    <3>1. \A s \in Swap : (status[s] # "Initialized") \in BOOLEAN
      OBVIOUS
    <3>. QED
      BY <1>2, <3>1 DEF LoseStore
  <2>2. /\ data' \in [Swap -> SwapData] /\ pending' \subseteq Swap /\ completed' \subseteq Swap
        /\ budget' \in Budget
    BY <1>2, <1>n, <1>b DEF LoseStore
  <2>. QED
    BY <1>2, <2>1, <2>2 DEF LoseStore, TypeOK, legs
<1>3. ASSUME NEW s \in Swap, Advance(s) PROVE TypeOK'
  <2>1. Typed(s) /\ queue[s] # <<>>
    BY <1>3, AdvanceEffect
  <2>2. queue' \in [Swap -> Seq(Message)] /\ \A o \in Swap : Len(queue'[o]) <= QueueCap
    <3>1. queue[s] \in Seq(Message) /\ Len(queue[s]) <= QueueCap
      BY DEF TypeOK
    <3>2. Tail(queue[s]) \in Seq(Message) /\ Len(Tail(queue[s])) <= QueueCap
      BY <3>1, <2>1, CapAssumption
    <3>. QED
      BY <1>3, <3>2 DEF Advance, Took, TypeOK
  <2>. QED
    BY <1>3, <2>1, <2>2 DEF Advance, Typed, TypeOK, store, history
<1>4. ASSUME NEW s \in Swap, Broadcast(s) PROVE TypeOK'
  <2>. DEFINE claimed == [mem[s] EXCEPT !.claim_txid = TRUE, !.last_state = job[s].st]
              refunded == [mem[s] EXCEPT !.refund_txid = TRUE, !.last_state = job[s].st]
  <2>1. [job[s] EXCEPT !.sent = TRUE] \in Job
    <3>1. job[s] \in Job
      BY DEF TypeOK
    <3>. QED
      BY <3>1, Zenon DEF Job
  <2>2. job' = [job EXCEPT ![s] = [job[s] EXCEPT !.sent = TRUE]]
    BY <1>4 DEF Broadcast
  <2>3. job' \in [Swap -> Job] /\ pc' \in [Swap -> PC]
    BY <1>4, <2>1, <2>2 DEF Broadcast, TypeOK, Goto, PC
  <2>4. claimed \in SwapData /\ refunded \in SwapData
    <3>1. mem[s] \in SwapData /\ job[s].st \in SwapState
      BY DEF TypeOK, Job
    <3>. QED
      BY <3>1, Zenon DEF SwapData
  <2>5. CASE pc[s] = "claim"
    <3>1. boltz' \in [Swap -> Leg] /\ user' = user /\ preimage' \in [Swap -> BOOLEAN]
      BY <1>4, <2>5, Zenon DEF Broadcast, TypeOK, Leg
    <3>2. mem' = [mem EXCEPT ![s] = claimed]
      BY <1>4, <2>5, Zenon DEF Broadcast, TypeOK
    <3>. HIDE DEF claimed
    <3>3. mem' \in [Swap -> SwapData]
      BY <3>2, <2>4 DEF TypeOK
    <3>. QED
      BY <1>4, <2>3, <3>1, <3>3 DEF Broadcast, TypeOK, store, history
  <2>6. CASE pc[s] # "claim"
    <3>1. user' \in [Swap -> Leg] /\ boltz' = boltz /\ preimage' = preimage
      BY <1>4, <2>6, Zenon DEF Broadcast, TypeOK, Leg
    <3>2. mem' = [mem EXCEPT ![s] = refunded]
      BY <1>4, <2>6, Zenon DEF Broadcast, TypeOK
    <3>. HIDE DEF refunded
    <3>3. mem' \in [Swap -> SwapData]
      BY <3>2, <2>4 DEF TypeOK
    <3>. QED
      BY <1>4, <2>3, <3>1, <3>3 DEF Broadcast, TypeOK, store, history
  <2>. QED
    BY <2>5, <2>6
<1>5. ASSUME NEW s \in Swap, BroadcastFails(s) PROVE TypeOK'
  <2>1. budget' \in Budget
    BY <1>5, <1>b, Zenon DEF BroadcastFails, TypeOK
  <2>2. mem[s] \in SwapData /\ Noted(mem[s], job[s].st) \in SwapData
    <3>1. mem[s] \in SwapData /\ job[s].st \in SwapState
      BY DEF TypeOK, Job
    <3>. QED
      BY <3>1 DEF Noted, SwapData
  <2>3. mem' \in [Swap -> SwapData]
    BY <1>5, <2>2 DEF BroadcastFails, TypeOK
  <2>. QED
    BY <1>5, <1>n, <2>1, <2>3 DEF BroadcastFails, TypeOK, Goto, PC, legs, store, history
<1>6. ASSUME NEW s \in Swap, Persist(s) PROVE TypeOK'
  BY <1>6 DEF Persist, TypeOK, Goto, PC, legs, history
<1>7. ASSUME NEW s \in Swap, ReadList(s) PROVE TypeOK'
  <2>1. copy' \in [Swap -> SUBSET Swap]
    BY <1>7 DEF ReadList, TypeOK
  <2>. QED
    BY <1>7, <2>1 DEF ReadList, TypeOK, Goto, PC, legs, store, history
<1>8. ASSUME NEW s \in Swap, WriteList(s) PROVE TypeOK'
  <2>1. copy[s] \subseteq Swap /\ pending' \subseteq Swap /\ completed' \subseteq Swap
    BY <1>8 DEF WriteList, TypeOK
  <2>2. copy' \in [Swap -> SUBSET Swap] /\ job' \in [Swap -> Job] /\ pc' \in [Swap -> PC]
    BY <1>8, <1>n DEF WriteList, TypeOK, Goto, PC
  <2>3. returned' \in [Swap -> BOOLEAN]
    <3>1. (returned[s] \/ pc[s] = "addw") \in BOOLEAN
      OBVIOUS
    <3>. QED
      BY <1>8, <3>1 DEF WriteList, TypeOK
  <2>. QED
    BY <1>8, <2>1, <2>2, <2>3 DEF WriteList, TypeOK, legs
<1>9. ASSUME NEW s \in Swap, Timeout(s) PROVE TypeOK'
  BY <1>9, <1>n DEF Timeout, TypeOK, Goto, PC, legs, store, history
<1>10. ASSUME NEW s \in Swap, NEW m \in Message, NEW d \in SwapData, Respond(s, d, m)
       PROVE  /\ mem' \in [Swap -> SwapData] /\ pc' \in [Swap -> PC]
              /\ queue' \in [Swap -> Seq(Message)]
              /\ \A o \in Swap : Len(queue'[o]) <= QueueCap
  <2>1. <<m>> \in Seq(Message) /\ Len(<<m>>) <= QueueCap
    BY CapAssumption
  <2>. QED
    BY <1>10, <2>1 DEF Respond, TypeOK, Goto, PC
<1>11. ASSUME NEW s \in Swap, NEW m \in Updates(status[s]), Restore(s, m) PROVE TypeOK'
  <2>1. m \in Message
    BY UpdatesTyped DEF TypeOK
  <2>2. PICK d \in SwapData : Respond(s, d, m)
    BY <1>11, LearnTyped DEF Restore, restore_prepare_pay, restore_invoice, restore_lockup,
             TypeOK
  <2>. QED
    BY <1>11, <2>1, <2>2, <1>10 DEF Restore, TypeOK, legs, store, history
<1>12. ASSUME NEW s \in Swap, NEW m \in Updates(status[s]), RestoreFromServer(s, m)
       PROVE  TypeOK'
  <2>1. m \in Message
    BY UpdatesTyped DEF TypeOK
  <2>2. PICK d \in SwapData : Respond(s, d, m)
    BY <1>12, FromServerTyped DEF RestoreFromServer
  <2>. QED
    BY <1>12, <2>1, <2>2, <1>10 DEF RestoreFromServer, TypeOK, legs, store
<1>13. ASSUME NEW s \in Swap, NEW m \in Updates(status[s]), Reconnect(s, m) PROVE TypeOK'
  <2>1. m \in Message
    BY UpdatesTyped DEF TypeOK
  <2>2. queue' \in [Swap -> Seq(Message)] /\ \A o \in Swap : Len(queue'[o]) <= QueueCap
    BY <1>13, <2>1, DeliveredTyped DEF Reconnect, TypeOK
  <2>. QED
    BY <1>13, <1>b, <2>2, SMTT(20) DEF Reconnect, TypeOK, legs, store, history
<1>14. ASSUME NEW s \in Swap, NEW to \in SwapState, NEW m \in Updates(to), ServerStep(s, to, m)
       PROVE  TypeOK'
  <2>1. m \in Message
    BY UpdatesTyped
  <2>2. queue' \in [Swap -> Seq(Message)] /\ \A o \in Swap : Len(queue'[o]) <= QueueCap
    BY <1>14, <2>1, DeliveredTyped DEF ServerStep, TypeOK
  <2>3. UserAfter(s, to) \in Leg /\ BoltzAfter(s, to) \in Leg
    BY DEF UserAfter, BoltzAfter, TypeOK, Leg
  <2>. QED
    BY <1>14, <2>2, <2>3 DEF ServerStep, TypeOK, store, history
<1>15. ASSUME NEW s \in Swap, Pay(s) \/ Lockup(s) PROVE TypeOK'
  <2>1. user' \in [Swap -> Leg]
    BY <1>15, Zenon DEF Pay, Lockup, TypeOK, Leg
  <2>. QED
    BY <1>15, <2>1 DEF Pay, Lockup, TypeOK, store, history
<1>16. ASSUME NEW s \in Swap, Create(s) PROVE TypeOK'
  <2>1. First(kind[s]) \in SwapState
    BY DEF First, SwapState
  <2>3. /\ PreparePayData \in SwapData /\ InvoiceData \in SwapData
        /\ ChainSwapData \in SwapData
    BY DEF PreparePayData, InvoiceData, ChainSwapData, NewData, SwapData, First, SwapState
  <2>. QED
    BY <1>16, <2>1, <2>3 DEF Create, TypeOK, Goto, PC, store, history
<1>17. ASSUME NEW s \in Swap, SetLockupTxid(s) PROVE TypeOK'
  <2>1. mem' \in [Swap -> SwapData]
    <3>1. mem \in [Swap -> SwapData]
      BY DEF TypeOK
    <3>2. [mem[s] EXCEPT !.lockup_txid = TRUE] \in SwapData
      BY ONLY <3>1, s \in Swap, Zenon DEF SwapData
    <3>. QED
      BY <1>17, <3>1, <3>2 DEF SetLockupTxid
  <2>. QED
    BY <1>17, <2>1 DEF SetLockupTxid, TypeOK, legs, history
<1>18. CASE UNCHANGED vars
  BY <1>18 DEF vars, TypeOK
<1>. QED
  BY <1>1, <1>2, <1>3, <1>4, <1>5, <1>6, <1>7, <1>8, <1>9, <1>11, <1>12, <1>13, <1>14,
     <1>15, <1>16, <1>17, <1>18 DEF Next, Handler, Environment

\* Every variable keeps its type and no receiver holds more updates than the
\* channel's capacity, for any set of swaps, whatever Boltz, the payer and the
\* process do.
THEOREM TypeCorrect == Spec => []TypeOK
BY InitTyped, TypeStep, PTL DEF Spec

-----------------------------------------------------------------------------
(* The inductive invariant behind PendingKept.  The store drops a swap from  *)
(* the pending list when its data is over; later writes of the data must not *)
(* bring it back, so the status in memory, the one in a running advance()    *)
(* and every update still to come must be over too.                          *)

Over(s, st) == st \in Done(kind[s])

\* Updates keep the order of Boltz's statuses: once one is over, so are those
\* behind it and Boltz's status.
Sorted(k, q, st) ==
    \A i \in 1 .. Len(q) :
        /\ q[i].st \in Known(k)
        /\ q[i].st \in Done(k) => st \in Done(k) /\ \A j \in i .. Len(q) : q[j].st \in Done(k)

\* Boltz's status and all the updates to come are over.
AllOver(s) ==
    Over(s, status[s]) /\ \A i \in 1 .. Len(queue[s]) : Over(s, queue[s][i].st)

\* Boltz gives a swap statuses of its kind only.
Lawful(s) ==
    /\ status[s] \in Known(kind[s]) /\ job[s].st \in Known(kind[s])
    /\ mem[s].last_state \in Known(kind[s]) /\ data[s].last_state \in Known(kind[s])
    /\ Sorted(kind[s], queue[s], status[s])

\* What the response object and its running advance() know.
InHand(s) ==
    pc[s] # "off" =>
        /\ Over(s, mem[s].last_state) => AllOver(s)
        /\ pc[s] \in {"claim", "refund"} =>
              /\ Over(s, job[s].st) => AllOver(s)
              /\ Over(s, mem[s].last_state) \/ job[s].flow = "break" => Over(s, job[s].st)
        /\ pc[s] = "persist" /\ job[s].flow = "break" => Over(s, mem[s].last_state)
        /\ pc[s] \in {"unpend", "unpendw"} => Over(s, data[s].last_state) \/ unlisted[s]

\* What the store knows, the response object and Boltz know.
Recorded(s) ==
    Over(s, data[s].last_state) =>
        Over(s, status[s]) /\ (pc[s] # "off" => Over(s, mem[s].last_state))

\* A swap that is not created has left no trace; one being created is not yet
\* the application's.
Begun(s) ==
    /\ status[s] = "Initialized" => pc[s] = "off" /\ ~returned[s] /\ ~unlisted[s] /\ s \notin pending
    /\ pc[s] \in {"new", "add", "addw"} => ~returned[s] /\ ~unlisted[s]

Kept(s) ==
    returned[s] /\ ~unlisted[s] /\ ~Over(s, data[s].last_state) => s \in pending

Local(s) == Lawful(s) /\ InHand(s) /\ Recorded(s) /\ Begun(s) /\ Kept(s)

\* On one thread at most one swap is in the store.
Exclusive == \A s, o \in Swap : pc[s] \in InStore /\ pc[o] \in InStore => s = o

\* The list about to be written back is the one in the store.
CopyFresh == \A s \in Swap : pc[s] \in {"addw", "unpendw"} => copy[s] = pending

Inv == TypeOK /\ Exclusive /\ CopyFresh /\ \A s \in Swap : Local(s)

\* The statuses of one kind of swap: a terminal one is over, a first one is not,
\* and Boltz never leaves the ones that are over.
LEMMA Statuses ==
    ASSUME NEW k \in Kind \cup {"none"}
    PROVE  /\ \A st \in Known(k) : is_terminal(st) => st \in Done(k)
           /\ "Initialized" \in Known(k) /\ "Initialized" \notin Done(k)
           /\ First(k) \in Known(k) /\ First(k) \notin Done(k) /\ First(k) # "Initialized"
           /\ \A a, to \in SwapState : <<a, to>> \in Lifecycle(k) =>
                 /\ to \in Known(k) /\ to # "Initialized"
                 /\ a \in Done(k) => to \in Done(k)
<1>1. CASE k = "submarine"
  BY <1>1 DEF Known, Done, Ending, First, Lifecycle, is_terminal
<1>2. CASE k = "reverse"
  BY <1>2 DEF Known, Done, Ending, First, Lifecycle, is_terminal
<1>3. CASE k = "chain"
  BY <1>3 DEF Known, Done, Ending, First, Lifecycle, is_terminal
<1>4. CASE k = "none"
  BY <1>4 DEF Known, Done, Ending, First, Lifecycle, is_terminal
<1>. QED
  BY <1>1, <1>2, <1>3, <1>4 DEF Kind

\* An update is added behind the others, or the oldest makes room for it.
LEMMA DeliveredSorted ==
    ASSUME TypeOK, NEW s \in Swap, NEW to \in SwapState, NEW m \in Updates(to),
           Sorted(kind[s], queue[s], status[s]), to \in Known(kind[s]),
           status[s] \in Done(kind[s]) => to \in Done(kind[s])
    PROVE  /\ Sorted(kind[s], Delivered(s, m), to)
           /\ AllOver(s) => \A i \in 1 .. Len(Delivered(s, m)) :
                               Over(s, Delivered(s, m)[i].st)
<1>. DEFINE q == queue[s]
            d == Delivered(s, m)
<1>0. q \in Seq(Message) /\ m \in Message /\ m.st = to
  BY UpdatesTyped DEF TypeOK
<1>1. CASE pc[s] = "off"
  BY <1>1 DEF Delivered, Sorted
<1>2. ASSUME NEW r \in Seq(Message), d = Append(r, m), Sorted(kind[s], r, status[s]),
             AllOver(s) => \A i \in 1 .. Len(r) : Over(s, r[i].st)
      PROVE  /\ Sorted(kind[s], d, to)
             /\ AllOver(s) => \A i \in 1 .. Len(d) : Over(s, d[i].st)
  <2>. HIDE DEF d
  <2>1. /\ Len(d) = Len(r) + 1 /\ d[Len(r) + 1] = m
        /\ \A i \in 1 .. Len(r) : d[i] = r[i]
    BY <1>2, <1>0
  <2>2. Len(r) \in Nat
    OBVIOUS
  <2>. QED
    BY <1>0, <1>2, <2>1, <2>2 DEF Sorted, AllOver, Over
<1>3. CASE pc[s] # "off" /\ Len(q) = QueueCap
  <2>1. q # <<>>
    BY <1>3, <1>0, CapAssumption
  <2>2. /\ Tail(q) \in Seq(Message) /\ Len(q) \in Nat /\ Len(Tail(q)) = Len(q) - 1
        /\ \A i \in 1 .. Len(Tail(q)) : Tail(q)[i] = q[i + 1]
    BY <2>1, <1>0
  <2>3. Sorted(kind[s], Tail(q), status[s])
    BY <2>2 DEF Sorted
  <2>4. AllOver(s) => \A i \in 1 .. Len(Tail(q)) : Over(s, Tail(q)[i].st)
    BY <2>2 DEF AllOver
  <2>5. d = Append(Tail(q), m)
    BY <1>3 DEF Delivered
  <2>. QED
    BY <1>2, <2>2, <2>3, <2>4, <2>5, Zenon
<1>4. CASE pc[s] # "off" /\ Len(q) # QueueCap
  <2>1. d = Append(q, m)
    BY <1>4 DEF Delivered
  <2>2. AllOver(s) => \A i \in 1 .. Len(q) : Over(s, q[i].st)
    BY DEF AllOver
  <2>. QED
    BY <1>0, <1>2, <2>1, <2>2
<1>. QED
  BY <1>1, <1>3, <1>4

\* The first update leaves the queue.
LEMMA TakenSorted ==
    ASSUME TypeOK, NEW s \in Swap, queue[s] # <<>>, Sorted(kind[s], queue[s], status[s])
    PROVE  /\ Sorted(kind[s], Tail(queue[s]), status[s])
           /\ Head(queue[s]).st \in Known(kind[s])
           /\ AllOver(s) \/ Over(s, Head(queue[s]).st) =>
                /\ Over(s, Head(queue[s]).st) /\ Over(s, status[s])
                /\ \A i \in 1 .. Len(Tail(queue[s])) : Over(s, Tail(queue[s])[i].st)
<1>. DEFINE q == queue[s]
<1>1. /\ q \in Seq(Message) /\ Len(q) \in Nat /\ Len(q) >= 1 /\ Head(q) = q[1]
      /\ Len(Tail(q)) = Len(q) - 1
      /\ \A i \in 1 .. Len(Tail(q)) : Tail(q)[i] = q[i + 1]
  <2>1. q \in Seq(Message) /\ q # <<>>
    BY Zenon DEF TypeOK
  <2>. QED
    BY ONLY <2>1
<1>2. Sorted(kind[s], Tail(q), status[s])
  <2>1. Sorted(kind[s], q, status[s])
    OBVIOUS
  <2>. HIDE DEF q
  <2>2. ASSUME NEW i \in 1 .. Len(Tail(q))
        PROVE  /\ i + 1 \in 1 .. Len(q) /\ Tail(q)[i] = q[i + 1]
               /\ \A j \in i .. Len(Tail(q)) : j + 1 \in (i + 1) .. Len(q) /\ Tail(q)[j] = q[j + 1]
    BY ONLY <1>1, <2>2
  <2>. QED
    BY ONLY <2>1, <2>2 DEF Sorted
<1>3. Head(q).st \in Known(kind[s])
  BY <1>1 DEF Sorted
<1>4. AllOver(s) \/ Over(s, Head(q).st) =>
         Over(s, status[s]) /\ \A i \in 1 .. Len(q) : Over(s, q[i].st)
  BY <1>1 DEF Sorted, AllOver, Over
<1>. QED
  BY <1>1, <1>2, <1>3, <1>4

\* A step that leaves alone what belongs to a swap keeps its part of the invariant.
Alike(o) ==
    /\ kind'[o] = kind[o] /\ status'[o] = status[o] /\ queue'[o] = queue[o]
    /\ pc'[o] = pc[o] /\ job'[o] = job[o] /\ mem'[o] = mem[o] /\ data'[o] = data[o]
    /\ returned'[o] = returned[o] /\ unlisted'[o] = unlisted[o]
    /\ o \in pending' <=> o \in pending

Same(o) ==
    Alike(o) /\ user'[o] = user[o] /\ boltz'[o] = boltz[o] /\ preimage'[o] = preimage[o]

\* A step that leaves a swap alone keeps what holds of it.
LEMMA Frame ==
    ASSUME NEW o \in Swap, Local(o), Alike(o)
    PROVE  Local(o)'
<1>1. Lawful(o)' /\ AllOver(o)' = AllOver(o)
  BY Zenon DEF Local, Alike, Lawful, AllOver, Over
<1>2. InHand(o)'
  BY <1>1, Zenon DEF Local, Alike, InHand, Over
<1>3. Recorded(o)' /\ Begun(o)' /\ Kept(o)'
  BY Zenon DEF Local, Alike, Recorded, Begun, Kept, Over
<1>. QED
  BY <1>1, <1>2, <1>3 DEF Local

\* A step of one swap that writes no list keeps the two facts about all swaps.
LEMMA GlobalKept ==
    ASSUME Exclusive, CopyFresh, NEW s \in Swap, pending' = pending,
           \A o \in Swap \ {s} : pc'[o] = pc[o] /\ copy'[o] = copy[o],
           pc'[s] \in InStore => \A o \in Swap \ {s} : pc[o] \notin InStore,
           pc'[s] \in {"addw", "unpendw"} => copy'[s] = pending
    PROVE  Exclusive' /\ CopyFresh'
BY DEF Exclusive, CopyFresh

\* A step that moves no swap keeps them too.
LEMMA GlobalSame ==
    ASSUME Exclusive, CopyFresh, pending' = pending, pc' = pc, copy' = copy
    PROVE  Exclusive' /\ CopyFresh'
BY DEF Exclusive, CopyFresh

\* One call of advance() up to its first write.
LEMMA AdvanceLocal ==
    ASSUME TypeOK, NEW s \in Swap, Local(s), Advance(s)
    PROVE  Local(s)'
<1>. DEFINE st == Head(queue[s]).st
<1>1. queue[s] # <<>> /\ Typed(s) /\ Outcome(s, st) /\ pc[s] = "idle"
  BY AdvanceEffect DEF Advance
<1>2. /\ kind'[s] = kind[s] /\ status'[s] = status[s] /\ data'[s] = data[s]
      /\ returned'[s] = returned[s] /\ unlisted'[s] = unlisted[s] /\ pending' = pending
  BY DEF Advance, store, history
<1>3. queue'[s] = Tail(queue[s])
  BY DEF Advance, Took, TypeOK
<1>4. /\ Sorted(kind[s], Tail(queue[s]), status[s]) /\ st \in Known(kind[s])
      /\ AllOver(s) \/ Over(s, st) => Over(s, st) /\ AllOver(s)'
  BY <1>1, <1>2, <1>3, TakenSorted, Zenon DEF Local, Lawful, AllOver, Over
<1>. HIDE DEF st
<1>5. /\ mem'[s].last_state \in {mem[s].last_state, st}
      /\ job'[s] = job[s] \/ job'[s].st = st
  BY <1>1, Zenon DEF Outcome
<1>6. Lawful(s)'
  BY <1>2, <1>3, <1>4, <1>5, Zenon DEF Local, Lawful
<1>7. Over(s, mem[s].last_state) => AllOver(s)
  BY <1>1 DEF Local, InHand
<1>8. InHand(s)'
  BY <1>1, <1>2, <1>4, <1>7, Zenon DEF Outcome, InHand, Over
<1>9. Recorded(s)'
  BY <1>1, <1>2, <1>4, <1>5, <1>7, Zenon DEF Local, Recorded, Over
<1>10. pc'[s] \in {"idle", "persist", "claim", "refund"}
  BY <1>1, ZenonT(30) DEF Outcome
<1>11. Begun(s)' /\ Kept(s)'
  BY <1>1, <1>2, <1>10 DEF Local, Begun, Kept, Over
<1>. QED
  BY <1>6, <1>8, <1>9, <1>11 DEF Local

\* The transaction of a claim or a refund is broadcast.
LEMMA BroadcastLocal ==
    ASSUME TypeOK, NEW s \in Swap, Local(s), Broadcast(s)
    PROVE  Local(s)'
<1>1. /\ kind'[s] = kind[s] /\ status'[s] = status[s] /\ data'[s] = data[s]
      /\ returned'[s] = returned[s] /\ unlisted'[s] = unlisted[s] /\ pending' = pending
      /\ queue'[s] = queue[s] /\ pc[s] \in {"claim", "refund"}
  BY DEF Broadcast, store, history
<1>2. pc'[s] = "persist" /\ job'[s].st = job[s].st /\ job'[s].flow = job[s].flow
  BY DEF Broadcast, Goto, TypeOK, Job
<1>3. mem'[s].last_state = job[s].st
  <2>1. CASE pc[s] = "claim"
    BY <2>1 DEF Broadcast, TypeOK, SwapData
  <2>2. CASE pc[s] # "claim"
    BY <2>2, SMTT(20) DEF Broadcast, TypeOK, SwapData
  <2>. QED
    BY <2>1, <2>2
<1>4. Lawful(s)' /\ AllOver(s)' = AllOver(s)
  BY <1>1, <1>2, <1>3, Zenon DEF Local, Lawful, AllOver, Over
<1>5. InHand(s)'
  BY <1>1, <1>2, <1>3, <1>4, Zenon DEF Local, InHand, Over
<1>6. Recorded(s)'
  BY <1>1, <1>2, <1>3, ZenonT(30) DEF Local, InHand, Recorded, Over
<1>7. Begun(s)' /\ Kept(s)'
  BY <1>1, <1>2, Zenon DEF Local, Begun, Kept, Over
<1>. QED
  BY <1>4, <1>5, <1>6, <1>7 DEF Local

\* The data is written to the store.
LEMMA PersistLocal ==
    ASSUME TypeOK, NEW s \in Swap, Local(s), Persist(s)
    PROVE  Local(s)'
<1>1. /\ kind'[s] = kind[s] /\ status'[s] = status[s] /\ data'[s] = mem[s]
      /\ returned'[s] = returned[s] /\ unlisted'[s] = unlisted[s] /\ pending' = pending
      /\ queue'[s] = queue[s] /\ mem'[s] = mem[s] /\ job'[s] = job[s]
      /\ pc[s] \in {"new", "persist"}
  BY DEF Persist, legs, history, TypeOK
<1>2. /\ pc[s] = "new" => pc'[s] = "add"
      /\ pc[s] = "persist" /\ job[s].flow = "break" => pc'[s] = "unpend"
      /\ pc[s] = "persist" /\ job[s].flow # "break" => pc'[s] = "idle"
  <2>. DEFINE next == CASE pc[s] = "new" -> "add"
                        [] pc[s] = "persist" /\ job[s].flow = "break" -> "unpend"
                        [] OTHER -> "idle"
  <2>1. /\ pc[s] = "new" => next = "add"
        /\ pc[s] = "persist" /\ job[s].flow = "break" => next = "unpend"
        /\ pc[s] = "persist" /\ job[s].flow # "break" => next = "idle"
    OBVIOUS
  <2>2. pc'[s] = next
    BY ZenonT(30) DEF Persist, Goto, TypeOK
  <2>. QED
    BY <2>1, <2>2
<1>3. Lawful(s)' /\ AllOver(s)' = AllOver(s)
  BY <1>1 DEF Local, Lawful, AllOver, Over
<1>4. Over(s, mem[s].last_state) => AllOver(s)
  BY <1>1, Zenon DEF Local, InHand
<1>5. InHand(s)'
  BY <1>1, <1>2, <1>3, <1>4, Zenon DEF Local, InHand, Over
<1>6. Recorded(s)'
  BY <1>1, <1>4, Zenon DEF Recorded, AllOver, Over
<1>7. Begun(s)'
  BY <1>1, <1>2, ZenonT(30) DEF Local, Begun
<1>8. Kept(s)'
  BY <1>1, Zenon DEF Local, Kept, Recorded, Over
<1>. QED
  BY <1>3, <1>5, <1>6, <1>7, <1>8 DEF Local

\* A list is written back: the swap itself.
LEMMA WriteListLocal ==
    ASSUME TypeOK, CopyFresh, NEW s \in Swap, Local(s), WriteList(s)
    PROVE  Local(s)'
<1>1. /\ kind'[s] = kind[s] /\ status'[s] = status[s] /\ data'[s] = data[s]
      /\ unlisted'[s] = unlisted[s] /\ queue'[s] = queue[s] /\ mem'[s] = mem[s]
      /\ pc[s] \in {"addw", "unpendw", "completew"}
  BY DEF WriteList, legs
<1>2. pc'[s] \in {"complete", "idle"} /\ (job'[s] = job[s] \/ job'[s] = NoJob)
  BY DEF WriteList, Goto, TypeOK
<1>3. NoJob.st \in Known(kind[s])
  BY Statuses, SMTT(20) DEF NoJob, TypeOK
<1>4. Lawful(s)' /\ AllOver(s)' = AllOver(s)
  BY <1>1, <1>2, <1>3 DEF Local, Lawful, AllOver, Over
<1>5. InHand(s)' /\ Recorded(s)'
  BY <1>1, <1>2, <1>4, Zenon DEF Local, InHand, Recorded, Over
<1>6. Begun(s)'
  BY <1>1, <1>2, ZenonT(30) DEF Local, Begun
<1>7. CASE pc[s] = "addw"
  <2>1. s \in pending'
    BY <1>7 DEF WriteList
  <2>. QED
    BY <2>1, <1>4, <1>5, <1>6 DEF Local, Kept
<1>8. CASE pc[s] # "addw"
  <2>1. returned'[s] = returned[s]
    BY <1>8, ZenonT(30) DEF WriteList, TypeOK
  <2>2. pc[s] = "unpendw" => Over(s, data[s].last_state) \/ unlisted[s]
    BY DEF Local, InHand
  <2>3. pc[s] # "unpendw" => pending' = pending
    BY <1>1, <1>8 DEF WriteList
  <2>4. Kept(s)'
    BY <1>1, <2>1, <2>2, <2>3, ZenonT(30) DEF Local, Kept, Over
  <2>. QED
    BY <2>4, <1>4, <1>5, <1>6 DEF Local
<1>. QED
  BY <1>7, <1>8

\* A new response object is made with data d.
LEMMA RespondLocal ==
    ASSUME TypeOK, NEW s \in Swap, Local(s), NEW d \in SwapData,
           NEW m \in Updates(status[s]), Respond(s, d, m),
           status[s] # "Initialized",
           UNCHANGED <<kind, status, job, data, pending, returned>>,
           \/ d.last_state = data[s].last_state /\ unlisted'[s] = unlisted[s]
           \/ d.last_state = status[s] /\ unlisted'[s] = TRUE
    PROVE  Local(s)'
<1>1. m.st = status[s]
  BY UpdatesTyped DEF TypeOK
<1>2. mem'[s] = d /\ queue'[s] = <<m>> /\ pc[s] = "off"
      /\ pc'[s] = IF is_terminal(d.last_state) THEN "unpend" ELSE "idle"
  BY DEF Respond, Goto, TypeOK
<1>3. Len(<<m>>) = 1 /\ <<m>>[1] = m
  BY ZenonT(30)
<1>4. d.last_state \in Known(kind[s]) /\ (Over(s, d.last_state) => Over(s, status[s]))
  BY Zenon DEF Local, Lawful, Recorded
<1>5. Lawful(s)'
  <2>1. status[s] \in Known(kind[s]) /\ job[s].st \in Known(kind[s])
        /\ data[s].last_state \in Known(kind[s])
    BY ZenonT(30) DEF Local, Lawful
  <2>2. Sorted(kind[s], <<m>>, status[s])
    BY <1>1, <1>3, <2>1, SMTT(20) DEF Sorted
  <2>. QED
    BY <1>2, <1>4, <2>1, <2>2, Zenon DEF Lawful
<1>6. AllOver(s)' <=> Over(s, status[s])
  <2>1. 1 \in 1..1 /\ \A i \in 1..1 : i = 1
    OBVIOUS
  <2>2. \A i \in 1..Len(queue'[s]) : queue'[s][i].st = status[s]
    BY <1>1, <1>2, <1>3, <2>1, Zenon
  <2>. QED
    BY <2>2, ZenonT(30) DEF AllOver, Over
<1>7. is_terminal(d.last_state) => Over(s, d.last_state)
  BY <1>4, Statuses, Zenon DEF Over, TypeOK
<1>8. InHand(s)'
  BY <1>2, <1>4, <1>6, <1>7, Zenon DEF InHand, Over
<1>9. Recorded(s)'
  BY <1>2, Zenon DEF Local, Recorded, Over
<1>10. Begun(s)' /\ Kept(s)'
  BY <1>2, Zenon DEF Local, Begun, Kept, Over
<1>. QED
  BY <1>5, <1>8, <1>9, <1>10 DEF Local

\* The initial state.
LEMMA InitInv == Init => Inv
<1>. SUFFICES ASSUME Init PROVE Inv
  OBVIOUS
<1>1. TypeOK
  BY InitTyped
<1>2. ASSUME NEW s \in Swap PROVE Local(s)
  <2>1. "Initialized" \in Known(kind[s]) /\ "Initialized" \notin Done(kind[s])
    BY <1>1, Statuses DEF TypeOK
  <2>2. NoJob.st = "Initialized" /\ NoData.last_state = "Initialized"
    BY DEF NoJob, NoData, NewData
  <2>3. Lawful(s)
    BY <2>1, <2>2 DEF Init, Lawful, Sorted
  <2>. QED
    BY <2>1, <2>2, <2>3 DEF Init, Local, InHand, Recorded, Begun, Kept, Over
<1>3. Exclusive /\ CopyFresh
  BY ZenonT(30) DEF Init, Exclusive, CopyFresh, InStore
<1>. QED
  BY <1>1, <1>2, <1>3 DEF Inv

\* A step of one swap: what the others have is left alone, so only its own part
\* of the invariant is to be shown.
LEMMA OwnStep ==
    ASSUME \A o \in Swap : Local(o), NEW s \in Swap, Local(s)',
           \A o \in Swap \ {s} : Same(o)
    PROVE  \A o \in Swap : Local(o)'
BY Frame, Zenon DEF Same

\* The handler of one swap, on one thread.
LEMMA HandlerStep ==
    ASSUME ~Parallel, Inv, NEW s \in Swap, Handler(s)
    PROVE  Exclusive' /\ CopyFresh' /\ (\A o \in Swap : Local(o)') /\ \A o \in Swap \ {s} : Same(o)
<1>. TypeOK /\ Exclusive /\ CopyFresh /\ Local(s) /\ \A o \in Swap : Local(o)
  BY DEF Inv
<1>s. Scheduled(s) => \A o \in Swap \ {s} : pc[o] \notin InStore
  BY DEF Scheduled
<1>1. CASE Advance(s)
  <2>1. Typed(s)
    BY <1>1, AdvanceEffect
  <2>2. \A o \in Swap \ {s} : Same(o)
    BY <1>1, <2>1 DEF Advance, Took, Typed, Same, Alike, store, history, TypeOK
  <2>3. Exclusive' /\ CopyFresh'
    <3>1. Outcome(s, Head(queue[s]).st)
      BY <1>1, AdvanceEffect, SMTT(20)
    <3>2. pc'[s] \notin {"addw", "unpendw"}
      BY <3>1, Zenon DEF Outcome
    <3>. QED
      BY <1>1, <1>s, <2>1, <3>2, GlobalKept DEF Advance, Typed, store
  <2>. QED
    BY <1>1, <2>2, <2>3, AdvanceLocal, OwnStep, Zenon
<1>2. CASE Broadcast(s)
  <2>1. \A o \in Swap \ {s} : mem'[o] = mem[o]
    <3>1. CASE pc[s] = "claim"
      BY <1>2, <3>1 DEF Broadcast, TypeOK
    <3>2. CASE pc[s] # "claim"
      BY <1>2, <3>2 DEF Broadcast, TypeOK
    <3>. QED
      BY <3>1, <3>2
  <2>2. \A o \in Swap \ {s} : Same(o)
    BY <1>2, <2>1 DEF Broadcast, Same, Alike, Goto, store, history, TypeOK
  <2>3. Exclusive' /\ CopyFresh'
    BY <1>2, <1>s, GlobalKept DEF Broadcast, Goto, store, TypeOK
  <2>. QED
    BY <1>2, <2>2, <2>3, BroadcastLocal, OwnStep, SMTT(20)
<1>3. CASE BroadcastFails(s)
  <2>1. \A o \in Swap \ {s} : Same(o)
    BY <1>3 DEF BroadcastFails, Same, Alike, Goto, legs, store, history, TypeOK
  <2>2. Exclusive' /\ CopyFresh'
    BY <1>3, GlobalKept DEF BroadcastFails, Goto, store, TypeOK, InStore
  <2>3. /\ kind'[s] = kind[s] /\ status'[s] = status[s] /\ data'[s] = data[s]
        /\ returned'[s] = returned[s] /\ unlisted'[s] = unlisted[s] /\ pending' = pending
        /\ queue'[s] = queue[s] /\ job'[s] = NoJob
        /\ pc[s] \in {"claim", "refund"} /\ pc'[s] = "idle"
    BY <1>3 DEF BroadcastFails, Goto, legs, store, history, TypeOK
  <2>4. NoJob.st \in Known(kind[s])
    BY Statuses DEF NoJob, TypeOK
  <2>5. mem'[s].last_state \in {mem[s].last_state, job[s].st}
    <3>1. mem[s] \in SwapData /\ Noted(mem[s], job[s].st).last_state = job[s].st
      BY DEF TypeOK, Noted, SwapData
    <3>. QED
      BY <1>3, <3>1 DEF BroadcastFails, TypeOK
  <2>6. Lawful(s)' /\ AllOver(s)' = AllOver(s)
    BY <2>3, <2>4, <2>5, Zenon DEF Local, Lawful, AllOver, Over
  <2>7. InHand(s)' /\ Recorded(s)'
    BY <2>3, <2>5, <2>6, Zenon DEF Local, InHand, Recorded, Over
  <2>8. Begun(s)' /\ Kept(s)'
    BY <2>3, Zenon DEF Local, Begun, Kept, Over
  <2>9. Local(s)'
    BY <2>6, <2>7, <2>8 DEF Local
  <2>. QED
    BY <2>1, <2>2, <2>9, OwnStep
<1>4. CASE Persist(s)
  <2>1. \A o \in Swap \ {s} : Same(o)
    BY <1>4 DEF Persist, Same, Alike, Goto, legs, history, TypeOK
  <2>2. Scheduled(s) /\ pending' = pending /\ copy' = copy
        /\ pc'[s] \notin {"addw", "unpendw"}
    <3>1. pc'[s] \in {"add", "unpend", "idle"}
      BY <1>4, ZenonT(30) DEF Persist, Goto, TypeOK
    <3>. QED
      BY <1>4, <3>1 DEF Persist
  <2>3. Exclusive' /\ CopyFresh'
    BY <1>s, <2>1, <2>2, GlobalKept DEF Same, Alike
  <2>. QED
    BY <1>4, <2>1, <2>3, PersistLocal, OwnStep
<1>5. CASE ReadList(s)
  <2>1. \A o \in Swap \ {s} : Same(o)
    BY <1>5 DEF ReadList, Same, Alike, Goto, legs, store, history, TypeOK
  <2>2. /\ pc[s] = "add" => pc'[s] = "addw"
        /\ pc[s] = "unpend" => pc'[s] = "unpendw"
        /\ pc[s] = "complete" => pc'[s] = "completew"
    <3>1. CASE pc[s] = "add"
      BY <1>5, <3>1 DEF ReadList, Goto, TypeOK
    <3>2. CASE pc[s] = "unpend"
      BY <1>5, <3>2 DEF ReadList, Goto, TypeOK
    <3>3. CASE pc[s] = "complete"
      BY <1>5, <3>3 DEF ReadList, Goto, TypeOK
    <3>. QED
      BY <3>1, <3>2, <3>3
  <2>3. /\ pc[s] \in {"add", "unpend", "complete"} /\ Scheduled(s) /\ pending' = pending
        /\ copy'[s] = IF pc[s] = "complete" THEN completed ELSE pending
        /\ \A o \in Swap \ {s} : copy'[o] = copy[o]
    BY <1>5 DEF ReadList, store, TypeOK
  <2>4. Exclusive' /\ CopyFresh'
    BY <1>s, <2>1, <2>2, <2>3, GlobalKept, Zenon DEF Same, Alike
  <2>5. /\ kind'[s] = kind[s] /\ status'[s] = status[s] /\ data'[s] = data[s]
        /\ returned'[s] = returned[s] /\ unlisted'[s] = unlisted[s]
        /\ queue'[s] = queue[s] /\ mem'[s] = mem[s] /\ job'[s] = job[s]
    BY <1>5 DEF ReadList, legs, store, history
  <2>6. Lawful(s)' /\ AllOver(s)' = AllOver(s)
    BY <2>5, Zenon DEF Local, Lawful, AllOver, Over
  <2>7. Local(s)'
    BY <2>2, <2>3, <2>5, <2>6, Zenon DEF Local, InHand, Recorded, Begun, Kept, Over
  <2>. QED
    BY <2>1, <2>4, <2>7, OwnStep
<1>6. CASE WriteList(s)
  <2>1. \A o \in Swap \ {s} : pc[o] \notin InStore
    BY <1>6, <1>s DEF WriteList
  <2>2. pc[s] \in {"addw", "unpendw"} => copy[s] = pending
    BY DEF CopyFresh
  <2>3. \A o \in Swap \ {s} : o \in pending' <=> o \in pending
    <3>1. CASE pc[s] = "addw"
      BY <1>6, <2>2, <3>1 DEF WriteList
    <3>2. CASE pc[s] = "unpendw"
      BY <1>6, <2>2, <3>2 DEF WriteList
    <3>3. CASE pc[s] = "completew"
      BY <1>6, <3>3 DEF WriteList
    <3>. QED
      BY <1>6, <3>1, <3>2, <3>3 DEF WriteList
  <2>4. \A o \in Swap \ {s} : Same(o)
    BY <1>6, <2>3 DEF WriteList, Same, Alike, Goto, legs, TypeOK
  <2>5. pc'[s] \in {"complete", "idle"}
    BY <1>6 DEF WriteList, Goto, TypeOK
  <2>6. \A o \in Swap : pc'[o] \notin {"addw", "unpendw"}
    BY <2>1, <2>4, <2>5 DEF Same, Alike, InStore, PC
  <2>7. Exclusive' /\ CopyFresh'
    BY <2>1, <2>4, <2>6, ZenonT(30) DEF Exclusive, CopyFresh, Same, Alike
  <2>. QED
    BY <1>6, <2>4, <2>7, WriteListLocal, OwnStep
<1>7. CASE Timeout(s)
  <2>1. \A o \in Swap \ {s} : Same(o)
    BY <1>7 DEF Timeout, Same, Alike, Goto, legs, store, history, TypeOK
  <2>2. /\ kind'[s] = kind[s] /\ status'[s] = status[s] /\ data'[s] = data[s]
        /\ returned'[s] = returned[s] /\ unlisted'[s] = unlisted[s] /\ pending' = pending
        /\ queue'[s] = queue[s] /\ mem'[s] = NoData /\ job'[s] = job[s]
        /\ pc'[s] = "off" /\ copy' = copy
    BY <1>7 DEF Timeout, Goto, legs, store, history, TypeOK
  <2>3. Exclusive' /\ CopyFresh'
    BY <2>1, <2>2, GlobalKept, Zenon DEF Same, Alike, InStore
  <2>4. NoData.last_state \in Known(kind[s])
    BY Statuses DEF NoData, NewData, TypeOK
  <2>5. Local(s)'
    BY <2>2, <2>4, Zenon DEF Local, Lawful, InHand, Recorded, Begun, Kept, Over
  <2>. QED
    BY <2>1, <2>3, <2>5, OwnStep
<1>8. ASSUME NEW m \in Updates(status[s]), Restore(s, m)
      PROVE  Exclusive' /\ CopyFresh' /\ (\A o \in Swap : Local(o)') /\ \A o \in Swap \ {s} : Same(o)
  <2>1. PICK d \in SwapData : Respond(s, d, m) /\ d.last_state = data[s].last_state
    BY <1>8, LearnTyped, Zenon DEF Restore, restore_prepare_pay, restore_invoice, restore_lockup,
             TypeOK
  <2>2. UNCHANGED <<kind, legs, job, data, pending, copy, returned, unlisted>>
        /\ status[s] # "Initialized"
    BY <1>8 DEF Restore, legs, store, history, Local, Begun
  <2>3. Local(s)'
    BY <2>1, <2>2, RespondLocal, Zenon DEF legs
  <2>4. \A o \in Swap \ {s} : Same(o)
    BY <2>1, <2>2 DEF Respond, Same, Alike, Goto, legs, TypeOK
  <2>5. Scheduled(s) /\ pc'[s] \notin {"addw", "unpendw"}
    BY <2>1 DEF Respond, Goto, TypeOK
  <2>6. Exclusive' /\ CopyFresh'
    BY <1>s, <2>2, <2>4, <2>5, GlobalKept, Zenon DEF Same, Alike
  <2>. QED
    BY <2>3, <2>4, <2>6, OwnStep
<1>. QED
  BY <1>1, <1>2, <1>3, <1>4, <1>5, <1>6, <1>7, <1>8 DEF Handler

\* Boltz, the payer, the session and the application.
LEMMA EnvironmentStep ==
    ASSUME ~Parallel, Inv, NEW s \in Swap, Environment(s)
    PROVE  Exclusive' /\ CopyFresh' /\ (\A o \in Swap : Local(o)') /\ \A o \in Swap \ {s} : Same(o)
<1>. TypeOK /\ Exclusive /\ CopyFresh /\ Local(s) /\ \A o \in Swap : Local(o)
  BY DEF Inv
<1>s. Scheduled(s) => \A o \in Swap \ {s} : pc[o] \notin InStore
  BY DEF Scheduled
<1>u. ASSUME NEW to \in SwapState, NEW m \in Updates(to),
             to \in Known(kind[s]), to # "Initialized" \/ to = status[s],
             status[s] \in Done(kind[s]) => to \in Done(kind[s]),
             UNCHANGED <<kind, pc, job, mem, store, copy, history>>,
             \A o \in Swap \ {s} : user'[o] = user[o] /\ boltz'[o] = boltz[o]
                                    /\ preimage'[o] = preimage[o],
             status' = [status EXCEPT ![s] = to],
             queue' = [queue EXCEPT ![s] = Delivered(s, m)]
      PROVE  Exclusive' /\ CopyFresh' /\ (\A o \in Swap : Local(o)') /\ \A o \in Swap \ {s} : Same(o)
  <2>1. \A o \in Swap \ {s} : Same(o)
    BY <1>u, Zenon DEF Same, Alike, store, history, TypeOK
  <2>2. Exclusive' /\ CopyFresh'
    BY <1>u, GlobalSame, Zenon DEF store
  <2>3. status'[s] = to /\ queue'[s] = Delivered(s, m)
    BY <1>u, Zenon DEF TypeOK
  <2>4. /\ Sorted(kind[s], Delivered(s, m), to)
        /\ AllOver(s) => \A i \in 1 .. Len(Delivered(s, m)) : Over(s, Delivered(s, m)[i].st)
    BY <1>u, DeliveredSorted, Zenon DEF Local, Lawful
  <2>5. Lawful(s)' /\ (AllOver(s) => AllOver(s)')
    BY <1>u, <2>3, <2>4, Zenon DEF Local, Lawful, AllOver, Over, store
  <2>6. InHand(s)' /\ Recorded(s)'
    BY <1>u, <2>3, <2>5, Zenon DEF Local, InHand, Recorded, Over, store, history
  <2>7. Begun(s)' /\ Kept(s)'
    BY <1>u, <2>3, Zenon DEF Local, Begun, Kept, Over, store, history
  <2>8. Local(s)'
    BY <2>5, <2>6, <2>7 DEF Local
  <2>. QED
    BY <2>1, <2>2, <2>8, OwnStep
<1>1. ASSUME NEW to \in SwapState, NEW m \in Updates(to), ServerStep(s, to, m)
      PROVE  Exclusive' /\ CopyFresh' /\ (\A o \in Swap : Local(o)') /\ \A o \in Swap \ {s} : Same(o)
  <2>1. <<status[s], to>> \in Lifecycle(kind[s])
    BY <1>1, Zenon DEF ServerStep, MayFollow
  <2>2. /\ to \in Known(kind[s]) /\ to # "Initialized"
        /\ status[s] \in Done(kind[s]) => to \in Done(kind[s])
    BY <2>1, Statuses, Zenon DEF TypeOK
  <2>3. \A o \in Swap \ {s} : user'[o] = user[o] /\ boltz'[o] = boltz[o]
                               /\ preimage'[o] = preimage[o]
    BY <1>1 DEF ServerStep, TypeOK
  <2>. QED
    BY <1>1, <1>u, <2>2, <2>3, Zenon DEF ServerStep
<1>2. ASSUME NEW m \in Updates(status[s]), Reconnect(s, m)
      PROVE  Exclusive' /\ CopyFresh' /\ (\A o \in Swap : Local(o)') /\ \A o \in Swap \ {s} : Same(o)
  <2>1. status' = [status EXCEPT ![s] = status[s]]
    BY <1>2 DEF Reconnect, legs, TypeOK
  <2>2. status[s] \in SwapState /\ status[s] \in Known(kind[s])
    BY Zenon DEF TypeOK, Local, Lawful
  <2>. QED
    BY <1>2, <1>u, <2>1, <2>2, Zenon DEF Reconnect, legs
<1>3. CASE Pay(s) \/ Lockup(s)
  <2>1. (\A o \in Swap : Alike(o)) /\ \A o \in Swap \ {s} : Same(o)
    BY <1>3 DEF Pay, Lockup, Same, Alike, store, history, TypeOK
  <2>2. Exclusive' /\ CopyFresh'
    BY <1>3, GlobalSame, Zenon DEF Pay, Lockup, store
  <2>. QED
    BY <2>1, <2>2, Frame, SMTT(20)
<1>4. CASE Create(s)
  <2>1. \A o \in Swap \ {s} : Same(o)
    BY <1>4 DEF Create, Same, Alike, Goto, store, history, TypeOK
  <2>2. /\ kind'[s] = kind[s] /\ data'[s] = data[s] /\ queue'[s] = queue[s]
        /\ returned'[s] = returned[s] /\ unlisted'[s] = unlisted[s] /\ pending' = pending
        /\ job'[s] = job[s] /\ pc'[s] = "new" /\ copy' = copy
        /\ status[s] = "Initialized" /\ status'[s] = First(kind[s]) /\ Scheduled(s)
    BY <1>4 DEF Create, Goto, store, history, TypeOK
  <2>3. mem'[s].last_state = First(kind[s])
    BY <1>4, SMTT(20) DEF Create, PreparePayData, InvoiceData, ChainSwapData, NewData, First, TypeOK
  <2>4. /\ "Initialized" \notin Done(kind[s])
        /\ First(kind[s]) \in Known(kind[s]) /\ First(kind[s]) \notin Done(kind[s])
        /\ First(kind[s]) # "Initialized"
    BY Statuses DEF TypeOK
  <2>5. Exclusive' /\ CopyFresh'
    BY <1>s, <2>1, <2>2, GlobalKept, Zenon DEF Same, Alike
  <2>6. Lawful(s)'
    BY <2>2, <2>3, <2>4, Zenon DEF Local, Lawful, Sorted
  <2>7. InHand(s)' /\ Recorded(s)'
    BY <2>2, <2>3, <2>4, Zenon DEF Local, InHand, Recorded, Over
  <2>8. Begun(s)' /\ Kept(s)'
    BY <2>2, <2>4, Zenon DEF Local, Begun, Kept, Over
  <2>9. Local(s)'
    BY <2>6, <2>7, <2>8 DEF Local
  <2>. QED
    BY <2>1, <2>5, <2>9, OwnStep
<1>5. CASE SetLockupTxid(s)
  <2>1. \A o \in Swap \ {s} : Same(o)
    BY <1>5 DEF SetLockupTxid, Same, Alike, legs, history, TypeOK
  <2>2. Exclusive' /\ CopyFresh'
    BY <1>5, GlobalSame DEF SetLockupTxid
  <2>3. /\ kind'[s] = kind[s] /\ status'[s] = status[s] /\ queue'[s] = queue[s]
        /\ returned'[s] = returned[s] /\ unlisted'[s] = unlisted[s] /\ pending' = pending
        /\ job'[s] = job[s] /\ pc[s] = "idle" /\ pc'[s] = pc[s]
    BY <1>5 DEF SetLockupTxid, legs, history
  <2>4. /\ mem'[s].last_state = mem[s].last_state
        /\ data'[s].last_state = mem[s].last_state
    BY <1>5 DEF SetLockupTxid, TypeOK, SwapData
  <2>5. Lawful(s)' /\ AllOver(s)' = AllOver(s)
    BY <2>3, <2>4, Zenon DEF Local, Lawful, AllOver, Over
  <2>6. Over(s, mem[s].last_state) => AllOver(s)
    BY <2>3, Zenon DEF Local, InHand
  <2>7. InHand(s)' /\ Recorded(s)'
    BY <2>3, <2>4, <2>5, <2>6, Zenon DEF InHand, Recorded, AllOver, Over
  <2>8. Begun(s)' /\ Kept(s)'
    BY <2>3, <2>4, Zenon DEF Local, Begun, Kept, Recorded, Over
  <2>9. Local(s)'
    BY <2>5, <2>7, <2>8 DEF Local
  <2>. QED
    BY <2>1, <2>2, <2>9, OwnStep
<1>6. ASSUME NEW m \in Updates(status[s]), RestoreFromServer(s, m)
      PROVE  Exclusive' /\ CopyFresh' /\ (\A o \in Swap : Local(o)') /\ \A o \in Swap \ {s} : Same(o)
  <2>1. PICK d \in SwapData : Respond(s, d, m) /\ d.last_state = status[s]
    BY <1>6, FromServerTyped, Zenon DEF RestoreFromServer
  <2>2. /\ UNCHANGED <<kind, legs, job, data, pending, copy, returned>>
        /\ unlisted'[s] = TRUE /\ status[s] # "Initialized"
        /\ \A o \in Swap \ {s} : unlisted'[o] = unlisted[o]
    BY <1>6, RestoreAssumption DEF RestoreFromServer, legs, store, TypeOK
  <2>3. Local(s)'
    BY <2>1, <2>2, RespondLocal, Zenon DEF legs
  <2>4. \A o \in Swap \ {s} : Same(o)
    BY <2>1, <2>2 DEF Respond, Same, Alike, Goto, legs, TypeOK
  <2>5. Scheduled(s) /\ pc'[s] \notin {"addw", "unpendw"}
    BY <2>1 DEF Respond, Goto, TypeOK
  <2>6. Exclusive' /\ CopyFresh'
    BY <1>s, <2>2, <2>4, <2>5, GlobalKept, ZenonT(30) DEF Same, Alike
  <2>. QED
    BY <2>3, <2>4, <2>6, OwnStep
<1>. QED
  BY <1>1, <1>2, <1>3, <1>4, <1>5, <1>6, SMTT(20) DEF Environment

\* No update is left to come in an empty queue.
LEMMA SortedNone == ASSUME NEW k, NEW z PROVE Sorted(k, <<>>, z)
  BY DEF Sorted

\* Every step of a session on one thread keeps the invariant.
LEMMA InvStep ==
    ASSUME ~Parallel
    PROVE  Inv /\ [Next]_vars => Inv'
<1>. SUFFICES ASSUME Inv, [Next]_vars PROVE Inv'
  OBVIOUS
<1>. TypeOK /\ Exclusive /\ CopyFresh /\ \A o \in Swap : Local(o)
  BY DEF Inv
<1>0. TypeOK'
  BY TypeStep
<1>1. CASE Crash
  <2>1. Exclusive' /\ CopyFresh'
    BY <1>1 DEF Crash, Exclusive, CopyFresh, InStore
  <2>2. ASSUME NEW s \in Swap PROVE Local(s)'
    <3>1. "Initialized" \in Known(kind[s])
      BY Statuses DEF TypeOK
    <3>2. NoJob.st = "Initialized" /\ NoData.last_state = "Initialized"
      BY DEF NoJob, NoData, NewData
    <3>3. /\ kind'[s] = kind[s] /\ status'[s] = status[s] /\ queue'[s] = <<>>
          /\ data'[s] = data[s] /\ pending' = pending
          /\ returned'[s] = returned[s] /\ unlisted'[s] = unlisted[s]
          /\ job'[s] = NoJob /\ mem'[s] = NoData /\ pc'[s] = "off"
      BY <1>1 DEF Crash, legs, store
    <3>4. Lawful(s)'
      <4>1. status[s] \in Known(kind[s]) /\ data[s].last_state \in Known(kind[s])
        BY Zenon DEF Local, Lawful
      <4>2. Sorted(kind[s], <<>>, status[s])
        BY SortedNone, SMTT(20)
      <4>3. Sorted(kind[s], queue[s], status[s])'
        BY ONLY <4>2, <3>3, Zenon DEF Sorted
      <4>. QED
        BY <3>1, <3>2, <3>3, <4>1, <4>3, Zenon DEF Lawful
    <3>. QED
      BY <3>3, <3>4, Zenon DEF Local, InHand, Recorded, Begun, Kept, Over
  <2>. QED
    BY <1>0, <2>1, <2>2 DEF Inv
<1>2. CASE LoseStore
  <2>1. Exclusive' /\ CopyFresh'
    BY <1>2 DEF LoseStore, Exclusive, CopyFresh, InStore
  <2>2. ASSUME NEW s \in Swap PROVE Local(s)'
    <3>1. "Initialized" \in Known(kind[s]) /\ "Initialized" \notin Done(kind[s])
      BY Statuses DEF TypeOK
    <3>2. NoData.last_state = "Initialized"
      BY DEF NoData, NewData
    <3>3. /\ kind'[s] = kind[s] /\ status'[s] = status[s] /\ queue'[s] = queue[s]
          /\ data'[s] = NoData /\ pending' = {} /\ returned'[s] = returned[s]
          /\ unlisted'[s] = (status[s] # "Initialized")
          /\ job'[s] = job[s] /\ mem'[s] = mem[s] /\ pc'[s] = "off"
      BY <1>2 DEF LoseStore, legs
    <3>4. Lawful(s)'
      BY <3>1, <3>2, <3>3, Zenon DEF Local, Lawful
    <3>. QED
      BY <3>1, <3>2, <3>3, <3>4, Zenon DEF Local, InHand, Recorded, Begun, Kept, Over
  <2>. QED
    BY <1>0, <2>1, <2>2 DEF Inv
<1>3. ASSUME NEW s \in Swap, Handler(s) \/ Environment(s) PROVE Inv'
  BY <1>0, <1>3, HandlerStep, EnvironmentStep DEF Inv
<1>4. CASE UNCHANGED vars
  <2>1. \A o \in Swap : Alike(o)
    BY <1>4 DEF vars, Alike
  <2>2. Exclusive' /\ CopyFresh'
    BY <1>4, GlobalSame DEF vars
  <2>. QED
    BY <1>0, <2>1, <2>2, Frame, SMTT(20) DEF Inv
<1>. QED
  BY <1>1, <1>2, <1>3, <1>4 DEF Next

\* When the handlers of a session run on one thread, the pending list of the
\* store names every swap whose creation has returned and whose end has not been
\* persisted: no handler writes an old list over another's, and no late or
\* repeated update takes back an end that was persisted.
THEOREM PendingListComplete ==
    ASSUME ~Parallel
    PROVE  Spec => []PendingKept
<1>1. Inv => PendingKept
  BY DEF Inv, Local, Kept, PendingKept, Over, Done
<1>2. Inv /\ [Next]_vars => Inv'
  BY InvStep
<1>. QED
  BY <1>1, <1>2, InitInv, PTL DEF Spec

=============================================================================
