-------------------------- MODULE BoltzPromise_proof --------------------------
(***************************************************************************)
(* Proofs about BoltzSwap: that it implements SwapPromise but for two      *)
(* sorts of swaps, that a swap Boltz has been paid for stays in the        *)
(* pending list, and that the txid of a lockup is not forgotten.  The      *)
(* invariant adds to that of BoltzSwap_proof where the money is at each    *)
(* status, and what the client may conclude from a status it has heard.    *)
(***************************************************************************)
EXTENDS BoltzSwap_proof

\* The statuses at which the user is refunded, and those at which the user may
\* still have to claim or to be refunded.
Failed == {"InvoiceFailedToPay", "TransactionLockupFailed", "TransactionFailed",
           "TransactionRefunded"}
Unresolved == Failed \cup {"TransactionClaimed"}

\* The claim of a reverse swap tells Boltz the preimage before it is broadcast.
Revealing(s) == kind[s] = "reverse" /\ "reverse" \in RevealsTo

\* The swap may have been restored from Boltz's list when the user still had to
\* claim or to be refunded.
Belated(s) == unlisted[s] /\ RestoreAt \cap Unresolved # {}

Plain(s) == ~Revealing(s) /\ ~Belated(s)

\* Where the two sides of a swap are at Boltz's status.
Phase(s) ==
    /\ kind[s] = "none" => status[s] = "Initialized"
    /\ status[s] = "Initialized" => user[s] = "none"
    /\ user[s] = "none" =>
          /\ boltz[s] = "none"
          /\ status[s] \in {"Initialized", "InvoiceSet", "SwapCreated", "SwapExpired",
                            "TransactionDirect", "InvoiceExpired"}
    /\ status[s] \in {"TransactionDirect", "InvoiceExpired"} => user[s] = "none"
    /\ status[s] = "SwapExpired" => boltz[s] = "none" /\ user[s] \in {"none", "locked"}
    /\ user[s] = "claimed" => status[s] \in {"TransactionClaimed", "InvoiceSettled"}
    /\ user[s] = "refunded" =>
          status[s] \in Failed /\ boltz[s] \in {"none", "refunded"}

\* What Boltz's side tells, by kind of swap.
Side(s) ==
    /\ kind[s] = "submarine" =>
          /\ boltz[s] \in {"none", "claimed"}
          /\ boltz[s] = "claimed" <=>
                status[s] \in {"InvoicePaid", "TransactionClaimPending", "TransactionClaimed"}
    /\ kind[s] = "reverse" =>
          /\ ~Revealing(s) /\ preimage[s] => boltz[s] = "claimed"
          /\ ~Revealing(s) /\ status[s] = "InvoiceSettled" => boltz[s] = "claimed"
          /\ boltz[s] \in {"locked", "claimed"} =>
                status[s] \in {"TransactionMempool", "TransactionConfirmed", "InvoiceSettled"}
    /\ kind[s] = "chain" /\ boltz[s] \in {"locked", "claimed"} =>
          status[s] \in {"ServerTransactionMempool", "ServerTransactionConfirmed",
                         "TransactionClaimed"}

\* A status that ends the swap is Boltz's last.
Heard(s, st) ==
    /\ st \in Ending(kind[s]) => status[s] = st
    /\ st = "TransactionClaimPending" =>
          status[s] \in {"TransactionClaimPending", "TransactionClaimed"}

\* Nothing is left for the user to do in a swap that has ended with st.
Settled(s, st) ==
    Plain(s) /\ Over(s, st) /\ st # "SwapExpired" => Money(s) \in {"mine", "received", "back"}

HeardAll(s) ==
    /\ Heard(s, mem[s].last_state) /\ Heard(s, data[s].last_state) /\ Heard(s, job[s].st)
    /\ \A i \in 1 .. Len(queue[s]) : Heard(s, queue[s][i].st)

SettledAll(s) ==
    /\ Settled(s, mem[s].last_state) /\ Settled(s, data[s].last_state)
    /\ mem[s].claim_txid \/ data[s].claim_txid => boltz[s] = "claimed"

\* The transaction in hand.
Tasked(s) ==
    /\ pc[s] = "refund" =>
          kind[s] # "reverse" /\ job[s].st \in Ending(kind[s]) \cap Failed
    /\ pc[s] = "claim" =>
          kind[s] # "submarine" /\ (kind[s] = "reverse" => ~Over(s, job[s].st))

\* Who may know of the swap.
Listing(s) ==
    /\ unlisted[s] => s \notin pending
    /\ s \in pending => returned[s]
    /\ user[s] # "none" \/ pc[s] \notin {"off", "new", "add", "addw"} => returned[s] \/ unlisted[s]
    /\ pc[s] \in {"new", "add", "addw"} => mem[s].last_state = First(kind[s])

\* The txid of the lockup in the store and in memory.
LockupKnown(s) ==
    /\ data[s].lockup_txid => status[s] # "Initialized"
    /\ data[s].lockup_txid /\ pc[s] # "off" /\ ~unlisted[s] =>
          \/ mem[s].lockup_txid
          \/ kind[s] = "chain" /\ pc[s] = "persist" /\ mem[s].last_state = "TransactionMempool"

Deal(s) ==
    Phase(s) /\ Side(s) /\ HeardAll(s) /\ SettledAll(s) /\ Tasked(s) /\ Listing(s) /\ LockupKnown(s)

-----------------------------------------------------------------------------
(* What one call of advance() does to the money's records, from the code    *)
(* alone.                                                                   *)

\* What the code has checked before it takes status st for the end of the swap.
Checked(s, st) ==
    Over(s, st) /\ st # "SwapExpired" =>
        \/ kind[s] = "submarine" /\ st \in {"TransactionClaimPending", "TransactionClaimed"}
        \/ kind[s] = "submarine" /\ st = "InvoiceFailedToPay" /\ user[s] # "locked"
        \/ kind[s] = "reverse"
        \/ mem[s].claim_txid

\* Data that says the same of the status and the claim, and of the lockup no less.
Carries(s, d) ==
    /\ d \in SwapData
    /\ d.last_state = mem[s].last_state /\ d.claim_txid = mem[s].claim_txid
    /\ mem[s].lockup_txid => d.lockup_txid

\* A mempool update of a chain swap may take the txid of the lockup away.
KeepsTxid(s) ==
    mem[s].lockup_txid =>
        \/ mem'[s].lockup_txid
        \/ kind[s] = "chain" /\ pc'[s] = "persist" /\ mem'[s].last_state = "TransactionMempool"

After(s, st) ==
    /\ mem'[s].claim_txid = mem[s].claim_txid /\ KeepsTxid(s)
    /\ \/ mem'[s].last_state = mem[s].last_state /\ pc'[s] = "idle" /\ job'[s] = job[s]
       \/ /\ mem'[s].last_state = st /\ Checked(s, st)
          /\ pc'[s] \in {"idle", "persist"} /\ job'[s].st \in {job[s].st, st}
       \/ /\ mem'[s].last_state = mem[s].last_state /\ job'[s].st = st
          /\ \/ /\ pc'[s] = "refund" /\ kind[s] # "reverse"
                /\ st \in Ending(kind[s]) \cap Failed
             \/ /\ pc'[s] = "claim" /\ kind[s] # "submarine"
                /\ kind[s] = "reverse" => ~Over(s, st)

\* What advance() starts from, and what it learns on the way.
LEMMA Carrying ==
    ASSUME TypeOK, NEW s \in Swap
    PROVE  /\ Carries(s, mem[s])
           /\ \A tx \in BOOLEAN : Carries(s, Learn(mem[s], tx))
           /\ \A d \in Fetched(mem[s]) : Carries(s, d)
<1>. DEFINE m == mem[s]
<1>1. m \in SwapData
  BY DEF TypeOK
<1>2. ASSUME NEW tx \in BOOLEAN
      PROVE  Carries(s, Learn(m, tx))
  <2>1. (m.lockup_txid \/ tx) \in BOOLEAN
    OBVIOUS
  <2>. DEFINE b == m.lockup_txid \/ tx
              e == [m EXCEPT !.lockup_txid = b]
  <2>2. m.lockup_txid => b
    OBVIOUS
  <2>. HIDE DEF b
  <2>3. /\ e \in SwapData /\ e.last_state = m.last_state /\ e.claim_txid = m.claim_txid
        /\ e.lockup_txid = b
    BY <1>1, <2>1 DEF SwapData, b
  <2>4. Learn(m, tx) = e
    BY DEF Learn, b
  <2>. QED
    BY <2>2, <2>3, <2>4 DEF Carries
<1>. QED
  BY <1>1, <1>2 DEF Fetched, Carries

\* Ends
LEMMA EndsAfter ==
    ASSUME TypeOK, NEW s \in Swap, NEW d, Carries(s, d), NEW st \in SwapState, NEW flow,
           Ends(s, d, st, flow), Checked(s, st)
    PROVE  After(s, st) /\ preimage' = preimage
<1>. DEFINE e == [d EXCEPT !.last_state = st]
<1>1. e.last_state = st /\ e.claim_txid = d.claim_txid /\ e.lockup_txid = d.lockup_txid
  BY DEF Carries, SwapData
<1>2. mem'[s] = e /\ pc'[s] = "persist" /\ job'[s].st = st /\ preimage' = preimage
  BY DEF Ends, Goto, TypeOK
<1>. HIDE DEF e
<1>. QED
  BY <1>1, <1>2 DEF After, KeepsTxid, Carries

\* Fails and CannotConstruct: nothing of the update is kept.
LEMMA DropsAfter ==
    ASSUME TypeOK, NEW s \in Swap, pc[s] = "idle", NEW d, Carries(s, d), NEW st, NEW what,
           Fails(s, d) \/ CannotConstruct(s, d, what)
    PROVE  After(s, st) /\ preimage' = preimage
<1>1. mem'[s] = d /\ pc' = pc /\ job' = job /\ preimage' = preimage
  BY DEF Fails, CannotConstruct, TypeOK
<1>. QED
  BY <1>1 DEF After, KeepsTxid, Carries

\* The same, with the status noted.
LEMMA NotesAfter ==
    ASSUME TypeOK, NEW s \in Swap, pc[s] = "idle", NEW d, Carries(s, d),
           NEW st \in SwapState, NEW what, Checked(s, st),
           Fails(s, Noted(d, st)) \/ CannotConstruct(s, Noted(d, st), what)
    PROVE  After(s, st) /\ preimage' = preimage
<1>. DEFINE e == Noted(d, st)
<1>1. e.last_state = st /\ e.claim_txid = d.claim_txid /\ e.lockup_txid = d.lockup_txid
  BY DEF Carries, SwapData, Noted
<1>2. mem'[s] = e /\ pc' = pc /\ job' = job /\ preimage' = preimage
  BY DEF Fails, CannotConstruct, TypeOK
<1>. HIDE DEF e
<1>. QED
  BY <1>1, <1>2 DEF After, KeepsTxid, Carries

\* Unexpected
LEMMA UnexpectedAfter ==
    ASSUME TypeOK, NEW s \in Swap, pc[s] = "idle", NEW st \in SwapState, Checked(s, st),
           Unexpected(s, st)
    PROVE  After(s, st) /\ preimage' = preimage
<1>. DEFINE e == [mem[s] EXCEPT !.last_state = st]
<1>1. e.last_state = st /\ e.claim_txid = mem[s].claim_txid /\ e.lockup_txid = mem[s].lockup_txid
  BY DEF TypeOK, SwapData
<1>2. mem'[s] = e /\ pc' = pc /\ job' = job /\ preimage' = preimage
  BY DEF Unexpected, TypeOK
<1>. HIDE DEF e
<1>. QED
  BY <1>1, <1>2 DEF After, KeepsTxid

\* Construct: the status waits in the job.
LEMMA ConstructAfter ==
    ASSUME TypeOK, NEW s \in Swap, NEW d, Carries(s, d), NEW st, NEW what, NEW flow,
           NEW reveals, Construct(s, d, st, what, flow, reveals),
           \/ what = "refund" /\ kind[s] # "reverse" /\ st \in Ending(kind[s]) \cap Failed
           \/ what = "claim" /\ kind[s] # "submarine" /\ (kind[s] = "reverse" => ~Over(s, st))
    PROVE  After(s, st) /\ (~reveals => preimage'[s] = preimage[s])
<1>1. /\ mem'[s] = d /\ job'[s].st = st /\ pc'[s] = what
      /\ preimage' = [preimage EXCEPT ![s] = @ \/ reveals]
  BY DEF Construct, Goto, TypeOK
<1>2. preimage'[s] = (preimage[s] \/ reveals) /\ preimage[s] \in BOOLEAN
  BY <1>1 DEF TypeOK
<1>3. ~reveals => preimage'[s] = preimage[s]
  BY <1>2
<1>. QED
  BY <1>1, <1>3 DEF After, KeepsTxid, Carries

\* Refunds
LEMMA RefundsAfter ==
    ASSUME TypeOK, NEW s \in Swap, pc[s] = "idle", NEW st, kind[s] # "reverse",
           st \in Ending(kind[s]) \cap Failed, Refunds(s, st)
    PROVE  After(s, st)
BY Carrying, ConstructAfter, DropsAfter, Zenon DEF Refunds

\* AdvanceSubmarine
LEMMA SubmarineAfter ==
    ASSUME TypeOK, NEW s \in Swap, pc[s] = "idle", kind[s] = "submarine",
           NEW st \in SwapState, NEW tx \in BOOLEAN, AdvanceSubmarine(s, st, tx)
    PROVE  After(s, st)
<1>a. ASSUME NEW d, Carries(s, d), Continue(s, d, st) \/ Break(s, d, st), Checked(s, st)
      PROVE  After(s, st)
  BY <1>a, EndsAfter DEF Continue, Break
<1>1. CASE /\ st \in {"InvoiceSet", "TransactionConfirmed", "InvoicePending", "InvoicePaid",
                      "TransactionMempool"}
           /\ Continue(s, mem[s], st) \/ Continue(s, Learn(mem[s], tx), st)
  <2>1. Checked(s, st)
    BY <1>1 DEF Checked, Over, Done, Ending
  <2>. QED
    BY <1>1, <1>a, <2>1, Carrying
<1>2. CASE Fails(s, mem[s])
  BY <1>2, Carrying, DropsAfter
<1>3. CASE st = "InvoiceFailedToPay" /\ ~lockup_utxo_exists(s) /\ Break(s, mem[s], st)
  <2>1. Checked(s, st)
    BY <1>3 DEF Checked, lockup_utxo_exists
  <2>. QED
    BY <1>3, <1>a, <2>1, Carrying
<1>4. CASE st \in {"InvoiceFailedToPay", "TransactionLockupFailed"} /\ Refunds(s, st)
  <2>1. st \in Ending(kind[s]) \cap Failed
    BY <1>4 DEF Ending, Failed
  <2>. QED
    BY <1>4, <2>1, RefundsAfter
<1>5. CASE st = "TransactionClaimPending" /\ handle_cooperative_claim(s, st)
  <2>1. Checked(s, st)
    BY <1>5 DEF Checked
  <2>. QED
    BY <1>5, <1>a, <2>1, Carrying, NotesAfter, Zenon DEF handle_cooperative_claim
<1>6. CASE st = "TransactionClaimed" /\ \E e \in Fetched(mem[s]) : Break(s, e, st)
  <2>1. Checked(s, st)
    BY <1>6 DEF Checked
  <2>. QED
    BY <1>6, <1>a, <2>1, Carrying
<1>7. CASE st = "SwapExpired" /\ Break(s, mem[s], st)
  <2>1. Checked(s, st)
    BY <1>7 DEF Checked
  <2>. QED
    BY <1>7, <1>a, <2>1, Carrying
<1>8. CASE st = "TransactionZeroconfRejected" /\ Unexpected(s, st)
  <2>1. Checked(s, st)
    BY <1>8 DEF Checked, Over, Done, Ending
  <2>. QED
    BY <1>8, <2>1, UnexpectedAfter
<1>. QED
  BY <1>1, <1>2, <1>3, <1>4, <1>5, <1>6, <1>7, <1>8 DEF AdvanceSubmarine

\* AdvanceReverse: the preimage goes to Boltz with the broadcast, or before it.
LEMMA ReverseAfter ==
    ASSUME TypeOK, NEW s \in Swap, pc[s] = "idle", kind[s] = "reverse",
           NEW st \in SwapState, NEW tx \in BOOLEAN, AdvanceReverse(s, st, tx)
    PROVE  After(s, st) /\ (~Revealing(s) => preimage'[s] = preimage[s])
<1>0. Checked(s, st)
  BY DEF Checked
<1>1. CASE Continue(s, mem[s], st) \/ Break(s, mem[s], st)
  BY <1>0, <1>1, Carrying, EndsAfter DEF Continue, Break
<1>2. CASE /\ st \in {"TransactionMempool", "TransactionConfirmed"}
           /\ Construct(s, Learn(mem[s], tx), st, "claim", "continue", "reverse" \in RevealsTo)
  <2>1. ~Over(s, st)
    BY <1>2 DEF Over, Done, Ending
  <2>. DEFINE reveals == "reverse" \in RevealsTo
  <2>2. reveals => Revealing(s)
    BY DEF Revealing
  <2>3. Construct(s, Learn(mem[s], tx), st, "claim", "continue", reveals)
    BY <1>2
  <2>4. After(s, st) /\ (~reveals => preimage'[s] = preimage[s])
    <3>1. Carries(s, Learn(mem[s], tx))
      BY Carrying
    <3>. HIDE DEF reveals
    <3>. QED
      BY <2>1, <2>3, <3>1, ConstructAfter
  <2>. QED
    BY <2>2, <2>4
<1>3. CASE \/ CannotConstruct(s, Noted(Learn(mem[s], tx), st), "claim")
           \/ \E e \in {mem[s], Learn(mem[s], tx)} : Fails(s, Noted(e, st))
  BY <1>0, <1>3, Carrying, NotesAfter
<1>4. CASE Unexpected(s, st)
  BY <1>0, <1>4, UnexpectedAfter
<1>. QED
  BY <1>1, <1>2, <1>3, <1>4 DEF AdvanceReverse, handle_claim_transaction_if_necessary

\* AdvanceChain
LEMMA ChainAfter ==
    ASSUME TypeOK, NEW s \in Swap, pc[s] = "idle", kind[s] = "chain",
           NEW st \in SwapState, NEW tx \in BOOLEAN, AdvanceChain(s, st, tx)
    PROVE  After(s, st)
<1>a. ASSUME NEW d, Carries(s, d), Continue(s, d, st) \/ Break(s, d, st), Checked(s, st)
      PROVE  After(s, st)
  BY <1>a, EndsAfter DEF Continue, Break
<1>1. CASE /\ st \in {"SwapCreated", "ServerTransactionMempool", "TransactionConfirmed"}
           /\ Continue(s, mem[s], st) \/ Continue(s, Learn(mem[s], tx), st)
  <2>1. Checked(s, st)
    BY <1>1 DEF Checked, Over, Done, Ending
  <2>. QED
    BY <1>1, <1>a, <2>1, Carrying
<1>2. CASE /\ st = "TransactionMempool"
           /\ Continue(s, [mem[s] EXCEPT !.lockup_txid = tx], st)
  <2>. DEFINE e == [[mem[s] EXCEPT !.lockup_txid = tx] EXCEPT !.last_state = st]
  <2>1. Checked(s, st)
    BY <1>2 DEF Checked, Over, Done, Ending
  <2>2. e.last_state = st /\ e.claim_txid = mem[s].claim_txid
    BY DEF TypeOK, SwapData
  <2>3. mem'[s] = e /\ pc'[s] = "persist" /\ job'[s].st = st
    BY <1>2 DEF Continue, Ends, Goto, TypeOK
  <2>. HIDE DEF e
  <2>. QED
    BY <1>2, <2>1, <2>2, <2>3 DEF After, KeepsTxid
<1>3. CASE /\ st = "ServerTransactionConfirmed"
           /\ \/ Construct(s, mem[s], st, "claim", "continue", "chain" \in RevealsTo)
              \/ CannotConstruct(s, mem[s], "claim")
              \/ Fails(s, mem[s])
  BY <1>3, Carrying, ConstructAfter, DropsAfter
<1>4. CASE st = "TransactionClaimed" /\ ClaimAfterBoltz(s, st)
  <2>1. CASE Fails(s, mem[s])
    BY <2>1, Carrying, DropsAfter, Zenon
  <2>2. ASSUME NEW d \in Fetched(mem[s]), d.claim_txid, Break(s, d, st)
        PROVE  After(s, st)
    <3>1. Carries(s, d)
      BY Carrying
    <3>2. Checked(s, st)
      BY <2>2, <3>1 DEF Checked, Carries
    <3>. QED
      BY <1>a, <2>2, <3>1, <3>2
  <2>3. ASSUME NEW d \in Fetched(mem[s]),
               \/ Construct(s, d, st, "claim", "break", FALSE)
               \/ CannotConstruct(s, d, "claim") \/ Fails(s, d)
        PROVE  After(s, st)
    BY <2>3, Carrying, ConstructAfter, DropsAfter, Zenon
  <2>. QED
    BY <1>4, <2>1, <2>2, <2>3, Zenon DEF ClaimAfterBoltz
<1>5. CASE /\ st \in {"TransactionLockupFailed", "TransactionFailed", "TransactionRefunded"}
           /\ Refunds(s, st)
  <2>1. st \in Ending(kind[s]) \cap Failed
    BY <1>5 DEF Ending, Failed
  <2>. QED
    BY <1>5, <2>1, RefundsAfter
<1>6. CASE st = "SwapExpired" /\ Break(s, mem[s], st)
  <2>1. Checked(s, st)
    BY <1>6 DEF Checked
  <2>. QED
    BY <1>6, <1>a, <2>1, Carrying
<1>7. CASE st = "TransactionZeroconfRejected" /\ Unexpected(s, st)
  <2>1. Checked(s, st)
    BY <1>7 DEF Checked, Over, Done, Ending
  <2>. QED
    BY <1>7, <2>1, UnexpectedAfter
<1>. QED
  BY <1>1, <1>2, <1>3, <1>4, <1>5, <1>6, <1>7 DEF AdvanceChain

\* Advance: the update at the head of the queue.
LEMMA AdvanceAfter ==
    ASSUME TypeOK, NEW s \in Swap, kind[s] # "none", Advance(s)
    PROVE  /\ After(s, Head(queue[s]).st)
           /\ kind[s] = "reverse" /\ ~Revealing(s) => preimage'[s] = preimage[s]
<1>1. Head(queue[s]) \in Message /\ pc[s] = "idle"
  BY AdvanceEffect DEF Advance
<1>2. Head(queue[s]).st \in SwapState /\ Head(queue[s]).tx \in BOOLEAN
  BY <1>1 DEF Message
<1>3. /\ kind[s] = "submarine" => AdvanceSubmarine(s, Head(queue[s]).st, Head(queue[s]).tx)
      /\ kind[s] = "reverse" => AdvanceReverse(s, Head(queue[s]).st, Head(queue[s]).tx)
      /\ kind[s] = "chain" => AdvanceChain(s, Head(queue[s]).st, Head(queue[s]).tx)
  BY DEF Advance
<1>4. kind[s] \in {"submarine", "reverse", "chain"}
  BY DEF TypeOK, Kind
<1>. QED
  BY <1>1, <1>2, <1>3, <1>4, SubmarineAfter, ReverseAfter, ChainAfter

-----------------------------------------------------------------------------
(* Every step of a swap keeps Deal.                                        *)

\* Boltz gives no status after one that ends a swap.
LEMMA LastStatus ==
    ASSUME NEW k \in Kind \cup {"none"}, NEW a \in SwapState, NEW to \in SwapState,
           <<a, to>> \in Lifecycle(k)
    PROVE  /\ a \notin Ending(k) /\ k # "none" /\ to # "Initialized"
           /\ a \in {"TransactionClaimPending", "TransactionClaimed"} => to = "TransactionClaimed"
<1>1. CASE k = "submarine"
  BY <1>1 DEF Ending, Lifecycle
<1>2. CASE k = "reverse"
  BY <1>2 DEF Ending, Lifecycle
<1>3. CASE k = "chain"
  BY <1>3 DEF Ending, Lifecycle
<1>4. CASE k = "none"
  BY <1>4 DEF Ending, Lifecycle
<1>. QED
  BY <1>1, <1>2, <1>3, <1>4 DEF Kind

\* A step of another swap.
LEMMA DealFrame ==
    ASSUME NEW o \in Swap, Deal(o), Same(o)
    PROVE  Deal(o)' /\ Money(o)' = Money(o) /\ Record(o)' = Record(o)
<1>1. Phase(o)' /\ Side(o)'
  BY DEF Deal, Phase, Side, Same, Alike, Revealing
<1>2. Money(o)' = Money(o) /\ Record(o)' = Record(o)
  BY Zenon DEF Money, Record, Same, Alike
<1>3. HeardAll(o)'
  BY ZenonT(30) DEF Deal, HeardAll, Heard, Same, Alike
<1>4. SettledAll(o)' /\ Tasked(o)'
  BY <1>2, Zenon DEF Deal, SettledAll, Settled, Tasked, Over, Same, Alike, Plain, Revealing, Belated
<1>5. Listing(o)' /\ LockupKnown(o)'
  BY DEF Deal, Listing, LockupKnown, Same, Alike
<1>. QED
  BY <1>1, <1>2, <1>3, <1>4, <1>5, SMTT(20) DEF Deal

\* The first update leaves the queue.
LEMMA TakenHeard ==
    ASSUME TypeOK, NEW s \in Swap, queue[s] # <<>>,
           \A i \in 1 .. Len(queue[s]) : Heard(s, queue[s][i].st)
    PROVE  /\ Heard(s, Head(queue[s]).st)
           /\ \A i \in 1 .. Len(Tail(queue[s])) : Heard(s, Tail(queue[s])[i].st)
<1>. DEFINE q == queue[s]
<1>1. /\ q \in Seq(Message) /\ Len(q) \in Nat /\ Len(q) >= 1 /\ Head(q) = q[1]
      /\ Len(Tail(q)) = Len(q) - 1
      /\ \A i \in 1 .. Len(Tail(q)) : Tail(q)[i] = q[i + 1]
  <2>1. q \in Seq(Message) /\ q # <<>>
    BY DEF TypeOK
  <2>. QED
    BY ONLY <2>1
<1>2. ASSUME NEW i \in 1 .. Len(Tail(q))
      PROVE  i + 1 \in 1 .. Len(q) /\ Tail(q)[i] = q[i + 1]
  BY ONLY <1>1, <1>2
<1>3. 1 \in 1 .. Len(q)
  BY ONLY <1>1
<1>. QED
  BY <1>1, <1>2, <1>3

\* An update is added behind the others.
LEMMA DeliveredHeard ==
    ASSUME TypeOK, NEW s \in Swap, NEW m \in Message, NEW H,
           \A i \in 1 .. Len(queue[s]) : queue[s][i].st \in H, m.st \in H
    PROVE  \A i \in 1 .. Len(Delivered(s, m)) : Delivered(s, m)[i].st \in H
<1>. DEFINE q == queue[s]
            d == Delivered(s, m)
<1>0. q \in Seq(Message)
  BY DEF TypeOK
<1>1. CASE pc[s] = "off"
  BY <1>1 DEF Delivered
<1>2. ASSUME NEW r \in Seq(Message), d = Append(r, m),
             \A i \in 1 .. Len(r) : r[i].st \in H
      PROVE  \A i \in 1 .. Len(d) : d[i].st \in H
  <2>. HIDE DEF d
  <2>1. /\ Len(d) = Len(r) + 1 /\ d[Len(r) + 1] = m /\ Len(r) \in Nat
        /\ \A i \in 1 .. Len(r) : d[i] = r[i]
    BY <1>2
  <2>. QED
    BY <1>2, <2>1
<1>3. CASE pc[s] # "off" /\ Len(q) = QueueCap
  <2>1. q # <<>>
    BY <1>3, <1>0, CapAssumption
  <2>2. /\ Tail(q) \in Seq(Message) /\ Len(q) \in Nat /\ Len(Tail(q)) = Len(q) - 1
        /\ \A i \in 1 .. Len(Tail(q)) : Tail(q)[i] = q[i + 1]
    BY <2>1, <1>0
  <2>3. \A i \in 1 .. Len(Tail(q)) : Tail(q)[i].st \in H
    BY <2>2
  <2>4. d = Append(Tail(q), m)
    BY <1>3 DEF Delivered
  <2>. QED
    BY <1>2, <2>2, <2>3, <2>4
<1>4. CASE pc[s] # "off" /\ Len(q) # QueueCap
  <2>1. d = Append(q, m)
    BY <1>4 DEF Delivered
  <2>. QED
    BY <1>0, <1>2, <2>1
<1>. QED
  BY <1>1, <1>3, <1>4

\* A status the code takes for the end, having checked what it checks, is one
\* that leaves the user nothing to do.
LEMMA CheckedSettled ==
    ASSUME TypeOK, NEW s \in Swap, Phase(s), Side(s), kind[s] # "none",
           NEW st \in Known(kind[s]), Heard(s, st),
           mem[s].claim_txid => boltz[s] = "claimed", Checked(s, st)
    PROVE  Settled(s, st)
<1>. SUFFICES ASSUME Plain(s), Over(s, st), st # "SwapExpired"
              PROVE  Money(s) \in {"mine", "received", "back"}
  BY DEF Settled
<1>0. kind[s] \in {"submarine", "reverse", "chain"} /\ user[s] \in Leg
  BY DEF TypeOK, Kind
<1>1. CASE boltz[s] = "claimed" \/ user[s] = "none"
  BY <1>1 DEF Money
<1>2. CASE kind[s] = "submarine" /\ st \in {"TransactionClaimPending", "TransactionClaimed"}
  <2>1. status[s] \in {"TransactionClaimPending", "TransactionClaimed"}
    BY <1>2 DEF Heard, Ending
  <2>. QED
    BY <1>1, <1>2, <2>1 DEF Side, Revealing
<1>3. CASE kind[s] = "submarine" /\ st = "InvoiceFailedToPay" /\ user[s] # "locked"
  <2>1. status[s] = "InvoiceFailedToPay"
    BY <1>3 DEF Heard, Ending
  <2>2. user[s] = "refunded" /\ boltz[s] # "claimed"
    BY <1>0, <1>3, <2>1 DEF Phase, Leg
  <2>. QED
    BY <2>2 DEF Money
<1>4. CASE kind[s] = "reverse"
  <2>1. st \in {"TransactionDirect", "InvoiceSettled", "InvoiceExpired"}
    BY <1>4 DEF Over, Done, Ending, Known
  <2>2. status[s] = st
    BY <1>4, <2>1, SMTT(20) DEF Heard, Ending
  <2>3. ~Revealing(s)
    BY DEF Plain
  <2>. QED
    BY <1>1, <1>4, <2>1, <2>2, <2>3 DEF Phase, Side
<1>. QED
  BY <1>1, <1>2, <1>3, <1>4 DEF Checked

\* A swap whose response object exists has a kind.
LEMMA HasKind ==
    ASSUME NEW s \in Swap, Local(s), Deal(s), pc[s] # "off"
    PROVE  kind[s] # "none" /\ status[s] # "Initialized"
BY DEF Local, Begun, Deal, Phase

\* One call of advance() up to its first write.
LEMMA AdvanceDeal ==
    ASSUME TypeOK, NEW s \in Swap, Local(s), Deal(s), Advance(s)
    PROVE  Deal(s)' /\ Money(s)' = Money(s) /\ Record(s)' = Record(s)
<1>. DEFINE st == Head(queue[s]).st
<1>1. /\ kind'[s] = kind[s] /\ status'[s] = status[s] /\ user'[s] = user[s]
      /\ boltz'[s] = boltz[s] /\ data'[s] = data[s] /\ pending' = pending
      /\ returned'[s] = returned[s] /\ unlisted'[s] = unlisted[s]
      /\ pc[s] = "idle" /\ queue'[s] = Tail(queue[s])
  BY DEF Advance, Took, store, history, TypeOK
<1>2. kind[s] # "none" /\ status[s] # "Initialized"
  BY <1>1, HasKind
<1>3. /\ After(s, st) /\ queue[s] # <<>>
      /\ kind[s] = "reverse" /\ ~Revealing(s) => preimage'[s] = preimage[s]
  BY <1>2, AdvanceAfter, Zenon DEF Advance
<1>4. st \in Known(kind[s])
  BY <1>3, TakenSorted, Zenon DEF Local, Lawful
<1>5. /\ Heard(s, st)
      /\ \A i \in 1 .. Len(Tail(queue[s])) : Heard(s, Tail(queue[s])[i].st)
  BY <1>3, TakenHeard DEF Deal, HeardAll
<1>6. Checked(s, st) => Settled(s, st)
  BY <1>2, <1>4, <1>5, CheckedSettled, ZenonT(30) DEF Deal, SettledAll
<1>. HIDE DEF st
<1>7. Phase(s)' /\ Side(s)'
  BY <1>1, <1>3 DEF Deal, Phase, Side, Revealing
<1>8. Money(s)' = Money(s) /\ Record(s)' = Record(s)
  BY <1>1, Zenon DEF Money, Record
<1>9. /\ mem'[s].last_state \in {mem[s].last_state, st} /\ job'[s].st \in {job[s].st, st}
      /\ mem'[s].last_state = st => mem[s].last_state = st \/ Checked(s, st)
      /\ mem'[s].claim_txid = mem[s].claim_txid
      /\ pc'[s] \in {"idle", "persist", "claim", "refund"}
  BY <1>3 DEF After
<1>10. HeardAll(s)'
  BY <1>1, <1>5, <1>9, ZenonT(30) DEF Deal, HeardAll, Heard
<1>11. SettledAll(s)'
  BY <1>1, <1>6, <1>8, <1>9, Zenon DEF Deal, SettledAll, Settled, Over, Plain, Revealing, Belated
<1>12. Tasked(s)'
  BY <1>1, <1>3 DEF After, Tasked, Over
<1>13. Listing(s)'
  BY <1>1, <1>9, Zenon DEF Deal, Listing
<1>14. LockupKnown(s)'
  BY <1>1, <1>3 DEF After, KeepsTxid, Deal, LockupKnown
<1>. QED
  BY <1>7, <1>8, <1>10, <1>11, <1>12, <1>13, <1>14 DEF Deal

\* The claim or the refund is broadcast: the money is received or back.
LEMMA BroadcastDeal ==
    ASSUME TypeOK, NEW s \in Swap, Local(s), Deal(s), Broadcast(s)
    PROVE  /\ Deal(s)' /\ Record(s)' = Record(s)
           /\ \/ Money(s) \in {"staked", "owed"} /\ Money(s)' = "received"
              \/ Money(s) = "staked" /\ Money(s)' = "back"
<1>1. /\ kind'[s] = kind[s] /\ status'[s] = status[s] /\ data'[s] = data[s]
      /\ returned'[s] = returned[s] /\ unlisted'[s] = unlisted[s] /\ pending' = pending
      /\ queue'[s] = queue[s] /\ pc'[s] = "persist" /\ job'[s].st = job[s].st
  BY DEF Broadcast, Goto, store, history, TypeOK, Job
<1>2. kind[s] # "none" /\ status[s] # "Initialized" /\ user[s] \in Leg
      /\ kind[s] \in {"submarine", "reverse", "chain"}
  BY HasKind, Zenon DEF Broadcast, TypeOK, Kind
<1>3. Record(s)' = Record(s)
  BY <1>1 DEF Record
<1>4. /\ mem'[s].last_state = job[s].st /\ mem'[s].lockup_txid = mem[s].lockup_txid
      /\ pc[s] = "refund" => mem'[s].claim_txid = mem[s].claim_txid
  <2>. DEFINE c == [mem[s] EXCEPT !.claim_txid = TRUE, !.last_state = job[s].st]
              r == [mem[s] EXCEPT !.refund_txid = TRUE, !.last_state = job[s].st]
  <2>1. /\ c.last_state = job[s].st /\ c.lockup_txid = mem[s].lockup_txid
        /\ r.last_state = job[s].st /\ r.lockup_txid = mem[s].lockup_txid
        /\ r.claim_txid = mem[s].claim_txid
    BY DEF TypeOK, SwapData
  <2>2. /\ pc[s] = "claim" => mem'[s] = c
        /\ pc[s] = "refund" => mem'[s] = r
    BY Zenon DEF Broadcast, TypeOK
  <2>3. pc[s] \in {"claim", "refund"}
    BY DEF Broadcast
  <2>. HIDE DEF c, r
  <2>. QED
    BY <2>1, <2>2, <2>3
<1>5. HeardAll(s)' /\ Tasked(s)' /\ Listing(s)' /\ LockupKnown(s)'
  <2>1. HeardAll(s)'
    BY <1>1, <1>4, Zenon DEF Deal, HeardAll, Heard
  <2>2. Tasked(s)'
    BY <1>1 DEF Tasked
  <2>3. Listing(s)' /\ LockupKnown(s)'
    <3>1. pc[s] \in {"claim", "refund"}
      BY DEF Broadcast
    <3>. QED
      BY <1>1, <1>4, <3>1, Zenon DEF Deal, Listing, LockupKnown
  <2>. QED
    BY <2>1, <2>2, <2>3, Zenon
<1>6. CASE pc[s] = "claim"
  <2>1. /\ boltz[s] = "locked" /\ boltz'[s] = "claimed" /\ user'[s] = user[s]
        /\ kind[s] # "submarine"
    BY <1>6, Zenon DEF Broadcast, TypeOK, Deal, Tasked
  <2>2. user[s] \in {"locked", "claimed"}
    BY <1>2, <2>1, Zenon DEF Deal, Phase, Leg
  <2>3. status[s] \in {"TransactionMempool", "TransactionConfirmed", "InvoiceSettled",
           "ServerTransactionMempool", "ServerTransactionConfirmed", "TransactionClaimed"}
    BY <1>2, <2>1 DEF Deal, Side, Revealing
  <2>4. Money(s) \in {"staked", "owed"} /\ Money(s)' = "received"
    BY <2>1, <2>2 DEF Money
  <2>5. Phase(s)' /\ Side(s)'
    BY <1>1, <1>2, <2>1, <2>2, <2>3, Zenon DEF Deal, Phase, Side, Revealing
  <2>6. SettledAll(s)'
    BY <2>1, <2>4 DEF SettledAll, Settled, Plain, Revealing, Belated
  <2>. QED
    BY <1>3, <1>5, <2>4, <2>5, <2>6, SMTT(20) DEF Deal
<1>7. CASE pc[s] = "refund"
  <2>1. /\ user[s] = "locked" /\ user'[s] = "refunded" /\ boltz'[s] = boltz[s]
        /\ preimage'[s] = preimage[s]
        /\ kind[s] # "reverse" /\ job[s].st \in Ending(kind[s]) \cap Failed
    BY <1>7, Zenon DEF Broadcast, TypeOK, Deal, Tasked
  <2>2. status[s] = job[s].st /\ status[s] \in Failed
    BY <2>1, ZenonT(30) DEF Deal, HeardAll, Heard
  <2>3. boltz[s] \in {"none", "refunded"}
    BY <1>2, <2>1, <2>2 DEF Deal, Side, Failed, TypeOK, Leg, Revealing
  <2>4. Money(s) = "staked" /\ Money(s)' = "back"
    BY <2>1, <2>3 DEF Money
  <2>5. Phase(s)' /\ Side(s)'
    BY <1>1, <1>2, <2>1, <2>2, <2>3, Zenon DEF Deal, Phase, Side, Failed, Revealing
  <2>6. SettledAll(s)'
    BY <1>1, <1>4, <1>7, <2>1, <2>4, Zenon DEF Deal, SettledAll, Settled, Plain, Revealing, Belated
  <2>. QED
    BY <1>3, <1>5, <2>4, <2>5, <2>6 DEF Deal
<1>. QED
  BY <1>6, <1>7 DEF Broadcast

\* What SwapPromise allows one swap, from money m and record r to m2 and r2.
Promised(m, r, m2, r2) ==
    \/ m2 = m /\ r2 = r
    \/ /\ r2 = r
       /\ \/ r \notin {"closed", "expired"} /\ m = "mine" /\ m2 = "staked"
          \/ r # "closed" /\ m = "staked" /\ m2 \in {"owed", "back"}
          \/ m \in {"staked", "owed"} /\ m2 = "received"
    \/ /\ m2 = m
       /\ \/ r = "none" /\ r2 = "open"
          \/ r \in {"none", "open"} /\ m \in {"mine", "received", "back"} /\ r2 = "closed"
          \/ r \in {"none", "open"} /\ m \in {"mine", "staked"} /\ r2 = "expired"

Moves(s) == Plain(s)' => Promised(Money(s), Record(s), Money(s)', Record(s)')

\* What the record of a swap outside the pending list says: it follows the status
\* in the store, which is Boltz's last when it ends the swap.
LEMMA RecordOutside ==
    ASSUME NEW s \in Swap, s \notin pending, HeardAll(s), SettledAll(s), Phase(s)
    PROVE  /\ ~Over(s, data[s].last_state) => Record(s) = "none"
           /\ Over(s, data[s].last_state) /\ status[s] = "SwapExpired" => Record(s) = "expired"
           /\ Over(s, data[s].last_state) /\ status[s] # "SwapExpired" => Record(s) = "closed"
<1>1. "SwapExpired" \in Ending(kind[s])
  BY DEF Ending
<1>. QED
  BY <1>1, Zenon DEF Record, Over, Done, HeardAll, Heard

\* The status in memory goes to the store.
LEMMA RecordWritten ==
    ASSUME NEW s \in Swap, Local(s), Deal(s), Deal(s)', pc[s] # "off",
           data'[s].last_state = mem[s].last_state, kind'[s] = kind[s],
           status'[s] = status[s], user'[s] = user[s], boltz'[s] = boltz[s],
           unlisted'[s] = unlisted[s], s \in pending' <=> s \in pending
    PROVE  Moves(s)
<1>1. Money(s)' = Money(s)
  BY DEF Money
<1>2. CASE s \in pending
  BY <1>1, <1>2, Zenon DEF Record, Moves, Promised
<1>3. CASE s \notin pending
  <2>1. Over(s, data[s].last_state) => Over(s, mem[s].last_state)
    BY Zenon DEF Local, Recorded
  <2>2. /\ ~Over(s, data[s].last_state) => Record(s) = "none"
        /\ Over(s, data[s].last_state) /\ status[s] = "SwapExpired" => Record(s) = "expired"
        /\ Over(s, data[s].last_state) /\ status[s] # "SwapExpired" => Record(s) = "closed"
    BY <1>3, RecordOutside, Zenon DEF Deal
  <2>3. /\ ~Over(s, mem[s].last_state) => Record(s)' = "none"
        /\ Over(s, mem[s].last_state) /\ status[s] = "SwapExpired" => Record(s)' = "expired"
        /\ Over(s, mem[s].last_state) /\ status[s] # "SwapExpired" => Record(s)' = "closed"
    <3>1. "SwapExpired" \in Ending(kind[s])
      BY DEF Ending
    <3>. QED
      BY <1>3, <3>1, Zenon DEF Record, Over, Done, Deal, HeardAll, Heard
  <2>4. Over(s, mem[s].last_state) /\ status[s] = "SwapExpired" => Money(s) \in {"mine", "staked"}
    BY DEF Deal, Phase, Money
  <2>5. Plain(s) /\ Over(s, mem[s].last_state) /\ status[s] # "SwapExpired"
          => Money(s) \in {"mine", "received", "back"}
    <3>1. "SwapExpired" \in Ending(kind[s])
      BY DEF Ending
    <3>. QED
      BY <3>1, Zenon DEF Deal, SettledAll, Settled, HeardAll, Heard
  <2>6. Plain(s)' <=> Plain(s)
    BY DEF Plain, Revealing, Belated
  <2>. QED
    BY <1>1, <2>6, <2>1, <2>2, <2>3, <2>4, <2>5, SMTT(20) DEF Moves, Promised
<1>. QED
  BY <1>2, <1>3

\* The data is written to the store.
LEMMA PersistDeal ==
    ASSUME TypeOK, NEW s \in Swap, Local(s), Deal(s), Persist(s)
    PROVE  Deal(s)' /\ Moves(s)
<1>1. /\ kind'[s] = kind[s] /\ status'[s] = status[s] /\ user'[s] = user[s]
      /\ boltz'[s] = boltz[s] /\ preimage'[s] = preimage[s] /\ data'[s] = mem[s]
      /\ returned'[s] = returned[s] /\ unlisted'[s] = unlisted[s] /\ pending' = pending
      /\ queue'[s] = queue[s] /\ mem'[s] = mem[s] /\ job'[s] = job[s]
      /\ pc[s] \in {"new", "persist"}
  BY DEF Persist, legs, history, TypeOK
<1>2. \/ pc[s] = "new" /\ pc'[s] = "add"
      \/ pc[s] # "new" /\ pc'[s] \in {"unpend", "idle"}
  <2>. DEFINE next == CASE pc[s] = "new" -> "add"
                        [] pc[s] = "persist" /\ job[s].flow = "break" -> "unpend"
                        [] OTHER -> "idle"
  <2>1. (pc[s] = "new" => next = "add") /\ (pc[s] # "new" => next \in {"unpend", "idle"})
    OBVIOUS
  <2>2. pc'[s] = next
    BY DEF Persist, Goto, TypeOK
  <2>. HIDE DEF next
  <2>. QED
    BY <2>1, <2>2
<1>3. Money(s)' = Money(s) /\ status[s] # "Initialized"
  BY <1>1, HasKind DEF Money
<1>4. Phase(s)' /\ Side(s)'
  BY <1>1, Zenon DEF Deal, Phase, Side, Revealing
<1>5. HeardAll(s)'
  BY <1>1, Zenon DEF Deal, HeardAll, Heard
<1>6. SettledAll(s)' /\ Tasked(s)'
  BY <1>1, <1>2, <1>3, Zenon DEF Deal, SettledAll, Settled, Tasked, Over, Plain, Revealing, Belated
<1>7. Listing(s)'
  BY <1>1, <1>2, Zenon DEF Deal, Listing
<1>8. LockupKnown(s)'
  BY <1>1, <1>3, Zenon DEF LockupKnown
<1>9. Deal(s)'
  BY <1>4, <1>5, <1>6, <1>7, <1>8, ZenonT(30) DEF Deal
<1>. QED
  BY <1>1, <1>9, RecordWritten, Zenon

\* The txid of the lockup is set, in memory and in the store.
LEMMA SetLockupTxidDeal ==
    ASSUME TypeOK, NEW s \in Swap, Local(s), Deal(s), SetLockupTxid(s)
    PROVE  Deal(s)' /\ Moves(s) /\ data'[s].lockup_txid
<1>1. /\ kind'[s] = kind[s] /\ status'[s] = status[s] /\ user'[s] = user[s]
      /\ boltz'[s] = boltz[s] /\ preimage'[s] = preimage[s] /\ job'[s] = job[s]
      /\ returned'[s] = returned[s] /\ unlisted'[s] = unlisted[s] /\ pending' = pending
      /\ queue'[s] = queue[s] /\ pc[s] = "idle" /\ pc'[s] = "idle"
  BY DEF SetLockupTxid, legs, history, TypeOK
<1>2. /\ mem'[s].last_state = mem[s].last_state /\ mem'[s].claim_txid = mem[s].claim_txid
      /\ mem'[s].lockup_txid /\ data'[s] = mem'[s]
  <2>. DEFINE e == [mem[s] EXCEPT !.lockup_txid = TRUE]
  <2>1. e.last_state = mem[s].last_state /\ e.claim_txid = mem[s].claim_txid /\ e.lockup_txid
    BY DEF TypeOK, SwapData
  <2>2. mem'[s] = e /\ data'[s] = mem'[s]
    BY DEF SetLockupTxid, TypeOK
  <2>. HIDE DEF e
  <2>. QED
    BY <2>1, <2>2
<1>3. Money(s)' = Money(s) /\ status[s] # "Initialized"
  BY <1>1, HasKind, ZenonT(30) DEF Money
<1>4. Phase(s)' /\ Side(s)'
  BY <1>1 DEF Deal, Phase, Side, Revealing
<1>5. HeardAll(s)'
  BY <1>1, <1>2, ZenonT(30) DEF Deal, HeardAll, Heard
<1>6. SettledAll(s)' /\ Tasked(s)'
  BY <1>1, <1>2, <1>3, Zenon DEF Deal, SettledAll, Settled, Tasked, Over, Plain, Revealing, Belated
<1>7. Listing(s)' /\ LockupKnown(s)'
  BY <1>1, <1>2, <1>3, Zenon DEF Deal, Listing, LockupKnown
<1>8. Deal(s)'
  BY <1>4, <1>5, <1>6, <1>7, SMTT(20) DEF Deal
<1>. QED
  BY <1>1, <1>2, <1>8, RecordWritten

\* A list is written back.
LEMMA WriteListDeal ==
    ASSUME TypeOK, CopyFresh, NEW s \in Swap, Local(s), Deal(s), WriteList(s)
    PROVE  Deal(s)' /\ Moves(s)
<1>1. /\ kind'[s] = kind[s] /\ status'[s] = status[s] /\ user'[s] = user[s]
      /\ boltz'[s] = boltz[s] /\ preimage'[s] = preimage[s] /\ data' = data
      /\ unlisted'[s] = unlisted[s] /\ queue'[s] = queue[s] /\ mem'[s] = mem[s]
      /\ pc[s] \in {"addw", "unpendw", "completew"}
  BY DEF WriteList, legs
<1>2. pc'[s] \in {"complete", "idle"} /\ (job'[s] = job[s] \/ job'[s] = NoJob)
  BY DEF WriteList, Goto, TypeOK
<1>3. /\ pc[s] = "addw" => returned'[s] /\ s \in pending'
      /\ pc[s] # "addw" => returned'[s] = returned[s]
      /\ pc[s] = "unpendw" => s \notin pending'
      /\ pc[s] = "completew" => pending' = pending
  BY Zenon DEF WriteList, TypeOK
<1>4. Money(s)' = Money(s)
  BY <1>1, ZenonT(30) DEF Money
<1>5. Phase(s)' /\ Side(s)'
  BY <1>1 DEF Deal, Phase, Side, Revealing
<1>6. HeardAll(s)'
  <2>1. NoJob.st = "Initialized" /\ "Initialized" \notin Ending(kind[s])
    BY DEF NoJob, Ending
  <2>2. Heard(s, NoJob.st)
    BY <2>1 DEF Heard
  <2>. QED
    BY <1>1, <1>2, <2>2, ZenonT(30) DEF Deal, HeardAll, Heard
<1>7. SettledAll(s)' /\ Tasked(s)'
  BY <1>1, <1>2, <1>4, Zenon DEF Deal, SettledAll, Settled, Tasked, Over, Plain, Revealing, Belated
<1>8. Listing(s)'
  BY <1>1, <1>2, <1>3, Zenon DEF Deal, Listing, Local, Begun
<1>9. LockupKnown(s)'
  BY <1>1, <1>2, Zenon DEF Deal, LockupKnown
<1>10. Deal(s)'
  BY <1>5, <1>6, <1>7, <1>8, <1>9 DEF Deal
<1>11. CASE (s \in pending) = (s \in pending')
  <2>1. Record(s)' = Record(s)
    BY <1>1, <1>11 DEF Record
  <2>. QED
    BY <1>4, <1>10, <2>1, SMTT(20) DEF Moves, Promised
<1>12. CASE s \notin pending /\ s \in pending'
  <2>1. pc[s] = "addw"
    BY <1>1, <1>3, <1>12
  <2>2. ~Over(s, data[s].last_state)
    <3>1. mem[s].last_state = First(kind[s])
      BY <2>1 DEF Deal, Listing
    <3>2. ~Over(s, First(kind[s]))
      BY Statuses DEF Over, TypeOK
    <3>. QED
      BY <2>1, <3>1, <3>2, Zenon DEF Local, Recorded
  <2>3. Record(s) = "none"
    BY <1>12, <2>2, RecordOutside DEF Deal
  <2>4. Record(s)' = "open"
    BY <1>12 DEF Record
  <2>. QED
    BY <1>4, <1>10, <2>3, <2>4, SMTT(20) DEF Moves, Promised
<1>13. CASE s \in pending /\ s \notin pending'
  <2>1. pc[s] = "unpendw"
    BY <1>1, <1>3, <1>13
  <2>2. Over(s, data[s].last_state)
    BY <1>13, <2>1, Zenon DEF Local, InHand, Deal, Listing
  <2>3. Record(s) = "open"
    BY <1>13, ZenonT(30) DEF Record
  <2>4. /\ status[s] = "SwapExpired" => Record(s)' = "expired"
        /\ status[s] # "SwapExpired" => Record(s)' = "closed"
    <3>1. "SwapExpired" \in Ending(kind[s])
      BY DEF Ending
    <3>. QED
      BY <1>1, <1>13, <2>2, <3>1, Zenon DEF Record, Over, Done, Deal, HeardAll, Heard
  <2>5. status[s] = "SwapExpired" => Money(s) \in {"mine", "staked"}
    BY DEF Deal, Phase, Money
  <2>6. Plain(s)' /\ status[s] # "SwapExpired" => Money(s) \in {"mine", "received", "back"}
    <3>1. "SwapExpired" \in Ending(kind[s])
      BY DEF Ending
    <3>2. Plain(s)' <=> Plain(s)
      BY <1>1 DEF Plain, Revealing, Belated
    <3>. QED
      BY <2>2, <3>1, <3>2, ZenonT(30) DEF Deal, SettledAll, Settled, HeardAll, Heard
  <2>. QED
    BY <1>4, <1>10, <2>3, <2>4, <2>5, <2>6, SMTT(20) DEF Moves, Promised
<1>. QED
  BY <1>10, <1>11, <1>12, <1>13

\* A step that changes neither the money nor the store.
LEMMA Quiet ==
    ASSUME NEW s \in Swap, kind'[s] = kind[s], user'[s] = user[s], boltz'[s] = boltz[s],
           data'[s] = data[s], pending' = pending
    PROVE  Money(s)' = Money(s) /\ Record(s)' = Record(s) /\ Moves(s)
<1>1. Money(s)' = Money(s) /\ Record(s)' = Record(s)
  BY DEF Money, Record
<1>. QED
  BY <1>1 DEF Moves, Promised

\* What a response object that does not exist says: nothing.
LEMMA NothingSaid ==
    ASSUME TypeOK, NEW s \in Swap
    PROVE  /\ Heard(s, NoJob.st) /\ Heard(s, NoData.last_state)
           /\ ~Over(s, NoData.last_state) /\ ~NoData.claim_txid /\ ~NoData.lockup_txid
<1>1. NoJob.st = "Initialized" /\ NoData.last_state = "Initialized"
      /\ NoData.claim_txid = FALSE /\ NoData.lockup_txid = FALSE
  BY DEF NoJob, NoData, NewData
<1>2. "Initialized" \notin Done(kind[s])
  BY Statuses DEF TypeOK
<1>3. "Initialized" \notin Ending(kind[s])
  BY <1>2 DEF Done
<1>. QED
  BY <1>1, <1>2, <1>3 DEF Heard, Over

\* The broadcast has failed.
LEMMA BroadcastFailsDeal ==
    ASSUME TypeOK, NEW s \in Swap, Local(s), Deal(s), BroadcastFails(s)
    PROVE  Deal(s)' /\ Moves(s)
<1>1. /\ kind'[s] = kind[s] /\ status'[s] = status[s] /\ user'[s] = user[s]
      /\ boltz'[s] = boltz[s] /\ preimage'[s] = preimage[s] /\ data'[s] = data[s]
      /\ returned'[s] = returned[s] /\ unlisted'[s] = unlisted[s] /\ pending' = pending
      /\ queue'[s] = queue[s] /\ job'[s] = NoJob /\ pc'[s] = "idle"
      /\ pc[s] \in {"claim", "refund"}
  BY Zenon DEF BroadcastFails, Goto, legs, store, history, TypeOK
<1>2. /\ mem'[s].last_state \in {mem[s].last_state, job[s].st}
      /\ mem'[s].last_state = job[s].st =>
            mem[s].last_state = job[s].st \/ kind[s] = "reverse"
      /\ mem'[s].claim_txid = mem[s].claim_txid /\ mem'[s].lockup_txid = mem[s].lockup_txid
  <2>. DEFINE e == Noted(mem[s], job[s].st)
  <2>1. /\ e.last_state = job[s].st /\ e.claim_txid = mem[s].claim_txid
        /\ e.lockup_txid = mem[s].lockup_txid
    BY DEF TypeOK, SwapData, Noted
  <2>2. mem'[s] = IF kind[s] = "reverse" THEN e ELSE mem[s]
    BY DEF BroadcastFails, TypeOK
  <2>. HIDE DEF e
  <2>. QED
    BY <2>1, <2>2
<1>3. Money(s)' = Money(s) /\ Moves(s)
  BY <1>1, Quiet, Zenon
<1>4. Phase(s)' /\ Side(s)'
  BY <1>1, Zenon DEF Deal, Phase, Side, Revealing
<1>5. HeardAll(s)'
  BY <1>1, <1>2, NothingSaid, ZenonT(30) DEF Deal, HeardAll, Heard
<1>6. SettledAll(s)'
  BY <1>1, <1>2, <1>3, Zenon DEF Deal, SettledAll, Settled, Tasked, Over, Plain, Revealing, Belated
<1>7. Tasked(s)' /\ Listing(s)' /\ LockupKnown(s)'
  BY <1>1, <1>2, Zenon DEF Deal, Tasked, Listing, LockupKnown
<1>. QED
  BY <1>3, <1>4, <1>5, <1>6, <1>7, Zenon DEF Deal

\* A list is read.
LEMMA ReadListDeal ==
    ASSUME TypeOK, NEW s \in Swap, Local(s), Deal(s), ReadList(s)
    PROVE  Deal(s)' /\ Moves(s)
<1>1. /\ kind'[s] = kind[s] /\ status'[s] = status[s] /\ user'[s] = user[s]
      /\ boltz'[s] = boltz[s] /\ preimage'[s] = preimage[s] /\ data'[s] = data[s]
      /\ returned'[s] = returned[s] /\ unlisted'[s] = unlisted[s] /\ pending' = pending
      /\ queue'[s] = queue[s] /\ job'[s] = job[s] /\ mem'[s] = mem[s]
      /\ pc[s] \in {"add", "unpend", "complete"}
  BY DEF ReadList, legs, store, history
<1>2. \/ pc[s] = "add" /\ pc'[s] = "addw"
      \/ pc[s] # "add" /\ pc'[s] \in {"unpendw", "completew"}
  <2>. DEFINE next == CASE pc[s] = "add" -> "addw"
                        [] pc[s] = "unpend" -> "unpendw"
                        [] OTHER -> "completew"
  <2>1. (pc[s] = "add" => next = "addw") /\ (pc[s] # "add" => next \in {"unpendw", "completew"})
    OBVIOUS
  <2>2. pc'[s] = next
    BY DEF ReadList, Goto, TypeOK
  <2>. HIDE DEF next
  <2>. QED
    BY <2>1, <2>2
<1>3. Money(s)' = Money(s) /\ Moves(s)
  BY <1>1, Quiet, Zenon
<1>4. Phase(s)' /\ Side(s)' /\ HeardAll(s)'
  <2>1. Phase(s)'
    BY <1>1, Zenon DEF Deal, Phase
  <2>2. Side(s)'
    BY <1>1, Zenon DEF Deal, Side, Revealing
  <2>3. HeardAll(s)'
    BY <1>1, Zenon DEF Deal, HeardAll, Heard
  <2>. QED BY <2>1, <2>2, <2>3
<1>5. SettledAll(s)' /\ Tasked(s)'
  BY <1>1, <1>2, <1>3, Zenon DEF Deal, SettledAll, Settled, Tasked, Over, Plain, Revealing, Belated
<1>6. Listing(s)' /\ LockupKnown(s)'
  BY <1>1, <1>2, Zenon DEF Deal, Listing, LockupKnown
<1>. QED
  BY <1>3, <1>4, <1>5, <1>6 DEF Deal

\* The response object is gone: a timeout, or the process has stopped.
LEMMA GoneDeal ==
    ASSUME TypeOK, NEW s \in Swap, Deal(s),
           kind'[s] = kind[s], status'[s] = status[s], user'[s] = user[s],
           boltz'[s] = boltz[s], preimage'[s] = preimage[s], data'[s] = data[s],
           returned'[s] = returned[s], unlisted'[s] = unlisted[s], pending' = pending,
           mem'[s] = NoData, pc'[s] = "off",
           queue'[s] \in {queue[s], <<>>}, job'[s] \in {job[s], NoJob}
    PROVE  Deal(s)' /\ Money(s)' = Money(s) /\ Record(s)' = Record(s) /\ Moves(s)
<1>1. Money(s)' = Money(s) /\ Record(s)' = Record(s) /\ Moves(s)
  BY Quiet, Zenon
<1>2. Phase(s)' /\ Side(s)'
  BY Zenon DEF Deal, Phase, Side, Revealing
<1>3. HeardAll(s)'
  <2>1. \A i \in 1 .. Len(queue'[s]) : Heard(s, queue'[s][i].st)
    <3>1. \A i \in 1 .. Len(queue[s]) : Heard(s, queue[s][i].st)
      BY Zenon DEF Deal, HeardAll
    <3>2. CASE queue'[s] = queue[s]
      BY <3>1, <3>2, Zenon
    <3>3. CASE queue'[s] = <<>>
      BY ONLY <3>3
    <3>. QED BY <3>2, <3>3, Zenon
  <2>. QED
    BY <2>1, NothingSaid, Zenon DEF Deal, HeardAll, Heard
<1>4. SettledAll(s)'
  BY <1>1, NothingSaid, Zenon DEF Deal, SettledAll, Settled, Over, Plain, Revealing, Belated
<1>5. Tasked(s)' /\ Listing(s)' /\ LockupKnown(s)'
  BY Zenon DEF Deal, Tasked, Listing, LockupKnown
<1>. QED
  BY <1>1, <1>2, <1>3, <1>4, <1>5, Zenon DEF Deal

\* A new response object is made with data d.
LEMMA RespondDeal ==
    ASSUME TypeOK, NEW s \in Swap, Local(s), Deal(s), NEW d \in SwapData,
           NEW m \in Updates(status[s]), Respond(s, d, m),
           UNCHANGED <<kind, legs, job, data, pending, returned>>,
           \/ /\ s \in pending /\ unlisted'[s] = unlisted[s] /\ Heard(s, d.last_state)
              /\ Settled(s, d.last_state) /\ d.claim_txid = data[s].claim_txid
              /\ data[s].lockup_txid => d.lockup_txid
           \/ /\ s \notin pending /\ unlisted'[s] = TRUE /\ d.last_state = status[s]
              /\ status[s] \in RestoreAt /\ ~d.claim_txid
    PROVE  Deal(s)' /\ Moves(s)
<1>1. m.st = status[s]
  BY UpdatesTyped, Zenon DEF TypeOK
<1>2. /\ mem'[s] = d /\ queue'[s] = <<m>> /\ pc[s] = "off"
      /\ pc'[s] \in {"unpend", "idle"}
  BY DEF Respond, Goto, TypeOK
<1>3. Len(<<m>>) = 1 /\ <<m>>[1] = m
  BY Zenon
<1>4. /\ kind'[s] = kind[s] /\ status'[s] = status[s] /\ user'[s] = user[s]
      /\ boltz'[s] = boltz[s] /\ preimage'[s] = preimage[s] /\ data'[s] = data[s]
      /\ returned'[s] = returned[s] /\ pending' = pending /\ job'[s] = job[s]
  BY Zenon DEF legs
<1>5. Money(s)' = Money(s) /\ Moves(s)
  BY <1>4, Quiet, Zenon
<1>6. Phase(s)' /\ Side(s)'
  BY <1>4, Zenon DEF Deal, Phase, Side, Revealing
<1>7. Heard(s, status[s])
  BY Zenon DEF Heard
<1>8. HeardAll(s)'
  <2>1. Heard(s, d.last_state) /\ Heard(s, data[s].last_state) /\ Heard(s, job[s].st)
    BY <1>7, Zenon DEF Deal, HeardAll
  <2>2. \A i \in 1 .. Len(<<m>>) : Heard(s, <<m>>[i].st)
    <3>1. \A i \in 1 .. Len(<<m>>) : <<m>>[i] = m
      BY ONLY TRUE
    <3>. QED BY <1>1, <1>3, <1>7, <3>1, Zenon
  <2>3. \A x : Heard(s, x)' <=> Heard(s, x)
    BY <1>4, Zenon DEF Heard
  <2>. QED
    BY <1>2, <1>4, <2>1, <2>2, <2>3, Zenon DEF HeardAll
<1>9. Plain(s)' => Plain(s)
  BY <1>4 DEF Plain, Revealing, Belated
<1>10. ASSUME Plain(s)' PROVE Settled(s, d.last_state)
  <2>1. SUFFICES ASSUME s \notin pending, d.last_state = status[s], unlisted'[s] = TRUE,
                        status[s] \in RestoreAt
                 PROVE  Settled(s, status[s])
    BY Zenon
  <2>2. SUFFICES ASSUME Over(s, status[s]), status[s] # "SwapExpired"
                 PROVE  Money(s) \in {"mine", "received", "back"}
    BY Zenon DEF Settled
  <2>3. status[s] \notin Unresolved
    BY <1>10, <2>1 DEF Plain, Belated
  <2>4. status[s] \in {"TransactionDirect", "InvoiceSettled", "InvoiceExpired",
                       "TransactionClaimPending"}
    BY <2>2, <2>3, Zenon DEF Over, Done, Ending, Unresolved, Failed
  <2>5. /\ status[s] = "InvoiceSettled" => kind[s] = "reverse"
        /\ status[s] = "TransactionClaimPending" => kind[s] = "submarine"
    BY DEF Local, Lawful, Known, Done, Ending
  <2>6. ~Revealing(s)
    BY <1>9, <1>10 DEF Plain
  <2>7. boltz[s] = "claimed" \/ user[s] = "none"
    BY <2>4, <2>5, <2>6, Zenon DEF Deal, Phase, Side
  <2>. QED
    BY <2>7 DEF Money
<1>12. SettledAll(s)'
  <2>1. \A x : Plain(s)' /\ Settled(s, x) => Settled(s, x)'
    BY <1>4, <1>5, <1>9, Zenon DEF Settled, Over
  <2>2. \A x : Settled(s, x)' \/ Plain(s)'
    BY Zenon DEF Settled
  <2>3. Settled(s, mem[s].last_state)' /\ Settled(s, data[s].last_state)'
    BY <1>2, <1>4, <1>10, <2>1, <2>2, Zenon DEF Deal, SettledAll
  <2>. QED BY <1>2, <1>4, <2>3, Zenon DEF Deal, SettledAll
<1>11. Tasked(s)' /\ Listing(s)' /\ LockupKnown(s)'
  BY <1>2, <1>4, Zenon DEF Deal, Tasked, Listing, LockupKnown
<1>. QED
  BY <1>5, <1>6, <1>8, <1>11, <1>12, ZenonT(30) DEF Deal

\* Boltz moves a swap: where the two sides are then.
LEMMA ServerSides ==
    ASSUME TypeOK, NEW s \in Swap, Phase(s), Side(s), NEW to \in SwapState, NEW m,
           ServerStep(s, to, m)
    PROVE  /\ Phase(s)' /\ Side(s)'
           /\ boltz[s] = "claimed" => boltz'[s] = "claimed"
           /\ \/ Money(s)' = Money(s)
              \/ Money(s) = "staked" /\ Money(s)' = "received"
              \/ /\ Money(s) = "staked" /\ Money(s)' \in {"owed", "back"}
                 /\ ~Over(s, status[s])
<1>1. /\ kind'[s] = kind[s] /\ status'[s] = to /\ preimage'[s] = preimage[s]
      /\ user'[s] = UserAfter(s, to) /\ boltz'[s] = BoltzAfter(s, to)
      /\ UserAfter(s, to) # user[s] => user[s] = "locked"
      /\ BoltzAfter(s, to) = "refunded" => boltz[s] = "locked"
  BY DEF ServerStep, TypeOK
<1>2. /\ <<status[s], to>> \in Lifecycle(kind[s])
      /\ to = "TransactionMempool" => user[s] = "locked"
      /\ kind[s] = "reverse" /\ to \in {"TransactionDirect", "InvoiceExpired", "SwapExpired"}
            => user[s] = "none"
      /\ to \in {"InvoiceSettled", "TransactionClaimed"} => preimage[s] \/ kind[s] = "submarine"
  BY Zenon DEF ServerStep, MayFollow
<1>3. kind[s] \in {"submarine", "reverse", "chain"} /\ user[s] \in Leg /\ boltz[s] \in Leg
      /\ status[s] \in SwapState
  BY <1>2, LastStatus, SMTT(20) DEF TypeOK, Kind
<1>4. CASE kind[s] = "submarine"
  <2>1. /\ to \notin {"TransactionDirect", "InvoiceExpired", "InvoiceSettled",
                      "TransactionRefunded", "ServerTransactionMempool", "Initialized"}
        /\ to = "InvoicePaid" => status[s] = "InvoicePending"
        /\ to \in {"TransactionClaimPending", "TransactionClaimed"} =>
              status[s] \in {"InvoicePaid", "TransactionClaimPending"}
        /\ to \notin {"InvoicePaid", "TransactionClaimPending", "TransactionClaimed"} =>
              status[s] \in {"InvoiceSet", "TransactionMempool", "TransactionConfirmed",
                             "TransactionZeroconfRejected", "InvoicePending"}
        /\ status[s] = "InvoiceSet" => to \in {"TransactionMempool", "SwapExpired"}
    BY <1>2, <1>4 DEF Lifecycle
  <2>2. /\ user'[s] = IF to = "TransactionClaimed" THEN "claimed" ELSE user[s]
        /\ boltz'[s] = IF to = "InvoicePaid" THEN "claimed" ELSE boltz[s]
    BY <1>1, <1>4, <2>1, SMTT(20) DEF UserAfter, BoltzAfter
  <2>3. /\ user[s] # "claimed" /\ user[s] # "refunded"
        /\ status[s] # "InvoiceSet" => user[s] = "locked"
    <3>1. status[s] \in {"InvoiceSet", "TransactionMempool", "TransactionConfirmed",
             "TransactionZeroconfRejected", "InvoicePending", "InvoicePaid",
             "TransactionClaimPending"}
      BY <2>1, SMTT(20)
    <3>. QED
      BY <1>3, <3>1, Zenon DEF Phase, Failed, Leg
  <2>4. Side(s)'
    BY <1>1, <1>4, <2>1, <2>2, Zenon DEF Side, Revealing
  <2>5. Phase(s)'
    BY <1>1, <1>2, <1>3, <1>4, <2>1, <2>2, <2>3, ZenonT(30) DEF Phase, Side, Leg, Revealing
  <2>6. Money(s)' = Money(s) \/ (Money(s) = "staked" /\ Money(s)' = "received")
    BY <1>3, <1>4, <2>1, <2>2, <2>3 DEF Side, Money, Leg, Revealing
  <2>. QED
    BY <2>2, <2>4, <2>5, <2>6, Zenon
<1>5. CASE kind[s] = "reverse"
  <2>1. \/ status[s] = "SwapCreated" /\ to \in {"TransactionMempool", "TransactionDirect",
              "InvoiceExpired", "SwapExpired"}
        \/ status[s] = "TransactionMempool" /\ to = "TransactionConfirmed"
        \/ /\ status[s] \in {"TransactionMempool", "TransactionConfirmed"}
           /\ to \in {"InvoiceSettled", "TransactionRefunded"}
    BY <1>2, <1>5 DEF Lifecycle
  <2>2. /\ user'[s] = CASE to = "InvoiceSettled" -> "claimed"
                        [] to = "TransactionRefunded" -> "refunded"
                        [] OTHER -> user[s]
        /\ boltz'[s] = CASE to = "TransactionMempool" -> "locked"
                         [] to = "TransactionRefunded" -> "refunded"
                         [] OTHER -> boltz[s]
    BY <1>1, <1>5, <2>1 DEF UserAfter, BoltzAfter
  <2>3. ~Over(s, status[s])
    BY <1>5, <2>1, Zenon DEF Over, Done, Ending
  <2>4. user[s] \in {"none", "locked"} /\ (status[s] # "SwapCreated" => user[s] = "locked")
    BY <1>3, <2>1, Zenon DEF Phase, Failed, Leg
  <2>5. to = "InvoiceSettled" /\ ~Revealing(s) => boltz[s] = "claimed"
    BY <1>2, <1>5 DEF Side
  <2>6. status[s] = "SwapCreated" =>
           boltz[s] \in {"none", "refunded"} /\ (~Revealing(s) => ~preimage[s])
    BY <1>3, <1>5 DEF Side, Leg
  <2>7. CASE to \in {"TransactionDirect", "InvoiceExpired", "SwapExpired"}
    BY <1>1, <1>2, <1>5, <2>1, <2>2, <2>6, <2>7, ZenonT(30) DEF Phase, Side, Money, Revealing
  <2>8. CASE to \in {"TransactionMempool", "TransactionConfirmed"}
    BY <1>1, <1>2, <1>3, <1>5, <2>1, <2>2, <2>4, <2>6, <2>8, ZenonT(30) DEF Phase, Side, Money, Leg, Revealing
  <2>9. CASE to = "InvoiceSettled"
    <3>1. user[s] = "locked" /\ user'[s] = "claimed" /\ boltz'[s] = boltz[s]
      BY <2>1, <2>2, <2>4, <2>9
    <3>2. Phase(s)' /\ Side(s)'
      BY <1>1, <1>5, <2>5, <2>9, <3>1, ZenonT(30) DEF Phase, Side, Revealing
    <3>3. Money(s)' = Money(s) \/ (Money(s) = "staked" /\ Money(s)' = "owed")
      BY <3>1 DEF Money
    <3>. QED BY <2>3, <3>1, <3>2, <3>3
  <2>10. CASE to = "TransactionRefunded"
    <3>1. boltz[s] = "locked" /\ user[s] = "locked" /\ user'[s] = "refunded"
          /\ boltz'[s] = "refunded"
      BY <1>1, <2>1, <2>2, <2>4, <2>10, ZenonT(30)
    <3>2. Phase(s)' /\ Side(s)'
      BY <1>1, <1>5, <2>10, <3>1 DEF Phase, Side, Failed, Revealing
    <3>3. Money(s) = "staked" /\ Money(s)' = "back"
      BY <3>1 DEF Money
    <3>. QED
      BY <2>3, <3>1, <3>2, <3>3
  <2>. QED
    BY <2>1, <2>7, <2>8, <2>9, <2>10, Zenon
<1>6. CASE kind[s] = "chain"
  <2>1. \/ status[s] = "SwapCreated" /\ to \in {"TransactionMempool", "SwapExpired"}
        \/ /\ status[s] \in {"TransactionMempool", "TransactionConfirmed",
                             "TransactionZeroconfRejected"}
           /\ to \in {"TransactionConfirmed", "SwapExpired", "TransactionLockupFailed",
                      "TransactionZeroconfRejected", "TransactionFailed"}
        \/ status[s] = "TransactionConfirmed" /\ to = "ServerTransactionMempool"
        \/ /\ status[s] \in {"ServerTransactionMempool", "ServerTransactionConfirmed"}
           /\ to \in {"ServerTransactionConfirmed", "TransactionClaimed", "TransactionRefunded"}
    BY <1>2, <1>6 DEF Lifecycle
  <2>2. /\ user'[s] = IF to = "TransactionClaimed" THEN "claimed" ELSE user[s]
        /\ boltz'[s] = CASE to = "ServerTransactionMempool" -> "locked"
                         [] to = "TransactionRefunded" -> "refunded"
                         [] OTHER -> boltz[s]
    BY <1>1, <1>6, <2>1 DEF UserAfter, BoltzAfter
  <2>3. ~Over(s, status[s])
    BY <1>6, <2>1 DEF Over, Done, Ending
  <2>4. user[s] \in {"none", "locked"} /\ (status[s] # "SwapCreated" => user[s] = "locked")
    BY <1>3, <2>1, ZenonT(30) DEF Phase, Failed, Leg
  <2>5. status[s] \notin {"ServerTransactionMempool", "ServerTransactionConfirmed"}
           => boltz[s] \in {"none", "refunded"}
    BY <1>3, <1>6, <2>1 DEF Side, Leg, Revealing
  <2>. QED
    BY <1>1, <1>2, <1>6, <2>1, <2>2, <2>3, <2>4, <2>5, Zenon DEF Phase, Side, Money, Revealing
<1>. QED
  BY <1>3, <1>4, <1>5, <1>6, ZenonT(30)

\* Boltz moves a swap and tells the client, if there is one.
LEMMA ServerDeal ==
    ASSUME TypeOK, NEW s \in Swap, Local(s), Deal(s), NEW to \in SwapState,
           NEW m \in Updates(to), ServerStep(s, to, m)
    PROVE  Deal(s)' /\ Moves(s)
<1>1. /\ kind'[s] = kind[s] /\ status'[s] = to /\ queue'[s] = Delivered(s, m)
      /\ pc'[s] = pc[s] /\ job'[s] = job[s] /\ mem'[s] = mem[s] /\ data'[s] = data[s]
      /\ returned'[s] = returned[s] /\ unlisted'[s] = unlisted[s] /\ pending' = pending
  BY SMTT(20) DEF ServerStep, TypeOK, store, history
<1>2. <<status[s], to>> \in Lifecycle(kind[s]) /\ status[s] \in SwapState
      /\ kind[s] \in Kind \cup {"none"}
  BY DEF ServerStep, MayFollow, TypeOK
<1>3. /\ status[s] \notin Ending(kind[s]) /\ to # "Initialized"
      /\ status[s] \in {"TransactionClaimPending", "TransactionClaimed"} => to = "TransactionClaimed"
  BY <1>2, LastStatus, Zenon
<1>4. /\ Phase(s)' /\ Side(s)'
      /\ boltz[s] = "claimed" => boltz'[s] = "claimed"
      /\ \/ Money(s)' = Money(s)
         \/ Money(s) = "staked" /\ Money(s)' = "received"
         \/ Money(s) = "staked" /\ Money(s)' \in {"owed", "back"} /\ ~Over(s, status[s])
  BY ServerSides, Zenon DEF Deal
<1>5. \A x : Heard(s, x) => Heard(s, x)'
  BY <1>1, <1>3, Zenon DEF Heard
<1>6. HeardAll(s)'
  <2>. DEFINE H == {x \in SwapState : Heard(s, x)'}
  <2>1. m \in Message /\ m.st = to
    BY UpdatesTyped
  <2>2. Heard(s, to)'
    BY <1>1, Zenon DEF Heard
  <2>3. \A i \in 1 .. Len(queue[s]) : queue[s][i].st \in H
    <3>1. queue[s] \in Seq(Message) /\ \A i \in 1 .. Len(queue[s]) : Heard(s, queue[s][i].st)
      BY Zenon DEF TypeOK, Deal, HeardAll
    <3>2. \A i \in 1 .. Len(queue[s]) : queue[s][i] \in Message
      <4>1. queue[s] \in Seq(Message)
        BY <3>1
      <4>. QED BY ONLY <4>1
    <3>. QED
      BY <1>5, <3>1, <3>2 DEF Message
  <2>4. \A i \in 1 .. Len(Delivered(s, m)) : Delivered(s, m)[i].st \in H
    <3>1. to \in H
      BY <2>2
    <3>. HIDE DEF H
    <3>. QED
      BY <2>1, <2>3, <3>1, DeliveredHeard
  <2>5. (\A i \in 1 .. Len(queue[s]) : Heard(s, queue[s][i].st))'
    BY <1>1, <2>4, Zenon DEF Heard
  <2>6. Heard(s, mem[s].last_state)' /\ Heard(s, data[s].last_state)' /\ Heard(s, job[s].st)'
    BY <1>1, <1>5, Zenon DEF Deal, HeardAll
  <2>. QED
    BY <2>5, <2>6, Zenon DEF HeardAll
<1>7. SettledAll(s)'
  BY <1>1, <1>4, Zenon DEF Deal, SettledAll, Settled, Over, Plain, Revealing, Belated
<1>8. Tasked(s)' /\ LockupKnown(s)'
  BY <1>1, <1>3, Zenon DEF Deal, Tasked, LockupKnown, Over
<1>9. Listing(s)'
  <2>1. user[s] = "none" => user'[s] = "none"
    <3>1. user'[s] = UserAfter(s, to) /\ (UserAfter(s, to) # user[s] => user[s] = "locked")
      BY DEF ServerStep, TypeOK
    <3>. QED
      BY <3>1, Zenon
  <2>. QED
    BY <1>1, <2>1, Zenon DEF Deal, Listing
<1>10. Record(s)' = Record(s)
  BY <1>1, Zenon DEF Record
<1>11. Over(s, status[s]) \/ Record(s) # "closed"
  BY Zenon DEF Local, Recorded, Record, Over, Done
<1>. QED
  BY <1>4, <1>6, <1>7, <1>8, <1>9, <1>10, <1>11, ZenonT(30) DEF Deal, Moves, Promised

\* The elements of a sequence.
LEMMA Elements == ASSUME NEW S, NEW q \in Seq(S) PROVE \A i \in 1 .. Len(q) : q[i] \in S
  OBVIOUS

\* The client is told the present status again.
LEMMA ReconnectDeal ==
    ASSUME TypeOK, NEW s \in Swap, Deal(s), NEW m \in Updates(status[s]), Reconnect(s, m)
    PROVE  Deal(s)' /\ Moves(s)
<1>1. /\ kind'[s] = kind[s] /\ status'[s] = status[s] /\ user'[s] = user[s]
      /\ boltz'[s] = boltz[s] /\ preimage'[s] = preimage[s] /\ data'[s] = data[s]
      /\ returned'[s] = returned[s] /\ unlisted'[s] = unlisted[s] /\ pending' = pending
      /\ queue'[s] = Delivered(s, m) /\ job'[s] = job[s] /\ mem'[s] = mem[s] /\ pc'[s] = pc[s]
  BY DEF Reconnect, legs, store, history, TypeOK
<1>2. Money(s)' = Money(s) /\ Moves(s)
  BY <1>1, Quiet, Zenon
<1>3. HeardAll(s)'
  <2>. DEFINE H == {x \in SwapState : Heard(s, x)}
  <2>1. m \in Message /\ m.st = status[s] /\ status[s] \in SwapState /\ Heard(s, status[s])
    BY UpdatesTyped DEF TypeOK, Heard
  <2>2. \A i \in 1 .. Len(queue[s]) : queue[s][i].st \in H
    <3>1. queue[s] \in Seq(Message) /\ \A i \in 1 .. Len(queue[s]) : Heard(s, queue[s][i].st)
      BY Zenon DEF TypeOK, Deal, HeardAll
    <3>2. \A i \in 1 .. Len(queue[s]) : queue[s][i] \in Message
      BY <3>1, Elements, Zenon
    <3>. QED
      BY <3>1, <3>2, Zenon DEF Message
  <2>3. \A i \in 1 .. Len(Delivered(s, m)) : Delivered(s, m)[i].st \in H
    <3>0. status[s] \in H
      BY <2>1, Zenon
    <3>1. m.st \in H
      BY <2>1, <3>0, ZenonT(30)
    <3>. HIDE DEF H
    <3>. QED
      BY <2>1, <2>2, <3>1, DeliveredHeard, Zenon
  <2>4. \A x : Heard(s, x)' <=> Heard(s, x)
    BY <1>1, Zenon DEF Heard
  <2>. QED
    BY <1>1, <2>3, <2>4, ZenonT(30) DEF Deal, HeardAll
<1>4. Phase(s)' /\ Side(s)' /\ Tasked(s)' /\ Listing(s)' /\ LockupKnown(s)'
  <2>1. Phase(s)'
    BY <1>1, Zenon DEF Deal, Phase
  <2>2. Side(s)'
    BY <1>1, Zenon DEF Deal, Side, Revealing
  <2>3. Tasked(s)' /\ Listing(s)' /\ LockupKnown(s)'
    BY <1>1, Zenon DEF Deal, Tasked, Over, Listing, LockupKnown
  <2>. QED BY <2>1, <2>2, <2>3
<1>5. SettledAll(s)'
  BY <1>1, <1>2, Zenon DEF Deal, SettledAll, Settled, Over, Plain, Revealing, Belated
<1>. QED
  BY <1>2, <1>3, <1>4, <1>5 DEF Deal

\* The user pays the invoice or sends the lockup.
LEMMA StakeDeal ==
    ASSUME TypeOK, NEW s \in Swap, Local(s), Deal(s), Pay(s) \/ Lockup(s)
    PROVE  Deal(s)' /\ Moves(s)
<1>1. /\ kind'[s] = kind[s] /\ status'[s] = status[s] /\ boltz'[s] = boltz[s]
      /\ user[s] = "none" /\ user'[s] = "locked"
      /\ preimage'[s] = preimage[s] /\ data'[s] = data[s]
      /\ returned'[s] = returned[s] /\ unlisted'[s] = unlisted[s] /\ pending' = pending
      /\ queue'[s] = queue[s] /\ job'[s] = job[s] /\ mem'[s] = mem[s] /\ pc'[s] = pc[s]
  BY Zenon DEF Pay, Lockup, store, history, TypeOK
<1>2. ~Over(s, data[s].last_state) /\ ~Over(s, mem[s].last_state)
      /\ status[s] # "Initialized" /\ (returned[s] \/ unlisted[s])
  <2>1. CASE Pay(s)
    <3>1. status[s] = "SwapCreated" /\ kind[s] = "reverse" /\ returned[s]
      BY <2>1 DEF Pay
    <3>2. ~Over(s, status[s])
      BY <3>1 DEF Over, Done, Ending
    <3>3. ~Over(s, mem[s].last_state)
      BY <3>1 DEF Deal, HeardAll, Heard, Over, Done, Ending
    <3>. QED
      BY <3>1, <3>2, <3>3, Zenon DEF Local, Recorded
  <2>2. CASE Lockup(s)
    <3>1. pc[s] = "idle" /\ mem[s].last_state = First(kind[s])
      BY <2>2, Zenon DEF Lockup
    <3>2. ~Over(s, mem[s].last_state)
      BY <3>1, Statuses DEF Over, TypeOK
    <3>. QED
      BY <3>1, <3>2, HasKind, Zenon DEF Local, Recorded, Deal, Listing
  <2>. QED
    BY <2>1, <2>2
<1>3. status[s] \notin {"TransactionDirect", "InvoiceExpired"}
  <2>1. CASE Pay(s)
    BY <2>1, Zenon DEF Pay
  <2>2. CASE Lockup(s)
    BY <2>2 DEF Lockup, Local, Lawful, Known, Done, Ending
  <2>. QED
    BY <2>1, <2>2
<1>4. Money(s) = "mine" /\ Money(s)' = "staked" /\ boltz[s] = "none"
  BY <1>1, Zenon DEF Money, Deal, Phase
<1>5. Record(s)' = Record(s) /\ Record(s) \notin {"closed", "expired"}
  <2>1. "SwapExpired" \in Ending(kind[s])
    BY DEF Ending
  <2>. QED
    BY <1>1, <1>2, <2>1, Zenon DEF Record, Over, Done
<1>6. Phase(s)' /\ Side(s)'
  BY <1>1, <1>2, <1>3, <1>4, Zenon DEF Deal, Phase, Side, Revealing
<1>7. HeardAll(s)' /\ Tasked(s)' /\ Listing(s)' /\ LockupKnown(s)'
  <2>1. HeardAll(s)'
    BY <1>1, <1>2, ZenonT(30) DEF Deal, HeardAll, Heard
  <2>2. Tasked(s)' /\ Listing(s)' /\ LockupKnown(s)'
    BY <1>1, <1>2, Zenon DEF Deal, Tasked, Over, Listing, LockupKnown
  <2>. QED BY <2>1, <2>2
<1>8. SettledAll(s)'
  BY <1>1, <1>2, <1>4, Zenon DEF Deal, SettledAll, Settled, Over, Plain, Revealing, Belated
<1>. QED
  BY <1>4, <1>5, <1>6, <1>7, <1>8, Zenon DEF Deal, Moves, Promised

\* A swap is created: its first status is received, nothing is stored yet.
LEMMA CreateDeal ==
    ASSUME TypeOK, NEW s \in Swap, Local(s), Deal(s), Create(s)
    PROVE  Deal(s)' /\ Moves(s)
<1>1. /\ kind'[s] = kind[s] /\ user'[s] = user[s] /\ boltz'[s] = boltz[s]
      /\ preimage'[s] = preimage[s] /\ data'[s] = data[s]
      /\ returned'[s] = returned[s] /\ unlisted'[s] = unlisted[s] /\ pending' = pending
      /\ queue'[s] = queue[s] /\ job'[s] = job[s] /\ pc[s] = "off" /\ pc'[s] = "new"
      /\ status[s] = "Initialized" /\ status'[s] = First(kind[s]) /\ kind[s] # "none"
  BY DEF Create, Goto, store, history, TypeOK
<1>2. mem'[s].last_state = First(kind[s]) /\ ~mem'[s].claim_txid
  BY DEF Create, PreparePayData, InvoiceData, ChainSwapData, NewData, First, TypeOK
<1>3. /\ First(kind[s]) \in Known(kind[s]) /\ First(kind[s]) \notin Done(kind[s])
      /\ First(kind[s]) # "Initialized"
  BY Statuses DEF TypeOK
<1>4. kind[s] \in {"submarine", "reverse", "chain"}
  BY <1>1, Zenon DEF TypeOK, Kind
<1>5. First(kind[s]) \in {"InvoiceSet", "SwapCreated"}
  BY <1>4 DEF First
<1>6. user[s] = "none" /\ boltz[s] = "none" /\ ~unlisted[s] /\ s \notin pending
  BY <1>1, Zenon DEF Local, Begun, Deal, Phase
<1>7. Money(s)' = Money(s) /\ Moves(s)
  BY <1>1, Quiet, Zenon
<1>8. Phase(s)' /\ Side(s)'
  <2>1. kind[s] = "reverse" /\ ~Revealing(s) => ~preimage[s]
    BY <1>6, Zenon DEF Deal, Side
  <2>. QED
    BY <1>1, <1>5, <1>6, <2>1, Zenon DEF Phase, Side, Failed, Revealing
<1>9. HeardAll(s)'
  <2>1. \A x : Heard(s, x) => Heard(s, x)'
    <3>1. "Initialized" \notin Ending(kind[s])
      BY Statuses, Zenon DEF Done, TypeOK
    <3>. QED
      BY <1>1, <3>1, Zenon DEF Heard
  <2>2. Heard(s, mem[s].last_state)'
    BY <1>1, <1>2, <1>5, ZenonT(30) DEF Heard
  <2>3. Heard(s, data[s].last_state)' /\ Heard(s, job[s].st)'
    BY <1>1, <2>1 DEF Deal, HeardAll
  <2>4. (\A i \in 1 .. Len(queue[s]) : Heard(s, queue[s][i].st))'
    <3>1. "Initialized" \notin Ending(kind[s])
      BY Statuses DEF Done, TypeOK
    <3>. QED
      BY <1>1, <3>1, Zenon DEF Deal, HeardAll, Heard
  <2>. QED
    BY <2>2, <2>3, <2>4, Zenon DEF HeardAll
<1>10. SettledAll(s)'
  BY <1>1, <1>2, <1>3, <1>7, Zenon DEF Deal, SettledAll, Settled, Over, Plain, Revealing, Belated
<1>11. Tasked(s)' /\ Listing(s)' /\ LockupKnown(s)'
  BY <1>1, <1>2, <1>3, <1>6, Zenon DEF Deal, Tasked, Over, Listing, LockupKnown
<1>. QED
  BY <1>7, <1>8, <1>9, <1>10, <1>11, SMTT(20) DEF Deal

\* Data read back, with or without a txid learnt on the way.
LEMMA Reread ==
    ASSUME TypeOK, NEW s \in Swap, NEW d \in Fetched(data[s]) \cup {data[s]}
    PROVE  /\ d \in SwapData /\ d.last_state = data[s].last_state
           /\ d.claim_txid = data[s].claim_txid
           /\ data[s].lockup_txid => d.lockup_txid
<1>1. data[s] \in SwapData
  BY DEF TypeOK
<1>2. CASE d = data[s]
  BY <1>1, <1>2
<1>3. CASE d \in Fetched(data[s])
  <2>1. d \in SwapData /\ d.last_state = data[s].last_state
    BY <1>1, <1>3, LearnTyped
  <2>2. d.claim_txid = data[s].claim_txid /\ (data[s].lockup_txid => d.lockup_txid)
    BY <1>1, <1>3 DEF Fetched, Learn, SwapData
  <2>. QED
    BY <2>1, <2>2
<1>. QED
  BY <1>2, <1>3

\* A pending swap is restored from the store.
LEMMA RestoreDeal ==
    ASSUME TypeOK, NEW s \in Swap, Local(s), Deal(s), NEW m \in Updates(status[s]), Restore(s, m)
    PROVE  Deal(s)' /\ Moves(s)
<1>1. PICK d \in Fetched(data[s]) \cup {data[s]} : Respond(s, d, m)
  <2>1. \A x : \/ x \in restore_prepare_pay(s) \/ x \in restore_invoice(s) \/ x \in restore_lockup(s)
               => x \in Fetched(data[s]) \cup {data[s]}
    BY Zenon DEF restore_prepare_pay, restore_invoice, restore_lockup
  <2>. QED
    BY <2>1 DEF Restore
<1>2. /\ d \in SwapData /\ d.last_state = data[s].last_state
      /\ d.claim_txid = data[s].claim_txid /\ (data[s].lockup_txid => d.lockup_txid)
  BY Reread, Zenon
<1>3. /\ UNCHANGED <<kind, legs, job, data, pending, returned>>
      /\ unlisted'[s] = unlisted[s] /\ s \in pending
  BY ZenonT(30) DEF Restore, store, history
<1>4. Heard(s, d.last_state) /\ Settled(s, d.last_state)
  BY <1>2 DEF Deal, HeardAll, SettledAll
<1>. QED
  BY <1>1, <1>2, <1>3, <1>4, RespondDeal, Zenon

\* A swap is restored from Boltz's list.
LEMMA RestoreFromServerDeal ==
    ASSUME TypeOK, NEW s \in Swap, Local(s), Deal(s),
           NEW m \in Updates(status[s]), RestoreFromServer(s, m)
    PROVE  Deal(s)' /\ Moves(s)
<1>1. PICK d \in FromServer(s) : Respond(s, d, m)
  BY DEF RestoreFromServer
<1>2. d \in SwapData /\ d.last_state = status[s]
  BY FromServerTyped, Zenon
<1>3. ~d.claim_txid
  <2>1. NewData(status[s], FALSE).claim_txid = FALSE /\ NewData(status[s], FALSE) \in SwapData
    BY DEF NewData, SwapData, TypeOK
  <2>2. \E tx : d = Learn(NewData(status[s], FALSE), tx)
    BY Zenon DEF FromServer, ListedSubmarine, ListedReverse, ListedChain, Listed
  <2>. QED
    BY <2>1, <2>2, Zenon DEF Learn, SwapData
<1>4. /\ UNCHANGED <<kind, legs, job, data, pending, returned>>
      /\ unlisted'[s] = TRUE /\ s \notin pending /\ status[s] \in RestoreAt
  BY DEF RestoreFromServer, store, TypeOK
<1>. QED
  BY <1>1, <1>2, <1>3, <1>4, RespondDeal, Zenon

\* The store is lost.
LEMMA LoseStoreDeal ==
    ASSUME TypeOK, NEW s \in Swap, Local(s), Deal(s), LoseStore
    PROVE  Deal(s)' /\ Money(s)' = Money(s) /\ Record(s)' = "none"
<1>1. /\ kind'[s] = kind[s] /\ status'[s] = status[s] /\ user'[s] = user[s]
      /\ boltz'[s] = boltz[s] /\ preimage'[s] = preimage[s] /\ data'[s] = NoData
      /\ returned'[s] = returned[s] /\ unlisted'[s] = (status[s] # "Initialized")
      /\ pending' = {} /\ queue'[s] = queue[s] /\ job'[s] = job[s] /\ mem'[s] = mem[s]
      /\ pc[s] = "off" /\ pc'[s] = pc[s]
  BY DEF LoseStore, legs
<1>2. /\ Heard(s, NoData.last_state) /\ ~Over(s, NoData.last_state)
      /\ ~NoData.claim_txid /\ ~NoData.lockup_txid
  BY NothingSaid, Zenon
<1>3. Money(s)' = Money(s)
  BY <1>1 DEF Money
<1>4. Record(s)' = "none"
  <2>1. "SwapExpired" \in Ending(kind[s])
    BY DEF Ending
  <2>. QED
    BY <1>1, <1>2, <2>1 DEF Record, Over, Done
<1>5. Phase(s)' /\ Side(s)'
  BY <1>1, Zenon DEF Deal, Phase, Side, Revealing
<1>6. HeardAll(s)'
  BY <1>1, <1>2, Zenon DEF Deal, HeardAll, Heard
<1>7. SettledAll(s)'
  <2>1. Plain(s)' => Plain(s)
    <3>1. unlisted[s] => status[s] # "Initialized"
      BY Zenon DEF Local, Begun
    <3>. QED BY <1>1, <3>1 DEF Plain, Revealing, Belated
  <2>. QED
    BY <1>1, <1>2, <1>3, <2>1, Zenon DEF Deal, SettledAll, Settled, Over
<1>8. Tasked(s)' /\ Listing(s)' /\ LockupKnown(s)'
  BY <1>1, <1>2, Zenon DEF Deal, Tasked, Listing, LockupKnown, Phase
<1>. QED
  BY <1>3, <1>4, <1>5, <1>6, <1>7, <1>8 DEF Deal

-----------------------------------------------------------------------------
(* All swaps.                                                              *)

\* The txid of the lockup in the store, one step of one swap.
KeepsStored(s) ==
    data[s].lockup_txid /\ ~data'[s].lockup_txid =>
        unlisted'[s] \/ (kind[s] = "chain" /\ data'[s].last_state = "TransactionMempool")

\* Before any swap is created.
LEMMA InitDeal == Init => \A s \in Swap : Deal(s) /\ Money(s) = "mine" /\ Record(s) = "none"
<1>. SUFFICES ASSUME Init, NEW s \in Swap PROVE Deal(s) /\ Money(s) = "mine" /\ Record(s) = "none"
  OBVIOUS
<1>0. TypeOK
  BY InitTyped
<1>1. /\ status[s] = "Initialized" /\ user[s] = "none" /\ boltz[s] = "none" /\ preimage[s] = FALSE
      /\ queue[s] = <<>> /\ pc[s] = "off" /\ job[s] = NoJob /\ mem[s] = NoData /\ data[s] = NoData
      /\ pending = {} /\ returned[s] = FALSE /\ unlisted[s] = FALSE
  BY DEF Init
<1>2. /\ Heard(s, NoJob.st) /\ Heard(s, NoData.last_state)
      /\ ~Over(s, NoData.last_state) /\ ~NoData.claim_txid /\ ~NoData.lockup_txid
  BY <1>0, NothingSaid, Zenon
<1>3. Money(s) = "mine" /\ Record(s) = "none"
  <2>1. "SwapExpired" \in Ending(kind[s])
    BY DEF Ending
  <2>. QED
    BY <1>1, <1>2, <2>1 DEF Money, Record, Over, Done
<1>4. Phase(s) /\ Side(s)
  BY <1>1, Zenon DEF Phase, Side, Failed, Revealing
<1>5. HeardAll(s) /\ SettledAll(s)
  BY <1>1, <1>2 DEF HeardAll, SettledAll, Settled, Plain, Revealing, Belated
<1>6. Tasked(s) /\ Listing(s) /\ LockupKnown(s)
  BY <1>1, <1>2, Zenon DEF Tasked, Listing, LockupKnown
<1>. QED
  BY <1>3, <1>4, <1>5, <1>6 DEF Deal

\* A step of the handler of a swap.
LEMMA HandlerDeal ==
    ASSUME Inv, NEW s \in Swap, Deal(s), Handler(s)
    PROVE  Deal(s)' /\ Moves(s) /\ KeepsStored(s)
<1>. TypeOK /\ CopyFresh /\ Local(s)
  BY DEF Inv
<1>1. CASE Advance(s)
  <2>1. Deal(s)' /\ Money(s)' = Money(s) /\ Record(s)' = Record(s)
    BY <1>1, AdvanceDeal
  <2>2. data' = data
    BY <1>1, Zenon DEF Advance, store
  <2>. QED
    BY <2>1, <2>2, Zenon DEF Moves, Promised, KeepsStored
<1>2. CASE Broadcast(s)
  <2>1. /\ Deal(s)' /\ Record(s)' = Record(s)
        /\ \/ Money(s) \in {"staked", "owed"} /\ Money(s)' = "received"
           \/ Money(s) = "staked" /\ Money(s)' = "back"
    BY <1>2, BroadcastDeal, SMTT(20)
  <2>2. Plain(s)' /\ Record(s) = "closed" => Money(s) # "staked"
    <3>1. kind'[s] = kind[s] /\ unlisted'[s] = unlisted[s]
      BY <1>2 DEF Broadcast, history
    <3>2. Plain(s)' <=> Plain(s)
      BY <3>1 DEF Plain, Revealing, Belated
    <3>. QED BY <3>2 DEF Record, Deal, SettledAll, Settled, Over, Done
  <2>3. data' = data
    BY <1>2 DEF Broadcast, store
  <2>. QED
    BY <2>1, <2>2, <2>3 DEF Moves, Promised, KeepsStored
<1>3. CASE BroadcastFails(s)
  <2>1. data' = data
    BY <1>3 DEF BroadcastFails, store
  <2>. QED
    BY <1>3, <2>1, BroadcastFailsDeal DEF KeepsStored
<1>4. CASE Persist(s)
  <2>1. data'[s] = mem[s] /\ unlisted'[s] = unlisted[s] /\ pc[s] \in {"new", "persist"}
    BY <1>4, ZenonT(30) DEF Persist, history, TypeOK
  <2>2. KeepsStored(s)
    BY <2>1, SMTT(20) DEF KeepsStored, Deal, LockupKnown
  <2>. QED
    BY <1>4, <2>2, PersistDeal, SMTT(20)
<1>5. CASE ReadList(s)
  <2>1. data' = data
    BY <1>5 DEF ReadList, store
  <2>. QED
    BY <1>5, <2>1, ReadListDeal DEF KeepsStored
<1>6. CASE WriteList(s)
  <2>1. data' = data
    BY <1>6 DEF WriteList
  <2>. QED
    BY <1>6, <2>1, WriteListDeal DEF KeepsStored
<1>7. CASE Timeout(s)
  <2>1. /\ kind'[s] = kind[s] /\ status'[s] = status[s] /\ user'[s] = user[s]
        /\ boltz'[s] = boltz[s] /\ preimage'[s] = preimage[s] /\ data' = data
        /\ returned'[s] = returned[s] /\ unlisted'[s] = unlisted[s] /\ pending' = pending
        /\ mem'[s] = NoData /\ pc'[s] = "off" /\ queue'[s] = queue[s] /\ job'[s] = job[s]
    BY <1>7 DEF Timeout, Goto, legs, store, history, TypeOK
  <2>. QED
    BY <2>1, GoneDeal, Zenon DEF KeepsStored
<1>8. ASSUME NEW m \in Updates(status[s]), Restore(s, m)
      PROVE  Deal(s)' /\ Moves(s) /\ KeepsStored(s)
  <2>1. data' = data
    BY <1>8 DEF Restore, store
  <2>. QED
    BY <1>8, <2>1, RestoreDeal, Zenon DEF KeepsStored
<1>. QED
  BY <1>1, <1>2, <1>3, <1>4, <1>5, <1>6, <1>7, <1>8, Zenon DEF Handler

\* A step of Boltz, of the user or of the application.
LEMMA EnvironmentDeal ==
    ASSUME Inv, NEW s \in Swap, Deal(s), Environment(s)
    PROVE  Deal(s)' /\ Moves(s) /\ KeepsStored(s)
<1>. TypeOK /\ Local(s)
  BY DEF Inv
<1>1. ASSUME NEW to \in SwapState, NEW m \in Updates(to), ServerStep(s, to, m)
      PROVE  Deal(s)' /\ Moves(s) /\ KeepsStored(s)
  BY <1>1, ServerDeal, Zenon DEF ServerStep, store, KeepsStored
<1>2. ASSUME NEW m \in Updates(status[s]), Reconnect(s, m)
      PROVE  Deal(s)' /\ Moves(s) /\ KeepsStored(s)
  BY <1>2, ReconnectDeal, Zenon DEF Reconnect, store, KeepsStored
<1>3. CASE Pay(s) \/ Lockup(s)
  BY <1>3, StakeDeal, Zenon DEF Pay, Lockup, store, KeepsStored
<1>4. CASE Create(s)
  BY <1>4, CreateDeal, Zenon DEF Create, store, KeepsStored
<1>5. CASE SetLockupTxid(s)
  BY <1>5, SetLockupTxidDeal, Zenon DEF KeepsStored
<1>6. ASSUME NEW m \in Updates(status[s]), RestoreFromServer(s, m)
      PROVE  Deal(s)' /\ Moves(s) /\ KeepsStored(s)
  BY <1>6, RestoreFromServerDeal, Zenon DEF RestoreFromServer, store, KeepsStored
<1>. QED
  BY <1>1, <1>2, <1>3, <1>4, <1>5, <1>6, SMTT(20) DEF Environment

\* What a step does to all swaps: it moves at most one, or loses the store.
OneMoves ==
    \/ \E s \in Swap : Moves(s) /\ \A o \in Swap \ {s} : Money(o)' = Money(o) /\ Record(o)' = Record(o)
    \/ \A o \in Swap : Money(o)' = Money(o) /\ Record(o)' = Record(o)
    \/ \A o \in Swap : Money(o)' = Money(o) /\ Record(o)' = "none"

\* Every step of a session on one thread keeps Deal and moves as SwapPromise allows.
LEMMA DealStep ==
    ASSUME ~Parallel, Inv, \A s \in Swap : Deal(s), [Next]_vars
    PROVE  (\A s \in Swap : Deal(s)') /\ OneMoves /\ (\A s \in Swap : KeepsStored(s))
<1>. TypeOK
  BY DEF Inv
<1>1. CASE Crash
  <2>1. ASSUME NEW s \in Swap
        PROVE  Deal(s)' /\ Money(s)' = Money(s) /\ Record(s)' = Record(s) /\ KeepsStored(s)
    <3>1. /\ kind'[s] = kind[s] /\ status'[s] = status[s] /\ user'[s] = user[s]
          /\ boltz'[s] = boltz[s] /\ preimage'[s] = preimage[s] /\ data' = data
          /\ returned'[s] = returned[s] /\ unlisted'[s] = unlisted[s] /\ pending' = pending
          /\ mem'[s] = NoData /\ pc'[s] = "off" /\ queue'[s] = <<>> /\ job'[s] = NoJob
      BY <1>1 DEF Crash, legs, store
    <3>. QED
      BY <3>1, GoneDeal, Zenon DEF KeepsStored
  <2>. QED
    BY <2>1 DEF OneMoves
<1>2. CASE LoseStore
  <2>1. ASSUME NEW s \in Swap
        PROVE  Deal(s)' /\ Money(s)' = Money(s) /\ Record(s)' = "none" /\ KeepsStored(s)
    <3>1. unlisted'[s] = (status[s] # "Initialized")
      BY <1>2 DEF LoseStore
    <3>2. KeepsStored(s)
      BY <3>1, Zenon DEF KeepsStored, Deal, LockupKnown
    <3>. QED
      BY <1>2, <3>2, LoseStoreDeal DEF Inv
  <2>. QED
    BY <2>1 DEF OneMoves
<1>3. ASSUME NEW s \in Swap, Handler(s) \/ Environment(s)
      PROVE  (\A o \in Swap : Deal(o)') /\ OneMoves /\ (\A o \in Swap : KeepsStored(o))
  <2>1. Deal(s)' /\ Moves(s) /\ KeepsStored(s)
    BY <1>3, HandlerDeal, EnvironmentDeal, SMTT(20)
  <2>2. \A o \in Swap \ {s} : Same(o)
    BY <1>3, HandlerStep, EnvironmentStep
  <2>3. ASSUME NEW o \in Swap \ {s}
        PROVE  Deal(o)' /\ Money(o)' = Money(o) /\ Record(o)' = Record(o) /\ KeepsStored(o)
    BY <2>2, DealFrame, Zenon DEF KeepsStored, Same, Alike
  <2>. QED
    BY <2>1, <2>3 DEF OneMoves
<1>4. CASE UNCHANGED vars
  <2>1. ASSUME NEW o \in Swap
        PROVE  Deal(o)' /\ Money(o)' = Money(o) /\ Record(o)' = Record(o) /\ KeepsStored(o)
    <3>1. Same(o) /\ data' = data
      BY <1>4, Zenon DEF vars, Same, Alike, legs, store, history
    <3>. QED
      BY <3>1, DealFrame, Zenon DEF KeepsStored
  <2>. QED
    BY <2>1 DEF OneMoves
<1>. QED
  BY <1>1, <1>2, <1>3, <1>4 DEF Next

-----------------------------------------------------------------------------
(* The theorems.                                                           *)

AllDeal == Inv /\ \A s \in Swap : Deal(s)

\* Inv and Deal together are inductive.
LEMMA AllDealStep ==
    ASSUME ~Parallel
    PROVE  /\ Init => AllDeal
           /\ AllDeal /\ [Next]_vars => AllDeal'
<1>1. Init => AllDeal
  BY InitInv, InitDeal DEF AllDeal
<1>2. ASSUME AllDeal, [Next]_vars PROVE AllDeal'
  BY <1>2, InvStep, DealStep, SMTT(20) DEF AllDeal
<1>. QED
  BY <1>1, <1>2

\* One swap's move is a step of SwapPromise.
LEMMA MoveIsPromised ==
    ASSUME NEW s \in Swap, Plain(s)', Moves(s),
           \A o \in Swap \ {s} : Money(o)' = Money(o) /\ Record(o)' = Record(o)
    PROVE  [Promise!Next]_(Promise!vars)
<1>. DEFINE money == [o \in Swap |-> Money(o)]
            record == [o \in Swap |-> Record(o)]
<1>1. money[s] = Money(s) /\ record[s] = Record(s)
  OBVIOUS
<1>2. money' = [money EXCEPT ![s] = Money(s)'] /\ record' = [record EXCEPT ![s] = Record(s)']
  BY Zenon
<1>3. /\ Money(s)' = Money(s) => money' = money
      /\ Record(s)' = Record(s) => record' = record
  BY <1>1, <1>2, SMTT(20)
<1>. HIDE DEF money, record
<1>4. CASE Money(s)' = Money(s) /\ Record(s)' = Record(s)
  BY <1>3, <1>4 DEF Promise!vars, money, record
<1>5. CASE Record(s)' = Record(s) /\ Money(s)' # Money(s)
  <2>1. \/ Record(s) \notin {"closed", "expired"} /\ Money(s) = "mine" /\ Money(s)' = "staked"
        \/ Record(s) # "closed" /\ Money(s) = "staked" /\ Money(s)' = "owed"
        \/ Record(s) # "closed" /\ Money(s) = "staked" /\ Money(s)' = "back"
        \/ Money(s) \in {"staked", "owed"} /\ Money(s)' = "received"
    BY <1>5 DEF Moves, Promised
  <2>2. record' = record
    BY <1>3, <1>5
  <2>3. \/ record[s] \notin {"closed", "expired"} /\ money[s] \in {"mine"} /\ money' = [money EXCEPT ![s] = "staked"]
        \/ record[s] # "closed" /\ money[s] \in {"staked"} /\ money' = [money EXCEPT ![s] = "owed"]
        \/ record[s] # "closed" /\ money[s] \in {"staked"} /\ money' = [money EXCEPT ![s] = "back"]
        \/ money[s] \in {"staked", "owed"} /\ money' = [money EXCEPT ![s] = "received"]
    BY <1>1, <1>2, <2>1, ZenonT(30)
  <2>4. Promise!Stake(s) \/ Promise!Taken(s) \/ Promise!Refund(s) \/ Promise!Receive(s)
    BY <2>2, <2>3, SMTT(20) DEF Promise!Stake, Promise!Taken, Promise!Refund, Promise!Receive,
                      Promise!Becomes, money, record
  <2>. QED
    BY <2>4, SMTT(20) DEF Promise!Next
<1>6. CASE Money(s)' = Money(s) /\ Record(s)' # Record(s)
  <2>1. \/ Record(s) = "none" /\ Record(s)' = "open"
        \/ /\ Record(s) \in {"none", "open"} /\ Money(s) \in {"mine", "received", "back"}
           /\ Record(s)' = "closed"
        \/ Record(s) \in {"none", "open"} /\ Money(s) \in {"mine", "staked"} /\ Record(s)' = "expired"
    BY <1>6 DEF Moves, Promised
  <2>2. money' = money
    BY <1>3, <1>6
  <2>3. \/ record[s] = "none" /\ record' = [record EXCEPT ![s] = "open"]
        \/ /\ record[s] \in {"none", "open"} /\ money[s] \in {"mine", "received", "back"}
           /\ record' = [record EXCEPT ![s] = "closed"]
        \/ /\ record[s] \in {"none", "open"} /\ money[s] \in {"mine", "staked"}
           /\ record' = [record EXCEPT ![s] = "expired"]
    BY <1>1, <1>2, <2>1, ZenonT(30)
  <2>4. Promise!Open(s) \/ Promise!Close(s) \/ Promise!Expire(s)
    BY <2>2, <2>3 DEF Promise!Open, Promise!Close, Promise!Expire, money, record
  <2>. QED
    BY <2>4, SMTT(20) DEF Promise!Next
<1>. QED
  BY <1>4, <1>5, <1>6, SMTT(20) DEF Moves, Promised

\* A step that moves a swap for which SwapPromise may be broken, and no other: a
\* reverse swap whose claim reveals the preimage, or one that may have been
\* restored from Boltz's list too late.
Strays(s) ==
    /\ ~Plain(s)'
    /\ \A o \in Swap \ {s} : Money(o)' = Money(o) /\ Record(o)' = Record(o)

\* However late, repeated or lost the updates are and wherever the process stops,
\* when the handlers run on one thread: every step of the code is a step of
\* SwapPromise, or one of a single swap that is not plain.
THEOREM PromiseKept ==
    ASSUME ~Parallel
    PROVE  Spec => /\ Promise!Init
                   /\ [][[Promise!Next]_(Promise!vars) \/ \E s \in Swap : Strays(s)]_vars
<1>1. Init => Promise!Init
  BY InitDeal DEF Promise!Init
<1>2. ASSUME AllDeal, [Next]_vars
      PROVE  [Promise!Next]_(Promise!vars) \/ \E s \in Swap : Strays(s)
  <2>1. OneMoves
    BY <1>2, DealStep DEF AllDeal
  <2>2. ASSUME NEW s \in Swap, Moves(s),
               \A o \in Swap \ {s} : Money(o)' = Money(o) /\ Record(o)' = Record(o)
        PROVE  [Promise!Next]_(Promise!vars) \/ Strays(s)
    BY <2>2, MoveIsPromised, Zenon DEF Strays
  <2>3. CASE \A o \in Swap : Money(o)' = Money(o) /\ Record(o)' = Record(o)
    BY <2>3 DEF Promise!vars
  <2>4. CASE \A o \in Swap : Money(o)' = Money(o) /\ Record(o)' = "none"
    BY <2>4 DEF Promise!Next, Promise!Forget
  <2>. QED
    BY <2>1, <2>2, <2>3, <2>4, Zenon DEF OneMoves
<1>3. Init => AllDeal
  BY AllDealStep
<1>4. AllDeal /\ [Next]_vars => AllDeal'
  BY AllDealStep
<1>. QED
  BY <1>1, <1>2, <1>3, <1>4, PTL DEF Spec

\* When Boltz has taken the user's lockup and the user has nothing yet, the swap
\* is in the pending list, so that a restart finds it and claims: unless the claim
\* of a reverse swap has told Boltz the preimage and the broadcast has failed.
THEOREM OwedStaysPending ==
    ASSUME ~Parallel
    PROVE  Spec => [](\A s \in Swap :
                        Money(s) = "owed" /\ ~unlisted[s] /\ ~Revealing(s) => s \in pending)
<1>1. ASSUME AllDeal, NEW s \in Swap, Money(s) = "owed", ~unlisted[s], ~Revealing(s)
      PROVE  s \in pending
  <2>1. Local(s) /\ Deal(s) /\ TypeOK
    BY <1>1 DEF AllDeal, Inv
  <2>2. user[s] = "claimed"
    BY <1>1, ZenonT(30) DEF Money
  <2>3. returned[s]
    BY <1>1, <2>1, <2>2, SMTT(20) DEF Deal, Listing
  <2>4. data[s].last_state # "SwapExpired"
    <3>1. "SwapExpired" \in Ending(kind[s])
      BY DEF Ending
    <3>. QED
      BY <2>1, <2>2, <3>1, Zenon DEF Deal, HeardAll, Heard, Phase
  <2>5. ~Over(s, data[s].last_state)
    BY <1>1, <2>1, <2>4, Zenon DEF Deal, SettledAll, Settled, Plain, Belated
  <2>. QED
    BY <1>1, <2>1, <2>3, <2>5, SMTT(20) DEF Local, Kept
<1>2. AllDeal => \A s \in Swap :
                   Money(s) = "owed" /\ ~unlisted[s] /\ ~Revealing(s) => s \in pending
  BY <1>1, Zenon
<1>3. Init => AllDeal
  BY AllDealStep
<1>4. AllDeal /\ [Next]_vars => AllDeal'
  BY AllDealStep
<1>. QED
  BY <1>2, <1>3, <1>4, PTL DEF Spec

\* The store forgets the txid of a lockup only when a mempool update of a chain
\* swap carries none, or with the whole store.
THEOREM LockupTxidKept ==
    ASSUME ~Parallel
    PROVE  Spec => KeepsLockupTxid
<1>1. ASSUME AllDeal, [Next]_vars
      PROVE  [\A s \in Swap :
                data[s].lockup_txid /\ ~data'[s].lockup_txid =>
                    unlisted'[s] \/ (kind[s] = "chain" /\ data'[s].last_state = "TransactionMempool")
             ]_vars
  BY <1>1, DealStep DEF AllDeal, KeepsStored
<1>3. Init => AllDeal
  BY AllDealStep
<1>4. AllDeal /\ [Next]_vars => AllDeal'
  BY AllDealStep
<1>. QED
  BY <1>1, <1>3, <1>4, PTL DEF Spec, KeepsLockupTxid

=============================================================================
