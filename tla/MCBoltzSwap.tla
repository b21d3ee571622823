---------------------------- MODULE MCBoltzSwap ------------------------------
(* Instances: one swap of each kind with everything that may go wrong, and   *)
(* two reverse swaps that share the store.                                   *)
EXTENDS BoltzSwap, TLC

CONSTANTS s1, s2

McSwap == {s1, s2}

Alone == {[kind |-> s1 :> k @@ s2 :> "none", budget |-> b] : k \in Kind,
            b \in {[crash |-> 2, fail |-> 1, dup |-> 0, lose |-> 0],
                   [crash |-> 1, fail |-> 0, dup |-> 1, lose |-> 1]}}

Together == {[kind |-> s1 :> "reverse" @@ s2 :> "reverse",
              budget |-> [crash |-> 0, fail |-> 0, dup |-> 0, lose |-> 0]]}

Both == Alone \cup Together

OneReverse == {i \in Alone : i.kind[s1] = "reverse"}

McRestoreAt == {"InvoiceSet", "SwapCreated", "TransactionMempool",
    "TransactionConfirmed", "ServerTransactionMempool", "ServerTransactionConfirmed"}

=============================================================================
