------------------------------ MODULE FeeRescue ------------------------------
(***************************************************************************)
(* A wallet that builds transactions on top of its unconfirmed ones, and   *)
(* rescues those that are stuck: the builders bump_fee_of, replace_tx_of   *)
(* and cpfp_of of lwk_wollet/src/wollet.rs, composed with TxBuilder and    *)
(* with the mempool of the node.                                           *)
(*                                                                         *)
(* The wallet is taken to have scanned the mempool before each build.  A   *)
(* call that fails changes nothing, so the behaviour ends there: what      *)
(* could follow starts from the state before it as well.  Recipients and   *)
(* issuances are explicit; bump_fee_of refuses confidential ones.          *)
(***************************************************************************)
EXTENDS TxBuilder

CONSTANTS
    Funds,      \* the wallet's confirmed coins
    Foreign,    \* confirmed coins of others that callers add to a transaction
    Incoming,   \* unconfirmed transactions the wallet has received
    Order,      \* what callers ask for
    MaxTx       \* bound: transactions

ASSUME FundsAssumption == Funds \subseteq {c \in Coin : c.tx = 0} /\ IsFiniteSet(Funds)
ASSUME ForeignAssumption == Foreign \subseteq {c \in Coin : c.tx = 0} /\ Foreign \cap Funds = {}
ASSUME IncomingAssumption ==
    /\ Incoming \in Seq([ins : SUBSET Coin, live : BOOLEAN,
                         outs : Seq([asset : Asset, amount : Nat, to : STRING])])
    /\ \A n \in DOMAIN Incoming : Incoming[n].ins = {}
ASSUME OrderAssumption ==
    \A o \in Order : o \in Builder /\ Range(o.external) \subseteq Foreign /\ o.avoid = {}
ASSUME MaxTxAssumption == MaxTx \in Nat

VARIABLES
    txs,        \* transactions of the wallet: [ins, outs, live]
    purpose     \* of the build: [kind, of]

vars == <<builderVars, txs, purpose>>

Owned == {"change", "own", "issued"}

\* The outputs of a transaction that are the wallet's, and those on its internal
\* chain.
Outs(n, kinds) ==
    {[tx |-> n, vout |-> v, asset |-> txs[n].outs[v].asset, value |-> txs[n].outs[v].amount] :
        v \in {w \in DOMAIN txs[n].outs : txs[n].outs[w].to \in kinds}}
Live == {n \in DOMAIN txs : txs[n].live}
Spent == UNION {txs[n].ins : n \in Live}

\* Mutant: outputs spent by unconfirmed transactions are unspent.
UnspentConfirmed == Funds \cup UNION {Outs(n, Owned) : n \in Live}

\* cache.unspent() after a scan
Unspent == (Funds \cup UNION {Outs(n, Owned) : n \in Live}) \ Spent

Init ==
    /\ txs = Incoming /\ purpose = [kind |-> "none", of |-> 0]
    /\ utxos = Unspent /\ req = NoRequest /\ pc = "idle"
    /\ Blank

-----------------------------------------------------------------------------
(* The builders.                                                           *)

\* The order on top of the builder's own choices: add_external_utxos extends.
With(order, pins, avoid) ==
    [order EXCEPT !.external = pins \o @, !.avoid = avoid]

\* Callers add coins that no unconfirmed transaction of the wallet spends, but for
\* the one that is replaced.
Free(order, replaced) ==
    \A m \in Live \ replaced : txs[m].ins \cap Range(order.external) = {}

Start(kind, n, r) ==
    /\ req' = r /\ purpose' = [kind |-> kind, of |-> n]
    /\ pc' = "begin"
    /\ UNCHANGED <<utxos, building, txs>>

Send(order) == Free(order, {}) /\ Start("send", 0, order)

\* repin_wallet_inputs: the wallet's inputs of n, pinned, and n's outputs avoided.
\* It fails if none of the inputs is the wallet's.
Mine(n) == txs[n].ins \ Foreign
Repin(order, n) == With(order, InOrder(Mine(n)), Outs(n, Owned))

\* replace_tx_of
Replace(order, n) ==
    Mine(n) # {} /\ Free(order, {n}) /\ Start("replace", n, Repin(order, n))

\* Mutant: only what went to others is sent again.
GenuineOthers(n) == {v \in DOMAIN txs[n].outs : txs[n].outs[v].to = "recipient"}

\* The outputs that bump_fee_of sends again: not the fee, not our own change.
Genuine(n) == {v \in DOMAIN txs[n].outs : txs[n].outs[v].to \notin {"fee", "change"}}

Paid(n) ==
    [a \in Asset |->
        FoldSet(LAMBDA v, sum : txs[n].outs[v].amount + sum, 0,
                {v \in Genuine(n) : txs[n].outs[v].asset = a})]

\* bump_fee_of; the order only brings the fee asset, and coins
Bump(order, n) ==
    /\ Mine(n) # {} /\ Free(order, {n}) /\ ~order.manual /\ order.issuance.kind = "none"
    /\ order.out = NoRequest.out
    /\ Start("bump", n, [Repin(order, n) EXCEPT
            !.out = Paid(n),
            !.own = {txs[n].outs[v].asset :
                        v \in {w \in Genuine(n) : txs[n].outs[w].to # "recipient"}}])

\* cpfp_spendable_outpoint: the first output on the internal chain, else the first
\* of the wallet's.  It may have been spent.
First(coins) == {c \in coins : \A d \in coins : c.vout <= d.vout}
Spendable(n) ==
    IF Outs(n, {"change"}) # {} THEN First(Outs(n, {"change"})) ELSE First(Outs(n, Owned))

\* cpfp_of
Cpfp(order, n) ==
    /\ Free(order, {})
    /\ \E c \in Spendable(n) : Start("cpfp", n, With(order, <<c>>, {}))

-----------------------------------------------------------------------------
(* The node.                                                               *)

\* Unconfirmed transactions that spend what the built one spends, and they with
\* all that depends on them.
Clash == {n \in Live : txs[n].ins \cap Range(inputs) # {}}
Children(ns) == {m \in Live : \E c \in txs[m].ins : c.tx \in ns}
grow[k \in 0 .. MaxTx] == IF k = 0 THEN Clash ELSE grow[k - 1] \cup Children(grow[k - 1])
Gone == grow[MaxTx]

Balances == \A a \in Asset : Amount(outputs, a) = minted[a] + Worth(inputs, a)

\* The node takes the transaction, in place of those it conflicts with, and the
\* wallet scans.
Broadcast ==
    /\ pc = "built" /\ Balances /\ IsInjective(inputs)
    /\ \A i \in DOMAIN inputs : inputs[i].tx \notin Gone
    /\ txs' = Append([n \in DOMAIN txs |-> [txs[n] EXCEPT !.live = @ /\ n \notin Gone]],
                     [ins |-> Range(inputs), outs |-> outputs, live |-> TRUE])
    /\ utxos' = Unspent'
    /\ purpose' = [kind |-> "none", of |-> 0] /\ req' = NoRequest /\ pc' = "idle"
    /\ Reset

Ask ==
    /\ pc = "idle" /\ Len(txs) < MaxTx
    /\ \E order \in Order :
        \/ Send(order)
        \/ \E n \in Live : Replace(order, n) \/ Bump(order, n) \/ Cpfp(order, n)

Next ==
    \/ Ask
    \/ Build /\ UNCHANGED <<txs, purpose>>
    \/ Broadcast

Spec == Init /\ [][Next]_vars

-----------------------------------------------------------------------------
(* Properties.                                                             *)

TypeOK ==
    /\ BuilderTypeOK
    /\ \A n \in DOMAIN txs : txs[n].ins \subseteq Coin /\ txs[n].live \in BOOLEAN
    /\ purpose.kind \in {"none", "send", "replace", "bump", "cpfp"}
    /\ purpose.of \in 0 .. Len(txs)

\* An output of the transaction that is being rescued has been spent since by
\* another one of the wallet's.
SpentSince ==
    purpose.kind # "send" /\ \E m \in Live : \E c \in txs[m].ins : c.tx = purpose.of

\* A replacement or a bump conflicts with the transaction it replaces and with no
\* other; a payment, or a child that pays for its parent, conflicts with nothing.
\* Excepted is a child of a parent whose output was spent since: cpfp_of pins that
\* output whether it is spent or not.
ConflictsAsMeant ==
    pc = "built" =>
        CASE purpose.kind \in {"replace", "bump"} -> Clash = {purpose.of}
          [] purpose.kind = "send" -> Clash = {}
          [] purpose.kind = "cpfp" -> Clash = {} \/ SpentSince

\* A built transaction spends no output of a transaction that it evicts (rule 2 of
\* BIP125: "the replacement can't spend one and become a descendant of the tx it
\* replaces").  Excepted is the rescue of a transaction whose outputs were spent
\* since: avoid_utxos holds the outputs of the replaced transaction but not those
\* of its descendants.
Relayable ==
    pc = "built" /\ ~SpentSince => \A i \in DOMAIN inputs : inputs[i].tx \notin Gone

\* A bump sends what the original sent, to the same side ("so the same payment goes
\* through at a higher fee"): of every asset as much to others, and as much to the
\* wallet's own addresses.  The change and the fee are what it may alter.
BumpPaysSame ==
    pc = "built" /\ purpose.kind = "bump" =>
        \A a \in Asset, theirs \in BOOLEAN :
            LET wanted(o) == o.asset = a /\ o.to \notin {"fee", "change"}
                             /\ (o.to = "recipient" <=> theirs)
            IN  Amount(SelectSeq(outputs, wanted), a)
                  = Amount(SelectSeq(txs[purpose.of].outs, wanted), a)

=============================================================================
