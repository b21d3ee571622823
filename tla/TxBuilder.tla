------------------------------ MODULE TxBuilder ------------------------------
(***************************************************************************)
(* Building one transaction (TxBuilder::finish_inner of                    *)
(* lwk_wollet/src/tx_builder.rs, with the feature `sequentia`): coin       *)
(* selection per asset, change, issuance, and a fee that is known only     *)
(* once the transaction has been weighed, in the policy asset or in        *)
(* another one at the node's rate.  The code iterates maps and sets, whose *)
(* order is arbitrary.                                                     *)
(*                                                                         *)
(* An output is an asset, an amount and whom it goes to.  The recipients   *)
(* of one asset are one output.  The weight of a transaction is its number *)
(* of inputs and outputs.  Blinding is left out.                           *)
(***************************************************************************)
EXTENDS Integers, Sequences, FiniteSets, FiniteSetsExt, Functions

CONSTANTS
    Asset,
    Policy,         \* the policy asset
    Token,          \* the reissuance token of
    Reissued,       \* this asset
    Issued,         \* what a new issuance creates, and
    IssuedToken,    \* its token
    None,
    MaxInputs,      \* SECP256K1_SURJECTIONPROOF_MAX_N_INPUTS
    FeeRate,        \* per unit of weight, in the policy asset
    Scale,          \* unit of the exchange rates, 10^8 in the code
    DustValue,      \* dust threshold in the policy asset, 294 in the code
    U64             \* 2^64

ASSUME AssetAssumption ==
    {Policy, Token, Reissued, Issued, IssuedToken} \subseteq Asset /\ None \notin Asset
ASSUME NumberAssumption ==
    {MaxInputs, FeeRate, Scale, DustValue, U64} \subseteq Nat \ {0}

Coin == [tx : Nat, vout : Nat, asset : Asset, value : Nat]

\* The fields of TxBuilder that finish_inner reads.
Builder ==
    [external : Seq(Coin),          \* external_utxos; a coin may be listed twice
     avoid : SUBSET Coin,           \* avoid_utxos
     manual : BOOLEAN,              \* manual coin selection,
     selected : Seq(Coin),          \* of these; a coin may be listed twice
     out : [Asset -> Nat],          \* to the recipients; 0: none
     own : SUBSET Asset,            \* those that are addresses of the wallet
     fee_asset : Asset \cup {None}, rate : Nat,
     issuance : [kind : {"none", "issue", "reissue"}, asset : Nat, token : Nat]]

VARIABLES
    utxos,      \* the wallet's unspent outputs
    req,        \* the builder
    pc,         \* where finish_inner is
    todo,       \* assets still to be handled
    inputs,     \* coins spent, in order
    outputs,    \* [asset, amount, to]
    minted,     \* how much of each asset the transaction issues
    held,       \* satoshi_in and satoshi_out of the fee asset, and
    sats,       \* of the policy asset
    error       \* why nothing is built

building == <<todo, inputs, outputs, minted, held, sats, error>>
builderVars == <<utxos, req, pc, building>>

Output(a, n, to) == [asset |-> a, amount |-> n, to |-> to]
Value(coins) == FoldSet(LAMBDA c, sum : c.value + sum, 0, coins)
Of(coins, a) == {c \in coins : c.asset = a}

\* The coins of a set in some order.
InOrder(S) == CHOOSE q \in [1..Cardinality(S) -> S] : IsInjective(q)

\* The entries of a list for an asset, and what they are worth: a coin counts as
\* often as it is listed.
Entries(list, a) == {i \in DOMAIN list : list[i].asset = a}
Listed(list, a) == LET at == InOrder(Entries(list, a)) IN [k \in DOMAIN at |-> list[at[k]]]
Worth(list, a) == FoldSet(LAMBDA i, sum : list[i].value + sum, 0, Entries(list, a))

NoRequest == [external |-> <<>>, avoid |-> {}, manual |-> FALSE, selected |-> <<>>,
              out |-> [a \in Asset |-> 0], own |-> {}, fee_asset |-> None, rate |-> 0,
              issuance |-> [kind |-> "none", asset |-> 0, token |-> 0]]

\* A builder that has not begun, and the step to one.
Nothing == [a \in Asset |-> 0]
NoSums == [in |-> 0, out |-> 0]
NoError == [what |-> "none", asset |-> None]
Blank ==
    /\ todo = {} /\ inputs = <<>> /\ outputs = <<>> /\ minted = Nothing
    /\ held = NoSums /\ sats = NoSums /\ error = NoError
Reset ==
    /\ todo' = {} /\ inputs' = <<>> /\ outputs' = <<>> /\ minted' = Nothing
    /\ held' = NoSums /\ sats' = NoSums /\ error' = NoError

Fail(what, a) ==
    /\ error' = [what |-> what, asset |-> a]
    /\ pc' = "error"
    /\ UNCHANGED <<utxos, req, todo, inputs, outputs, minted, held, sats>>

\* Mutant: a pinned coin stays a candidate.
CandidatesPinned == utxos \ req.avoid

\* Mutant: the outputs of the replaced transaction stay candidates.
CandidatesUnavoided == utxos \ Range(req.external)

\* What may be selected automatically.
Candidates == (utxos \ Range(req.external)) \ req.avoid

\* What the caller lists: the external coins, and those selected by hand.
Given == req.external \o (IF req.manual THEN req.selected ELSE <<>>)

fee_in_asset == req.fee_asset \notin {None, Policy}

\* add_external_input and add_input: one input per entry
TooMany(n) == Len(inputs) + n > MaxInputs
Spend(given, coins) == inputs' = inputs \o given \o InOrder(coins)

\* add_output
Add(outs) == outputs' = outputs \o outs

Recipient(a) ==
    IF req.out[a] = 0 THEN <<>>
    ELSE <<Output(a, req.out[a], IF a \in req.own THEN "own" ELSE "recipient")>>

\* Mutant: change of nothing.
ChangeAlways(a, n) == <<Output(a, n, "change")>>

Change(a, n) == IF n = 0 THEN <<>> ELSE <<Output(a, n, "change")>>

-----------------------------------------------------------------------------
(* The assets of the transaction, then the policy asset.                   *)

Assets ==
    (    {a \in Asset : req.out[a] > 0}
    \cup {c.asset : c \in Range(Given)}
    \cup (IF fee_in_asset THEN {req.fee_asset} ELSE {})) \ {Policy}

Begin ==
    /\ pc = "begin"
    /\ IF req.manual /\ ~(Range(req.selected) \subseteq Candidates)
       THEN Fail("MissingWalletUtxo", None)
       ELSE IF fee_in_asset /\ req.rate = 0 THEN Fail("Generic", req.fee_asset)
       ELSE /\ pc' = "asset" /\ todo' = Assets
            /\ UNCHANGED <<utxos, req, inputs, outputs, minted, held, sats, error>>

\* Coins picked in any order until, on top of `in`, they cover `out`; all of
\* them if they never do.
Covering(coins, in, out) ==
    IF in >= out THEN {{}}
    ELSE {s \in SUBSET coins :
            \/ in + Value(s) >= out /\ \E c \in s : in + Value(s \ {c}) < out
            \/ s = coins /\ in + Value(s) < out}

\* Mutant: the fee asset is selected like the others, with no room for the fee.
SelectionsCovering(a, in) ==
    IF req.manual THEN {{}} ELSE Covering(Of(Candidates, a), in, req.out[a])

\* What may be selected of an asset automatically when the caller's coins bring `in`.
Selections(a, in) ==
    IF req.manual THEN {{}}
    ELSE IF fee_in_asset /\ a = req.fee_asset THEN {Of(Candidates, a)}
    ELSE Covering(Of(Candidates, a), in, req.out[a])

\* One asset: its recipients, the caller's coins, the selected ones and the
\* change.  The change of the fee asset is put off.
AddAsset(a) ==
    /\ pc = "asset" /\ a \in todo
    /\ LET given == Listed(Given, a) IN
       \E coins \in Selections(a, Worth(Given, a)) :
         LET in == Worth(Given, a) + Value(coins)
             out == req.out[a]
             deferred == fee_in_asset /\ a = req.fee_asset
         IN  IF TooMany(Len(given) + Cardinality(coins)) THEN Fail("TooManyInputs", None)
             ELSE IF ~deferred /\ in < out THEN Fail("InsufficientFunds", a)
             ELSE /\ Spend(given, coins)
                  /\ Add(Recipient(a) \o IF deferred THEN <<>> ELSE Change(a, in - out))
                  /\ held' = IF deferred THEN [in |-> in, out |-> out] ELSE held
                  /\ todo' = todo \ {a}
                  /\ UNCHANGED <<utxos, req, pc, minted, sats, error>>

\* The policy asset: all of it.
AddPolicy ==
    /\ pc = "asset" /\ todo = {}
    /\ LET given == Listed(Given, Policy)
           coins == IF req.manual THEN {} ELSE Of(Candidates, Policy)
       IN  IF TooMany(Len(given) + Cardinality(coins)) THEN Fail("TooManyInputs", None)
           ELSE /\ Spend(given, coins)
                /\ Add(Recipient(Policy))
                /\ sats' = [in |-> Worth(Given, Policy) + Value(coins), out |-> req.out[Policy]]
                /\ pc' = "issuance"
                /\ UNCHANGED <<utxos, req, todo, minted, held, error>>

-----------------------------------------------------------------------------
(* (Re)issuance.                                                           *)

NoIssuance ==
    /\ pc = "issuance" /\ req.issuance.kind = "none"
    /\ pc' = "change"
    /\ UNCHANGED <<utxos, req, building>>

Received(a, n) == IF n = 0 THEN <<>> ELSE <<Output(a, n, "issued")>>

\* set_issuance at the first input; "At least a L-BTC input for the fee was added."
Issue ==
    /\ pc = "issuance" /\ req.issuance.kind = "issue"
    /\ LET i == req.issuance IN
       IF inputs = <<>> THEN Fail("MissingVin", None)
       ELSE /\ minted' = [minted EXCEPT ![Issued] = i.asset, ![IssuedToken] = i.token]
            /\ Add(Received(Issued, i.asset) \o Received(IssuedToken, i.token))
            /\ pc' = "change"
            /\ UNCHANGED <<utxos, req, todo, inputs, held, sats, error>>

\* Mutant: the token is spent and not sent back.
ReturnedNot(c) == <<>>

\* The output receiving the token.
Returned(c) == <<Output(Token, c.value, "change")>>

\* set_reissuance at an input of the token, one of the wallet's if there is none.
Reissue ==
    /\ pc = "issuance" /\ req.issuance.kind = "reissue"
    /\ LET found == \E i \in DOMAIN inputs : inputs[i].asset = Token
           issued == Received(Reissued, req.issuance.asset)
           mine == Of(Candidates, Token)
       IN  IF ~found /\ mine = {} THEN Fail("InsufficientToken", Token)
           ELSE IF ~found /\ TooMany(1) THEN Fail("TooManyInputs", None)
           ELSE /\ \/ found /\ Add(issued) /\ UNCHANGED inputs
                   \/ ~found /\ \E c \in mine : Spend(<<>>, {c}) /\ Add(Returned(c) \o issued)
                /\ minted' = [minted EXCEPT ![Reissued] = req.issuance.asset]
                /\ pc' = "change"
                /\ UNCHANGED <<utxos, req, todo, held, sats, error>>

-----------------------------------------------------------------------------
(* Change and fee.  They are added with a temporary fee, the transaction   *)
(* is weighed, and then their amounts are set.                             *)

TempFee == 1

AddChange ==
    /\ pc = "change"
    /\ LET policy_fee == IF fee_in_asset THEN 0 ELSE TempFee
           policy_change == sats.in - sats.out - policy_fee
       IN  IF policy_change < 0 \/ (~fee_in_asset /\ policy_change = 0)
           THEN Fail("InsufficientFunds", Policy)
           ELSE IF fee_in_asset /\ held.in < held.out
           THEN Fail("InsufficientFunds", req.fee_asset)
           ELSE /\ Add(Change(Policy, policy_change)
                       \o (IF fee_in_asset THEN Change(req.fee_asset, held.in - held.out)
                           ELSE <<>>)
                       \o <<Output(IF fee_in_asset THEN req.fee_asset ELSE Policy,
                                   TempFee, "fee")>>)
                /\ pc' = "fee"
                /\ UNCHANGED <<utxos, req, todo, inputs, minted, held, sats, error>>

\* calculate_fee
CalculateFee(nin, nout) == FeeRate * (nin + nout)

Weighed == CalculateFee(Len(inputs), Len(outputs))

\* ceil(value * Scale / rate), the node's ConvertValueToAmount
ConvertValueToAmount(value, rate) == (value * Scale + rate - 1) \div rate

\* Mutant: rounded down, without the margin.
FeeInAssetFloor(fee, rate) == (fee * Scale) \div rate

\* "+1 atom of margin covers the floor the node applies when valuing the fee back"
FeeInAsset(fee, rate) == ConvertValueToAmount(fee, rate) + 1

\* The outputs but the last n.  The last output is the fee, and the one before
\* it the change of the asset of the fee, if there is one.
AllBut(n) == SubSeq(outputs, 1, Len(outputs) - n)

\* Mutant: the dust change is dropped and its amount lost.
FoldedNot(fee, change) == fee

\* Change that the node would refuse as dust is folded into the fee.
Folded(fee, change) == (fee + change) % U64

\* The fee in another asset.  Sums wrap around at 2^64, as in a release build.
FinishInAsset ==
    /\ pc = "fee" /\ fee_in_asset
    /\ LET a == req.fee_asset
           fee == FeeInAsset(Weighed, req.rate)
           x_change == (held.in - held.out - fee) % U64
           dust == ConvertValueToAmount(DustValue, req.rate)
           final == IF held.in = held.out THEN AllBut(1) \o <<Output(a, fee, "fee")>>
                    ELSE IF x_change > dust
                    THEN AllBut(2) \o <<Output(a, x_change, "change"), Output(a, fee, "fee")>>
                    ELSE AllBut(2) \o <<Output(a, Folded(fee, x_change), "fee")>>
       IN  IF fee >= U64 THEN Fail("Generic", a)
           ELSE IF held.in < (held.out + fee) % U64 THEN Fail("InsufficientFunds", a)
           ELSE IF \A i \in DOMAIN final : final[i].to = "fee" THEN Fail("Generic", a)
           ELSE /\ outputs' = final
                /\ pc' = "built"
                /\ UNCHANGED <<utxos, req, todo, inputs, minted, held, sats, error>>

\* The fee in the policy asset.
FinishInPolicy ==
    /\ pc = "fee" /\ ~fee_in_asset
    /\ IF sats.in <= sats.out + Weighed THEN Fail("InsufficientFunds", Policy)
       ELSE /\ outputs' = AllBut(2) \o <<Output(Policy, sats.in - sats.out - Weighed, "change"),
                                         Output(Policy, Weighed, "fee")>>
            /\ pc' = "built"
            /\ UNCHANGED <<utxos, req, todo, inputs, minted, held, sats, error>>

Build ==
    \/ Begin \/ (\E a \in Asset : AddAsset(a)) \/ AddPolicy
    \/ NoIssuance \/ Issue \/ Reissue
    \/ AddChange \/ FinishInAsset \/ FinishInPolicy

-----------------------------------------------------------------------------
(* Properties of what is built.                                            *)

BuilderTypeOK ==
    /\ utxos \subseteq Coin /\ req \in Builder
    /\ pc \in {"idle", "begin", "asset", "issuance", "change", "fee", "built", "error"}
    /\ todo \subseteq Asset \ {Policy}
    /\ \A i \in DOMAIN inputs : inputs[i] \in utxos \cup Range(req.external)
    /\ \A i \in DOMAIN outputs : outputs[i].asset \in Asset /\ outputs[i].amount \in Nat \ {0}
    /\ minted \in [Asset -> Nat]
    /\ held.in \in Nat /\ held.out \in Nat /\ sats.in \in Nat /\ sats.out \in Nat
    /\ pc = "error" <=> error.what # "none"

\* The sum of what is sent and the fee passes 2^64.  The code checks the fee but
\* not the sum (tx_builder.rs:1413); nothing is claimed of such a request.
Wraps ==
    fee_in_asset /\ req.rate > 0 /\ held.out + FeeInAsset(Weighed, req.rate) >= U64

Amount(outs, a) ==
    FoldSet(LAMBDA i, sum : outs[i].amount + sum, 0, {i \in DOMAIN outs : outs[i].asset = a})

\* Of every asset, a built transaction spends and issues as much as it sends and
\* pays in fees: coins, change, issuance and the dust folded into the fee add up.
Balanced ==
    pc = "built" /\ ~Wraps =>
        \A a \in Asset : Amount(outputs, a) = minted[a] + Worth(inputs, a)

\* No coin is spent twice unless the caller lists it twice, though a pinned coin may
\* be the wallet's own ("so they aren't spent a second time") and a reissuance adds
\* a coin after the selection.
SpendsOnce ==
    IsInjective(req.external) /\ IsInjective(req.selected) => IsInjective(inputs)

\* The fee is at the end, in one output.  The node's value of it (rounded down)
\* covers the weight of the transaction as built.  What is given away beyond is at
\* most the margin of the conversion and a change of the size of dust.
FeeFits ==
    pc = "built" /\ ~Wraps =>
        LET fee == outputs[Len(outputs)]
            due(n) == CalculateFee(Len(inputs), Len(outputs) + n)
        IN  /\ {i \in DOMAIN outputs : outputs[i].to = "fee"} = {Len(outputs)}
            /\ IF fee_in_asset
               THEN /\ (fee.amount * req.rate) \div Scale >= due(0)
                    /\ fee.amount <= FeeInAsset(due(1), req.rate)
                                     + ConvertValueToAmount(DustValue, req.rate)
               ELSE fee.amount = due(0)

\* A request is refused for lack of an asset only if all of it that may be spent
\* does not cover the recipients and the fee of the transaction; for too many
\* inputs only if there are more coins than the limit.
RefusesRightly ==
    LET others == IF req.manual THEN {} ELSE Candidates
        has == Worth(Given, error.asset) + Value(Of(others, error.asset))
        out == req.out[error.asset]
    IN
    /\ error.what = "InsufficientFunds" =>
           \/ has < out
           \/ error.asset = Policy /\ ~fee_in_asset /\ has <= out + Weighed
           \/ error.asset = req.fee_asset /\ fee_in_asset
              /\ (has < out + FeeInAsset(Weighed, req.rate))
    /\ error.what = "InsufficientToken" => Of(Candidates \cup Range(req.external), Token) = {}
    /\ error.what = "TooManyInputs" =>
           Len(Given) + Cardinality((others \cup Of(Candidates, Token)) \ Range(Given))
               > MaxInputs

=============================================================================
