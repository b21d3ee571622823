------------------------------- MODULE XChain --------------------------------
(***************************************************************************)
(* A cross-chain swap from the taker's side (lwk_wollet/src/btc/xchain.rs, *)
(* btc/htlc.rs).  The taker funds the Bitcoin leg, the maker the Sequentia *)
(* leg; the taker reveals the preimage by claiming the Sequentia leg once  *)
(* the reveal gate and the deadline allow it.  The gate reads the taker's  *)
(* own nodes with several requests, and both chains move in between.       *)
(*                                                                         *)
(* External: the two chains and the maker.  Bitcoin may replace its last   *)
(* blocks; Sequentia follows, disconnecting every block whose anchor is    *)
(* gone.  Heights are all that the code looks at, so a chain is its height *)
(* and the heights of the blocks that matter; 0 is "in no block".          *)
(***************************************************************************)
EXTENDS Integers

CONSTANTS
    MinDepth,       \* D, the taker's dial
    SeqLocktime,    \* the Sequentia leg: refundable in blocks above this height
    BtcLocktime,    \* the Bitcoin leg: refundable when the tip is at this height
    Margin,         \* the margin of the deadline check, in Sequentia blocks
    Lag,            \* Sequentia blocks between the deadline check and the broadcast
    Delay,          \* Sequentia blocks until a broadcast claim is in one
    MaxBtc, MaxSeq, \* bounds: heights
    MaxReorg        \* bound: reorganisations of Bitcoin

ASSUME HeightAssumption ==
    /\ {MinDepth, SeqLocktime, BtcLocktime, Lag, Delay, MaxBtc, MaxSeq, MaxReorg} \subseteq Nat
    /\ Margin \in Int /\ Delay > 0

\* The margin must cover what it is there for.
ASSUME MarginAssumption == Lag + Delay <= Margin + 2

VARIABLES
    btcTip,     \* height of Bitcoin
    valid,      \* Sequentia has followed Bitcoin up to the fork at this height
    seqTip,     \* height of Sequentia
    btcLeg,     \* height of the block with the Bitcoin funding
    btcBy,      \* who has spent the Bitcoin leg
    seqLeg,     \* height of the block with the Sequentia funding, and its anchor
    legAnchor,
    spent,      \* height of the block that spends the Sequentia leg, its anchor,
    spentAnchor,\* and the branch of the script
    spentBy,
    due,        \* height from which on a block includes the claim; 0: not broadcast
    pc,         \* what the taker does next
    seen,       \* what the taker's calls have returned
    reorgs,     \* reorganisations so far
    raced,      \* history: a leg was undone after the taker had found it, before the reveal
    deepest,    \* history: most blocks replaced at once since the gate read the tip
    undone      \* history: legs undone since the reveal

bitcoin == <<btcTip, valid, btcLeg, btcBy, reorgs>>
sequentia == <<seqTip, seqLeg, legAnchor, spent, spentAnchor, spentBy>>
taker == <<pc, seen>>
history == <<raced, deepest, undone>>
vars == <<btcTip, valid, seqTip, btcLeg, btcBy, seqLeg, legAnchor, spent, spentAnchor,
          spentBy, due, pc, seen, reorgs, raced, deepest, undone>>

Nothing == [anchor |-> -1, legHeight |-> 0, tip |-> 0]
revealed == due # 0
following == valid = btcTip

Init ==
    /\ btcTip = 0 /\ valid = 0 /\ seqTip = 0
    /\ btcLeg = 0 /\ btcBy = "none"
    /\ seqLeg = 0 /\ legAnchor = -1
    /\ spent = 0 /\ spentAnchor = -1 /\ spentBy = "none" /\ due = 0
    /\ pc = "find" /\ seen = Nothing
    /\ reorgs = 0 /\ raced = FALSE /\ deepest = 0 /\ undone = {}

-----------------------------------------------------------------------------
(* The pure checks.                                                        *)

\* Mutant: the anchor may be below the Bitcoin funding.
GateUnbound(anchor, status, tip, legHeight) ==
    anchor >= 0 /\ status = "ok" /\ tip - anchor + 1 >= MinDepth

\* Mutant: the anchor is taken to be one block deeper than it is.
GateShallow(anchor, status, tip, legHeight) ==
    anchor >= legHeight /\ status = "ok" /\ tip - anchor + 2 >= MinDepth

evaluate_gate(anchor, status, tip, legHeight) ==
    LET depth == IF anchor >= 0 THEN tip - anchor + 1 ELSE -1 IN
    /\ anchor >= 0
    /\ anchor >= legHeight
    /\ status = "ok"
    /\ depth >= MinDepth

\* Mutant: a node that does not answer is not noticed.
DeadlineUnread(tip) == tip + Margin < SeqLocktime

\* Mutant: no strict headroom.
DeadlineLoose(tip) == tip >= 0 /\ tip + Margin <= SeqLocktime

deadline_ok(tip) == tip >= 0 /\ tip + Margin < SeqLocktime

-----------------------------------------------------------------------------
(* The taker.                                                              *)

\* find_htlc_funding: the height of the Bitcoin funding.  The caller finds the block
\* of the Sequentia funding, whose anchor verify_seq_leg_safe reads first; a block's
\* anchor never changes, so it is read here.
Find ==
    /\ pc = "find" /\ btcLeg # 0 /\ seqLeg # 0 /\ spent = 0
    /\ pc' = "status"
    /\ seen' = [anchor |-> legAnchor, legHeight |-> btcLeg, tip |-> 0]
    /\ raced' = (legAnchor > valid)
    /\ deepest' = 0
    /\ UNCHANGED <<bitcoin, sequentia, due, undone>>

\* verify_seq_leg_safe: sequentia/anchorstatus ...
GetStatus ==
    /\ pc = "status"
    /\ IF following THEN pc' = "tip" /\ UNCHANGED seen
       ELSE pc' = "find" /\ seen' = Nothing
    /\ UNCHANGED <<bitcoin, sequentia, due, history>>

\* ... and blocks/tip/height, with the verdict
GetTip ==
    /\ pc = "tip"
    /\ IF evaluate_gate(seen.anchor, "ok", btcTip, seen.legHeight)
       THEN pc' = "deadline" /\ UNCHANGED seen
       ELSE pc' = "find" /\ seen' = Nothing
    /\ deepest' = 0
    /\ UNCHANGED <<bitcoin, sequentia, due, raced, undone>>

\* claim_deadline_ok; seq_tip_height is -1 when the node does not answer
CheckDeadline ==
    /\ pc = "deadline"
    /\ \E tip \in {seqTip, -1} :
          IF deadline_ok(tip) THEN pc' = "claim" /\ seen' = [seen EXCEPT !.tip = tip]
          ELSE pc' = "find" /\ seen' = Nothing
    /\ UNCHANGED <<bitcoin, sequentia, due, history>>

\* seq_claim and seq_broadcast
Claim ==
    /\ pc = "claim" /\ spent = 0
    /\ pc' = "revealed" /\ due' = seqTip + Delay
    /\ UNCHANGED <<bitcoin, sequentia, seen, history>>

\* Any request, building the claim or broadcasting it fails.
Fails ==
    /\ pc \in {"status", "tip", "claim"}
    /\ pc' = "find" /\ seen' = Nothing
    /\ UNCHANGED <<bitcoin, sequentia, due, history>>

\* Mutant: a final sequence, with which the locktime check of the script fails.
RefundFinal == FALSE /\ UNCHANGED vars

\* btc/htlc.rs build_refund_tx: valid once the tip is at the locktime
RefundBtc ==
    /\ btcLeg # 0 /\ btcBy = "none" /\ btcTip >= BtcLocktime
    /\ btcBy' = "taker"
    /\ UNCHANGED <<btcTip, valid, btcLeg, reorgs, sequentia, due, taker, history>>

-----------------------------------------------------------------------------
(* External: the maker and the two chains.                                 *)

\* The maker reads the preimage off the claim and spends the Bitcoin leg with it,
\* at any height.
ClaimBtc ==
    /\ revealed /\ btcLeg # 0 /\ btcBy = "none"
    /\ btcBy' = "maker"
    /\ UNCHANGED <<btcTip, valid, btcLeg, reorgs, sequentia, due, taker, history>>

\* A Bitcoin block, perhaps with the funding of the Bitcoin leg.
BtcBlock ==
    /\ following /\ btcTip < MaxBtc
    /\ btcTip' = btcTip + 1 /\ valid' = btcTip + 1
    /\ btcLeg' \in {btcLeg, IF btcLeg = 0 THEN btcTip + 1 ELSE btcLeg}
    /\ UNCHANGED <<btcBy, reorgs, sequentia, due, taker, history>>

\* The blocks above height k are replaced by one more than there were.
Reorg(k) ==
    /\ reorgs < MaxReorg /\ btcTip < MaxBtc
    /\ k < btcTip
    /\ btcTip' = btcTip + 1 /\ reorgs' = reorgs + 1
    /\ valid' = IF k < valid THEN k ELSE valid
    /\ btcLeg' = IF btcLeg > k THEN 0 ELSE btcLeg
    /\ btcBy' = IF btcLeg > k THEN "none" ELSE btcBy
    /\ raced' = (raced \/ (~revealed /\ pc # "find" /\ (btcLeg > k \/ legAnchor > k)))
    /\ deepest' = IF btcTip - k > deepest THEN btcTip - k ELSE deepest
    /\ undone' = IF revealed /\ btcLeg > k THEN undone \cup {"btc"} ELSE undone
    /\ UNCHANGED <<sequentia, due, taker>>

\* Sequentia disconnects the blocks whose anchors are gone, and those above.
Follow(tip) ==
    /\ ~following /\ tip <= seqTip
    /\ seqLeg # 0 => (legAnchor > valid <=> tip < seqLeg)
    /\ spent # 0 => (spentAnchor > valid <=> tip < spent)
    /\ seqTip' = tip /\ valid' = btcTip
    /\ seqLeg' = IF seqLeg > tip THEN 0 ELSE seqLeg
    /\ legAnchor' = IF seqLeg > tip THEN -1 ELSE legAnchor
    /\ spent' = IF spent > tip THEN 0 ELSE spent
    /\ spentAnchor' = IF spent > tip THEN -1 ELSE spentAnchor
    /\ spentBy' = IF spent > tip THEN "none" ELSE spentBy
    /\ undone' = IF revealed /\ seqLeg > tip THEN undone \cup {"seq"} ELSE undone
    /\ UNCHANGED <<btcTip, btcLeg, btcBy, reorgs, due, taker, raced, deepest>>

\* A block waits for the taker no longer than Lag, and includes a claim that
\* is due.
SeqBlockMayHave(what) ==
    /\ following /\ seqTip < MaxSeq
    /\ pc = "claim" => seqTip < seen.tip + Lag
    /\ revealed /\ seqLeg # 0 /\ spent = 0 /\ seqTip + 1 >= due => what = "claim"

Anchor == {a \in legAnchor..btcTip : a >= spentAnchor}

SeqBlockEmpty ==
    /\ SeqBlockMayHave("nothing")
    /\ seqTip' = seqTip + 1
    /\ UNCHANGED <<bitcoin, seqLeg, legAnchor, spent, spentAnchor, spentBy, due, taker, history>>

\* The funding of the Sequentia leg; -1: a block that carries no anchor.
SeqBlockFunding ==
    /\ SeqBlockMayHave("nothing") /\ seqLeg = 0
    /\ seqTip' = seqTip + 1 /\ seqLeg' = seqTip + 1
    /\ legAnchor' \in -1..btcTip
    /\ UNCHANGED <<bitcoin, spent, spentAnchor, spentBy, due, taker, history>>

SeqBlockSpend(branch) ==
    /\ SeqBlockMayHave(branch) /\ seqLeg # 0 /\ spent = 0
    /\ \/ branch = "claim" /\ revealed
       \/ branch = "refund" /\ seqTip + 1 > SeqLocktime
    /\ seqTip' = seqTip + 1
    /\ spent' = seqTip + 1 /\ spentBy' = branch /\ spentAnchor' \in Anchor
    /\ UNCHANGED <<bitcoin, seqLeg, legAnchor, due, taker, history>>

-----------------------------------------------------------------------------
Taker == Find \/ GetStatus \/ GetTip \/ CheckDeadline \/ Claim

SeqBlock ==
    SeqBlockEmpty \/ SeqBlockFunding \/ \E b \in {"claim", "refund"} : SeqBlockSpend(b)

Next ==
    \/ Taker \/ Fails \/ RefundBtc \/ ClaimBtc
    \/ BtcBlock \/ (\E k \in 0..MaxBtc : Reorg(k)) \/ (\E tip \in 0..MaxSeq : Follow(tip))
    \/ SeqBlock

Spec == Init /\ [][Next]_vars

\* The taker refunds when it can, and both chains go on.
Fairness ==
    /\ WF_vars(RefundBtc)
    /\ WF_vars(BtcBlock)
    /\ WF_vars(\E tip \in 0..MaxSeq : Follow(tip)) /\ WF_vars(SeqBlock)

FairSpec == Spec /\ Fairness

-----------------------------------------------------------------------------
(* Properties.                                                             *)

TypeOK ==
    /\ btcTip \in 0..MaxBtc /\ valid \in 0..btcTip /\ seqTip \in 0..MaxSeq
    /\ btcLeg \in 0..valid /\ btcBy \in {"none", "maker", "taker"}
    /\ seqLeg \in 0..seqTip /\ legAnchor \in -1..btcTip
    /\ spent \in 0..seqTip /\ spentAnchor \in -1..btcTip
    /\ spentBy \in {"none", "claim", "refund"}
    /\ due \in Nat /\ reorgs \in 0..MaxReorg
    /\ pc \in {"find", "status", "tip", "deadline", "claim", "revealed"}
    /\ seen \in [anchor : -1..btcTip, legHeight : 0..btcTip, tip : 0..MaxSeq]
    /\ raced \in BOOLEAN /\ deepest \in Nat /\ undone \subseteq {"btc", "seq"}

\* What the gate is for (xchain.rs, module comment: the Sequentia transaction's
\* finality is its anchor's).  Once the preimage is out, a reorganisation that
\* undoes the Bitcoin leg undoes the Sequentia leg with it, unless one of them
\* was undone between finding it and the reveal: the gate asks for the anchor of
\* a block, not whether that block is still on the chain.
LegsBound == revealed /\ ~raced /\ "btc" \in undone /\ following => "seq" \in undone

\* What the depth is for: reorganisations of fewer than MinDepth blocks never
\* take the Sequentia leg away from a taker who has revealed.
SurvivesShallow == revealed /\ ~raced /\ deepest < MinDepth => undone = {} /\ seqLeg # 0

\* What the deadline is for: the maker's refund never overtakes the claim, as
\* long as the margin covers the time to the broadcast and to the block.
ClaimFirst == revealed /\ ~raced /\ deepest < MinDepth => spentBy # "refund"

\* The refund of the Bitcoin leg is for liveness: the taker ends with the asset or
\* with the Bitcoin (back, or never locked on the chain), under the same conditions.
Settles ==
    <>[](spentBy = "claim" \/ btcBy = "taker" \/ (btcLeg = 0 /\ ~revealed)
         \/ raced \/ (revealed /\ deepest >= MinDepth))

=============================================================================
