----------------------------- MODULE XChain_proof ----------------------------
(***************************************************************************)
(* The safety of the reveal, for every dial, locktime, margin and bound.   *)
(***************************************************************************)
EXTENDS XChain, TLAPS

\* Between finding the legs and the reveal, unless one was undone: they are
\* where the taker saw them, and their anchor is on the Bitcoin chain.
Seen ==
    pc \in {"status", "tip", "deadline", "claim"} /\ ~raced =>
        /\ seqLeg # 0 /\ btcLeg # 0
        /\ seen.anchor = legAnchor /\ seen.legHeight = btcLeg
        /\ legAnchor <= valid

\* After the gate: the legs are bound, and the anchor is deep enough.
Gated ==
    pc \in {"deadline", "claim"} /\ ~raced =>
        /\ btcLeg <= legAnchor
        /\ btcTip - legAnchor + 1 >= MinDepth

\* After the deadline check: the reveal will not come too late.
Timely ==
    pc = "claim" => seqTip <= seen.tip + Lag /\ seen.tip + Margin < SeqLocktime

\* After the reveal, whatever Bitcoin does: the legs are still bound, or the
\* Bitcoin leg is gone and Sequentia has yet to follow, or both are gone.
Bound ==
    revealed /\ ~raced =>
        \/ "seq" \in undone
        \/ seqLeg # 0 /\ "btc" \in undone /\ legAnchor > valid
        \/ seqLeg # 0 /\ "btc" \notin undone /\ btcLeg # 0 /\ btcLeg <= legAnchor

\* After the reveal, when no reorganisation was as deep as the dial.
Deep ==
    revealed /\ ~raced /\ deepest < MinDepth =>
        /\ undone = {} /\ seqLeg # 0
        /\ legAnchor <= valid /\ btcTip - legAnchor + 1 >= MinDepth
        /\ due <= SeqLocktime + 1
        /\ spentBy # "refund"

Bookkeeping ==
    /\ revealed <=> pc = "revealed"
    /\ ~revealed => undone = {}
    /\ spent = 0 => spentBy = "none"

Safe == TypeOK /\ Bookkeeping /\ Seen /\ Gated /\ Timely /\ Bound /\ Deep

-----------------------------------------------------------------------------
(* Type correctness.                                                       *)

\* The first state: nothing is in a block, and the taker has found nothing.
LEMMA InitTyped == Init => TypeOK
<1>. SUFFICES ASSUME Init PROVE TypeOK
  OBVIOUS
<1>1. raced \in BOOLEAN /\ undone \subseteq {"btc", "seq"}
  BY Zenon DEF Init
<1>2. /\ btcTip \in 0..MaxBtc /\ valid \in 0..btcTip /\ seqTip \in 0..MaxSeq
      /\ btcLeg \in 0..valid /\ seqLeg \in 0..seqTip /\ spent \in 0..seqTip
      /\ due \in Nat /\ reorgs \in 0..MaxReorg /\ deepest \in Nat
  BY HeightAssumption DEF Init
<1>3. legAnchor \in -1..btcTip /\ spentAnchor \in -1..btcTip
  BY DEF Init
<1>4. seen \in [anchor : -1..btcTip, legHeight : 0..btcTip, tip : 0..MaxSeq]
  BY HeightAssumption DEF Init, Nothing
<1>. QED
  BY <1>1, <1>2, <1>3, <1>4 DEF Init, TypeOK

\* Every step of the taker, of the maker and of the chains keeps the types.
LEMMA TypeStep == TypeOK /\ [Next]_vars => TypeOK'
<1>. SUFFICES ASSUME TypeOK, [Next]_vars PROVE TypeOK'
  OBVIOUS
<1>. USE HeightAssumption DEF TypeOK, revealed, following, Nothing, bitcoin, sequentia, taker, history
<1>1. CASE Find
  BY <1>1 DEF Find
<1>2. CASE GetStatus
  BY <1>2 DEF GetStatus
<1>3. CASE GetTip
  BY <1>3 DEF GetTip, evaluate_gate
<1>4. CASE CheckDeadline
  BY <1>4 DEF CheckDeadline, deadline_ok
<1>5. CASE Claim
  BY <1>5 DEF Claim
<1>6. CASE Fails
  BY <1>6 DEF Fails
<1>7. CASE RefundBtc
  BY <1>7 DEF RefundBtc
<1>8. CASE ClaimBtc
  BY <1>8 DEF ClaimBtc
<1>9. CASE BtcBlock
  BY <1>9 DEF BtcBlock
<1>10. CASE SeqBlockEmpty
  BY <1>10 DEF SeqBlockEmpty, SeqBlockMayHave
<1>11. CASE SeqBlockFunding
  BY <1>11 DEF SeqBlockFunding, SeqBlockMayHave
<1>12. ASSUME NEW k \in 0..MaxBtc, Reorg(k) PROVE TypeOK'
  BY <1>12 DEF Reorg
<1>13. ASSUME NEW tip \in 0..MaxSeq, Follow(tip) PROVE TypeOK'
  BY <1>13 DEF Follow
<1>14. ASSUME NEW b \in {"claim", "refund"}, SeqBlockSpend(b) PROVE TypeOK'
  BY <1>14 DEF SeqBlockSpend, SeqBlockMayHave, Anchor
<1>15. CASE UNCHANGED vars
  BY <1>15 DEF vars
<1>. QED
  BY <1>1, <1>2, <1>3, <1>4, <1>5, <1>6, <1>7, <1>8, <1>9, <1>10, <1>11, <1>12, <1>13,
     <1>14, <1>15 DEF Next, Taker, SeqBlock

\* Every state of the swap and of both chains is well formed.
THEOREM TypeCorrect == Spec => []TypeOK
<1>1. Init => TypeOK
  BY InitTyped
<1>. QED
  BY <1>1, TypeStep, PTL DEF Spec

-----------------------------------------------------------------------------
(* The inductive invariant.                                                *)

\* Every step keeps the legs where the taker needs them.
LEMMA SafeStep == Safe /\ [Next]_vars => Safe'
<1>. SUFFICES ASSUME Safe, [Next]_vars PROVE Safe'
  OBVIOUS
<1>1. TypeOK'
  BY TypeStep DEF Safe
<1>. USE <1>1, HeightAssumption
     DEF Safe, TypeOK, Bookkeeping, Seen, Gated, Timely, Bound, Deep, revealed, following,
         Nothing, bitcoin, sequentia, taker, history
<1>2. CASE Find
  <2>1. CASE legAnchor > valid
    BY <1>2, <2>1, Zenon DEF Find
  <2>2. CASE ~(legAnchor > valid)
    BY <1>2, <2>2 DEF Find
  <2>. QED
    BY <2>1, <2>2
<1>3. CASE GetStatus
  BY <1>3 DEF GetStatus
<1>4. CASE GetTip
  BY <1>4 DEF GetTip, evaluate_gate
<1>5. CASE CheckDeadline
  BY <1>5 DEF CheckDeadline, deadline_ok
<1>6. CASE Claim
  BY <1>6, MarginAssumption DEF Claim
<1>7. CASE Fails
  BY <1>7 DEF Fails
<1>8. CASE RefundBtc
  BY <1>8 DEF RefundBtc
<1>9. CASE ClaimBtc
  BY <1>9 DEF ClaimBtc
<1>10. CASE BtcBlock
  BY <1>10 DEF BtcBlock
<1>11. CASE SeqBlockEmpty
  BY <1>11 DEF SeqBlockEmpty, SeqBlockMayHave
<1>12. CASE SeqBlockFunding
  BY <1>12 DEF SeqBlockFunding, SeqBlockMayHave
<1>13. ASSUME NEW k \in 0..MaxBtc, Reorg(k) PROVE Safe'
  <2>1. CASE ~raced /\ (revealed \/ pc = "find" \/ (btcLeg <= k /\ legAnchor <= k))
    BY <1>13, <2>1 DEF Reorg
  <2>2. CASE raced \/ (~revealed /\ pc # "find" /\ (btcLeg > k \/ legAnchor > k))
    <3>1. raced'
      BY <1>13, <2>2, Zenon DEF Reorg
    <3>. QED
      BY <1>13, <3>1 DEF Reorg
  <2>. QED
    BY <2>1, <2>2
<1>14. ASSUME NEW tip \in 0..MaxSeq, Follow(tip) PROVE Safe'
  BY <1>14 DEF Follow
<1>15. ASSUME NEW b \in {"claim", "refund"}, SeqBlockSpend(b) PROVE Safe'
  BY <1>15 DEF SeqBlockSpend, SeqBlockMayHave, Anchor
<1>16. CASE UNCHANGED vars
  BY <1>16 DEF vars
<1>. QED
  BY <1>2, <1>3, <1>4, <1>5, <1>6, <1>7, <1>8, <1>9, <1>10, <1>11, <1>12, <1>13, <1>14,
     <1>15, <1>16, Zenon DEF Next, Taker, SeqBlock

\* The inductive invariant holds of every state.
LEMMA AlwaysSafe == Spec => []Safe
<1>1. Init => Safe
  BY InitTyped DEF Init, Safe, Bookkeeping, Seen, Gated, Timely, Bound, Deep,
     revealed, Nothing
<1>. QED
  BY <1>1, SafeStep, PTL DEF Spec

\* The reveal gate binds the legs: a reorganisation that undoes the Bitcoin leg
\* after the reveal undoes the Sequentia leg too.
THEOREM GateBindsLegs == Spec => []LegsBound
<1>1. Safe => LegsBound
  BY DEF Safe, Bound, LegsBound, TypeOK, following
<1>. QED
  BY <1>1, AlwaysSafe, PTL

\* Reorganisations of fewer blocks than the taker's dial do not undo a leg.
THEOREM DepthProtects == Spec => []SurvivesShallow
<1>1. Safe => SurvivesShallow
  BY DEF Safe, Deep, SurvivesShallow
<1>. QED
  BY <1>1, AlwaysSafe, PTL

\* The deadline check keeps the maker's refund from overtaking the claim.
THEOREM ClaimBeforeRefund == Spec => []ClaimFirst
<1>1. Safe => ClaimFirst
  BY DEF Safe, Deep, ClaimFirst
<1>. QED
  BY <1>1, AlwaysSafe, PTL

=============================================================================
