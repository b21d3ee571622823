----------------------------- MODULE MCFeeRescue -----------------------------
(* Instance: aP is the policy asset, aX may pay fees, aT is the reissuance   *)
(* token of aR. The orders pay little or much of aP and aX, with the fee in  *)
(* either at several rates, select coins by hand, once or twice, add a coin  *)
(* of somebody else, once or twice, issue and reissue.                       *)
EXTENDS FeeRescue, TLC

CONSTANTS aP, aX, aT, aR, aI, aK

McAsset == {aP, aX, aT, aR, aI, aK}

Fund(n, a, v) == [tx |-> 0, vout |-> n, asset |-> a, value |-> v]
McFunds == {Fund(1, aP, 14), Fund(2, aP, 9), Fund(3, aX, 22), Fund(4, aX, 5), Fund(5, aT, 1),
            Fund(6, aR, 2)}
McForeign == {Fund(7, aX, 6)}
McIncoming ==
    <<[ins |-> {}, outs |-> <<Output(aX, 12, "own"), Output(aP, 3, "fee")>>, live |-> TRUE]>>

Pays(ps, xs) == [NoRequest.out EXCEPT ![aP] = ps, ![aX] = xs]
FeeIn(o, a, rate) == [o EXCEPT !.fee_asset = a, !.rate = rate]
Issues(o, kind, n, m) == [o EXCEPT !.issuance = [kind |-> kind, asset |-> n, token |-> m]]
ByHand(o, coins) == [o EXCEPT !.manual = TRUE, !.selected = coins]
Adding(o, coins) == [o EXCEPT !.external = coins]

Payments ==
    {[NoRequest EXCEPT !.out = [Pays(2, 0) EXCEPT ![aT] = 1]],
     [NoRequest EXCEPT !.out = Pays(2, 4)],
     [NoRequest EXCEPT !.out = Pays(0, 4), !.own = {aX}]}

McOrder ==
    Payments \cup {NoRequest}
    \cup {FeeIn(o, aX, 7) : o \in Payments} \cup {FeeIn(NoRequest, aX, rate) : rate \in {0, 1, 5}}
    \cup {Issues(NoRequest, "issue", 2, 1), Issues(NoRequest, "reissue", 2, 0)}
    \cup {ByHand(NoRequest, <<Fund(1, aP, 14), Fund(5, aT, 1)>>),
          ByHand(NoRequest, <<Fund(2, aP, 9), Fund(2, aP, 9)>>),
          ByHand(FeeIn(NoRequest, aX, 5), <<Fund(4, aX, 5)>>),
          ByHand(Issues(FeeIn(NoRequest, aX, 7), "issue", 0, 1), <<>>),
          ByHand(Issues(FeeIn(NoRequest, aX, 7), "reissue", 2, 0),
                 <<Fund(1, aP, 14), Fund(3, aX, 22)>>)}
    \cup {Adding(NoRequest, <<Fund(7, aX, 6)>>),
          Adding(FeeIn(NoRequest, aX, 5), <<Fund(7, aX, 6), Fund(7, aX, 6)>>)}

=============================================================================
