----------------------------- MODULE SwapPromise -----------------------------
(***************************************************************************)
(* What a swap through Boltz promises its user, whatever its kind, however *)
(* often the application stops and however late the statuses arrive.       *)
(*                                                                         *)
(* The user's coins are first the user's own ("mine"), then locked for the *)
(* swap ("staked").  From there the user either receives the other side of *)
(* the swap ("received") or gets the coins back ("back"), never both.      *)
(* Boltz may take the staked coins before the user has received the other  *)
(* side ("owed"); then only receiving is left.                             *)
(*                                                                         *)
(* The record of a swap is closed only when nothing is left for the user   *)
(* to do.  The code gives a swap up on swap.expired without a refund (a    *)
(* TODO in it), which is the other way a record ends, "expired".           *)
(***************************************************************************)
CONSTANT Swap

VARIABLES money, record

vars == <<money, record>>

Money == {"mine", "staked", "owed", "received", "back"}
Record == {"none", "open", "closed", "expired"}

Init ==
    /\ money = [s \in Swap |-> "mine"]
    /\ record = [s \in Swap |-> "none"]

Becomes(s, from, to) ==
    /\ money[s] \in from
    /\ money' = [money EXCEPT ![s] = to]
    /\ UNCHANGED record

Stake(s) == record[s] \notin {"closed", "expired"} /\ Becomes(s, {"mine"}, "staked")
Taken(s) == record[s] # "closed" /\ Becomes(s, {"staked"}, "owed")
Receive(s) == Becomes(s, {"staked", "owed"}, "received")
Refund(s) == record[s] # "closed" /\ Becomes(s, {"staked"}, "back")

Open(s) ==
    /\ record[s] = "none"
    /\ record' = [record EXCEPT ![s] = "open"]
    /\ UNCHANGED money

Close(s) ==
    /\ record[s] \in {"none", "open"}
    /\ money[s] \in {"mine", "received", "back"}
    /\ record' = [record EXCEPT ![s] = "closed"]
    /\ UNCHANGED money

Expire(s) ==
    /\ record[s] \in {"none", "open"}
    /\ money[s] \in {"mine", "staked"}
    /\ record' = [record EXCEPT ![s] = "expired"]
    /\ UNCHANGED money

\* The store is lost with all its records.
Forget ==
    /\ record' = [s \in Swap |-> "none"]
    /\ UNCHANGED money

Next ==
    \/ Forget
    \/ \E s \in Swap : \/ Stake(s) \/ Taken(s) \/ Receive(s) \/ Refund(s)
                      \/ Open(s) \/ Close(s) \/ Expire(s)

Spec == Init /\ [][Next]_vars

=============================================================================
