----------------------------- MODULE MCFullScan ------------------------------
(* Instance: f funds the wallet on e0, a spends it with change on i0, b is   *)
(* a's replacement and pays its change to i0 too.                            *)
EXTENDS FullScan, TLC

CONSTANTS f, a, b, f0, a0, b0, e0, e1, i0, i1, External, Internal

McTx == {f, a, b}
McOut == {f0, a0, b0}
McTxOf == f0 :> f @@ a0 :> a @@ b0 :> b
McSpends == f :> {} @@ a :> {f0} @@ b :> {f0}
McScript == {e0, e1, i0, i1}
McScriptOf == f0 :> e0 @@ a0 :> i0 @@ b0 :> i0
McChain == {External, Internal}
McChainOf == e0 :> External @@ e1 :> External @@ i0 :> Internal @@ i1 :> Internal
McIndexOf == e0 :> 0 @@ e1 :> 1 @@ i0 :> 0 @@ i1 :> 1
McOrder == <<External, Internal>>
McHeight == 0..2
Taller == 0..4
McFork == 0..1

MemoryMerged == {[txsPersisted |-> FALSE, utxoOnly |-> FALSE, threshold |-> 1]}
MemoryLog == {[txsPersisted |-> FALSE, utxoOnly |-> FALSE, threshold |-> NoMerge]}
WithStores == {[txsPersisted |-> TRUE, utxoOnly |-> FALSE, threshold |-> 1]}

AnyStore == MemoryMerged \cup WithStores \cup MemoryLog

\* The memory store may lose the process anywhere; a persisted one is closed, or
\* stops after a second update is written and before a merge removes anything.
NoneRemoved == [persisted \in BOOLEAN |->
                 IF persisted THEN {"idle", "merge", "failed"} ELSE PC \ {"down"}]
InRemoval == [persisted \in BOOLEAN |-> {"remove"}]
Never == [persisted \in BOOLEAN |-> {}]
Anywhere == [persisted \in BOOLEAN |-> PC \ {"down"}]

=============================================================================
