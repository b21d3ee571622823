----------------------------- MODULE WolletCache -----------------------------
(***************************************************************************)
(* The data of a wallet and the pure functions on it: what                 *)
(* lwk_wollet/src/cache.rs keeps in memory and what an `Update` of         *)
(* lwk_wollet/src/update.rs does to it.                                    *)
(*                                                                         *)
(* A transaction is an identifier.  Only the outputs that pay a script of  *)
(* the descriptor are outpoints here.  The secrets of an outpoint are a    *)
(* function of it, so the map `unblinded` is the set of its keys; the      *)
(* outpoints the descriptor's blinding key opens are Unblindable (a sender *)
(* can have blinded an output to some other key).  `paths` and `scripts`   *)
(* are inverse maps extended together, both determined by the descriptor:  *)
(* one set of known scripts stands for the two.  `sorted_txids` is rebuilt *)
(* from `heights` by every update, hence a function of `heights`.          *)
(***************************************************************************)
EXTENDS Integers, FiniteSets

CONSTANTS
    Tx,         \* transaction ids
    OutPoint,   \* outputs of those transactions that pay the wallet
    TxOf,       \* [OutPoint -> Tx], the transaction that creates an outpoint
    Unblindable, \* outpoints try_unblind succeeds on
    Explicit,   \* transactions none of whose outputs is confidential
    Spends,     \* [Tx -> SUBSET OutPoint], wallet outputs a transaction spends
    Script,     \* scripts of the descriptor
    ScriptOf,   \* [OutPoint -> Script]
    Chain,      \* the derivation chains, External and Internal
    ChainOf,    \* [Script -> Chain]
    IndexOf,    \* [Script -> Nat], the child number of a script
    Height,     \* block heights
    Fork,       \* which of the competing blocks of a height
    NoBlock,    \* a default header: "don't change the tip"
    Unconf,     \* height None: seen, unconfirmed
    Absent      \* not in the map

ASSUME TxAssumption ==
    /\ TxOf \in [OutPoint -> Tx]
    /\ Unblindable \subseteq OutPoint
    /\ Explicit \subseteq Tx
    /\ Spends \in [Tx -> SUBSET OutPoint]
    /\ ScriptOf \in [OutPoint -> Script]
    /\ ChainOf \in [Script -> Chain]
    /\ IndexOf \in [Script -> Nat]

ASSUME HeightAssumption ==
    /\ Height \subseteq Nat
    /\ 0 \in Height
    /\ Unconf \notin Height
    /\ Absent \notin Height
    /\ Absent # Unconf
    /\ Absent \notin Fork

-----------------------------------------------------------------------------
(* Types.                                                                  *)

Block == [height : Height, fork : Fork]

ASSUME NoBlockAssumption == NoBlock \notin Block

HeightMap == [Tx -> Height \cup {Unconf, Absent}]
TimeMap == [Height -> Fork \cup {Absent}]
IndexMap == [Chain -> Nat]

\* The block a fresh cache starts from: height 0 and a zero hash.
ASSUME GenesisAssumption == 0 \in Fork
Genesis == [height |-> 0, fork |-> 0]

Cache == [txids : SUBSET Tx, scripts : SUBSET Script, heights : HeightMap,
          unspent : SUBSET OutPoint, unblinded : SUBSET OutPoint, tip : Block,
          timestamps : TimeMap, lastUnused : IndexMap]

\* Everything `impl Hash for Cache` feeds to the hasher: all of the cache but
\* the unspent outputs.  A 64-bit hash is taken to be free of collisions.
StatusSet == [txids : SUBSET Tx, scripts : SUBSET Script, heights : HeightMap,
              unblinded : SUBSET OutPoint, tip : Block,
              timestamps : TimeMap, lastUnused : IndexMap]

Update == [status : StatusSet, txs : SUBSET Tx, unblinds : SUBSET OutPoint,
           new : HeightMap, del : SUBSET Tx, timestamps : TimeMap,
           scripts : SUBSET Script, tip : Block \cup {NoBlock},
           unspent : SUBSET OutPoint, lastUnused : IndexMap]

-----------------------------------------------------------------------------
(* Maps with a default: Absent marks a key that is not in the map.         *)

NoHeights == [t \in Tx |-> Absent]
NoTimes == [h \in Height |-> Absent]
Keys(m) == {k \in DOMAIN m : m[k] # Absent}

\* HashMap::extend: the entries of n win.
Extend(m, n) == [k \in DOMAIN m |-> IF n[k] = Absent THEN m[k] ELSE n[k]]

\* HashMap::retain(|k, _| !S.contains(k)).
Without(m, S) == [k \in DOMAIN m |-> IF k \in S THEN Absent ELSE m[k]]

MaxOf(i, j) == IF i < j THEN j ELSE i

-----------------------------------------------------------------------------
(* The cache.                                                              *)

EmptyCache == [txids |-> {}, scripts |-> {}, heights |-> NoHeights,
               unspent |-> {}, unblinded |-> {}, tip |-> Genesis,
               timestamps |-> NoTimes, lastUnused |-> [c \in Chain |-> 0]]

Status(c) == [txids |-> c.txids, scripts |-> c.scripts, heights |-> c.heights,
              unblinded |-> c.unblinded, tip |-> c.tip,
              timestamps |-> c.timestamps, lastUnused |-> c.lastUnused]

\* update_heights: delete, then insert.
UpdateHeights(heights, new, del) == Extend(Without(heights, del), new)

\* Outpoints among S whose transaction body can be read and whose script is
\* known: what `outpoint_script` followed by `paths.contains_key` keeps.
Readable(S, bodies, scripts) ==
    {o \in S : TxOf[o] \in bodies /\ ScriptOf[o] \in scripts}

InputsOf(T) == UNION {Spends[t] : t \in T}

\* Mutants of UpdateUnspent: spent inputs removed before the outputs are added;
\* outputs of deleted transactions kept; inputs of deleted ones not restored.
UnspentSpendsFirst(unspent, unblinded, scripts, bodies, new, del) ==
    {o \in (unspent \ InputsOf(Keys(new) \cap bodies))
             \cup Readable({o \in unblinded : TxOf[o] \in Keys(new)}, bodies, scripts)
             \cup Readable(InputsOf(del \cap bodies) \cap unblinded, bodies, scripts) :
        TxOf[o] \notin del}
UnspentKeepsDeleted(unspent, unblinded, scripts, bodies, new, del) ==
    (unspent \cup Readable({o \in unblinded : TxOf[o] \in Keys(new)}, bodies, scripts)
             \cup Readable(InputsOf(del \cap bodies) \cap unblinded, bodies, scripts))
        \ InputsOf(Keys(new) \cap bodies)
UnspentRestoresNone(unspent, unblinded, scripts, bodies, new, del) ==
    {o \in (unspent \cup Readable({o \in unblinded : TxOf[o] \in Keys(new)}, bodies, scripts))
            \ InputsOf(Keys(new) \cap bodies) : TxOf[o] \notin del}

\* update_unspent, on a cache whose unblinded and scripts are already
\* extended; `bodies` are the transactions tx_as_fallback can read.
UpdateUnspent(unspent, unblinded, scripts, bodies, new, del) ==
    LET txidsNew == Keys(new)
        outputsNew == Readable({o \in unblinded : TxOf[o] \in txidsNew},
                               bodies, scripts)
        inputsNew == InputsOf(txidsNew \cap bodies)
        inputsToRestore == Readable(InputsOf(del \cap bodies) \cap unblinded,
                                    bodies, scripts)
    IN  {o \in (unspent \cup outputsNew \cup inputsToRestore) \ inputsNew :
            TxOf[o] \notin del}

\* update_unspent_utxos_only: the server's list replaces the set.
UpdateUnspentUtxosOnly(unspent, bodies, reported) ==
    {o \in reported : o \in unspent \/ TxOf[o] \in bodies}

-----------------------------------------------------------------------------
(* Updates.                                                                *)

\* Mutant of OnlyTip: transactions and their heights are forgotten.
OnlyTipNoTxs(u) == u.del = {} /\ u.scripts = {} /\ u.unspent = {}

OnlyTip(u) ==
    /\ u.txs = {} /\ u.unblinds = {}
    /\ Keys(u.new) = {}
    /\ u.del = {}
    /\ u.scripts = {}
    /\ u.unspent = {}

\* Mutant of NotTooOld: no room for a reorganised block.
NeverLower(c, u) == u.tip # NoBlock => u.tip.height >= c.tip.height

\* The two checks of apply_update_inner.
SameStatus(c, u) == u.status = Status(c)
NotTooOld(c, u) == u.tip # NoBlock => u.tip.height + 1 >= c.tip.height

Applicable(c, u) == SameStatus(c, u) /\ NotTooOld(c, u)

\* Mutant of NewTip: the default header is taken for a tip.
AnyTip(c, u) == u.tip

\* The tip after the update: a default header leaves it alone.
NewTip(c, u) == IF u.tip = NoBlock THEN c.tip ELSE u.tip

\* The rest of apply_update_inner, for a version 4 update.
Apply(c, bodies, u, utxoOnly) ==
    LET unblinded == c.unblinded \cup u.unblinds
        scripts == c.scripts \cup u.scripts
    IN  [txids |-> c.txids \cup u.txs,
         scripts |-> scripts,
         heights |-> UpdateHeights(c.heights, u.new, u.del),
         unspent |-> IF utxoOnly
                     THEN UpdateUnspentUtxosOnly(c.unspent, bodies, u.unspent)
                     ELSE UpdateUnspent(c.unspent, unblinded, scripts, bodies,
                                        u.new, u.del),
         unblinded |-> unblinded,
         tip |-> NewTip(c, u),
         timestamps |-> Extend(c.timestamps, u.timestamps),
         lastUnused |-> [ch \in Chain |->
                            MaxOf(c.lastUnused[ch], u.lastUnused[ch])]]

\* Mutants of Merge: the second status; the secrets of the first update lost;
\* what the second update deletes still in the first one's heights.
MergeLaterStatus(u, v) ==
    [v EXCEPT !.txs = @ \cup u.txs, !.unblinds = @ \cup u.unblinds,
              !.new = Extend(Without(u.new, v.del), @), !.del = @ \cup u.del,
              !.timestamps = Extend(u.timestamps, @), !.scripts = @ \cup u.scripts,
              !.tip = IF @ = NoBlock THEN u.tip ELSE @,
              !.lastUnused = [ch \in Chain |-> MaxOf(u.lastUnused[ch], @[ch])]]
MergeLaterUnblinds(u, v) ==
    [v EXCEPT !.status = u.status, !.txs = @ \cup u.txs,
              !.new = Extend(Without(u.new, v.del), @), !.del = @ \cup u.del,
              !.timestamps = Extend(u.timestamps, @), !.scripts = @ \cup u.scripts,
              !.tip = IF @ = NoBlock THEN u.tip ELSE @,
              !.lastUnused = [ch \in Chain |-> MaxOf(u.lastUnused[ch], @[ch])]]
MergeKeepsNew(u, v) ==
    [v EXCEPT !.status = u.status, !.txs = @ \cup u.txs,
              !.unblinds = @ \cup u.unblinds, !.new = Extend(u.new, @),
              !.del = @ \cup u.del, !.timestamps = Extend(u.timestamps, @),
              !.scripts = @ \cup u.scripts,
              !.tip = IF @ = NoBlock THEN u.tip ELSE @,
              !.lastUnused = [ch \in Chain |-> MaxOf(u.lastUnused[ch], @[ch])]]

\* Update::merge, u followed by v.
Merge(u, v) ==
    [status |-> u.status,
     txs |-> u.txs \cup v.txs,
     unblinds |-> u.unblinds \cup v.unblinds,
     new |-> Extend(Without(u.new, v.del), v.new),
     del |-> u.del \cup v.del,
     timestamps |-> Extend(u.timestamps, v.timestamps),
     scripts |-> u.scripts \cup v.scripts,
     tip |-> IF v.tip = NoBlock THEN u.tip ELSE v.tip,
     unspent |-> v.unspent,
     lastUnused |-> [ch \in Chain |-> MaxOf(u.lastUnused[ch], v.lastUnused[ch])]]

\* Mutants of Coalesce: the later status; the earlier timestamps lost.
CoalesceLaterStatus(prev, u) ==
    [u EXCEPT !.timestamps = Extend(prev.timestamps, u.timestamps)]
CoalesceLosesTimes(prev, u) == [u EXCEPT !.status = prev.status]

\* What persist writes over an only-tip update prev when u is one too.
Coalesce(prev, u) ==
    [u EXCEPT !.status = prev.status,
              !.timestamps = Extend(prev.timestamps, u.timestamps)]

\* The update apply_transaction_inner builds for transaction t.
TransactionUpdate(c, t, utxoOnly) ==
    LET unblinds == {o \in Unblindable : TxOf[o] = t /\ ScriptOf[o] \in c.scripts}
    IN  [status |-> Status(c),
         txs |-> {t},
         unblinds |-> unblinds,
         new |-> [NoHeights EXCEPT ![t] = Unconf],
         del |-> {},
         timestamps |-> NoTimes,
         scripts |-> {},
         tip |-> NoBlock,
         unspent |-> IF utxoOnly THEN (c.unspent \ Spends[t]) \cup unblinds ELSE {},
         lastUnused |-> c.lastUnused]

\* The update BuiltTx::update makes to keep the blinding secrets of a
\* transaction the wallet has just built; an explicit output has none.
BlinderUpdate(c, t) ==
    [status |-> Status(c), txs |-> {},
     unblinds |-> IF t \in Explicit THEN {} ELSE {o \in OutPoint : TxOf[o] = t},
     new |-> NoHeights, del |-> {}, timestamps |-> NoTimes, scripts |-> {},
     tip |-> NoBlock, unspent |-> {}, lastUnused |-> c.lastUnused]
=============================================================================
