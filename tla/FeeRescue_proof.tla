--------------------------- MODULE FeeRescue_proof ---------------------------
(***************************************************************************)
(* Proofs about FeeRescue: no transaction spends a coin twice, each        *)
(* conflicts with what it is meant to replace and with nothing else, and a *)
(* replacement spends nothing of what it evicts, for any coins, orders and *)
(* number of transactions.                                                 *)
(***************************************************************************)
EXTENDS FeeRescue, FiniteSetTheorems, WellFoundedInduction, TLAPS

-----------------------------------------------------------------------------
(* Lists of the elements of a set.                                         *)

\* A nonempty set of natural numbers has a least element.
LEMMA LeastNatural ==
    ASSUME NEW S, S \subseteq Nat, S # {}
    PROVE  \E m \in S : \A n \in S : m <= n
<1>1. PICK m \in S : \A n \in S : ~(<<n, m>> \in OpToRel(<, Nat))
  BY NatLessThanWellFounded, WFMin, Zenon
<1>2. ASSUME NEW n \in S PROVE m <= n
  <2>1. <<n, m>> \in Nat \X Nat
    BY <1>2
  <2>2. ~(n < m)
    BY <1>1, <1>2, <2>1 DEF OpToRel
  <2>. QED BY <1>2, <2>2
<1>. QED BY <1>2

\* q lists the elements of T, each of them once.
Lists(q, T) ==
    /\ q \in Seq(T)
    /\ \A x \in T : \E i \in 1..Len(q) : q[i] = x
    /\ \A i, j \in 1..Len(q) : q[i] = q[j] => i = j

\* InOrder lists a finite set.
LEMMA InOrderLists ==
    ASSUME NEW T, IsFiniteSet(T)
    PROVE  Lists(InOrder(T), T)
<1>. DEFINE n == Cardinality(T)
<1>1. n \in Nat /\ ExistsBijection(1..n, T)
  BY FS_CardinalityType
<1>2. PICK b : b \in Bijection(1..n, T)
  BY <1>1 DEF ExistsBijection
<1>3. b \in [1..n -> T] /\ IsInjective(b)
  BY <1>2 DEF Bijection, Injection, IsInjective
<1>4. InOrder(T) \in [1..n -> T] /\ IsInjective(InOrder(T))
  BY <1>3 DEF InOrder
<1>. DEFINE q == InOrder(T)
<1>. HIDE DEF q
<1>5. q \in [1..n -> T] /\ IsInjective(q)
  BY <1>4 DEF q
<1>6. q \in Seq(T) /\ Len(q) = n
  BY <1>1, <1>5
<1>7. q \in Injection(1..n, T)
  BY <1>5 DEF IsInjective, Injection
<1>8. q \in Surjection(1..n, T)
  <2>1. IsFiniteSet(1..n) /\ Cardinality(1..n) = n
    BY <1>1, FS_Interval
  <2>. QED BY <1>7, <2>1, FS_Injection
<1>9. \A x \in T : \E i \in 1..n : q[i] = x
  BY <1>8 DEF Surjection
<1>10. \A i, j \in 1..n : q[i] = q[j] => i = j
  BY <1>5 DEF IsInjective
<1>. QED BY <1>6, <1>9, <1>10 DEF Lists, q

\* One list after another.
LEMMA ConcatLists ==
    ASSUME NEW P, NEW Q, NEW p, NEW q, Lists(p, P), Lists(q, Q), P \cap Q = {}
    PROVE  Lists(p \o q, P \cup Q)
<1>1. p \in Seq(P) /\ q \in Seq(Q)
  BY DEF Lists
<1>. DEFINE c == p \o q
<1>2. p \in Seq(P \cup Q) /\ q \in Seq(P \cup Q)
  BY <1>1
<1>3. /\ c \in Seq(P \cup Q) /\ Len(c) = Len(p) + Len(q) /\ Len(p) \in Nat /\ Len(q) \in Nat
      /\ \A i \in 1..Len(p) : c[i] = p[i]
      /\ \A i \in 1..Len(q) : c[Len(p) + i] = q[i]
  BY <1>2
<1>4. \A i \in 1..Len(p) : p[i] \in P
  BY <1>1
<1>5. \A i \in 1..Len(q) : q[i] \in Q
  BY <1>1
<1>. HIDE DEF c
<1>6. ASSUME NEW i \in 1..Len(c)
      PROVE  \/ i \in 1..Len(p) /\ c[i] = p[i] /\ c[i] \in P /\ c[i] \notin Q
             \/ /\ i - Len(p) \in 1..Len(q) /\ c[i] = q[i - Len(p)]
                /\ c[i] \in Q /\ c[i] \notin P /\ i > Len(p)
  <2>1. CASE i <= Len(p)
    BY <1>3, <1>4, <2>1
  <2>2. CASE i > Len(p)
    <3>1. i - Len(p) \in 1..Len(q) /\ Len(p) + (i - Len(p)) = i
      BY <1>3, <2>2
    <3>. QED BY <1>3, <1>5, <2>2, <3>1, Zenon
  <2>. QED BY <1>3, <2>1, <2>2
<1>7. \A x \in P : \E i \in 1..Len(p) : c[i] = x
  BY <1>3, Zenon DEF Lists
<1>8. ASSUME NEW x \in Q PROVE \E i \in 1..Len(c) : c[i] = x
  <2>1. PICK i \in 1..Len(q) : q[i] = x
    BY DEF Lists
  <2>2. Len(p) + i \in 1..Len(c)
    BY <1>3
  <2>. QED BY <1>3, <2>1, <2>2
<1>9. \A x \in P \cup Q : \E i \in 1..Len(c) : c[i] = x
  <2>1. 1..Len(p) \subseteq 1..Len(c)
    BY <1>3
  <2>. QED BY <1>7, <1>8, <2>1
<1>10. ASSUME NEW i \in 1..Len(c), NEW j \in 1..Len(c), c[i] = c[j] PROVE i = j
  <2>1. CASE i \in 1..Len(p) /\ c[i] = p[i] /\ c[i] \in P /\ c[i] \notin Q
    <3>1. j \in 1..Len(p) /\ c[j] = p[j]
      BY <1>6, <1>10, <2>1, Zenon
    <3>. QED BY <1>10, <2>1, <3>1, Zenon DEF Lists
  <2>2. CASE /\ i - Len(p) \in 1..Len(q) /\ c[i] = q[i - Len(p)]
             /\ c[i] \in Q /\ c[i] \notin P /\ i > Len(p)
    <3>1. j - Len(p) \in 1..Len(q) /\ c[j] = q[j - Len(p)]
      BY <1>6, <1>10, <2>2, Zenon
    <3>2. i - Len(p) = j - Len(p)
      BY <1>10, <2>2, <3>1, Zenon DEF Lists
    <3>. QED BY <1>3, <3>2
  <2>. QED BY <1>6, <2>1, <2>2
<1>. QED BY <1>3, <1>9, <1>10, Zenon DEF Lists, c

\* A list is injective, and its range is what it lists.
LEMMA ListsRange ==
    ASSUME NEW T, NEW q, Lists(q, T)
    PROVE  IsInjective(q) /\ Range(q) = T /\ DOMAIN q = 1..Len(q)
<1>1. q \in Seq(T) /\ DOMAIN q = 1..Len(q)
  BY DEF Lists
<1>2. \A i \in 1..Len(q) : q[i] \in T
  BY <1>1
<1>3. IsInjective(q)
  BY <1>1, Zenon DEF Lists, IsInjective
<1>4. Range(q) = {q[i] : i \in 1..Len(q)}
  BY <1>1, Zenon DEF Range
<1>5. T \subseteq {q[i] : i \in 1..Len(q)}
  BY Zenon DEF Lists
<1>6. Range(q) = T
  BY ONLY <1>2, <1>4, <1>5
<1>. QED BY <1>1, <1>3, <1>6

\* A sequence that repeats nothing lists its range.
LEMMA ListsOf ==
    ASSUME NEW q, q \in Seq(Range(q)), IsInjective(q)
    PROVE  Lists(q, Range(q))
<1>1. DOMAIN q = 1..Len(q)
  OBVIOUS
<1>2. \A x \in Range(q) : \E i \in 1..Len(q) : q[i] = x
  BY <1>1, Zenon DEF Range
<1>3. \A i, j \in 1..Len(q) : q[i] = q[j] => i = j
  BY <1>1, Zenon DEF IsInjective
<1>. QED BY <1>2, <1>3, Zenon DEF Lists

-----------------------------------------------------------------------------
(* What is evicted.                                                        *)

\* g gives the transactions found in each of the first n rounds.
GrowOf(g, n) == g = [k \in 0..n |-> IF k = 0 THEN Clash ELSE g[k - 1] \cup Children(g[k - 1])]

\* The descendants are found round by round.
LEMMA GrowStep ==
    /\ grow[0] = Clash
    /\ \A k \in 1..MaxTx : grow[k] = grow[k - 1] \cup Children(grow[k - 1])
<1>. DEFINE Bad == {n \in Nat : ~\E g : GrowOf(g, n)}
<1>1. Bad = {}
  <2>. SUFFICES ASSUME Bad # {} PROVE FALSE
    OBVIOUS
  <2>1. PICK n \in Bad : \A m \in Bad : n <= m
    BY LeastNatural, Zenon
  <2>2. CASE n = 0
    <3>. DEFINE g == [k \in 0..0 |-> Clash]
    <3>1. GrowOf(g, 0)
      BY DEF GrowOf
    <3>. QED BY <2>2, <3>1
  <2>3. CASE n # 0
    <3>1. n \in Nat /\ n - 1 \in Nat /\ ~(n <= n - 1)
      BY <2>3
    <3>2. PICK h : GrowOf(h, n - 1)
      BY <2>1, <3>1
    <3>. DEFINE g == [k \in 0..n |-> IF k < n THEN h[k] ELSE h[n - 1] \cup Children(h[n - 1])]
    <3>3. ASSUME NEW k \in 0..n
          PROVE  g[k] = IF k = 0 THEN Clash ELSE g[k - 1] \cup Children(g[k - 1])
      <4>1. CASE k = n
        BY <2>3, <3>1, <4>1
      <4>2. CASE k # n
        <5>1. k \in 0..(n - 1) /\ k < n
          BY <3>1, <4>2
        <5>2. h[k] = IF k = 0 THEN Clash ELSE h[k - 1] \cup Children(h[k - 1])
          BY <3>2, <5>1, Zenon DEF GrowOf
        <5>3. k # 0 => g[k - 1] = h[k - 1]
          BY <3>1, <5>1
        <5>. QED BY <5>1, <5>2, <5>3, Zenon
      <4>. QED BY <4>1, <4>2
    <3>4. GrowOf(g, n)
      BY <3>3, Zenon DEF GrowOf
    <3>. QED BY <3>4
  <2>. QED BY <2>2, <2>3
<1>2. \E g : GrowOf(g, MaxTx)
  BY <1>1, MaxTxAssumption
<1>3. GrowOf(grow, MaxTx)
  <2>1. grow = CHOOSE g : g = [k \in 0..MaxTx |-> IF k = 0 THEN Clash ELSE g[k - 1] \cup Children(g[k - 1])]
    BY DEF grow
  <2>. QED BY <1>2, <2>1, Zenon DEF GrowOf
<1>4. grow = [k \in 0..MaxTx |-> IF k = 0 THEN Clash ELSE grow[k - 1] \cup Children(grow[k - 1])]
  BY <1>3, Zenon DEF GrowOf
<1>5. grow[0] = Clash
  BY <1>4, MaxTxAssumption
<1>6. ASSUME NEW k \in 1..MaxTx PROVE grow[k] = grow[k - 1] \cup Children(grow[k - 1])
  <2>1. k \in 0..MaxTx /\ k # 0
    BY MaxTxAssumption
  <2>. QED BY <1>4, <2>1, Zenon
<1>. QED BY <1>5, <1>6

\* What the transaction conflicts with is evicted.
LEMMA GoneClash == Clash \subseteq Gone
<1>. DEFINE Bad == {k \in 0..MaxTx : ~(Clash \subseteq grow[k])}
<1>1. Bad = {}
  <2>. SUFFICES ASSUME Bad # {} PROVE FALSE
    OBVIOUS
  <2>1. Bad \subseteq Nat
    BY MaxTxAssumption
  <2>2. PICK n \in Bad : \A m \in Bad : n <= m
    BY <2>1, LeastNatural, Zenon
  <2>3. n # 0
    BY <2>2, GrowStep, Zenon
  <2>4. n \in 1..MaxTx /\ n - 1 \in 0..MaxTx /\ ~(n <= n - 1)
    BY <2>3, MaxTxAssumption
  <2>5. Clash \subseteq grow[n - 1]
    BY <2>2, <2>4
  <2>. QED BY <2>2, <2>4, <2>5, GrowStep, Zenon
<1>2. MaxTx \in 0..MaxTx
  BY MaxTxAssumption
<1>. QED BY <1>1, <1>2, Zenon DEF Gone

\* If it has no descendants, nothing else is.
LEMMA GoneOnly == ASSUME Children(Clash) = {} PROVE Gone = Clash
<1>. DEFINE Bad == {k \in 0..MaxTx : grow[k] # Clash}
<1>1. Bad = {}
  <2>. SUFFICES ASSUME Bad # {} PROVE FALSE
    OBVIOUS
  <2>1. Bad \subseteq Nat
    BY MaxTxAssumption
  <2>2. PICK n \in Bad : \A m \in Bad : n <= m
    BY <2>1, LeastNatural, Zenon
  <2>3. n # 0
    BY <2>2, GrowStep, Zenon
  <2>4. n \in 1..MaxTx /\ n - 1 \in 0..MaxTx /\ ~(n <= n - 1)
    BY <2>3, MaxTxAssumption
  <2>5. grow[n - 1] = Clash
    BY <2>2, <2>4
  <2>6. grow[n] = Clash \cup Children(Clash)
    BY <2>4, <2>5, GrowStep, Zenon
  <2>. QED BY <2>2, <2>6
<1>2. MaxTx \in 0..MaxTx
  BY MaxTxAssumption
<1>. QED BY <1>1, <1>2, Zenon DEF Gone

-----------------------------------------------------------------------------
(* The invariant.                                                          *)

IsSeq(q) == q \in Seq(Range(q))

\* The wallet's transactions: a coin that one spends is confirmed or an output of
\* an earlier one, no two that are live spend the same coin, and what the wallet
\* may spend is what they leave.
Ledger ==
    /\ IsSeq(txs)
    /\ \A n \in DOMAIN txs :
          /\ txs[n] = [ins |-> txs[n].ins, outs |-> txs[n].outs, live |-> txs[n].live]
          /\ txs[n].live \in BOOLEAN /\ IsSeq(txs[n].outs)
          /\ IsFiniteSet(txs[n].ins) /\ \A c \in txs[n].ins : c.tx \in 0 .. n - 1
    /\ \A m, n \in Live : m # n => txs[m].ins \cap txs[n].ins = {}
    /\ utxos = Unspent

\* No live transaction but those of N spends one of the coins.
Unused(coins, N) == \A m \in Live : m \notin N => txs[m].ins \cap coins = {}

\* The coins that are pinned are those of the purpose of the build, and coins of
\* others.
For(kind, n, r) ==
    /\ IsSeq(r.external) /\ IsSeq(r.selected)
    /\ \/ kind = "send" /\ Range(r.external) \subseteq Foreign /\ Unused(Range(r.external), {})
       \/ /\ kind \in {"replace", "bump"} /\ n \in Live
          /\ Mine(n) # {} /\ Mine(n) \subseteq Range(r.external)
          /\ Range(r.external) \subseteq Mine(n) \cup Foreign
          /\ Unused(Range(r.external), {n}) /\ r.avoid = Outs(n, Owned)
       \/ /\ kind = "cpfp" /\ n \in Live
          /\ Range(r.external) \subseteq Outs(n, Owned) \cup Foreign
          /\ Unused(Range(r.external) \cap Foreign, {})
Requested == pc # "idle" => For(purpose.kind, purpose.of, req)

Late == {"issuance", "change", "fee", "built"}

\* The caller lists no coin twice.
Once == IsInjective(req.external) /\ IsInjective(req.selected)

\* The inputs are pinned coins and candidates, each once if the caller lists them
\* once; those of the assets still to be handled are to come, and in the end all
\* pinned coins are among them.
Taken ==
    /\ IsSeq(inputs) /\ IsSeq(outputs) /\ (Once => IsInjective(inputs))
    /\ Range(inputs) \subseteq Range(req.external) \cup Candidates
    /\ pc \in {"idle", "begin"} => inputs = <<>>
    /\ pc \in Late \cup {"asset"} => (req.manual => Range(req.selected) \subseteq Candidates)
    /\ pc = "asset" =>
          /\ Policy \notin todo
          /\ \A c \in Range(inputs) : c.asset \notin todo /\ c.asset # Policy
          /\ \A c \in Range(req.external) :
                c.asset \in todo \/ c.asset = Policy \/ c \in Range(inputs)
    /\ pc \in Late => Range(req.external) \subseteq Range(inputs)

Inv == Ledger /\ Requested /\ Taken

-----------------------------------------------------------------------------
(* Sequences.                                                              *)

\* Every sequence over a set is one.
LEMMA SeqIs == ASSUME NEW X, NEW q \in Seq(X) PROVE IsSeq(q)
<1>1. DOMAIN q = 1..Len(q) /\ Len(q) \in Nat /\ q \in [1..Len(q) -> X]
  OBVIOUS
<1>2. \A i \in 1..Len(q) : q[i] \in Range(q)
  BY <1>1, Zenon DEF Range
<1>3. q \in [1..Len(q) -> Range(q)]
  BY <1>1, <1>2
<1>. QED BY <1>1, <1>3 DEF IsSeq

\* The domain of a sequence.
LEMMA SeqDomain == ASSUME NEW q, IsSeq(q) PROVE Len(q) \in Nat /\ DOMAIN q = 1..Len(q)
  BY DEF IsSeq

\* The empty sequence.
LEMMA SeqEmpty == IsSeq(<<>>)
<1>1. <<>> \in Seq({})
  OBVIOUS
<1>. QED BY <1>1, SeqIs, Zenon

\* A sequence of one output.
LEMMA SeqOne == ASSUME NEW x PROVE IsSeq(<<x>>)
<1>1. <<x>> \in Seq({x})
  OBVIOUS
<1>. QED BY <1>1, SeqIs, Zenon

\* A sequence of two outputs.
LEMMA SeqTwo == ASSUME NEW x, NEW y PROVE IsSeq(<<x, y>>)
<1>1. <<x, y>> \in Seq({x, y})
  OBVIOUS
<1>. QED BY <1>1, SeqIs, Zenon

\* Adding outputs to outputs.
LEMMA SeqConcat == ASSUME NEW p, NEW q, IsSeq(p), IsSeq(q) PROVE IsSeq(p \o q)
<1>. DEFINE X == Range(p) \cup Range(q)
<1>1. p \in Seq(X) /\ q \in Seq(X)
  <2>. DEFINE P == Range(p) Q == Range(q)
  <2>1. p \in Seq(P) /\ q \in Seq(Q)
    BY DEF IsSeq
  <2>. HIDE DEF P, Q
  <2>2. p \in Seq(P \cup Q) /\ q \in Seq(P \cup Q)
    BY <2>1
  <2>. QED BY <2>2 DEF P, Q
<1>. HIDE DEF X
<1>2. p \o q \in Seq(X)
  BY <1>1
<1>. QED BY <1>2, SeqIs, Zenon

\* What is in one list after another.
LEMMA ConcatRange ==
    ASSUME NEW p, NEW q, IsSeq(p), IsSeq(q)
    PROVE  /\ IsSeq(p \o q) /\ Range(p \o q) = Range(p) \cup Range(q)
           /\ IsInjective(p) /\ IsInjective(q) /\ Range(p) \cap Range(q) = {} => IsInjective(p \o q)
<1>. DEFINE c == p \o q
<1>1. IsSeq(c)
  BY SeqConcat, Zenon
<1>2. /\ Len(p) \in Nat /\ DOMAIN p = 1..Len(p) /\ Len(q) \in Nat /\ DOMAIN q = 1..Len(q)
      /\ Len(c) \in Nat /\ DOMAIN c = 1..Len(c)
  BY <1>1, SeqDomain, Zenon
<1>3. /\ Len(c) = Len(p) + Len(q) /\ \A i \in 1..Len(p) : c[i] = p[i]
      /\ \A i \in 1..Len(q) : c[Len(p) + i] = q[i]
  <2>. DEFINE P == Range(p) Q == Range(q)
  <2>1. p \in Seq(P) /\ q \in Seq(Q)
    BY DEF IsSeq
  <2>. HIDE DEF P, Q
  <2>2. p \in Seq(P \cup Q) /\ q \in Seq(P \cup Q)
    BY <2>1
  <2>. QED BY <2>2
<1>. HIDE DEF c
<1>4. Range(p) = {p[i] : i \in 1..Len(p)} /\ Range(q) = {q[i] : i \in 1..Len(q)}
      /\ Range(c) = {c[i] : i \in 1..Len(c)}
  BY <1>2, Zenon DEF Range
<1>5. Range(c) = Range(p) \cup Range(q)
  <2>1. ASSUME NEW i \in 1..Len(c) PROVE c[i] \in Range(p) \cup Range(q)
    <3>1. CASE i <= Len(p)
      BY <1>2, <1>3, <1>4, <3>1
    <3>2. CASE i > Len(p)
      <4>1. i - Len(p) \in 1..Len(q) /\ Len(p) + (i - Len(p)) = i
        BY <1>2, <1>3, <3>2
      <4>. QED BY <1>3, <1>4, <4>1
    <3>. QED BY <1>2, <3>1, <3>2
  <2>2. ASSUME NEW i \in 1..Len(p) PROVE p[i] \in Range(c)
    <3>1. i \in 1..Len(c)
      BY <1>2, <1>3
    <3>. QED BY <1>3, <1>4, <3>1
  <2>3. ASSUME NEW i \in 1..Len(q) PROVE q[i] \in Range(c)
    <3>1. Len(p) + i \in 1..Len(c)
      BY <1>2, <1>3
    <3>. QED BY <1>3, <1>4, <3>1
  <2>. QED BY <1>4, <2>1, <2>2, <2>3
<1>6. ASSUME IsInjective(p), IsInjective(q), Range(p) \cap Range(q) = {} PROVE IsInjective(c)
  <2>1. Lists(p, Range(p)) /\ Lists(q, Range(q))
    BY <1>6, ListsOf, Zenon DEF IsSeq
  <2>2. Lists(p \o q, Range(p) \cup Range(q))
    BY <1>6, <2>1, ConcatLists, Zenon
  <2>. QED BY <2>2, ListsRange, Zenon DEF c
<1>. QED BY <1>1, <1>5, <1>6, Zenon DEF c

\* The entries of a list for an asset.
LEMMA ListedOf ==
    ASSUME NEW q, IsSeq(q), NEW a
    PROVE  /\ IsSeq(Listed(q, a))
           /\ \A c : c \in Range(Listed(q, a)) <=> c \in Range(q) /\ c.asset = a
           /\ IsInjective(q) => IsInjective(Listed(q, a))
<1>. DEFINE E == Entries(q, a)
            at == InOrder(E)
            l == [k \in DOMAIN at |-> q[at[k]]]
<1>1. Len(q) \in Nat /\ DOMAIN q = 1..Len(q)
  BY SeqDomain, Zenon
<1>2. E \subseteq 1..Len(q) /\ \A i \in 1..Len(q) : i \in E <=> q[i].asset = a
  BY <1>1 DEF Entries
<1>3. IsFiniteSet(E)
  <2>1. IsFiniteSet(1..Len(q))
    BY <1>1, FS_Interval
  <2>. HIDE DEF E
  <2>. QED BY <1>2, <2>1, FS_Subset, Zenon
<1>. HIDE DEF E
<1>4. Lists(at, E)
  BY <1>3, InOrderLists, Zenon
<1>. HIDE DEF at
<1>5. DOMAIN at = 1..Len(at) /\ Len(at) \in Nat /\ \A k \in 1..Len(at) : at[k] \in E
  BY <1>4 DEF Lists
<1>6. DOMAIN l = 1..Len(at) /\ \A k \in 1..Len(at) : l[k] = q[at[k]]
  BY <1>5
<1>7. l \in Seq({q[i] : i \in E})
  BY <1>5, <1>6
<1>8. Listed(q, a) = l
  BY Zenon DEF Listed, at, E
<1>. HIDE DEF l
<1>9. IsSeq(l)
  BY <1>7, SeqIs, Zenon
<1>10. Range(l) = {l[k] : k \in 1..Len(at)} /\ Range(q) = {q[i] : i \in 1..Len(q)}
  BY <1>1, <1>6, Zenon DEF Range
<1>11. ASSUME NEW c PROVE c \in Range(l) <=> c \in Range(q) /\ c.asset = a
  <2>1. ASSUME c \in Range(l) PROVE c \in Range(q) /\ c.asset = a
    <3>1. PICK k \in 1..Len(at) : c = q[at[k]]
      BY <1>6, <1>10, <2>1
    <3>. QED BY <1>2, <1>5, <1>10, <3>1
  <2>2. ASSUME c \in Range(q), c.asset = a PROVE c \in Range(l)
    <3>1. PICK i \in 1..Len(q) : c = q[i]
      BY <1>10, <2>2
    <3>2. PICK k \in 1..Len(at) : at[k] = i
      BY <1>2, <1>4, <2>2, <3>1 DEF Lists
    <3>. QED BY <1>6, <1>10, <3>1, <3>2
  <2>. QED BY <2>1, <2>2, Zenon
<1>12. ASSUME IsInjective(q) PROVE IsInjective(l)
  <2>. SUFFICES ASSUME NEW j \in 1..Len(at), NEW k \in 1..Len(at), l[j] = l[k] PROVE j = k
    BY <1>6, Zenon DEF IsInjective
  <2>1. at[j] \in DOMAIN q /\ at[k] \in DOMAIN q /\ q[at[j]] = q[at[k]]
    BY <1>1, <1>2, <1>5, <1>6
  <2>2. at[j] = at[k]
    BY <1>12, <2>1, Zenon DEF IsInjective
  <2>. QED BY <1>4, <2>2, Zenon DEF Lists
<1>. QED BY <1>8, <1>9, <1>11, <1>12, Zenon

\* Dropping the last outputs.
LEMMA SeqCut == ASSUME NEW q, IsSeq(q), NEW n \in Nat PROVE IsSeq(SubSeq(q, 1, Len(q) - n))
<1>. DEFINE X == Range(q)
<1>1. q \in Seq(X)
  BY DEF IsSeq
<1>. HIDE DEF X
<1>2. SubSeq(q, 1, Len(q) - n) \in Seq(X)
  BY <1>1
<1>. QED BY <1>2, SeqIs, Zenon

-----------------------------------------------------------------------------
(* Coins.                                                                  *)

\* A transaction has finitely many outputs of a kind, and they are its own.
LEMMA OutsFinite ==
    ASSUME Ledger, NEW n \in DOMAIN txs, NEW K
    PROVE  IsFiniteSet(Outs(n, K)) /\ \A c \in Outs(n, K) : c.tx = n
<1>. DEFINE V == {w \in DOMAIN txs[n].outs : txs[n].outs[w].to \in K}
            coin(v) == [tx |-> n, vout |-> v, asset |-> txs[n].outs[v].asset,
                        value |-> txs[n].outs[v].amount]
            f == [v \in V |-> coin(v)]
<1>1. Outs(n, K) = {coin(v) : v \in V}
  BY Zenon DEF Outs
<1>2. IsFiniteSet(V)
  <2>1. IsSeq(txs[n].outs)
    BY DEF Ledger
  <2>2. Len(txs[n].outs) \in Nat /\ DOMAIN txs[n].outs = 1..Len(txs[n].outs)
    BY <2>1, SeqDomain, Zenon
  <2>3. IsFiniteSet(1..Len(txs[n].outs))
    BY <2>2, FS_Interval
  <2>4. V \in SUBSET (1..Len(txs[n].outs))
    BY <2>2
  <2>. QED BY <2>3, <2>4, FS_Subset, Zenon
<1>3. f \in Surjection(V, Outs(n, K))
  <2>1. f \in [V -> Outs(n, K)]
    BY <1>1
  <2>2. \A c \in Outs(n, K) : \E v \in V : f[v] = c
    BY <1>1
  <2>. QED BY <2>1, <2>2, Zenon DEF Surjection
<1>4. IsFiniteSet(Outs(n, K))
  BY <1>2, <1>3, FS_Surjection, Zenon
<1>5. \A c \in Outs(n, K) : c.tx = n
  BY <1>1
<1>. QED BY <1>4, <1>5

\* The live transactions are some of them.
LEMMA LiveKnown == ASSUME Ledger PROVE /\ Len(txs) \in Nat /\ DOMAIN txs = 1..Len(txs)
                                       /\ Live \subseteq 1..Len(txs)
<1>1. IsSeq(txs)
  BY DEF Ledger
<1>2. Len(txs) \in Nat /\ DOMAIN txs = 1..Len(txs)
  BY <1>1, SeqDomain, Zenon
<1>. QED BY <1>2 DEF Live

\* What the wallet may spend: confirmed coins and outputs of its transactions that
\* none of them spends.
LEMMA UnspentKnown ==
    ASSUME Ledger
    PROVE  /\ IsFiniteSet(utxos)
           /\ \A c \in utxos : /\ c.tx = 0 \/ (c.tx \in DOMAIN txs /\ c \in Outs(c.tx, Owned))
                               /\ \A n \in Live : c \notin txs[n].ins
<1>. DEFINE O == {Outs(n, Owned) : n \in Live}
<1>1. utxos = (Funds \cup UNION O) \ Spent
  BY Zenon DEF Ledger, Unspent
<1>2. IsFiniteSet(Live)
  <2>1. IsFiniteSet(1..Len(txs))
    BY LiveKnown, FS_Interval
  <2>. QED BY <2>1, LiveKnown, FS_Subset, Zenon
<1>3. IsFiniteSet(O)
  <2>. DEFINE f == [n \in Live |-> Outs(n, Owned)]
  <2>1. f \in Surjection(Live, O)
    <3>1. f \in [Live -> O]
      OBVIOUS
    <3>2. \A o \in O : \E n \in Live : f[n] = o
      OBVIOUS
    <3>. QED BY <3>1, <3>2, Zenon DEF Surjection
  <2>. QED BY <1>2, <2>1, FS_Surjection, Zenon
<1>4. \A o \in O : IsFiniteSet(o)
  <2>1. ASSUME NEW n \in Live PROVE IsFiniteSet(Outs(n, Owned))
    <3>1. n \in DOMAIN txs
      BY LiveKnown
    <3>. QED BY <3>1, OutsFinite, Zenon
  <2>. QED BY <2>1, Zenon
<1>5. IsFiniteSet(utxos)
  <2>1. IsFiniteSet(UNION O)
    BY <1>3, <1>4, FS_UNION, Zenon
  <2>2. IsFiniteSet(Funds \cup UNION O)
    BY <2>1, FundsAssumption, FS_Union, Zenon
  <2>. QED BY <1>1, <2>2, FS_Difference, Zenon
<1>6. ASSUME NEW c \in utxos
      PROVE  /\ c.tx = 0 \/ (c.tx \in DOMAIN txs /\ c \in Outs(c.tx, Owned))
             /\ \A n \in Live : c \notin txs[n].ins
  <2>1. \A n \in Live : c \notin txs[n].ins
    BY <1>1, Zenon DEF Spent
  <2>2. CASE c \in Funds
    BY <2>1, <2>2, FundsAssumption
  <2>3. CASE c \in UNION O
    <3>1. PICK n \in Live : c \in Outs(n, Owned)
      BY <2>3, Zenon
    <3>2. n \in DOMAIN txs /\ c.tx = n
      BY <3>1, LiveKnown, OutsFinite, Zenon
    <3>. QED BY <2>1, <3>1, <3>2
  <2>. QED BY <1>1, <2>2, <2>3, Zenon
<1>. QED BY <1>5, <1>6, Zenon

\* What is listed is finite.
LEMMA RangeFinite == ASSUME NEW q, IsSeq(q) PROVE IsFiniteSet(Range(q))
<1>1. Len(q) \in Nat /\ DOMAIN q = 1..Len(q)
  BY SeqDomain, Zenon
<1>2. IsFiniteSet(DOMAIN q)
  BY <1>1, FS_Interval
<1>3. q \in Surjection(DOMAIN q, Range(q))
  <2>1. q \in [DOMAIN q -> Range(q)]
    BY <1>1 DEF IsSeq
  <2>. QED BY <2>1, Zenon DEF Surjection, Range
<1>. QED BY <1>2, <1>3, FS_Surjection, Zenon

\* The pinned coins are of confirmed or known transactions.
LEMMA ExternalKnown ==
    ASSUME Ledger, Requested, pc # "idle"
    PROVE  /\ IsSeq(req.external) /\ IsSeq(req.selected)
           /\ \A c \in Range(req.external) : c.tx \in 0..Len(txs)
<1>0. For(purpose.kind, purpose.of, req) /\ Len(txs) \in Nat
  BY LiveKnown, Zenon DEF Requested
<1>1. IsSeq(req.external) /\ IsSeq(req.selected)
  BY <1>0, Zenon DEF For
<1>2. \A c \in Foreign : c.tx \in 0..Len(txs)
  BY <1>0, ForeignAssumption
<1>3. ASSUME purpose.of \in Live PROVE \A c \in Mine(purpose.of) : c.tx \in 0..Len(txs)
  <2>1. purpose.of \in DOMAIN txs /\ purpose.of \in 1..Len(txs) /\ Len(txs) \in Nat
    BY <1>3, LiveKnown
  <2>2. \A c \in txs[purpose.of].ins : c.tx \in 0 .. purpose.of - 1
    BY <2>1, Zenon DEF Ledger
  <2>3. 0 .. purpose.of - 1 \subseteq 0..Len(txs)
    BY <2>1
  <2>. QED BY <2>2, <2>3, Zenon DEF Mine
<1>4. ASSUME purpose.of \in Live PROVE \A c \in Outs(purpose.of, Owned) : c.tx \in 0..Len(txs)
  <2>1. purpose.of \in DOMAIN txs /\ purpose.of \in 0..Len(txs)
    BY <1>4, LiveKnown
  <2>. QED BY <2>1, OutsFinite, Zenon
<1>5. \A c \in Range(req.external) : c.tx \in 0..Len(txs)
  BY <1>0, <1>2, <1>3, <1>4, Zenon DEF For
<1>. QED BY <1>1, <1>5

-----------------------------------------------------------------------------
(* The steps of a build.                                                   *)

\* The inputs after coins were spent.
LEMMA SpendRange ==
    ASSUME NEW g, NEW C, IsSeq(g), IsFiniteSet(C), IsSeq(inputs), Spend(g, C)
    PROVE  /\ IsSeq(inputs') /\ Range(inputs') = Range(inputs) \cup Range(g) \cup C
           /\ IsInjective(inputs) /\ IsInjective(g) /\ Range(g) \cap C = {}
              /\ Range(inputs) \cap (Range(g) \cup C) = {} => IsInjective(inputs')
<1>. DEFINE q == InOrder(C)
<1>1. Lists(q, C)
  BY InOrderLists, Zenon
<1>. HIDE DEF q
<1>2. IsSeq(q) /\ Range(q) = C /\ IsInjective(q)
  <2>1. q \in Seq(C)
    BY <1>1, Zenon DEF Lists
  <2>. QED BY <1>1, <2>1, ListsRange, SeqIs, Zenon
<1>3. inputs' = (inputs \o g) \o q
  BY Zenon DEF Spend, q
<1>4. /\ IsSeq(inputs \o g) /\ Range(inputs \o g) = Range(inputs) \cup Range(g)
      /\ IsInjective(inputs) /\ IsInjective(g) /\ Range(inputs) \cap Range(g) = {}
            => IsInjective(inputs \o g)
  BY ConcatRange, Zenon
<1>5. /\ IsSeq((inputs \o g) \o q) /\ Range((inputs \o g) \o q) = Range(inputs \o g) \cup C
      /\ IsInjective(inputs \o g) /\ Range(inputs \o g) \cap C = {}
            => IsInjective((inputs \o g) \o q)
  BY <1>2, <1>4, ConcatRange, Zenon
<1>6. IsSeq(inputs') /\ Range(inputs') = Range(inputs) \cup Range(g) \cup C
  BY <1>3, <1>4, <1>5, Zenon
<1>7. ASSUME IsInjective(inputs), IsInjective(g), Range(g) \cap C = {},
             Range(inputs) \cap (Range(g) \cup C) = {}
      PROVE  IsInjective(inputs')
  <2>1. Range(inputs) \cap Range(g) = {} /\ (Range(inputs) \cup Range(g)) \cap C = {}
    BY <1>7
  <2>. QED BY <1>3, <1>4, <1>5, <1>7, <2>1, Zenon
<1>. QED BY <1>6, <1>7, Zenon

\* The caller's coins of an asset, and candidates of it, are added: none of them is
\* in the transaction yet.
LEMMA SpendTaken ==
    ASSUME Inv, pc # "idle", NEW a, NEW C, C \subseteq Candidates, \A c \in C : c.asset = a,
           req.manual => Range(req.selected) \subseteq Candidates, req.manual => C = {},
           \A c \in Range(inputs) : c.asset # a, Spend(Listed(Given, a), C)
    PROVE  /\ IsSeq(inputs') /\ (Once => IsInjective(inputs'))
           /\ Range(inputs') \subseteq Range(req.external) \cup Candidates
           /\ Range(inputs) \subseteq Range(inputs')
           /\ \A c \in Range(req.external) : c.asset = a => c \in Range(inputs')
           /\ \A c \in Range(inputs') : c \in Range(inputs) \/ c.asset = a
<1>. DEFINE hand == IF req.manual THEN req.selected ELSE <<>>
            g == Listed(Given, a)
<1>1. IsSeq(req.external) /\ IsSeq(req.selected) /\ IsSeq(inputs)
  BY ExternalKnown, Zenon DEF Inv, Taken
<1>2. IsSeq(hand) /\ Range(hand) \subseteq Candidates /\ (IsInjective(req.selected) => IsInjective(hand))
  <2>1. Range(<<>>) = {} /\ IsInjective(<<>>)
    BY DEF Range, IsInjective
  <2>. QED BY <1>1, <2>1, SeqEmpty, Zenon
<1>3. Given = req.external \o hand
  BY Zenon DEF Given
<1>. HIDE DEF hand
<1>4. Candidates \cap Range(req.external) = {} /\ Candidates \subseteq utxos
  BY Zenon DEF Candidates
<1>5. /\ IsSeq(Given) /\ Range(Given) = Range(req.external) \cup Range(hand)
      /\ Once => IsInjective(Given)
  <2>1. Range(req.external) \cap Range(hand) = {}
    BY <1>2, <1>4
  <2>. QED BY <1>1, <1>2, <1>3, <2>1, ConcatRange, Zenon DEF Once
<1>6. /\ IsSeq(g) /\ (Once => IsInjective(g))
      /\ \A c : c \in Range(g) <=> c \in Range(Given) /\ c.asset = a
  BY <1>5, ListedOf, Zenon
<1>. HIDE DEF g
<1>7. IsFiniteSet(C)
  <2>1. C \in SUBSET utxos
    BY <1>4
  <2>. QED BY <2>1, UnspentKnown, FS_Subset, Zenon DEF Inv
<1>8. /\ IsSeq(inputs') /\ Range(inputs') = Range(inputs) \cup Range(g) \cup C
      /\ IsInjective(inputs) /\ IsInjective(g) /\ Range(g) \cap C = {}
         /\ Range(inputs) \cap (Range(g) \cup C) = {} => IsInjective(inputs')
  BY <1>1, <1>6, <1>7, SpendRange, Zenon DEF g
<1>9. Range(g) \cap C = {}
  <2>1. req.manual \/ Range(hand) = {}
    BY DEF hand, Range
  <2>. QED BY <1>4, <1>5, <1>6, <2>1
<1>10. Range(inputs) \cap (Range(g) \cup C) = {}
  BY <1>6
<1>11. Once => IsInjective(inputs')
  BY <1>6, <1>8, <1>9, <1>10, Zenon DEF Inv, Taken
<1>12. Range(inputs') \subseteq Range(req.external) \cup Candidates
  <2>1. Range(inputs) \subseteq Range(req.external) \cup Candidates
    BY Zenon DEF Inv, Taken
  <2>. QED BY <1>2, <1>5, <1>6, <1>8, <2>1
<1>13. \A c \in Range(req.external) : c.asset = a => c \in Range(inputs')
  BY <1>5, <1>6, <1>8, Zenon
<1>14. Range(inputs) \subseteq Range(inputs') /\ \A c \in Range(inputs') : c \in Range(inputs) \/ c.asset = a
  BY <1>6, <1>8
<1>. QED BY <1>8, <1>11, <1>12, <1>13, <1>14, Zenon

\* What only the node changes.
LEMMA WalletKeeps ==
    ASSUME Ledger, UNCHANGED <<txs, utxos>>
    PROVE  /\ Ledger' /\ Live' = Live /\ txs' = txs
           /\ \A n : Outs(n, Owned)' = Outs(n, Owned) /\ Mine(n)' = Mine(n)
           /\ \A C, N : Unused(C, N)' <=> Unused(C, N)
<1>1. txs' = txs /\ utxos' = utxos
  OBVIOUS
<1>2. Live' = Live
  BY <1>1 DEF Live
<1>3. \A n : Outs(n, Owned)' = Outs(n, Owned)
  BY <1>1 DEF Outs, Owned
<1>4. Spent' = Spent
  BY <1>1, <1>2 DEF Spent
<1>5. Unspent' = Unspent
  BY <1>2, <1>3, <1>4 DEF Unspent
<1>6. Ledger'
  BY <1>1, <1>2, <1>5, Zenon DEF Ledger, IsSeq
<1>7. \A n : Mine(n)' = Mine(n)
  BY <1>1, Zenon DEF Mine
<1>8. \A C, N : Unused(C, N)' <=> Unused(C, N)
  BY <1>1, <1>2, Zenon DEF Unused
<1>. QED BY <1>1, <1>2, <1>3, <1>6, <1>7, <1>8, Zenon

\* A build leaves the wallet and the request alone.
LEMMA BuildKeeps ==
    ASSUME Ledger, Requested, pc # "idle", UNCHANGED <<txs, purpose, utxos, req>>
    PROVE  Ledger' /\ Requested' /\ Candidates' = Candidates /\ req' = req
<1>1. txs' = txs /\ purpose' = purpose /\ utxos' = utxos /\ req' = req
  OBVIOUS
<1>2. /\ Ledger' /\ Live' = Live
      /\ \A n : Outs(n, Owned)' = Outs(n, Owned) /\ Mine(n)' = Mine(n)
      /\ \A C, N : Unused(C, N)' <=> Unused(C, N)
  BY WalletKeeps, Zenon
<1>3. Requested'
  BY <1>1, <1>2, Zenon DEF Requested, For, IsSeq
<1>4. Candidates' = Candidates
  BY <1>1, Zenon DEF Candidates
<1>. QED BY <1>1, <1>2, <1>3, <1>4

\* Nothing is built.
LEMMA FailInv ==
    ASSUME Inv, pc # "idle", UNCHANGED <<txs, purpose>>, NEW what, NEW a, Fail(what, a)
    PROVE  Inv'
<1>1. /\ UNCHANGED <<txs, purpose, utxos, req>> /\ inputs' = inputs /\ outputs' = outputs
      /\ pc' = "error"
  BY DEF Fail
<1>2. Ledger' /\ Requested' /\ Candidates' = Candidates /\ req' = req
  BY <1>1, BuildKeeps, Zenon DEF Inv
<1>3. /\ IsSeq(inputs') /\ IsSeq(outputs') /\ (Once' => IsInjective(inputs'))
      /\ Range(inputs') \subseteq Range(req'.external) \cup Candidates'
  BY <1>1, <1>2, Zenon DEF Inv, Taken, Once
<1>4. pc' \notin {"idle", "begin"} /\ pc' \notin Late \cup {"asset"}
  BY <1>1 DEF Late
<1>5. Taken'
  BY <1>3, <1>4, Zenon DEF Taken, Late
<1>. QED BY <1>2, <1>5 DEF Inv

\* A step after the coins have been chosen.
LEMMA LateInv ==
    ASSUME Inv, UNCHANGED <<txs, purpose, utxos, req, inputs>>, IsSeq(outputs)',
           pc \in Late, pc' \in Late
    PROVE  Inv'
<1>1. Ledger' /\ Requested' /\ Candidates' = Candidates /\ req' = req
  BY BuildKeeps DEF Inv, Late
<1>2. inputs' = inputs /\ pc' \notin {"idle", "begin"} /\ pc' # "asset"
  BY DEF Late
<1>3. /\ IsSeq(inputs') /\ (Once' => IsInjective(inputs'))
      /\ Range(req'.external) \subseteq Range(inputs')
      /\ Range(inputs') \subseteq Range(req'.external) \cup Candidates'
      /\ req'.manual => Range(req'.selected) \subseteq Candidates'
  BY <1>1, <1>2, Zenon DEF Inv, Taken, Once
<1>4. Taken'
  BY <1>2, <1>3, Zenon DEF Taken
<1>. QED BY <1>1, <1>4 DEF Inv

\* TxBuilder::finish begins: the coins are read, nothing is taken yet.
LEMMA BeginInv == ASSUME Inv, Begin, UNCHANGED <<txs, purpose>> PROVE Inv'
<1>0. pc = "begin" /\ pc # "idle"
  BY DEF Begin
<1>1. CASE Fail("MissingWalletUtxo", None) \/ Fail("Generic", req.fee_asset)
  BY <1>0, <1>1, FailInv, Zenon
<1>2. CASE /\ ~(req.manual /\ ~(Range(req.selected) \subseteq Candidates))
           /\ pc' = "asset" /\ todo' = Assets
           /\ UNCHANGED <<utxos, req, inputs, outputs, minted, held, sats, error>>
  <2>1. /\ UNCHANGED <<txs, purpose, utxos, req>> /\ inputs' = inputs /\ outputs' = outputs
    BY <1>2
  <2>2. Ledger' /\ Requested' /\ Candidates' = Candidates /\ req' = req
    BY <1>0, <2>1, BuildKeeps, Zenon DEF Inv
  <2>3. Range(inputs) = {}
    <3>1. inputs = <<>>
      BY <1>0 DEF Inv, Taken
    <3>. QED BY <3>1 DEF Range
  <2>4. Policy \notin Assets /\ \A c \in Range(req.external) : c.asset \in Assets \/ c.asset = Policy
    <3>1. IsSeq(req.external) /\ IsSeq(req.selected)
      BY <1>0, ExternalKnown, Zenon DEF Inv
    <3>2. IsSeq(IF req.manual THEN req.selected ELSE <<>>)
      BY <3>1, SeqEmpty, Zenon
    <3>3. Range(req.external) \subseteq Range(Given)
      <4>. DEFINE hand == IF req.manual THEN req.selected ELSE <<>>
      <4>1. Given = req.external \o hand
        BY Zenon DEF Given
      <4>. HIDE DEF hand
      <4>2. Range(req.external \o hand) = Range(req.external) \cup Range(hand)
        BY <3>1, <3>2, ConcatRange, Zenon DEF hand
      <4>. QED BY <4>1, <4>2
    <3>. QED BY <3>3, Zenon DEF Assets
  <2>5. /\ IsSeq(inputs') /\ IsSeq(outputs') /\ (Once' => IsInjective(inputs')) /\ Range(inputs') = {}
        /\ req'.manual => Range(req'.selected) \subseteq Candidates'
    BY <1>2, <2>1, <2>2, <2>3, Zenon DEF Inv, Taken, Once
  <2>6. pc' \notin {"idle", "begin"} /\ pc' \notin Late
    BY <1>2 DEF Late
  <2>7. Taken'
    BY <1>2, <2>2, <2>4, <2>5, <2>6, Zenon DEF Taken
  <2>. QED BY <2>2, <2>7 DEF Inv
<1>. QED BY <1>1, <1>2, Zenon DEF Begin

\* What is selected of an asset are candidates of that asset; nothing when the
\* caller selects.
LEMMA SelectionsOf ==
    ASSUME NEW a, NEW in, NEW coins \in Selections(a, in)
    PROVE  coins \subseteq Candidates /\ (\A c \in coins : c.asset = a) /\ (req.manual => coins = {})
<1>1. CASE coins = {}
  BY <1>1
<1>2. CASE coins \subseteq Of(Candidates, a) /\ ~req.manual
  BY <1>2 DEF Of
<1>3. ASSUME coins \in Covering(Of(Candidates, a), in, req.out[a])
      PROVE  coins \subseteq Of(Candidates, a)
  <2>1. coins = {} \/ coins \in SUBSET Of(Candidates, a)
    BY <1>3, Zenon DEF Covering
  <2>. QED BY <2>1
<1>4. CASE req.manual
  <2>1. coins = {}
    BY <1>4, Zenon DEF Selections
  <2>. QED BY <1>1, <2>1
<1>5. CASE ~req.manual
  <2>1. coins = Of(Candidates, a) \/ coins \in Covering(Of(Candidates, a), in, req.out[a])
    BY <1>5, Zenon DEF Selections
  <2>. QED BY <1>2, <1>3, <1>5, <2>1
<1>. QED BY <1>4, <1>5

\* The outputs to the recipients.
LEMMA RecipientSeq == ASSUME NEW a PROVE IsSeq(Recipient(a))
  BY SeqEmpty, SeqOne, Zenon DEF Recipient

\* The change output, if there is one.
LEMMA ChangeSeq == ASSUME NEW a, NEW n PROVE IsSeq(Change(a, n))
  BY SeqEmpty, SeqOne, Zenon DEF Change

\* The output of an issuance.
LEMMA ReceivedSeq == ASSUME NEW a, NEW n PROVE IsSeq(Received(a, n))
  BY SeqEmpty, SeqOne, Zenon DEF Received

\* The outputs stay a sequence.
LEMMA AddSeq == ASSUME Inv, NEW q, IsSeq(q), Add(q) PROVE IsSeq(outputs)'
<1>1. IsSeq(outputs)
  BY DEF Inv, Taken
<1>2. IsSeq(outputs \o q) /\ outputs' = outputs \o q
  BY <1>1, SeqConcat, Zenon DEF Add
<1>. QED BY <1>2, Zenon DEF IsSeq

\* Coins of an asset are added: none is in the transaction yet, none is one to avoid.
LEMMA AddAssetInv ==
    ASSUME Inv, NEW a \in Asset, AddAsset(a), UNCHANGED <<txs, purpose>>
    PROVE  Inv'
<1>0. pc = "asset" /\ a \in todo /\ pc # "idle"
  BY DEF AddAsset
<1>. DEFINE given == Listed(Given, a)
            deferred == fee_in_asset /\ a = req.fee_asset
            in(coins) == Worth(Given, a) + Value(coins)
            outs(coins) == Recipient(a) \o IF deferred THEN <<>> ELSE Change(a, in(coins) - req.out[a])
<1>1. PICK coins \in Selections(a, Worth(Given, a)) :
          \/ Fail("TooManyInputs", None) \/ Fail("InsufficientFunds", a)
          \/ /\ Spend(given, coins) /\ Add(outs(coins))
             /\ todo' = todo \ {a} /\ UNCHANGED <<utxos, req, pc, minted, sats, error>>
  BY Zenon DEF AddAsset
<1>2. CASE Fail("TooManyInputs", None) \/ Fail("InsufficientFunds", a)
  BY <1>0, <1>2, FailInv, Zenon
<1>3. CASE /\ Spend(given, coins) /\ Add(outs(coins))
           /\ todo' = todo \ {a} /\ UNCHANGED <<utxos, req, pc, minted, sats, error>>
  <2>1. UNCHANGED <<txs, purpose, utxos, req>> /\ pc' = "asset"
    BY <1>0, <1>3
  <2>2. Ledger' /\ Requested' /\ Candidates' = Candidates /\ req' = req
    BY <1>0, <2>1, BuildKeeps, Zenon DEF Inv
  <2>3. IsSeq(outputs)'
    <3>1. IsSeq(IF deferred THEN <<>> ELSE Change(a, in(coins) - req.out[a]))
      BY SeqEmpty, ChangeSeq, Zenon
    <3>. HIDE DEF deferred, in
    <3>2. IsSeq(outs(coins))
      BY <3>1, RecipientSeq, SeqConcat, Zenon
    <3>. QED BY <1>3, <3>2, AddSeq, Zenon
  <2>4. /\ req.manual => Range(req.selected) \subseteq Candidates
        /\ Policy \notin todo
        /\ \A c \in Range(inputs) : c.asset \notin todo /\ c.asset # Policy
        /\ \A c \in Range(req.external) : c.asset \in todo \/ c.asset = Policy \/ c \in Range(inputs)
    BY <1>0, Zenon DEF Inv, Taken
  <2>5. coins \subseteq Candidates /\ (\A c \in coins : c.asset = a) /\ (req.manual => coins = {})
    BY SelectionsOf, Zenon
  <2>6. Spend(Listed(Given, a), coins) /\ \A c \in Range(inputs) : c.asset # a
    BY <1>0, <1>3, <2>4, Zenon
  <2>7. /\ IsSeq(inputs') /\ (Once => IsInjective(inputs'))
        /\ Range(inputs') \subseteq Range(req.external) \cup Candidates
        /\ Range(inputs) \subseteq Range(inputs')
        /\ \A c \in Range(req.external) : c.asset = a => c \in Range(inputs')
        /\ \A c \in Range(inputs') : c \in Range(inputs) \/ c.asset = a
    BY <1>0, <2>4, <2>5, <2>6, SpendTaken, Zenon
  <2>. HIDE DEF given
  <2>8. todo' = todo \ {a} /\ a # Policy
    BY <1>0, <1>3, <2>4, Zenon
  <2>9. /\ Policy \notin todo'
        /\ \A c \in Range(inputs') : c.asset \notin todo' /\ c.asset # Policy
        /\ \A c \in Range(req.external) : c.asset \in todo' \/ c.asset = Policy \/ c \in Range(inputs')
    BY <2>4, <2>7, <2>8
  <2>10. pc' \notin {"idle", "begin"} /\ pc' \notin Late
    BY <2>1 DEF Late
  <2>11. Taken'
    BY <2>1, <2>2, <2>3, <2>4, <2>7, <2>9, <2>10, Zenon DEF Taken, Once
  <2>. QED BY <2>2, <2>11 DEF Inv
<1>. QED BY <1>1, <1>2, <1>3, Zenon

\* Coins for the fee are added, of what is left.
LEMMA AddPolicyInv == ASSUME Inv, AddPolicy, UNCHANGED <<txs, purpose>> PROVE Inv'
<1>0. pc = "asset" /\ todo = {} /\ pc # "idle"
  BY DEF AddPolicy
<1>. DEFINE given == Listed(Given, Policy)
            coins == IF req.manual THEN {} ELSE Of(Candidates, Policy)
<1>1. CASE Fail("TooManyInputs", None)
  BY <1>0, <1>1, FailInv, Zenon
<1>2. CASE /\ Spend(given, coins) /\ Add(Recipient(Policy)) /\ pc' = "issuance"
           /\ UNCHANGED <<utxos, req, todo, minted, held, error>>
  <2>1. UNCHANGED <<txs, purpose, utxos, req>>
    BY <1>2
  <2>2. Ledger' /\ Requested' /\ Candidates' = Candidates /\ req' = req
    BY <1>0, <2>1, BuildKeeps, Zenon DEF Inv
  <2>3. IsSeq(outputs)'
    BY <1>2, RecipientSeq, AddSeq, Zenon
  <2>4. /\ req.manual => Range(req.selected) \subseteq Candidates
        /\ \A c \in Range(inputs) : c.asset # Policy
        /\ \A c \in Range(req.external) : c.asset \in todo \/ c.asset = Policy \/ c \in Range(inputs)
    BY <1>0, Zenon DEF Inv, Taken
  <2>5. coins \subseteq Candidates /\ (\A c \in coins : c.asset = Policy) /\ (req.manual => coins = {})
    BY DEF Of
  <2>6. Spend(Listed(Given, Policy), coins)
    BY <1>2, Zenon
  <2>. HIDE DEF coins, given
  <2>7. /\ IsSeq(inputs') /\ (Once => IsInjective(inputs'))
        /\ Range(inputs') \subseteq Range(req.external) \cup Candidates
        /\ Range(inputs) \subseteq Range(inputs')
        /\ \A c \in Range(req.external) : c.asset = Policy => c \in Range(inputs')
    BY <1>0, <2>4, <2>5, <2>6, SpendTaken, Zenon
  <2>8. Range(req.external) \subseteq Range(inputs')
    BY <1>0, <2>4, <2>7
  <2>9. pc' \notin {"idle", "begin"} /\ pc' # "asset"
    BY <1>2
  <2>10. Taken'
    BY <2>2, <2>3, <2>4, <2>7, <2>8, <2>9, Zenon DEF Taken, Once
  <2>. QED BY <2>2, <2>10 DEF Inv
<1>. QED BY <1>1, <1>2, Zenon DEF AddPolicy

\* A token is added to the inputs if there is none.
LEMMA ReissueInv == ASSUME Inv, Reissue, UNCHANGED <<txs, purpose>> PROVE Inv'
<1>0. pc = "issuance" /\ pc \in Late /\ pc # "idle"
  BY DEF Reissue, Late
<1>. DEFINE found == \E i \in DOMAIN inputs : inputs[i].asset = Token
            issued == Received(Reissued, req.issuance.asset)
            mine == Of(Candidates, Token)
<1>1. CASE Fail("InsufficientToken", Token) \/ Fail("TooManyInputs", None)
  BY <1>0, <1>1, FailInv, Zenon
<1>2. CASE /\ Add(issued) /\ pc' = "change" /\ UNCHANGED inputs
           /\ UNCHANGED <<utxos, req, todo, held, sats, error>>
  <2>1. IsSeq(outputs)'
    BY <1>2, ReceivedSeq, AddSeq, Zenon
  <2>2. pc' \in Late /\ UNCHANGED <<txs, purpose, utxos, req, inputs>>
    BY <1>2 DEF Late
  <2>. QED BY <1>0, <2>1, <2>2, LateInv, Zenon
<1>3. ASSUME ~found, NEW c \in mine, Spend(<<>>, {c}), Add(Returned(c) \o issued), pc' = "change",
             UNCHANGED <<utxos, req, todo, held, sats, error>>
      PROVE  Inv'
  <2>1. UNCHANGED <<txs, purpose, utxos, req>>
    BY <1>3
  <2>2. Ledger' /\ Requested' /\ Candidates' = Candidates /\ req' = req
    BY <1>0, <2>1, BuildKeeps, Zenon DEF Inv
  <2>3. IsSeq(outputs)'
    <3>1. IsSeq(Returned(c)) /\ IsSeq(issued)
      BY SeqOne, ReceivedSeq, Zenon DEF Returned
    <3>. HIDE DEF issued
    <3>2. IsSeq(Returned(c) \o issued)
      BY <3>1, SeqConcat, Zenon
    <3>. QED BY <1>3, <3>2, AddSeq, Zenon
  <2>4. /\ IsSeq(inputs) /\ (Once => IsInjective(inputs))
        /\ Range(inputs) \subseteq Range(req.external) \cup Candidates
        /\ req.manual => Range(req.selected) \subseteq Candidates
        /\ Range(req.external) \subseteq Range(inputs)
    BY <1>0, Zenon DEF Inv, Taken
  <2>5. c \in Candidates /\ c.asset = Token
    BY DEF Of
  <2>6. c \notin Range(inputs)
    <3>1. Range(inputs) = {inputs[i] : i \in DOMAIN inputs}
      BY Zenon DEF Range
    <3>. QED BY <1>3, <2>5, <3>1
  <2>7. /\ IsSeq(<<>>) /\ IsFiniteSet({c}) /\ IsInjective(<<>>) /\ Range(<<>>) = {}
        /\ Range(<<>>) \cap {c} = {} /\ Range(inputs) \cap (Range(<<>>) \cup {c}) = {}
    <3>1. Range(<<>>) = {} /\ IsInjective(<<>>)
      BY DEF Range, IsInjective
    <3>2. IsSeq(<<>>) /\ IsFiniteSet({c})
      BY SeqEmpty, FS_Singleton, Zenon
    <3>. QED BY <2>6, <3>1, <3>2
  <2>8. /\ IsSeq(inputs') /\ Range(inputs') = Range(inputs) \cup Range(<<>>) \cup {c}
        /\ Once => IsInjective(inputs')
    BY <1>3, <2>4, <2>7, SpendRange, Zenon
  <2>9. /\ Range(inputs') \subseteq Range(req.external) \cup Candidates
        /\ Range(req.external) \subseteq Range(inputs')
    BY <2>4, <2>5, <2>7, <2>8
  <2>10. pc' \notin {"idle", "begin"} /\ pc' # "asset"
    BY <1>3
  <2>11. Taken'
    BY <2>2, <2>3, <2>4, <2>8, <2>9, <2>10, Zenon DEF Taken, Once
  <2>. QED BY <2>2, <2>11 DEF Inv
<1>. QED BY <1>1, <1>2, <1>3, Zenon DEF Reissue

\* An issuance or a reissuance adds at most the coin of the token.
LEMMA IssueInv == ASSUME Inv, NoIssuance \/ Issue, UNCHANGED <<txs, purpose>> PROVE Inv'
<1>0. pc = "issuance" /\ pc \in Late /\ pc # "idle"
  BY DEF NoIssuance, Issue, Late
<1>1. CASE NoIssuance
  <2>1. pc' \in Late /\ UNCHANGED <<txs, purpose, utxos, req, inputs, outputs>>
    BY <1>1 DEF NoIssuance, Late, building
  <2>2. IsSeq(outputs)'
    BY <2>1, Zenon DEF Inv, Taken, IsSeq
  <2>. QED BY <1>0, <2>1, <2>2, LateInv
<1>. DEFINE q == Received(Issued, req.issuance.asset) \o Received(IssuedToken, req.issuance.token)
<1>2. CASE Fail("MissingVin", None)
  BY <1>0, <1>2, FailInv, Zenon
<1>3. CASE Add(q) /\ pc' = "change" /\ UNCHANGED <<utxos, req, todo, inputs, held, sats, error>>
  <2>1. pc' \in Late /\ UNCHANGED <<txs, purpose, utxos, req, inputs>>
    BY <1>3 DEF Late
  <2>2. IsSeq(q)
    BY ReceivedSeq, SeqConcat, Zenon
  <2>. HIDE DEF q
  <2>3. IsSeq(outputs)'
    BY <1>3, <2>2, AddSeq, Zenon
  <2>. QED BY <1>0, <2>1, <2>3, LateInv
<1>. QED BY <1>1, <1>2, <1>3, Zenon DEF Issue

\* Change and fee are added; the coins stay as they are.
LEMMA AddChangeInv == ASSUME Inv, AddChange, UNCHANGED <<txs, purpose>> PROVE Inv'
<1>0. pc = "change" /\ pc \in Late /\ pc # "idle"
  BY DEF AddChange, Late
<1>1. PICK n, m, k : \/ Fail("InsufficientFunds", Policy) \/ Fail("InsufficientFunds", req.fee_asset)
                     \/ /\ Add(Change(Policy, n)
                               \o (IF fee_in_asset THEN Change(req.fee_asset, m) ELSE <<>>)
                               \o <<k>>)
                        /\ pc' = "fee"
                        /\ UNCHANGED <<utxos, req, todo, inputs, minted, held, sats, error>>
  BY Zenon DEF AddChange
<1>. DEFINE p == Change(Policy, n)
            q == IF fee_in_asset THEN Change(req.fee_asset, m) ELSE <<>>
<1>2. CASE Fail("InsufficientFunds", Policy) \/ Fail("InsufficientFunds", req.fee_asset)
  BY <1>0, <1>2, FailInv, Zenon
<1>3. CASE /\ Add(p \o q \o <<k>>) /\ pc' = "fee"
           /\ UNCHANGED <<utxos, req, todo, inputs, minted, held, sats, error>>
  <2>1. pc' \in Late /\ UNCHANGED <<txs, purpose, utxos, req, inputs>>
    BY <1>3 DEF Late
  <2>2. IsSeq(p) /\ IsSeq(q) /\ IsSeq(<<k>>)
    BY SeqEmpty, SeqOne, ChangeSeq, Zenon
  <2>. HIDE DEF p, q
  <2>3. IsSeq(p \o q)
    BY <2>2, SeqConcat, Zenon
  <2>4. IsSeq((p \o q) \o <<k>>)
    BY <2>2, <2>3, SeqConcat, Zenon
  <2>5. IsSeq(outputs)'
    BY <1>3, <2>4, AddSeq, Zenon
  <2>. QED BY <1>0, <2>1, <2>5, LateInv
<1>. QED BY <1>1, <1>2, <1>3, Zenon

\* Amounts are set, and the change dropped if it is dust.
LEMMA FinishInv == ASSUME Inv, FinishInAsset \/ FinishInPolicy, UNCHANGED <<txs, purpose>> PROVE Inv'
<1>0. pc = "fee" /\ pc \in Late /\ pc # "idle"
  BY Zenon DEF FinishInAsset, FinishInPolicy, Late
<1>1. ASSUME NEW n \in Nat, NEW x PROVE IsSeq(AllBut(n) \o <<x>>)
  <2>1. IsSeq(AllBut(n))
    BY SeqCut, Zenon DEF AllBut, Inv, Taken
  <2>. QED BY <2>1, SeqOne, SeqConcat, Zenon
<1>2. ASSUME NEW n \in Nat, NEW x, NEW y PROVE IsSeq(AllBut(n) \o <<x, y>>)
  <2>1. IsSeq(AllBut(n))
    BY SeqCut, Zenon DEF AllBut, Inv, Taken
  <2>. QED BY <2>1, SeqTwo, SeqConcat, Zenon
<1>3. 1 \in Nat /\ 2 \in Nat
  OBVIOUS
<1>4. ASSUME NEW q, IsSeq(q), outputs' = q, pc' = "built",
             UNCHANGED <<utxos, req, todo, inputs, minted, held, sats, error>>
      PROVE  Inv'
  <2>1. pc' \in Late /\ UNCHANGED <<txs, purpose, utxos, req, inputs>>
    BY <1>4 DEF Late
  <2>2. IsSeq(outputs)'
    BY <1>4, Zenon DEF IsSeq
  <2>. QED BY <1>0, <2>1, <2>2, LateInv
<1>5. CASE FinishInAsset
  <2>. DEFINE a == req.fee_asset
              fee == FeeInAsset(Weighed, req.rate)
              x_change == (held.in - held.out - fee) % U64
              dust == ConvertValueToAmount(DustValue, req.rate)
              final == IF held.in = held.out THEN AllBut(1) \o <<Output(a, fee, "fee")>>
                       ELSE IF x_change > dust
                       THEN AllBut(2) \o <<Output(a, x_change, "change"), Output(a, fee, "fee")>>
                       ELSE AllBut(2) \o <<Output(a, Folded(fee, x_change), "fee")>>
  <2>1. \/ Fail("Generic", a) \/ Fail("InsufficientFunds", a)
        \/ /\ outputs' = final /\ pc' = "built"
           /\ UNCHANGED <<utxos, req, todo, inputs, minted, held, sats, error>>
    BY <1>5, Zenon DEF FinishInAsset
  <2>2. IsSeq(final)
    <3>. HIDE DEF a, fee, x_change, dust
    <3>. QED BY <1>1, <1>2, <1>3, Zenon
  <2>. HIDE DEF final, a
  <2>. QED BY <1>0, <1>4, <2>1, <2>2, FailInv, Zenon
<1>6. CASE FinishInPolicy
  <2>. DEFINE final == AllBut(2) \o <<Output(Policy, sats.in - sats.out - Weighed, "change"),
                                      Output(Policy, Weighed, "fee")>>
  <2>1. \/ Fail("InsufficientFunds", Policy)
        \/ /\ outputs' = final /\ pc' = "built"
           /\ UNCHANGED <<utxos, req, todo, inputs, minted, held, sats, error>>
    BY <1>6, Zenon DEF FinishInPolicy
  <2>2. IsSeq(final)
    BY <1>2, <1>3, Zenon
  <2>. HIDE DEF final
  <2>. QED BY <1>0, <1>4, <2>1, <2>2, FailInv, Zenon
<1>. QED BY <1>5, <1>6, Zenon

-----------------------------------------------------------------------------
(* A build begins.                                                         *)

\* A request that is what its purpose asks for starts the builder.
LEMMA StartInv ==
    ASSUME Inv, pc = "idle", NEW kind, NEW n, NEW r, Start(kind, n, r), For(kind, n, r)
    PROVE  Inv'
<1>1. /\ pc' = "begin" /\ req' = r /\ UNCHANGED <<utxos, txs>>
      /\ inputs' = inputs /\ outputs' = outputs
      /\ purpose' = [kind |-> kind, of |-> n]
  BY DEF Start, building
<1>2. purpose'.kind = kind /\ purpose'.of = n
  BY <1>1
<1>3. /\ Ledger' /\ Live' = Live /\ txs' = txs
      /\ \A m : Outs(m, Owned)' = Outs(m, Owned) /\ Mine(m)' = Mine(m)
      /\ \A C, N : Unused(C, N)' <=> Unused(C, N)
  BY <1>1, WalletKeeps, Zenon DEF Inv
<1>4. Requested'
  BY <1>1, <1>2, <1>3, Zenon DEF Requested, For, IsSeq
<1>5. inputs = <<>> /\ IsSeq(inputs) /\ IsSeq(outputs)
  BY <1>1, Zenon DEF Inv, Taken
<1>6. Range(inputs') = {} /\ IsInjective(inputs') /\ IsSeq(inputs') /\ IsSeq(outputs') /\ inputs' = <<>>
  <2>1. Range(inputs) = {} /\ IsInjective(inputs)
    BY <1>5 DEF Range, IsInjective
  <2>. QED BY <1>1, <1>5, <2>1, Zenon
<1>7. pc' \notin Late \cup {"asset"}
  BY <1>1 DEF Late
<1>8. Taken'
  BY <1>6, <1>7, Zenon DEF Taken
<1>. QED BY <1>3, <1>4, <1>8 DEF Inv

\* What a child may spend of its parent is the wallet's own.
LEMMA SpendableOwned == ASSUME NEW n PROVE Spendable(n) \subseteq Outs(n, Owned)
<1>1. Outs(n, {"change"}) \subseteq Outs(n, Owned)
  BY DEF Outs, Owned
<1>2. \A C : First(C) \subseteq C
  BY DEF First
<1>. QED BY <1>1, <1>2, Zenon DEF Spendable

\* The request with other coins pinned and avoided.
LEMMA WithDoes ==
    ASSUME NEW o \in Builder, NEW e, NEW v
    PROVE  /\ With(o, e, v).external = e \o o.external /\ With(o, e, v).avoid = v
           /\ With(o, e, v).selected = o.selected
           /\ \A x, y : LET w == [With(o, e, v) EXCEPT !.out = x, !.own = y] IN
                        w.external = e \o o.external /\ w.avoid = v /\ w.selected = o.selected
  BY DEF With, Builder

\* What the caller lists.
LEMMA OrderLists ==
    ASSUME NEW o \in Order
    PROVE  /\ o \in Builder /\ IsSeq(o.external) /\ IsSeq(o.selected)
           /\ Range(o.external) \subseteq Foreign
<1>1. o \in Builder /\ Range(o.external) \subseteq Foreign
  BY OrderAssumption
<1>2. o.external \in Seq(Coin) /\ o.selected \in Seq(Coin)
  BY <1>1 DEF Builder
<1>. QED BY <1>1, <1>2, SeqIs, Zenon

\* The request of a replacement or a bump pins the wallet's inputs of the transaction.
LEMMA Repinned ==
    ASSUME Inv, NEW o \in Order, NEW n \in Live, Mine(n) # {}, Free(o, {n}), NEW r,
           r.external = InOrder(Mine(n)) \o o.external, r.selected = o.selected,
           r.avoid = Outs(n, Owned), NEW kind \in {"replace", "bump"}
    PROVE  For(kind, n, r)
<1>1. IsSeq(o.external) /\ IsSeq(o.selected) /\ Range(o.external) \subseteq Foreign
  BY OrderLists, Zenon
<1>. DEFINE q == InOrder(Mine(n))
<1>2. IsFiniteSet(Mine(n)) /\ Mine(n) \subseteq txs[n].ins
  <2>1. n \in DOMAIN txs
    BY LiveKnown DEF Inv
  <2>2. IsFiniteSet(txs[n].ins)
    BY <2>1, Zenon DEF Inv, Ledger
  <2>3. Mine(n) \in SUBSET txs[n].ins
    BY DEF Mine
  <2>. QED BY <2>2, <2>3, FS_Subset, Zenon
<1>3. IsSeq(q) /\ Range(q) = Mine(n)
  <2>1. Lists(q, Mine(n))
    BY <1>2, InOrderLists, Zenon
  <2>. HIDE DEF q
  <2>2. q \in Seq(Mine(n))
    BY <2>1, Zenon DEF Lists
  <2>. QED BY <2>1, <2>2, ListsRange, SeqIs, Zenon
<1>4. r.external = q \o o.external
  OBVIOUS
<1>. HIDE DEF q
<1>5. IsSeq(r.external) /\ Range(r.external) = Mine(n) \cup Range(o.external)
  BY <1>1, <1>3, <1>4, ConcatRange, Zenon
<1>6. Unused(Range(r.external), {n})
  <2>. SUFFICES ASSUME NEW m \in Live, m # n PROVE txs[m].ins \cap Range(r.external) = {}
    BY DEF Unused
  <2>1. txs[m].ins \cap txs[n].ins = {}
    BY Zenon DEF Inv, Ledger
  <2>2. txs[m].ins \cap Range(o.external) = {}
    BY DEF Free
  <2>. QED BY <1>2, <1>5, <2>1, <2>2
<1>7. Mine(n) \subseteq Range(r.external) /\ Range(r.external) \subseteq Mine(n) \cup Foreign
  BY <1>1, <1>5
<1>8. IsSeq(r.selected)
  BY <1>1, Zenon
<1>. QED BY <1>5, <1>6, <1>7, <1>8, Zenon DEF For

\* Sending, replacing, bumping and paying for a parent start the builder rightly.
LEMMA AskInv == ASSUME Inv, Ask PROVE Inv'
<1>1. PICK order \in Order : \/ Send(order)
                             \/ \E n \in Live : Replace(order, n) \/ Bump(order, n) \/ Cpfp(order, n)
  BY DEF Ask
<1>2. /\ pc = "idle" /\ order \in Builder /\ IsSeq(order.external) /\ IsSeq(order.selected)
      /\ Range(order.external) \subseteq Foreign
  BY OrderLists, Zenon DEF Ask
<1>3. CASE Send(order)
  <2>1. Unused(Range(order.external), {})
    BY <1>3 DEF Send, Free, Unused
  <2>. QED BY <1>2, <1>3, <2>1, StartInv, Zenon DEF Send, For
<1>r. ASSUME NEW n, NEW x, NEW y
      PROVE  LET r == Repin(order, n)  w == [r EXCEPT !.out = x, !.own = y] IN
             /\ r.external = InOrder(Mine(n)) \o order.external /\ w.external = r.external
             /\ r.selected = order.selected /\ w.selected = r.selected
             /\ r.avoid = Outs(n, Owned) /\ w.avoid = r.avoid
  <2>. DEFINE q == InOrder(Mine(n)) o == Outs(n, Owned)
  <2>1. Repin(order, n) = With(order, q, o)
    BY DEF Repin
  <2>. HIDE DEF q, o
  <2>2. /\ With(order, q, o).external = q \o order.external /\ With(order, q, o).avoid = o
        /\ With(order, q, o).selected = order.selected
        /\ LET w == [With(order, q, o) EXCEPT !.out = x, !.own = y] IN
           w.external = q \o order.external /\ w.avoid = o /\ w.selected = order.selected
    BY <1>2, WithDoes
  <2>. QED BY <2>1, <2>2, Zenon DEF q, o
<1>4. ASSUME NEW n \in Live, Replace(order, n) PROVE Inv'
  <2>1. /\ Repin(order, n).external = InOrder(Mine(n)) \o order.external
        /\ Repin(order, n).selected = order.selected /\ Repin(order, n).avoid = Outs(n, Owned)
    BY <1>r, Zenon
  <2>2. For("replace", n, Repin(order, n))
    BY <1>4, <2>1, Repinned, Zenon DEF Replace
  <2>. QED BY <1>2, <1>4, <2>2, StartInv, Zenon DEF Replace
<1>5. ASSUME NEW n \in Live, Bump(order, n) PROVE Inv'
  <2>1. PICK x, y : Start("bump", n, [Repin(order, n) EXCEPT !.out = x, !.own = y])
    BY <1>5, Zenon DEF Bump
  <2>. DEFINE r == [Repin(order, n) EXCEPT !.out = x, !.own = y]
  <2>2. /\ r.external = InOrder(Mine(n)) \o order.external /\ r.selected = order.selected
        /\ r.avoid = Outs(n, Owned)
    BY <1>r
  <2>. HIDE DEF r
  <2>3. For("bump", n, r)
    BY <1>5, <2>2, Repinned, Zenon DEF Bump
  <2>4. Start("bump", n, r)
    BY <2>1 DEF r
  <2>. QED BY <1>2, <2>3, <2>4, StartInv, Zenon
<1>6. ASSUME NEW n \in Live, Cpfp(order, n) PROVE Inv'
  <2>1. PICK c \in Spendable(n) : Start("cpfp", n, With(order, <<c>>, {}))
    BY <1>6, Zenon DEF Cpfp
  <2>. DEFINE r == With(order, <<c>>, {})
  <2>2. r.external = <<c>> \o order.external /\ r.selected = order.selected
    <3>. DEFINE q == <<c>>
    <3>1. r = With(order, q, {})
      OBVIOUS
    <3>. HIDE DEF q, r
    <3>2. /\ With(order, q, {}).external = q \o order.external
          /\ With(order, q, {}).selected = order.selected
      BY <1>2, WithDoes
    <3>. QED BY <3>1, <3>2, Zenon DEF q
  <2>. HIDE DEF r
  <2>3. IsSeq(<<c>>) /\ Range(<<c>>) = {c}
    BY SeqOne DEF Range
  <2>4. IsSeq(r.external) /\ Range(r.external) = {c} \cup Range(order.external)
    BY <1>2, <2>2, <2>3, ConcatRange, Zenon
  <2>5. c \in Outs(n, Owned)
    BY SpendableOwned
  <2>6. c \notin Foreign
    <3>1. n \in DOMAIN txs /\ n # 0
      BY LiveKnown DEF Inv
    <3>2. c.tx = n
      BY <2>5, <3>1, OutsFinite, Zenon DEF Inv
    <3>. QED BY <3>1, <3>2, ForeignAssumption
  <2>7. Unused(Range(r.external) \cap Foreign, {})
    <3>. SUFFICES ASSUME NEW m \in Live PROVE txs[m].ins \cap (Range(r.external) \cap Foreign) = {}
      BY DEF Unused
    <3>1. txs[m].ins \cap Range(order.external) = {}
      BY <1>6 DEF Cpfp, Free
    <3>. QED BY <2>4, <2>6, <3>1
  <2>8. Range(r.external) \subseteq Outs(n, Owned) \cup Foreign
    BY <1>2, <2>4, <2>5
  <2>9. For("cpfp", n, r)
    BY <1>2, <2>2, <2>4, <2>7, <2>8, Zenon DEF For
  <2>10. Start("cpfp", n, r)
    BY <2>1 DEF r
  <2>. QED BY <1>2, <2>9, <2>10, StartInv, Zenon
<1>. QED BY <1>1, <1>3, <1>4, <1>5, <1>6, Zenon

-----------------------------------------------------------------------------
(* The node takes the transaction.                                         *)

\* A transaction that is broadcast evicts what it conflicts with and all that spends from that.
LEMMA BroadcastInv == ASSUME Inv, Broadcast PROVE Inv'
<1>. DEFINE N == Len(txs)
            new == [ins |-> Range(inputs), outs |-> outputs, live |-> TRUE]
            old == [n \in DOMAIN txs |-> [txs[n] EXCEPT !.live = @ /\ n \notin Gone]]
<1>1. /\ pc = "built" /\ txs' = Append(old, new) /\ utxos' = Unspent' /\ pc' = "idle"
      /\ inputs' = <<>> /\ outputs' = <<>>
  BY DEF Broadcast, Reset
<1>2. N \in Nat /\ DOMAIN txs = 1..N /\ Live \subseteq 1..N /\ IsSeq(txs)
  BY LiveKnown, Zenon DEF Inv, Ledger
<1>3. ASSUME NEW n \in 1..N
      PROVE  old[n] = [ins |-> txs[n].ins, outs |-> txs[n].outs, live |-> txs[n].live /\ n \notin Gone]
  <2>1. txs[n] = [ins |-> txs[n].ins, outs |-> txs[n].outs, live |-> txs[n].live]
    BY <1>2 DEF Inv, Ledger
  <2>. DEFINE i == txs[n].ins o == txs[n].outs l == txs[n].live
  <2>2. old[n] = [txs[n] EXCEPT !.live = @ /\ n \notin Gone]
    BY <1>2
  <2>. HIDE DEF i, o, l
  <2>3. txs[n] = [ins |-> i, outs |-> o, live |-> l]
    BY <2>1 DEF i, o, l
  <2>. HIDE DEF old
  <2>4. old[n] = [ins |-> i, outs |-> o, live |-> l /\ n \notin Gone]
    BY <2>2, <2>3
  <2>. QED BY <2>4 DEF i, o, l
<1>4. old \in Seq({old[n] : n \in 1..N}) /\ Len(old) = N
  <2>1. old \in [1..N -> {old[n] : n \in 1..N}]
    BY <1>2
  <2>. HIDE DEF old
  <2>. QED BY <1>2, <2>1
<1>5. /\ Len(txs') = N + 1 /\ DOMAIN txs' = 1 .. N + 1 /\ txs'[N + 1] = new
      /\ \A n \in 1..N : txs'[n] = old[n]
      /\ IsSeq(txs')
  <2>. DEFINE X == {old[n] : n \in 1..N} \cup {new}
  <2>1. old \in Seq(X) /\ new \in X
    <3>. HIDE DEF old, new
    <3>. DEFINE Y == {old[n] : n \in 1..N}
    <3>1. old \in Seq(Y)
      BY <1>4
    <3>. HIDE DEF Y
    <3>2. old \in Seq(Y \cup {new})
      BY <3>1
    <3>. QED BY <3>2 DEF Y
  <2>. HIDE DEF old, new, X
  <2>2. Append(old, new) \in Seq(X)
    BY <2>1
  <2>3. IsSeq(Append(old, new))
    BY <2>2, SeqIs, Zenon
  <2>4. IsSeq(txs')
    BY <1>1, <2>3, Zenon
  <2>. QED BY <1>1, <1>2, <1>4, <2>1, <2>4
<1>. HIDE DEF old
<1>6. ASSUME NEW n \in 1..N
      PROVE  /\ txs'[n].ins = txs[n].ins /\ txs'[n].outs = txs[n].outs
             /\ txs'[n].live = (txs[n].live /\ n \notin Gone)
             /\ txs'[n] = [ins |-> txs'[n].ins, outs |-> txs'[n].outs, live |-> txs'[n].live]
  <2>. DEFINE i == txs[n].ins o == txs[n].outs l == txs[n].live /\ n \notin Gone
  <2>1. txs'[n] = [ins |-> i, outs |-> o, live |-> l]
    BY <1>3, <1>5, Zenon
  <2>. HIDE DEF i, o, l
  <2>2. txs'[n].ins = i /\ txs'[n].outs = o /\ txs'[n].live = l
    BY ONLY <2>1
  <2>. QED BY <2>1, <2>2, Zenon DEF i, o, l
<1>7. /\ txs'[N + 1].ins = Range(inputs) /\ txs'[N + 1].outs = outputs /\ txs'[N + 1].live = TRUE
      /\ txs'[N + 1] = [ins |-> txs'[N + 1].ins, outs |-> txs'[N + 1].outs, live |-> txs'[N + 1].live]
  BY <1>5
<1>. HIDE DEF new, N
<1>8. IsFiniteSet(Range(inputs)) /\ \A c \in Range(inputs) : c.tx \in 0..N
  <2>1. IsFiniteSet(Range(req.external)) /\ \A c \in Range(req.external) : c.tx \in 0..N
    BY <1>1, ExternalKnown, RangeFinite DEF Inv, N
  <2>2. IsFiniteSet(utxos) /\ \A c \in utxos : c.tx = 0 \/ c.tx \in DOMAIN txs
    BY UnspentKnown, Zenon DEF Inv
  <2>3. Range(inputs) \subseteq Range(req.external) \cup utxos
    BY DEF Inv, Taken, Candidates
  <2>4. IsFiniteSet(Range(req.external) \cup utxos)
    BY <2>1, <2>2, FS_Union, Zenon
  <2>5. IsFiniteSet(Range(inputs))
    BY <2>3, <2>4, FS_Subset
  <2>. QED BY <1>2, <2>1, <2>2, <2>3, <2>5
<1>9. ASSUME NEW n \in DOMAIN txs'
      PROVE  /\ txs'[n] = [ins |-> txs'[n].ins, outs |-> txs'[n].outs, live |-> txs'[n].live]
             /\ txs'[n].live \in BOOLEAN /\ IsSeq(txs'[n].outs)
             /\ IsFiniteSet(txs'[n].ins) /\ \A c \in txs'[n].ins : c.tx \in 0 .. n - 1
  <2>1. CASE n = N + 1
    <3>1. IsSeq(outputs) /\ n - 1 = N
      BY <1>2, <2>1 DEF Inv, Taken
    <3>. QED BY <1>7, <1>8, <2>1, <3>1, Zenon
  <2>2. CASE n # N + 1
    <3>1. n \in 1..N /\ n \in DOMAIN txs
      BY <1>2, <1>5, <2>2
    <3>2. /\ IsSeq(txs[n].outs) /\ IsFiniteSet(txs[n].ins)
          /\ \A c \in txs[n].ins : c.tx \in 0 .. n - 1
      BY <3>1, Zenon DEF Inv, Ledger
    <3>. QED BY <1>6, <3>1, <3>2, Zenon
  <2>. QED BY <2>1, <2>2
<1>10. ASSUME NEW n \in Live', n # N + 1
       PROVE  n \in Live /\ txs'[n].ins = txs[n].ins /\ txs[n].ins \cap Range(inputs) = {}
  <2>1. n \in 1..N /\ txs'[n].live
    BY <1>2, <1>5, <1>10 DEF Live
  <2>2. n \in Live /\ n \notin Gone
    BY <1>2, <1>6, <2>1, Zenon DEF Live
  <2>3. n \notin Clash
    BY <2>2, GoneClash
  <2>. QED BY <1>6, <2>1, <2>2, <2>3, Zenon DEF Clash
<1>11. ASSUME NEW m \in Live', NEW n \in Live', m # n PROVE txs'[m].ins \cap txs'[n].ins = {}
  <2>1. CASE m = N + 1
    BY <1>7, <1>10, <1>11, <2>1
  <2>2. CASE n = N + 1
    BY <1>7, <1>10, <1>11, <2>2
  <2>3. CASE m # N + 1 /\ n # N + 1
    <3>1. /\ m \in Live /\ txs'[m].ins = txs[m].ins
          /\ n \in Live /\ txs'[n].ins = txs[n].ins
      BY <1>10, <2>3, Zenon
    <3>. QED BY <1>11, <3>1, Zenon DEF Inv, Ledger
  <2>. QED BY <2>1, <2>2, <2>3, SMTT(20)
<1>12. Ledger'
  BY <1>1, <1>5, <1>9, <1>11, Zenon DEF Ledger
<1>13. Requested'
  BY <1>1 DEF Requested
<1>14. Taken'
  <2>1. Range(inputs') = {} /\ IsInjective(inputs') /\ inputs' = <<>>
    BY <1>1 DEF Range, IsInjective
  <2>2. IsSeq(inputs') /\ IsSeq(outputs')
    BY <1>1, SeqEmpty, Zenon
  <2>3. pc' \notin Late \cup {"asset"}
    BY <1>1 DEF Late
  <2>. QED BY <2>1, <2>2, <2>3, Zenon DEF Taken
<1>. QED BY <1>12, <1>13, <1>14 DEF Inv

-----------------------------------------------------------------------------
(* The theorems.                                                           *)

\* Nothing is built in the first state.
LEMMA InitInv == Init => Inv
<1>. SUFFICES ASSUME Init PROVE Inv
  OBVIOUS
<1>1. txs = Incoming /\ utxos = Unspent /\ pc = "idle" /\ inputs = <<>> /\ outputs = <<>>
  BY DEF Init, Blank
<1>2. IsSeq(txs)
  BY <1>1, IncomingAssumption, SeqIs, Zenon
<1>3. \A n \in DOMAIN txs :
         /\ txs[n] = [ins |-> txs[n].ins, outs |-> txs[n].outs, live |-> txs[n].live]
         /\ txs[n].live \in BOOLEAN /\ IsSeq(txs[n].outs) /\ txs[n].ins = {}
  <2>. SUFFICES ASSUME NEW n \in DOMAIN txs
                PROVE  /\ txs[n] = [ins |-> txs[n].ins, outs |-> txs[n].outs, live |-> txs[n].live]
                       /\ txs[n].live \in BOOLEAN /\ IsSeq(txs[n].outs) /\ txs[n].ins = {}
    OBVIOUS
  <2>. DEFINE O == Seq([asset : Asset, amount : Nat, to : STRING])
  <2>. DEFINE T == [ins : SUBSET Coin, live : BOOLEAN, outs : O]
  <2>1. txs[n] \in T /\ txs[n].ins = {}
    <3>1. txs \in Seq(T) /\ txs[n].ins = {}
      BY <1>1, IncomingAssumption, Zenon
    <3>. HIDE DEF T
    <3>. QED BY <3>1
  <2>2. IsSeq(txs[n].outs)
    <3>1. txs[n].outs \in O
      <4>. HIDE DEF O
      <4>. QED BY <2>1
    <3>. QED BY <3>1, SeqIs, Zenon
  <2>. HIDE DEF O
  <2>. QED BY <2>1, <2>2
<1>4. Ledger
  <2>1. \A n \in DOMAIN txs : IsFiniteSet(txs[n].ins) /\ \A c \in txs[n].ins : c.tx \in 0 .. n - 1
    BY <1>3, FS_EmptySet, Zenon
  <2>2. \A m, n \in Live : m # n => txs[m].ins \cap txs[n].ins = {}
    BY <1>3 DEF Live
  <2>. QED BY <1>1, <1>2, <1>3, <2>1, <2>2, Zenon DEF Ledger
<1>5. Requested
  BY <1>1 DEF Requested
<1>6. Taken
  <2>1. Range(inputs) = {} /\ IsInjective(inputs)
    BY <1>1 DEF Range, IsInjective
  <2>2. IsSeq(inputs) /\ IsSeq(outputs)
    BY <1>1, SeqEmpty, Zenon
  <2>3. pc \notin Late \cup {"asset"}
    BY <1>1 DEF Late
  <2>. QED BY <1>1, <2>1, <2>2, <2>3, Zenon DEF Taken
<1>. QED BY <1>4, <1>5, <1>6 DEF Inv

\* Every step keeps the inductive invariant.
LEMMA NextInv == Inv /\ [Next]_vars => Inv'
<1>. SUFFICES ASSUME Inv, [Next]_vars PROVE Inv'
  OBVIOUS
<1>1. CASE Ask
  BY <1>1, AskInv
<1>2. CASE Build /\ UNCHANGED <<txs, purpose>>
  <2>1. ASSUME NEW a \in Asset, AddAsset(a) PROVE Inv'
    BY <1>2, <2>1, AddAssetInv
  <2>. QED
    BY <1>2, <2>1, BeginInv, AddPolicyInv, IssueInv, ReissueInv, AddChangeInv, FinishInv, Zenon
       DEF Build
<1>3. CASE Broadcast
  BY <1>3, BroadcastInv
<1>4. CASE UNCHANGED vars
  <2>1. UNCHANGED <<txs, utxos>> /\ pc' = pc /\ req' = req /\ purpose' = purpose /\ todo' = todo
        /\ inputs' = inputs /\ outputs' = outputs
    BY <1>4 DEF vars, builderVars, building
  <2>2. /\ Ledger' /\ Live' = Live /\ txs' = txs
        /\ \A n : Outs(n, Owned)' = Outs(n, Owned) /\ Mine(n)' = Mine(n)
        /\ \A C, N : Unused(C, N)' <=> Unused(C, N)
    BY <2>1, WalletKeeps, Zenon DEF Inv
  <2>3. Requested'
    BY <2>1, <2>2, Zenon DEF Inv, Requested, For, IsSeq
  <2>4. Candidates' = Candidates
    BY <2>1 DEF Candidates
  <2>5. Taken'
    BY <2>1, <2>4, Zenon DEF Inv, Taken, Once, IsSeq
  <2>. QED BY <2>2, <2>3, <2>5 DEF Inv
<1>. QED BY <1>1, <1>2, <1>3, <1>4 DEF Next

\* No coin is spent twice by a transaction unless the caller lists it twice in one
\* call, whatever is pinned, added, selected by hand, selected automatically or
\* added for a reissuance.
THEOREM NoDoubleSpend == Spec => []SpendsOnce
<1>1. Inv => SpendsOnce
  BY Zenon DEF Inv, Taken, Once, SpendsOnce
<1>. QED BY <1>1, InitInv, NextInv, PTL DEF Spec

\* What a built transaction conflicts with.
LEMMA ClashOf ==
    ASSUME Inv, pc = "built"
    PROVE  /\ purpose.kind \in {"replace", "bump"} =>
                  purpose.of \in Live /\ Clash = {purpose.of}
           /\ purpose.kind = "send" => Clash = {}
           /\ purpose.kind = "cpfp" => Clash = {} \/ SpentSince
           /\ purpose.kind \in {"send", "replace", "bump", "cpfp"}
<1>. DEFINE E == Range(req.external)
<1>1. E \subseteq Range(inputs) /\ Range(inputs) \subseteq E \cup utxos
  BY DEF Inv, Taken, Late, Candidates
<1>2. \A c \in utxos : \A n \in Live : c \notin txs[n].ins
  BY UnspentKnown, Zenon DEF Inv
<1>. HIDE DEF E
<1>3. ASSUME NEW n \in Clash PROVE n \in Live /\ \E c \in E : c \in txs[n].ins
  BY <1>1, <1>2 DEF Clash
<1>4. CASE purpose.kind = "send" /\ Unused(E, {})
  BY <1>3, <1>4 DEF Unused
<1>5. CASE /\ purpose.kind \in {"replace", "bump"} /\ purpose.of \in Live
           /\ Mine(purpose.of) # {} /\ Mine(purpose.of) \subseteq E /\ Unused(E, {purpose.of})
  <2>1. purpose.of \in Clash
    BY <1>1, <1>5 DEF Clash, Mine
  <2>2. \A n \in Clash : n = purpose.of
    BY <1>3, <1>5 DEF Unused
  <2>3. Clash = {purpose.of}
    BY <2>1, <2>2
  <2>4. purpose.kind # "send" /\ purpose.kind # "cpfp"
    BY <1>5
  <2>. QED BY <1>5, <2>3, <2>4, Zenon
<1>6. CASE /\ purpose.kind = "cpfp" /\ purpose.of \in Live
           /\ E \subseteq Outs(purpose.of, Owned) \cup Foreign /\ Unused(E \cap Foreign, {})
  <2>1. \A c \in Outs(purpose.of, Owned) : c.tx = purpose.of
    <3>1. purpose.of \in DOMAIN txs
      BY <1>6 DEF Live
    <3>. QED BY <3>1, OutsFinite, Zenon DEF Inv
  <2>2. ASSUME NEW n \in Clash PROVE \E c \in txs[n].ins : c.tx = purpose.of
    <3>1. PICK c \in E : c \in txs[n].ins /\ n \in Live
      BY <1>3
    <3>2. c \notin Foreign
      BY <1>6, <3>1 DEF Unused
    <3>. QED BY <1>6, <2>1, <3>1, <3>2
  <2>3. Clash # {} => SpentSince
    BY <1>3, <1>6, <2>2 DEF SpentSince
  <2>. QED BY <1>6, <2>3
<1>7. For(purpose.kind, purpose.of, req)
  BY DEF Inv, Requested
<1>. QED BY <1>4, <1>5, <1>6, <1>7, Zenon DEF For, E

\* A replacement or a bump conflicts with the transaction it replaces and with no
\* other; a payment, or a child of a parent whose outputs are unspent, with none.
THEOREM ConflictsOnlyAsMeant == Spec => []ConflictsAsMeant
<1>1. Inv => ConflictsAsMeant
  <2>. SUFFICES ASSUME Inv, pc = "built"
                PROVE  CASE purpose.kind \in {"replace", "bump"} -> Clash = {purpose.of}
                         [] purpose.kind = "send" -> Clash = {}
                         [] purpose.kind = "cpfp" -> Clash = {} \/ SpentSince
    BY Zenon DEF ConflictsAsMeant
  <2>. QED BY ClashOf, Zenon
<1>. QED BY <1>1, InitInv, NextInv, PTL DEF Spec

\* A built transaction spends no output of what it evicts, unless an output of the
\* transaction it rescues was spent since.
THEOREM ReplacementStands == Spec => []Relayable
<1>1. Inv => Relayable
  <2>. SUFFICES ASSUME Inv, pc = "built", ~SpentSince, NEW i \in DOMAIN inputs,
                       inputs[i].tx \in Gone
                PROVE  FALSE
    BY DEF Relayable
  <2>1. Clash # {}
    <3>. SUFFICES ASSUME Clash = {} PROVE FALSE
      OBVIOUS
    <3>1. Children(Clash) = {}
      BY DEF Children
    <3>. QED BY <3>1, GoneOnly
  <2>2. /\ purpose.kind \in {"replace", "bump"} /\ purpose.of \in Live /\ Clash = {purpose.of}
    BY <2>1, ClashOf
  <2>3. purpose.kind # "send"
    BY <2>2
  <2>4. Children(Clash) = {}
    BY <2>2, <2>3 DEF Children, SpentSince
  <2>5. inputs[i].tx = purpose.of
    BY <2>2, <2>4, GoneOnly
  <2>6. /\ Range(req.external) \subseteq txs[purpose.of].ins \cup Foreign
        /\ req.avoid = Outs(purpose.of, Owned)
    <3>1. /\ Range(req.external) \subseteq Mine(purpose.of) \cup Foreign
          /\ req.avoid = Outs(purpose.of, Owned)
      BY <2>2 DEF Inv, Requested, For
    <3>. QED BY <3>1 DEF Mine
  <2>7. purpose.of \in 1..Len(txs) /\ purpose.of \in DOMAIN txs
    BY <2>2, LiveKnown DEF Inv
  <2>8. inputs[i] \in Range(req.external) \cup Candidates
    <3>1. inputs[i] \in Range(inputs)
      BY Zenon DEF Range
    <3>. QED BY <3>1 DEF Inv, Taken
  <2>9. CASE inputs[i] \in Range(req.external)
    <3>1. \A c \in txs[purpose.of].ins : c.tx \in 0 .. purpose.of - 1
      BY <2>7, Zenon DEF Inv, Ledger
    <3>2. \A c \in Foreign : c.tx = 0
      BY ForeignAssumption
    <3>. QED BY <2>5, <2>6, <2>7, <2>9, <3>1, <3>2
  <2>10. CASE inputs[i] \in Candidates
    <3>1. inputs[i] \in utxos /\ inputs[i] \notin req.avoid
      BY <2>10 DEF Candidates
    <3>2. inputs[i].tx = 0 \/ inputs[i] \in Outs(inputs[i].tx, Owned)
      BY <3>1, UnspentKnown, Zenon DEF Inv
    <3>. QED BY <2>5, <2>6, <2>7, <3>1, <3>2
  <2>. QED BY <2>8, <2>9, <2>10
<1>. QED BY <1>1, InitInv, NextInv, PTL DEF Spec

==============================================================================
