------------------------------ MODULE App_proof ------------------------------
(***************************************************************************)
(* Proofs about App: the state file always replays, to the state of the    *)
(* application, for any number of wallets, signers, assets, requests and   *)
(* restarts.                                                               *)
(***************************************************************************)
EXTENDS App, TLAPS

USE SMTT(30)

-----------------------------------------------------------------------------
(* States of the application.                                             *)

LoadedSigners(s) == {x \in Signer : s.signers[x] # "none"}

\* Memos are of wallets that are loaded, no descriptor is loaded twice, and only
\* finitely many things are loaded.
Proper(s) ==
    /\ s \in AppState
    /\ s.memos \subseteq Loaded(s)
    /\ \A n, o \in Name : s.wollets[n] # None /\ s.wollets[n] = s.wollets[o] => n = o
    /\ IsFiniteSet(Loaded(s)) /\ IsFiniteSet(LoadedSigners(s)) /\ IsFiniteSet(s.assets)

-----------------------------------------------------------------------------
(* Finite sets.                                                            *)

\* A set with one more element is finite.
LEMMA FiniteAdd ==
    ASSUME NEW S, IsFiniteSet(S), NEW x PROVE IsFiniteSet(S \cup {x})
<1>1. PICK q \in Seq(S) : \A s \in S : \E n \in 1..Len(q) : q[n] = s
  BY DEF IsFiniteSet
<1>. DEFINE p == Append(q, x)
<1>2. p \in Seq(S \cup {x}) /\ Len(p) = Len(q) + 1 /\ p[Len(q) + 1] = x
      /\ \A n \in 1..Len(q) : p[n] = q[n]
  BY <1>1
<1>3. \A s \in S \cup {x} : \E n \in 1..Len(p) : p[n] = s
  BY <1>1, <1>2
<1>. QED BY <1>2, <1>3, Zenon DEF IsFiniteSet

\* The empty set is finite.
LEMMA FiniteNone == IsFiniteSet({})
<1>1. << >> \in Seq({})
  OBVIOUS
<1>. QED BY <1>1, Zenon DEF IsFiniteSet

\* Part of a finite set is finite, and so is what a function makes of it.
LEMMA FiniteImage ==
    ASSUME NEW S, IsFiniteSet(S), NEW T, NEW f, \A s \in S : f[s] \in T,
           \A t \in T : \E s \in S : f[s] = t
    PROVE  IsFiniteSet(T)
<1>1. PICK q \in Seq(S) : \A s \in S : \E n \in 1..Len(q) : q[n] = s
  BY DEF IsFiniteSet
<1>. DEFINE p == [n \in 1..Len(q) |-> f[q[n]]]
<1>2. \A n \in 1..Len(q) : q[n] \in S
  BY <1>1
<1>3. p \in Seq(T) /\ Len(p) = Len(q)
  BY <1>1, <1>2
<1>4. \A t \in T : \E n \in 1..Len(q) : p[n] = t
  BY <1>1
<1>. HIDE DEF p
<1>. QED BY <1>3, <1>4 DEF IsFiniteSet

\* A subset of a finite set is finite.
LEMMA FiniteSubset ==
    ASSUME NEW S, IsFiniteSet(S), NEW T \in SUBSET S
    PROVE  IsFiniteSet(T)
<1>1. CASE T = {}
  BY <1>1, FiniteNone
<1>2. ASSUME NEW t \in T PROVE IsFiniteSet(T)
  <2>. DEFINE f == [s \in S |-> IF s \in T THEN s ELSE t]
  <2>1. (\A s \in S : f[s] \in T) /\ \A x \in T : f[x] = x
    BY <1>2
  <2>. HIDE DEF f
  <2>. QED BY <2>1, FiniteImage
<1>. QED BY <1>1, <1>2

-----------------------------------------------------------------------------
(* Requests and what they do to the state.                                 *)

\* The requests, by their methods.
LEMMA RequestCases ==
    ASSUME NEW r \in Request
    PROVE  \/ \E n \in Name, d \in Desc : r = Req("WalletLoad", n, d)
           \/ \E n \in Name : r = Req("WalletUnload", n, None)
           \/ \E n \in Name : r = Req("WalletSetMemo", n, None)
           \/ \E s \in Signer, k \in SignerLoad : r = Req("SignerLoad", s, k)
           \/ \E s \in Signer : r = Req("SignerUnload", s, None)
           \/ \E a \in Asset : r = Req("AssetInsert", a, None)
           \/ \E a \in Asset : r = Req("AssetFromRegistry", a, None)
           \/ \E a \in AnyAsset : r = Req("AssetRemove", a, None)
BY DEF Request

\* WalletLoad refuses a taken name or descriptor and sets the name.
LEMMA WalletLoadDoes ==
    ASSUME NEW s \in AppState, NEW n \in Name, NEW d \in Desc
    PROVE  LET r == Req("WalletLoad", n, d)
               t == Apply(s, r)
           IN  /\ Accepts(s, r) <=> (s.wollets[n] = None /\ \A o \in Name : s.wollets[o] # d)
               /\ t \in AppState /\ t.wollets = [s.wollets EXCEPT ![n] = d]
               /\ t.memos = s.memos /\ t.signers = s.signers /\ t.assets = s.assets
<1>. DEFINE r == Req("WalletLoad", n, d)
<1>1. r.method = "WalletLoad" /\ r.name = n /\ r.arg = d
  BY DEF Req
<1>. HIDE DEF r
<1>2. Accepts(s, r) <=> CanLoadWallet(s, n, d)
  BY <1>1 DEF Accepts
<1>3. Apply(s, r) = WalletLoad(s, n, d)
  BY <1>1 DEF Apply
<1>4. WalletLoad(s, n, d) \in AppState
  BY DEF WalletLoad, AppState
<1>. QED BY <1>2, <1>3, <1>4 DEF WalletLoad, CanLoadWallet, AppState, r

\* WalletUnload clears the name and its memos.
LEMMA WalletUnloadDoes ==
    ASSUME NEW s \in AppState, NEW n \in Name
    PROVE  LET r == Req("WalletUnload", n, None)
               t == Apply(s, r)
           IN  /\ Accepts(s, r) <=> s.wollets[n] # None
               /\ t \in AppState /\ t.wollets = [s.wollets EXCEPT ![n] = None]
               /\ t.memos = s.memos \ {n} /\ t.signers = s.signers /\ t.assets = s.assets
<1>. DEFINE r == Req("WalletUnload", n, None)
<1>1. r.method = "WalletUnload" /\ r.name = n
  BY DEF Req
<1>. HIDE DEF r
<1>2. Accepts(s, r) <=> s.wollets[n] # None
  BY <1>1 DEF Accepts
<1>3. Apply(s, r) = WalletUnload(s, n)
  BY <1>1 DEF Apply
<1>4. WalletUnload(s, n) \in AppState
  BY Zenon DEF WalletUnload, AppState
<1>. QED BY <1>2, <1>3, <1>4, Zenon DEF WalletUnload, AppState, r

\* WalletSetTxMemo and WalletSetAddrMemo need the wallet.
LEMMA WalletSetMemoDoes ==
    ASSUME NEW s \in AppState, NEW n \in Name
    PROVE  LET r == Req("WalletSetMemo", n, None)
               t == Apply(s, r)
           IN  /\ Accepts(s, r) <=> s.wollets[n] # None
               /\ t \in AppState /\ t.wollets = s.wollets
               /\ t.memos = s.memos \cup {n} /\ t.signers = s.signers /\ t.assets = s.assets
<1>. DEFINE r == Req("WalletSetMemo", n, None)
<1>1. r.method = "WalletSetMemo" /\ r.name = n
  BY DEF Req
<1>. HIDE DEF r
<1>2. Accepts(s, r) <=> s.wollets[n] # None
  BY <1>1 DEF Accepts
<1>3. Apply(s, r) = WalletSetMemo(s, n)
  BY <1>1 DEF Apply
<1>4. WalletSetMemo(s, n) \in AppState
  BY DEF WalletSetMemo, AppState
<1>. QED BY <1>2, <1>3, <1>4 DEF WalletSetMemo, AppState, r

\* SignerLoad refuses a taken name.
LEMMA SignerLoadDoes ==
    ASSUME NEW s \in AppState, NEW x \in Signer, NEW k \in SignerLoad
    PROVE  LET r == Req("SignerLoad", x, k)
               t == Apply(s, r)
           IN  /\ Accepts(s, r) <=> s.signers[x] = "none"
               /\ t \in AppState /\ t.signers = [s.signers EXCEPT ![x] = k]
               /\ t.wollets = s.wollets /\ t.memos = s.memos /\ t.assets = s.assets
<1>. DEFINE r == Req("SignerLoad", x, k)
<1>1. r.method = "SignerLoad" /\ r.name = x /\ r.arg = k
  BY DEF Req
<1>. HIDE DEF r
<1>2. Accepts(s, r) <=> s.signers[x] = "none"
  BY <1>1 DEF Accepts
<1>3. Apply(s, r) = LoadSigner(s, x, k)
  BY <1>1 DEF Apply
<1>4. LoadSigner(s, x, k) \in AppState
  BY DEF LoadSigner, AppState
<1>. QED BY <1>2, <1>3, <1>4 DEF LoadSigner, AppState, r

\* SignerUnload clears the signer.
LEMMA SignerUnloadDoes ==
    ASSUME NEW s \in AppState, NEW x \in Signer
    PROVE  LET r == Req("SignerUnload", x, None)
               t == Apply(s, r)
           IN  /\ t \in AppState /\ t.signers = [s.signers EXCEPT ![x] = "none"]
               /\ t.wollets = s.wollets /\ t.memos = s.memos /\ t.assets = s.assets
<1>. DEFINE r == Req("SignerUnload", x, None)
<1>1. r.method = "SignerUnload" /\ r.name = x
  BY DEF Req
<1>. HIDE DEF r
<1>3. Apply(s, r) = SignerUnload(s, x)
  BY <1>1 DEF Apply
<1>4. SignerUnload(s, x) \in AppState
  BY DEF SignerUnload, AppState
<1>. QED BY <1>3, <1>4 DEF SignerUnload, AppState, r

\* AssetInsert and AssetFromRegistry insert the asset and its token.
LEMMA AssetInsertDoes ==
    ASSUME NEW s \in AppState, NEW a \in Asset, NEW m \in {"AssetInsert", "AssetFromRegistry"}
    PROVE  LET r == Req(m, a, None)
               t == Apply(s, r)
           IN  /\ m = "AssetInsert" => Accepts(s, r)
               /\ t \in AppState /\ t.assets = s.assets \cup {a, Token(a)}
               /\ t.wollets = s.wollets /\ t.memos = s.memos /\ t.signers = s.signers
<1>. DEFINE r == Req(m, a, None)
<1>1. r.method = m /\ r.name = a
  BY DEF Req
<1>. HIDE DEF r
<1>2. m = "AssetInsert" => Accepts(s, r)
  BY <1>1 DEF Accepts
<1>3. Apply(s, r) = InsertAsset(s, a)
  BY <1>1 DEF Apply
<1>4. InsertAsset(s, a) \in AppState
  BY DEF InsertAsset, AppState, AnyAsset
<1>. QED BY <1>2, <1>3, <1>4 DEF InsertAsset, AppState, r

\* AssetRemove removes one id.
LEMMA AssetRemoveDoes ==
    ASSUME NEW s \in AppState, NEW a \in AnyAsset
    PROVE  LET r == Req("AssetRemove", a, None)
               t == Apply(s, r)
           IN  /\ t \in AppState /\ t.assets = s.assets \ {a}
               /\ t.wollets = s.wollets /\ t.memos = s.memos /\ t.signers = s.signers
<1>. DEFINE r == Req("AssetRemove", a, None)
<1>1. r.method = "AssetRemove" /\ r.name = a
  BY DEF Req
<1>. HIDE DEF r
<1>3. Apply(s, r) = RemoveAsset(s, a)
  BY <1>1 DEF Apply
<1>4. RemoveAsset(s, a) \in AppState
  BY DEF RemoveAsset, AppState
<1>. QED BY <1>3, <1>4 DEF RemoveAsset, AppState, r

\* The first state is proper.
LEMMA FreshProper == Proper(Fresh)
<1>1. Fresh \in AppState
  BY DEF Fresh, AppState, AnyAsset
<1>2. Loaded(Fresh) = {} /\ LoadedSigners(Fresh) = {} /\ Fresh.memos = {}
  BY DEF Loaded, LoadedSigners, Fresh
<1>3. \A n \in Name : Fresh.wollets[n] = None
  BY DEF Fresh
<1>4. Fresh.assets = {Policy}
  BY DEF Fresh
<1>5. IsFiniteSet({} \cup {Policy})
  BY FiniteNone, FiniteAdd
<1>. QED BY <1>1, <1>2, <1>3, <1>4, <1>5, FiniteNone DEF Proper

\* An accepted request leaves a proper state.
LEMMA ApplyProper ==
    ASSUME NEW s, Proper(s), NEW r \in Request, Accepts(s, r)
    PROVE  Proper(Apply(s, r))
<1>. DEFINE t == Apply(s, r)
<1>0. s \in AppState /\ s.wollets \in [Name -> Desc \cup {None}]
      /\ s.signers \in [Signer -> SignerLoad \cup {"none"}] /\ s.memos \subseteq Loaded(s)
  BY DEF Proper, AppState
<1>f. IsFiniteSet(Loaded(s)) /\ IsFiniteSet(LoadedSigners(s)) /\ IsFiniteSet(s.assets)
  BY DEF Proper
<1>i. \A n, o \in Name : s.wollets[n] # None /\ s.wollets[n] = s.wollets[o] => n = o
  BY DEF Proper
<1>. HIDE DEF t
<1>1. ASSUME NEW n \in Name, NEW d \in Desc, r = Req("WalletLoad", n, d) PROVE Proper(t)
  <2>1. /\ s.wollets[n] = None /\ \A o \in Name : s.wollets[o] # d
        /\ t \in AppState /\ t.wollets = [s.wollets EXCEPT ![n] = d]
        /\ t.memos = s.memos /\ t.signers = s.signers /\ t.assets = s.assets
    BY <1>0, <1>1, WalletLoadDoes DEF t
  <2>2. Loaded(t) = Loaded(s) \cup {n} /\ LoadedSigners(t) = LoadedSigners(s)
    BY <1>0, <2>1, NoneAssumption DEF Loaded, LoadedSigners
  <2>3. \A m, o \in Name : t.wollets[m] # None /\ t.wollets[m] = t.wollets[o] => m = o
    BY <1>0, <1>i, <2>1
  <2>4. IsFiniteSet(Loaded(t))
    BY <1>f, <2>2, FiniteAdd
  <2>. QED BY <1>0, <1>f, <2>1, <2>2, <2>3, <2>4 DEF Proper
<1>2. ASSUME NEW n \in Name, r = Req("WalletUnload", n, None) PROVE Proper(t)
  <2>1. /\ t \in AppState /\ t.wollets = [s.wollets EXCEPT ![n] = None]
        /\ t.memos = s.memos \ {n} /\ t.signers = s.signers /\ t.assets = s.assets
    BY <1>0, <1>2, WalletUnloadDoes DEF t
  <2>2. Loaded(t) = Loaded(s) \ {n} /\ LoadedSigners(t) = LoadedSigners(s)
    BY <1>0, <2>1 DEF Loaded, LoadedSigners
  <2>3. \A m, o \in Name : t.wollets[m] # None /\ t.wollets[m] = t.wollets[o] => m = o
    BY <1>0, <1>i, <2>1
  <2>4. IsFiniteSet(Loaded(t))
    BY <1>f, <2>2, FiniteSubset
  <2>. QED BY <1>0, <1>f, <2>1, <2>2, <2>3, <2>4 DEF Proper
<1>3. ASSUME NEW n \in Name, r = Req("WalletSetMemo", n, None) PROVE Proper(t)
  <2>1. /\ s.wollets[n] # None /\ t \in AppState /\ t.wollets = s.wollets
        /\ t.memos = s.memos \cup {n} /\ t.signers = s.signers /\ t.assets = s.assets
    BY <1>0, <1>3, WalletSetMemoDoes DEF t
  <2>2. Loaded(t) = Loaded(s) /\ LoadedSigners(t) = LoadedSigners(s) /\ n \in Loaded(s)
    BY <2>1 DEF Loaded, LoadedSigners
  <2>. QED BY <1>0, <1>f, <1>i, <2>1, <2>2 DEF Proper
<1>4. ASSUME NEW x \in Signer, NEW k \in SignerLoad, r = Req("SignerLoad", x, k) PROVE Proper(t)
  <2>1. /\ t \in AppState /\ t.signers = [s.signers EXCEPT ![x] = k]
        /\ t.wollets = s.wollets /\ t.memos = s.memos /\ t.assets = s.assets
    BY <1>0, <1>4, SignerLoadDoes DEF t
  <2>2. Loaded(t) = Loaded(s) /\ LoadedSigners(t) = LoadedSigners(s) \cup {x}
    BY <1>0, <2>1 DEF Loaded, LoadedSigners, SignerLoad
  <2>3. IsFiniteSet(LoadedSigners(t))
    BY <1>f, <2>2, FiniteAdd
  <2>. QED BY <1>0, <1>f, <1>i, <2>1, <2>2, <2>3 DEF Proper
<1>5. ASSUME NEW x \in Signer, r = Req("SignerUnload", x, None) PROVE Proper(t)
  <2>1. /\ t \in AppState /\ t.signers = [s.signers EXCEPT ![x] = "none"]
        /\ t.wollets = s.wollets /\ t.memos = s.memos /\ t.assets = s.assets
    BY <1>0, <1>5, SignerUnloadDoes DEF t
  <2>2. Loaded(t) = Loaded(s) /\ LoadedSigners(t) = LoadedSigners(s) \ {x}
    BY <1>0, <2>1 DEF Loaded, LoadedSigners
  <2>3. IsFiniteSet(LoadedSigners(t))
    BY <1>f, <2>2, FiniteSubset
  <2>. QED BY <1>0, <1>f, <1>i, <2>1, <2>2, <2>3 DEF Proper
<1>6. ASSUME NEW a \in Asset, NEW m \in {"AssetInsert", "AssetFromRegistry"}, r = Req(m, a, None)
      PROVE  Proper(t)
  <2>1. /\ t \in AppState /\ t.assets = s.assets \cup {a, Token(a)}
        /\ t.wollets = s.wollets /\ t.memos = s.memos /\ t.signers = s.signers
    BY <1>0, <1>6, AssetInsertDoes DEF t
  <2>2. Loaded(t) = Loaded(s) /\ LoadedSigners(t) = LoadedSigners(s)
    BY <2>1 DEF Loaded, LoadedSigners
  <2>3. t.assets = (s.assets \cup {a}) \cup {Token(a)}
    BY <2>1
  <2>4. IsFiniteSet(s.assets \cup {a})
    BY <1>f, FiniteAdd, Zenon
  <2>5. IsFiniteSet((s.assets \cup {a}) \cup {Token(a)})
    BY <2>4, FiniteAdd
  <2>. QED BY <1>0, <1>f, <1>i, <2>1, <2>2, <2>3, <2>5 DEF Proper
<1>7. ASSUME NEW a \in AnyAsset, r = Req("AssetRemove", a, None) PROVE Proper(t)
  <2>1. /\ t \in AppState /\ t.assets = s.assets \ {a}
        /\ t.wollets = s.wollets /\ t.memos = s.memos /\ t.signers = s.signers
    BY <1>0, <1>7, AssetRemoveDoes DEF t
  <2>2. Loaded(t) = Loaded(s) /\ LoadedSigners(t) = LoadedSigners(s)
    BY <2>1 DEF Loaded, LoadedSigners
  <2>3. IsFiniteSet(t.assets)
    BY <1>f, <2>1, FiniteSubset
  <2>. QED BY <1>0, <1>f, <1>i, <2>1, <2>2, <2>3 DEF Proper
<1>. QED BY <1>1, <1>2, <1>3, <1>4, <1>5, <1>6, <1>7, RequestCases DEF t

-----------------------------------------------------------------------------
(* Lists of the elements of a set.                                         *)

\* q lists the elements of T, each of them once.
Lists(q, T) ==
    /\ q \in Seq(T)
    /\ \A x \in T : \E i \in 1..Len(q) : q[i] = x
    /\ \A i, j \in 1..Len(q) : q[i] = q[j] => i = j

\* All of P comes before any of Q.
Before(q, P, Q) ==
    \A i \in 1..Len(q) : q[i] \in Q => \A x \in P : \E j \in 1..(i - 1) : q[j] = x

\* InOrder lists a finite set.
Enumerated == \A T : IsFiniteSet(T) => Lists(InOrder(T), T)

\* One list after another.
LEMMA ConcatLists ==
    ASSUME NEW P, NEW Q, NEW p, NEW q, Lists(p, P), Lists(q, Q), P \cap Q = {}
    PROVE  Lists(p \o q, P \cup Q) /\ Before(p \o q, P, Q)
<1>1. p \in Seq(P) /\ q \in Seq(Q)
  BY DEF Lists
<1>. DEFINE c == p \o q
<1>2. p \in Seq(P \cup Q) /\ q \in Seq(P \cup Q)
  BY <1>1
<1>3. /\ c \in Seq(P \cup Q) /\ Len(c) = Len(p) + Len(q) /\ Len(p) \in Nat /\ Len(q) \in Nat
      /\ \A i \in 1..Len(p) : c[i] = p[i]
      /\ \A i \in 1..Len(q) : c[Len(p) + i] = q[i]
  BY <1>2
<1>4. \A i \in 1..Len(p) : p[i] \in P
  BY <1>1
<1>5. \A i \in 1..Len(q) : q[i] \in Q
  BY <1>1
<1>. HIDE DEF c
<1>6. ASSUME NEW i \in 1..Len(c)
      PROVE  \/ i \in 1..Len(p) /\ c[i] = p[i] /\ c[i] \in P /\ c[i] \notin Q
             \/ /\ i - Len(p) \in 1..Len(q) /\ c[i] = q[i - Len(p)]
                /\ c[i] \in Q /\ c[i] \notin P /\ i > Len(p)
  <2>1. CASE i <= Len(p)
    BY <1>3, <1>4, <2>1
  <2>2. CASE i > Len(p)
    <3>1. i - Len(p) \in 1..Len(q) /\ Len(p) + (i - Len(p)) = i
      BY <1>3, <2>2
    <3>. QED BY <1>3, <1>5, <2>2, <3>1
  <2>. QED BY <1>3, <2>1, <2>2
<1>7. \A x \in P : \E i \in 1..Len(p) : c[i] = x
  BY <1>3, Zenon DEF Lists
<1>8. ASSUME NEW x \in Q PROVE \E i \in 1..Len(c) : c[i] = x
  <2>1. PICK i \in 1..Len(q) : q[i] = x
    BY DEF Lists
  <2>2. Len(p) + i \in 1..Len(c)
    BY <1>3
  <2>. QED BY <1>3, <2>1, <2>2
<1>9. \A x \in P \cup Q : \E i \in 1..Len(c) : c[i] = x
  <2>1. 1..Len(p) \subseteq 1..Len(c)
    BY <1>3
  <2>. QED BY <1>7, <1>8, <2>1
<1>10. ASSUME NEW i \in 1..Len(c), NEW j \in 1..Len(c), c[i] = c[j] PROVE i = j
  <2>1. CASE i \in 1..Len(p) /\ c[i] = p[i] /\ c[i] \in P /\ c[i] \notin Q
    <3>1. j \in 1..Len(p) /\ c[j] = p[j]
      BY <1>6, <1>10, <2>1, Zenon
    <3>. QED BY <1>10, <2>1, <3>1, Zenon DEF Lists
  <2>2. CASE /\ i - Len(p) \in 1..Len(q) /\ c[i] = q[i - Len(p)]
             /\ c[i] \in Q /\ c[i] \notin P /\ i > Len(p)
    <3>1. j - Len(p) \in 1..Len(q) /\ c[j] = q[j - Len(p)]
      BY <1>6, <1>10, <2>2, Zenon
    <3>2. i - Len(p) = j - Len(p)
      BY <1>10, <2>2, <3>1, Zenon DEF Lists
    <3>. QED BY <1>3, <3>2
  <2>. QED BY <1>6, <2>1, <2>2
<1>11. Before(c, P, Q)
  <2>. SUFFICES ASSUME NEW i \in 1..Len(c), c[i] \in Q, NEW x \in P
                PROVE  \E j \in 1..(i - 1) : c[j] = x
    BY DEF Before
  <2>1. i > Len(p)
    BY <1>6
  <2>2. PICK j \in 1..Len(p) : c[j] = x
    BY <1>7
  <2>3. j \in 1..(i - 1)
    BY <1>3, <2>1, <2>2
  <2>. QED BY <2>2, <2>3
<1>. QED BY <1>3, <1>9, <1>10, <1>11, Zenon DEF Lists, c

\* What comes after does not disturb the order.
LEMMA ConcatBefore ==
    ASSUME NEW P, NEW Q, NEW R, NEW p, NEW q, NEW T, p \in Seq(T), Lists(q, R),
           Q \cap R = {}, Before(p, P, Q)
    PROVE  Before(p \o q, P, Q)
<1>. DEFINE c == p \o q
<1>1. q \in Seq(R) /\ p \in Seq(T \cup R) /\ q \in Seq(T \cup R)
  BY DEF Lists
<1>2. /\ Len(c) = Len(p) + Len(q) /\ Len(p) \in Nat /\ Len(q) \in Nat
      /\ \A i \in 1..Len(p) : c[i] = p[i]
      /\ \A i \in 1..Len(q) : c[Len(p) + i] = q[i]
  BY <1>1
<1>. HIDE DEF c
<1>. SUFFICES ASSUME NEW i \in 1..Len(c), c[i] \in Q, NEW x \in P
              PROVE  \E j \in 1..(i - 1) : c[j] = x
  BY DEF Before, c
<1>3. i \in 1..Len(p)
  <2>1. CASE i > Len(p)
    <3>1. i - Len(p) \in 1..Len(q) /\ Len(p) + (i - Len(p)) = i
      BY <1>2, <2>1
    <3>2. c[i] = q[i - Len(p)] /\ q[i - Len(p)] \in R
      BY <1>1, <1>2, <3>1
    <3>. QED BY <3>2
  <2>. QED BY <1>2, <2>1
<1>4. PICK j \in 1..(i - 1) : p[j] = x
  BY <1>2, <1>3 DEF Before
<1>5. j \in 1..Len(p)
  BY <1>2, <1>3, <1>4
<1>. QED BY <1>2, <1>4, <1>5

-----------------------------------------------------------------------------
(* The lines that persist_all writes.                                      *)

\* A line of the file loads something; removals are never written.
LoadLine(x) ==
    x \in Request /\ x.method \in {"WalletLoad", "WalletSetMemo", "SignerLoad", "AssetInsert"}

WalletLines(s) == {Req("WalletLoad", n, s.wollets[n]) : n \in Loaded(s)}
MemoLines(s) == {Req("WalletSetMemo", n, None) : n \in s.memos}
SignerLines(s) == {Req("SignerLoad", x, s.signers[x]) : x \in LoadedSigners(s)}
AssetLines(s) == {Req("AssetInsert", a, None) : a \in s.assets \cap Asset}
Lines(s) == WalletLines(s) \cup MemoLines(s) \cup SignerLines(s) \cup AssetLines(s)

\* AsRequests lists the lines of a state, the wallets before the memos.
LEMMA AsRequestsLists ==
    ASSUME Enumerated, NEW s, Proper(s)
    PROVE  /\ Lists(AsRequests(s), Lines(s))
           /\ Before(AsRequests(s), WalletLines(s), MemoLines(s))
<1>. DEFINE W == WalletLines(s)  M == MemoLines(s)  S == SignerLines(s)  A == AssetLines(s)
<1>f. IsFiniteSet(Loaded(s)) /\ IsFiniteSet(LoadedSigners(s)) /\ IsFiniteSet(s.assets)
      /\ s.memos \subseteq Loaded(s)
  BY DEF Proper
<1>1. IsFiniteSet(W)
  <2>. DEFINE f == [n \in Loaded(s) |-> Req("WalletLoad", n, s.wollets[n])]
  <2>1. (\A x \in Loaded(s) : f[x] \in W) /\ \A y \in W : \E x \in Loaded(s) : f[x] = y
    BY DEF WalletLines
  <2>. HIDE DEF f, W, S
  <2>. QED BY <1>f, <2>1, FiniteImage
<1>2. IsFiniteSet(M)
  <2>. DEFINE f == [n \in s.memos |-> Req("WalletSetMemo", n, None)]
  <2>1. (\A x \in s.memos : f[x] \in M) /\ \A y \in M : \E x \in s.memos : f[x] = y
    BY DEF MemoLines
  <2>2. IsFiniteSet(s.memos)
    BY <1>f, FiniteSubset
  <2>. HIDE DEF f, M, A
  <2>. QED BY <2>1, <2>2, FiniteImage
<1>3. IsFiniteSet(S)
  <2>. DEFINE f == [x \in LoadedSigners(s) |-> Req("SignerLoad", x, s.signers[x])]
  <2>1. (\A x \in LoadedSigners(s) : f[x] \in S) /\ \A y \in S : \E x \in LoadedSigners(s) : f[x] = y
    BY DEF SignerLines
  <2>. HIDE DEF f, W, S
  <2>. QED BY <1>f, <2>1, FiniteImage
<1>4. IsFiniteSet(A)
  <2>. DEFINE f == [a \in s.assets \cap Asset |-> Req("AssetInsert", a, None)]
  <2>1. (\A x \in s.assets \cap Asset : f[x] \in A) /\ \A y \in A : \E x \in s.assets \cap Asset : f[x] = y
    BY DEF AssetLines
  <2>2. IsFiniteSet(s.assets \cap Asset)
    BY <1>f, FiniteSubset
  <2>. HIDE DEF f, M, A
  <2>. QED BY <2>1, <2>2, FiniteImage
<1>5. /\ W \cap M = {} /\ (W \cup M) \cap S = {} /\ (W \cup M \cup S) \cap A = {}
      /\ M \cap S = {} /\ M \cap A = {}
  BY DEF WalletLines, MemoLines, SignerLines, AssetLines, Req
<1>6. AsRequests(s) = InOrder(W) \o InOrder(M) \o InOrder(S) \o InOrder(A)
  BY DEF AsRequests, WalletLines, MemoLines, SignerLines, AssetLines, Loaded, LoadedSigners
<1>. DEFINE w == InOrder(W)  m == InOrder(M)  g == InOrder(S)  a == InOrder(A)
<1>7. Lists(w, W) /\ Lists(m, M) /\ Lists(g, S) /\ Lists(a, A)
  BY <1>1, <1>2, <1>3, <1>4 DEF Enumerated
<1>. HIDE DEF W, M, S, A, w, m, g, a
<1>8. Lists(w \o m, W \cup M) /\ Before(w \o m, W, M)
  BY <1>5, <1>7, ConcatLists, Zenon
<1>9. Lists((w \o m) \o g, W \cup M \cup S)
  BY <1>5, <1>7, <1>8, ConcatLists, Zenon
<1>10. Before((w \o m) \o g, W, M)
  BY <1>5, <1>7, <1>8, ConcatBefore, Zenon DEF Lists
<1>11. Lists(((w \o m) \o g) \o a, (W \cup M \cup S) \cup A)
  BY <1>5, <1>7, <1>9, ConcatLists, Zenon
<1>12. Before(((w \o m) \o g) \o a, W, M)
  BY <1>5, <1>7, <1>9, <1>10, ConcatBefore, Zenon DEF Lists
<1>. QED BY <1>6, <1>11, <1>12 DEF Lines, W, M, S, A, w, m, g, a

\* The lines of a state load what it has.
LEMMA AsRequestsLines ==
    ASSUME Enumerated, NEW s, Proper(s)
    PROVE  /\ AsRequests(s) \in Seq(Request)
           /\ \A i \in 1..Len(AsRequests(s)) : LoadLine(AsRequests(s)[i])
<1>1. /\ s.wollets \in [Name -> Desc \cup {None}] /\ s.memos \subseteq Name
      /\ s.signers \in [Signer -> SignerLoad \cup {"none"}]
  BY DEF Proper, AppState
<1>2. ASSUME NEW x \in Lines(s) PROVE LoadLine(x)
  <2>1. CASE x \in WalletLines(s)
    <3>1. PICK n \in Loaded(s) : x = Req("WalletLoad", n, s.wollets[n])
      BY <2>1 DEF WalletLines
    <3>2. n \in Name /\ s.wollets[n] \in Desc
      BY <1>1, <3>1 DEF Loaded
    <3>3. x \in Request
      BY <3>1, <3>2 DEF Request
    <3>. QED BY <3>1, <3>3 DEF LoadLine, Req
  <2>2. CASE x \in MemoLines(s)
    <3>1. PICK n \in s.memos : x = Req("WalletSetMemo", n, None)
      BY <2>2 DEF MemoLines
    <3>2. x \in Request
      BY <1>1, <3>1 DEF Request
    <3>. QED BY <3>1, <3>2 DEF LoadLine, Req
  <2>3. CASE x \in SignerLines(s)
    <3>1. PICK y \in LoadedSigners(s) : x = Req("SignerLoad", y, s.signers[y])
      BY <2>3 DEF SignerLines
    <3>2. y \in Signer /\ s.signers[y] \in SignerLoad
      BY <1>1, <3>1 DEF LoadedSigners
    <3>3. x \in Request
      BY <3>1, <3>2 DEF Request
    <3>. QED BY <3>1, <3>3 DEF LoadLine, Req
  <2>4. CASE x \in AssetLines(s)
    <3>1. PICK a \in s.assets \cap Asset : x = Req("AssetInsert", a, None)
      BY <2>4 DEF AssetLines
    <3>2. x \in Request
      BY <3>1 DEF Request
    <3>. QED BY <3>1, <3>2 DEF LoadLine, Req
  <2>. QED BY <2>1, <2>2, <2>3, <2>4 DEF Lines
<1>3. AsRequests(s) \in Seq(Lines(s))
  BY AsRequestsLists DEF Lists
<1>4. Lines(s) \subseteq Request
  BY <1>2 DEF LoadLine
<1>. DEFINE L == AsRequests(s)
<1>. HIDE DEF L
<1>5. L \in Seq(Lines(s))
  BY <1>3 DEF L
<1>6. L \in Seq(Request) /\ \A i \in 1..Len(L) : L[i] \in Lines(s)
  BY <1>4, <1>5
<1>. QED BY <1>2, <1>6 DEF L

-----------------------------------------------------------------------------
(* What is written to the file.                                            *)

\* How the file changes with an accepted request: it is rewritten, it stays, or it
\* gets a line.
LEMMA FileAfterCases ==
    ASSUME NEW f, NEW s, NEW r \in Request, NEW p \in BOOLEAN
    PROVE  \/ FileAfter(f, s, r, p) = AsRequests(Apply(s, r))
           \/ /\ FileAfter(f, s, r, p) = f
              /\ ~p \/ \E x \in Signer : r = Req("SignerLoad", x, "volatile")
           \/ /\ p /\ FileAfter(f, s, r, p) = Append(f, Line(r))
              /\ \/ LoadLine(r) /\ Line(r) = r
                 \/ \E a \in Asset : /\ r = Req("AssetFromRegistry", a, None)
                                     /\ Line(r) = Req("AssetInsert", a, None)
<1>1. CASE r.method \in {"WalletUnload", "SignerUnload", "AssetRemove"}
  BY <1>1 DEF FileAfter
<1>2. CASE r.method = "SignerLoad" /\ r.arg = "volatile"
  <2>1. FileAfter(f, s, r, p) = f
    BY <1>2, Zenon DEF FileAfter
  <2>2. \E x \in Signer : r = Req("SignerLoad", x, "volatile")
    BY <1>2, RequestCases DEF Req
  <2>. QED BY <2>1, <2>2
<1>3. CASE /\ r.method \notin {"WalletUnload", "SignerUnload", "AssetRemove"}
           /\ ~(r.method = "SignerLoad" /\ r.arg = "volatile")
  <2>1. FileAfter(f, s, r, p) = IF p THEN Append(f, Line(r)) ELSE f
    BY <1>3 DEF FileAfter
  <2>2. CASE r.method = "AssetFromRegistry"
    <3>1. PICK a \in Asset : r = Req("AssetFromRegistry", a, None)
      BY <2>2, RequestCases DEF Req
    <3>2. Line(r) = Req("AssetInsert", a, None)
      BY <2>2, <3>1 DEF Line, Req
    <3>. QED BY <2>1, <3>1, <3>2
  <2>3. CASE r.method # "AssetFromRegistry"
    <3>1. LoadLine(r)
      BY <1>3, <2>3, RequestCases DEF LoadLine, Req
    <3>2. Line(r) = r
      BY <2>3 DEF Line
    <3>. QED BY <2>1, <3>1, <3>2
  <2>. QED BY <2>2, <2>3
<1>. QED BY <1>1, <1>2, <1>3

\* The file holds requests.
LEMMA FileAfterType ==
    ASSUME Enumerated, NEW f \in Seq(Request), NEW s, Proper(s), NEW r \in Request,
           Accepts(s, r), NEW p \in BOOLEAN
    PROVE  FileAfter(f, s, r, p) \in Seq(Request)
<1>1. Proper(Apply(s, r))
  BY ApplyProper
<1>2. AsRequests(Apply(s, r)) \in Seq(Request)
  BY <1>1, AsRequestsLines
<1>3. ASSUME NEW a \in Asset PROVE Req("AssetInsert", a, None) \in Request
  BY DEF Request
<1>4. LoadLine(r) /\ Line(r) = r => Line(r) \in Request
  BY DEF LoadLine
<1>5. Line(r) \in Request => Append(f, Line(r)) \in Seq(Request)
  OBVIOUS
<1>. QED BY <1>2, <1>3, <1>4, <1>5, FileAfterCases

-----------------------------------------------------------------------------
(* Replaying a file.                                                       *)

\* A nonempty set of natural numbers has a least element.
WellOrdered == \A S \in SUBSET Nat : S # {} => \E m \in S : \A n \in S : m <= n

\* g gives the state after each of the first n lines.
ReplayOf(g, f, n) == g = [i \in 0..n |-> IF i = 0 THEN Fresh ELSE Apply(g[i - 1], f[i])]

\* The replay of a file is defined line by line.
LEMMA ReplayedStep ==
    ASSUME WellOrdered, NEW f, Len(f) \in Nat
    PROVE  /\ DOMAIN Replayed(f) = 0..Len(f)
           /\ Replayed(f)[0] = Fresh
           /\ \A i \in 1..Len(f) : Replayed(f)[i] = Apply(Replayed(f)[i - 1], f[i])
<1>. DEFINE Bad == {n \in Nat : ~\E g : ReplayOf(g, f, n)}
<1>1. Bad = {}
  <2>. SUFFICES ASSUME Bad # {} PROVE FALSE
    OBVIOUS
  <2>1. PICK n \in Bad : \A m \in Bad : n <= m
    BY Zenon DEF WellOrdered
  <2>2. CASE n = 0
    <3>. DEFINE g == [i \in 0..0 |-> Fresh]
    <3>1. ReplayOf(g, f, 0)
      BY DEF ReplayOf
    <3>. QED BY <2>2, <3>1
  <2>3. CASE n # 0
    <3>1. n \in Nat /\ n - 1 \in Nat /\ ~(n <= n - 1)
      BY <2>3
    <3>2. PICK h : ReplayOf(h, f, n - 1)
      BY <2>1, <3>1
    <3>. DEFINE g == [i \in 0..n |-> IF i < n THEN h[i] ELSE Apply(h[n - 1], f[n])]
    <3>3. ASSUME NEW i \in 0..n
          PROVE  g[i] = IF i = 0 THEN Fresh ELSE Apply(g[i - 1], f[i])
      <4>1. CASE i = n
        BY <2>3, <3>1, <4>1
      <4>2. CASE i # n
        <5>1. i \in 0..(n - 1) /\ i < n
          BY <3>1, <4>2
        <5>2. h[i] = IF i = 0 THEN Fresh ELSE Apply(h[i - 1], f[i])
          BY <3>2, <5>1 DEF ReplayOf
        <5>3. i # 0 => g[i - 1] = h[i - 1]
          BY <3>1, <5>1
        <5>. QED BY <5>1, <5>2, <5>3
      <4>. QED BY <4>1, <4>2
    <3>4. ReplayOf(g, f, n)
      BY <3>3 DEF ReplayOf
    <3>. QED BY <3>4
  <2>. QED BY <2>2, <2>3
<1>2. \E g : ReplayOf(g, f, Len(f))
  BY <1>1
<1>3. ReplayOf(Replayed(f), f, Len(f))
  <2>1. Replayed(f) = CHOOSE g : g = [i \in 0..Len(f) |-> IF i = 0 THEN Fresh ELSE Apply(g[i - 1], f[i])]
    BY DEF Replayed
  <2>. QED BY <1>2, <2>1, Zenon DEF ReplayOf
<1>. QED
  <2>. DEFINE r == Replayed(f)
  <2>1. r = [i \in 0..Len(f) |-> IF i = 0 THEN Fresh ELSE Apply(r[i - 1], f[i])]
    BY <1>3 DEF ReplayOf
  <2>. HIDE DEF r
  <2>2. DOMAIN r = 0..Len(f)
    BY <2>1
  <2>3. r[0] = Fresh
    BY <2>1
  <2>4. ASSUME NEW i \in 1..Len(f)
        PROVE  r[i] = Apply(r[i - 1], f[i])
    BY <2>1
  <2>. QED BY <2>2, <2>3, <2>4 DEF r

\* Files that begin with the same k lines are replayed alike that far.
LEMMA ReplayedPrefix ==
    ASSUME WellOrdered, NEW f, NEW h, Len(f) \in Nat, Len(h) \in Nat,
           NEW k \in Nat, k <= Len(f), k <= Len(h), \A i \in 1..k : f[i] = h[i]
    PROVE  \A i \in 0..k : Replayed(f)[i] = Replayed(h)[i]
<1>. DEFINE Bad == {i \in 0..k : Replayed(f)[i] # Replayed(h)[i]}
<1>. SUFFICES ASSUME Bad # {} PROVE FALSE
  OBVIOUS
<1>1. PICK n \in Bad : \A m \in Bad : n <= m
  <2>1. Bad \subseteq Nat
    OBVIOUS
  <2>. QED BY <2>1, Zenon DEF WellOrdered
<1>2. n # 0
  BY ReplayedStep
<1>3. n \in 1..k /\ n - 1 \in 0..k /\ ~(n <= n - 1)
  BY <1>2
<1>4. Replayed(f)[n - 1] = Replayed(h)[n - 1]
  BY <1>1, <1>3
<1>5. n \in 1..Len(f) /\ n \in 1..Len(h) /\ f[n] = h[n]
  BY <1>3
<1>6. Replayed(f)[n] = Apply(Replayed(f)[n - 1], f[n])
  BY <1>5, ReplayedStep
<1>7. Replayed(h)[n] = Apply(Replayed(h)[n - 1], h[n])
  BY <1>5, ReplayedStep
<1>. QED BY <1>4, <1>5, <1>6, <1>7

\* A line at the end of a file is replayed last.
LEMMA ReplayAppend ==
    ASSUME WellOrdered, NEW T, NEW f \in Seq(T), NEW x \in T, Replayable(f),
           Accepts(Replay(f), x)
    PROVE  Replayable(Append(f, x)) /\ Replay(Append(f, x)) = Apply(Replay(f), x)
<1>. DEFINE h == Append(f, x)
<1>1. /\ Len(f) \in Nat /\ Len(h) = Len(f) + 1 /\ h[Len(f) + 1] = x
      /\ \A i \in 1..Len(f) : h[i] = f[i]
  OBVIOUS
<1>. HIDE DEF h
<1>2. \A i \in 0..Len(f) : Replayed(h)[i] = Replayed(f)[i]
  BY <1>1, ReplayedPrefix
<1>3. Replayed(h)[Len(f) + 1] = Apply(Replayed(h)[Len(f)], x)
  <2>1. Len(f) + 1 \in 1..Len(h) /\ Len(h) \in Nat /\ (Len(f) + 1) - 1 = Len(f)
    BY <1>1
  <2>2. Replayed(h)[Len(f) + 1] = Apply(Replayed(h)[(Len(f) + 1) - 1], h[Len(f) + 1])
    BY <2>1, ReplayedStep
  <2>. QED BY <1>1, <2>1, <2>2
<1>4. Replay(h) = Apply(Replay(f), x)
  BY <1>1, <1>2, <1>3 DEF Replay
<1>5. ASSUME NEW i \in 1..Len(h) PROVE Accepts(Replayed(h)[i - 1], h[i])
  <2>1. CASE i = Len(f) + 1
    BY <1>1, <1>2, <2>1 DEF Replay
  <2>2. CASE i # Len(f) + 1
    <3>1. i \in 1..Len(f) /\ i - 1 \in 0..Len(f)
      BY <1>1, <2>2
    <3>. QED BY <1>1, <1>2, <3>1 DEF Replayable
  <2>. QED BY <2>1, <2>2
<1>. QED BY <1>4, <1>5 DEF Replayable, h

-----------------------------------------------------------------------------
(* What persist_all writes, replayed one line at a time.                   *)

\* The state when the lines X of those of s have been replayed.
Partial(s, X) ==
    LET inserted == {a \in s.assets \cap Asset : Req("AssetInsert", a, None) \in X} IN
    [wollets |-> [n \in Name |-> IF Req("WalletLoad", n, s.wollets[n]) \in X
                                 THEN s.wollets[n] ELSE None],
     memos |-> {n \in s.memos : Req("WalletSetMemo", n, None) \in X},
     signers |-> [x \in Signer |-> IF Req("SignerLoad", x, s.signers[x]) \in X
                                   THEN s.signers[x] ELSE "none"],
     assets |-> {Policy} \cup inserted \cup {Token(a) : a \in inserted}]

\* Requests are equal when their parts are.
LEMMA ReqEqual ==
    ASSUME NEW m, NEW n, NEW a, NEW m2, NEW n2, NEW a2
    PROVE  Req(m, n, a) = Req(m2, n2, a2) <=> m = m2 /\ n = n2 /\ a = a2
BY DEF Req

\* The registry assets of A with their tokens, and the policy asset.
Shown(A) == {Policy} \cup (A \cap Asset) \cup {Token(a) : a \in A \cap Asset}

\* What a restart is to bring back of state s.
Matches(r, s) ==
    /\ r.wollets = s.wollets /\ r.memos = s.memos
    /\ r.assets = Shown(s.assets)
    /\ \A x \in Signer :
          /\ s.signers[x] = "kept" => r.signers[x] = "kept"
          /\ r.signers[x] # "none" => r.signers[x] = s.signers[x]

\* Partial states are states.
LEMMA PartialType ==
    ASSUME NEW s, Proper(s), NEW X
    PROVE  Partial(s, X) \in AppState
<1>1. s.wollets \in [Name -> Desc \cup {None}] /\ s.memos \subseteq Name
      /\ s.signers \in [Signer -> SignerLoad \cup {"none"}]
  BY DEF Proper, AppState
<1>. DEFINE inserted == {a \in s.assets \cap Asset : Req("AssetInsert", a, None) \in X}
<1>2. {Policy} \cup inserted \cup {Token(a) : a \in inserted} \subseteq AnyAsset
  BY Zenon DEF AnyAsset
<1>3. [n \in Name |-> IF Req("WalletLoad", n, s.wollets[n]) \in X
                      THEN s.wollets[n] ELSE None] \in [Name -> Desc \cup {None}]
  BY <1>1
<1>4. [x \in Signer |-> IF Req("SignerLoad", x, s.signers[x]) \in X
                        THEN s.signers[x] ELSE "none"] \in [Signer -> SignerLoad \cup {"none"}]
  BY <1>1
<1>5. {n \in s.memos : Req("WalletSetMemo", n, None) \in X} \subseteq Name
  BY <1>1
<1>. QED BY <1>2, <1>3, <1>4, <1>5 DEF Partial, AppState

\* States are equal when their parts are.
LEMMA StateEqual ==
    ASSUME NEW s \in AppState, NEW t \in AppState,
           s.wollets = t.wollets, s.memos = t.memos, s.signers = t.signers, s.assets = t.assets
    PROVE  s = t
BY DEF AppState

\* One more line of those persist_all writes is accepted, if the wallets come
\* before their memos.
LEMMA PartialStep ==
    ASSUME NEW s, Proper(s), NEW X, X \subseteq Lines(s), NEW x \in Lines(s), x \notin X,
           x \in MemoLines(s) => WalletLines(s) \subseteq X
    PROVE  Accepts(Partial(s, X), x) /\ Apply(Partial(s, X), x) = Partial(s, X \cup {x})
<1>. DEFINE p == Partial(s, X)  q == Partial(s, X \cup {x})  t == Apply(p, x)
<1>0. /\ p \in AppState /\ q \in AppState
      /\ s.wollets \in [Name -> Desc \cup {None}] /\ s.memos \subseteq Loaded(s)
      /\ s.signers \in [Signer -> SignerLoad \cup {"none"}]
      /\ \A n, o \in Name : s.wollets[n] # None /\ s.wollets[n] = s.wollets[o] => n = o
  BY PartialType DEF Proper, AppState
<1>w. /\ p.wollets = [n \in Name |-> IF Req("WalletLoad", n, s.wollets[n]) \in X
                                     THEN s.wollets[n] ELSE None]
      /\ q.wollets = [n \in Name |-> IF Req("WalletLoad", n, s.wollets[n]) \in X \cup {x}
                                     THEN s.wollets[n] ELSE None]
  BY ZenonT(30) DEF Partial
<1>m. /\ p.memos = {n \in s.memos : Req("WalletSetMemo", n, None) \in X}
      /\ q.memos = {n \in s.memos : Req("WalletSetMemo", n, None) \in X \cup {x}}
  BY ZenonT(30) DEF Partial
<1>s. /\ p.signers = [y \in Signer |-> IF Req("SignerLoad", y, s.signers[y]) \in X
                                       THEN s.signers[y] ELSE "none"]
      /\ q.signers = [y \in Signer |-> IF Req("SignerLoad", y, s.signers[y]) \in X \cup {x}
                                       THEN s.signers[y] ELSE "none"]
  BY ZenonT(30) DEF Partial
<1>. DEFINE I(Z) == {a \in s.assets \cap Asset : Req("AssetInsert", a, None) \in Z}
<1>a. /\ p.assets = {Policy} \cup I(X) \cup {Token(a) : a \in I(X)}
      /\ q.assets = {Policy} \cup I(X \cup {x}) \cup {Token(a) : a \in I(X \cup {x})}
  BY ZenonT(30) DEF Partial
<1>. HIDE DEF p, q, t
<1>1. CASE x \in WalletLines(s)
  <2>1. PICK n \in Loaded(s) : x = Req("WalletLoad", n, s.wollets[n])
    BY <1>1 DEF WalletLines
  <2>2. n \in Name /\ s.wollets[n] \in Desc /\ s.wollets[n] # None
    BY <1>0, <2>1 DEF Loaded
  <2>3. p.wollets[n] = None /\ \A o \in Name : p.wollets[o] # s.wollets[n]
    <3>1. p.wollets[n] = None
      BY <1>w, <2>1, <2>2
    <3>2. ASSUME NEW o \in Name, p.wollets[o] = s.wollets[n] PROVE FALSE
      <4>1. s.wollets[o] = s.wollets[n]
        BY <1>w, <2>2, <3>2
      <4>2. o = n
        BY <1>0, <2>2, <4>1, ZenonT(30)
      <4>. QED BY <2>2, <3>1, <3>2, <4>2
    <3>. QED BY <3>1, <3>2
  <2>4. /\ Accepts(p, x) /\ t \in AppState /\ t.wollets = [p.wollets EXCEPT ![n] = s.wollets[n]]
        /\ t.memos = p.memos /\ t.signers = p.signers /\ t.assets = p.assets
    BY <1>0, <2>1, <2>2, <2>3, WalletLoadDoes DEF t
  <2>5. t.wollets = q.wollets
    <3>1. \A o \in Name : Req("WalletLoad", o, s.wollets[o]) = x <=> o = n
      BY <2>1, ReqEqual
    <3>. QED BY <1>w, <2>2, <2>4, <3>1, ZenonT(30)
  <2>6. \A o, z : Req("WalletSetMemo", o, None) # x /\ Req("SignerLoad", o, z) # x
                  /\ Req("AssetInsert", o, None) # x
    BY <2>1, ReqEqual
  <2>7. p.memos = q.memos /\ p.signers = q.signers
    BY <1>m, <1>s, <2>6
  <2>8. I(X \cup {x}) = I(X)
    BY <2>6
  <2>9. p.assets = q.assets
    BY <1>a, <2>8
  <2>10. t = q
    BY <1>0, <2>4, <2>5, <2>7, <2>9, StateEqual
  <2>. QED BY <2>4, <2>10, Zenon DEF p, q, t
<1>2. CASE x \in MemoLines(s)
  <2>1. PICK n \in s.memos : x = Req("WalletSetMemo", n, None)
    BY <1>2 DEF MemoLines
  <2>2. n \in Name /\ s.wollets[n] # None /\ n \in Loaded(s)
    BY <1>0, <2>1 DEF Loaded
  <2>3. p.wollets[n] # None
    <3>1. Req("WalletLoad", n, s.wollets[n]) \in X
      BY <1>2, <2>2 DEF WalletLines
    <3>. QED BY <1>w, <2>2, <3>1
  <2>4. /\ Accepts(p, x) /\ t \in AppState /\ t.wollets = p.wollets
        /\ t.memos = p.memos \cup {n} /\ t.signers = p.signers /\ t.assets = p.assets
    BY <1>0, <2>1, <2>2, <2>3, WalletSetMemoDoes DEF t
  <2>5. t.memos = q.memos
    <3>1. \A o : Req("WalletSetMemo", o, None) = x <=> o = n
      BY <2>1, ReqEqual
    <3>. QED BY <1>m, <2>1, <2>4, <3>1
  <2>6. \A o, z : Req("WalletLoad", o, z) # x /\ Req("SignerLoad", o, z) # x
                  /\ Req("AssetInsert", o, None) # x
    BY <2>1, ReqEqual
  <2>7. p.wollets = q.wollets /\ p.signers = q.signers
    BY <1>w, <1>s, <2>6
  <2>8. I(X \cup {x}) = I(X)
    BY <2>6
  <2>9. p.assets = q.assets
    BY <1>a, <2>8
  <2>10. t = q
    BY <1>0, <2>4, <2>5, <2>7, <2>9, StateEqual
  <2>. QED BY <2>4, <2>10 DEF p, q, t
<1>3. CASE x \in SignerLines(s)
  <2>1. PICK y \in LoadedSigners(s) : x = Req("SignerLoad", y, s.signers[y])
    BY <1>3 DEF SignerLines
  <2>2. y \in Signer /\ s.signers[y] \in SignerLoad
    BY <1>0, <2>1 DEF LoadedSigners
  <2>3. p.signers[y] = "none"
    BY <1>s, <2>1, <2>2, ZenonT(30)
  <2>4. /\ Accepts(p, x) /\ t \in AppState /\ t.signers = [p.signers EXCEPT ![y] = s.signers[y]]
        /\ t.wollets = p.wollets /\ t.memos = p.memos /\ t.assets = p.assets
    <3>. DEFINE z == Req("SignerLoad", y, s.signers[y])
    <3>1. t = Apply(p, z) /\ x = z
      BY <2>1, Zenon DEF t
    <3>2. p \in AppState
      BY <1>0, Zenon
    <3>. HIDE DEF z
    <3>3. /\ Accepts(p, z) /\ Apply(p, z) \in AppState
          /\ Apply(p, z).signers = [p.signers EXCEPT ![y] = s.signers[y]]
          /\ Apply(p, z).wollets = p.wollets /\ Apply(p, z).memos = p.memos
          /\ Apply(p, z).assets = p.assets
      BY <2>2, <2>3, <3>2, SignerLoadDoes DEF z
    <3>. QED BY <3>1, <3>3, Zenon
  <2>5. t.signers = q.signers
    <3>1. \A o \in Signer : Req("SignerLoad", o, s.signers[o]) = x <=> o = y
      BY <2>1, ReqEqual
    <3>. QED BY <1>s, <2>2, <2>4, <3>1
  <2>6. \A o, z : Req("WalletLoad", o, z) # x /\ Req("WalletSetMemo", o, None) # x
                  /\ Req("AssetInsert", o, None) # x
    BY <2>1, ReqEqual
  <2>7. p.wollets = q.wollets /\ p.memos = q.memos
    <3>1. p.wollets = q.wollets
      BY <1>w, <2>6
    <3>2. p.memos = q.memos
      BY <1>m, <2>6
    <3>. QED BY <3>1, <3>2
  <2>8. I(X \cup {x}) = I(X)
    BY <2>6
  <2>9. p.assets = q.assets
    BY <1>a, <2>8
  <2>10. t = q
    BY <1>0, <2>4, <2>5, <2>7, <2>9, StateEqual, ZenonT(30)
  <2>. QED BY <2>4, <2>10 DEF p, q, t
<1>4. CASE x \in AssetLines(s)
  <2>1. PICK b \in s.assets \cap Asset : x = Req("AssetInsert", b, None)
    BY <1>4 DEF AssetLines
  <2>4. /\ Accepts(p, x) /\ t \in AppState /\ t.assets = p.assets \cup {b, Token(b)}
        /\ t.wollets = p.wollets /\ t.memos = p.memos /\ t.signers = p.signers
    BY <1>0, <2>1, AssetInsertDoes, Zenon DEF t
  <2>5. t.assets = q.assets
    <3>1. \A o : Req("AssetInsert", o, None) = x <=> o = b
      BY <2>1, ReqEqual
    <3>2. I(X \cup {x}) = I(X) \cup {b}
      BY <2>1, <3>1
    <3>. HIDE DEF I
    <3>. QED BY <1>a, <2>4, <3>2
  <2>6. \A o, z : Req("WalletLoad", o, z) # x /\ Req("WalletSetMemo", o, None) # x
                  /\ Req("SignerLoad", o, z) # x
    BY <2>1, ReqEqual
  <2>7. p.wollets = q.wollets /\ p.memos = q.memos /\ p.signers = q.signers
    <3>1. p.wollets = q.wollets
      BY <1>w, <2>6
    <3>2. p.memos = q.memos
      BY <1>m, <2>6
    <3>3. p.signers = q.signers
      BY <1>s, <2>6
    <3>. QED BY <3>1, <3>2, <3>3
  <2>10. t = q
    BY <1>0, <2>4, <2>5, <2>7, StateEqual
  <2>. QED BY <2>4, <2>10, Zenon DEF p, q, t
<1>. QED BY <1>1, <1>2, <1>3, <1>4 DEF Lines

\* What persist_all writes replays, to the state it was written from.
LEMMA AsRequestsReplay ==
    ASSUME Enumerated, WellOrdered, NEW s, Proper(s)
    PROVE  /\ Replayable(AsRequests(s))
           /\ Replay(AsRequests(s)) \in AppState
           /\ Matches(Replay(AsRequests(s)), s)
<1>. DEFINE L == AsRequests(s)
<1>1. Lists(L, Lines(s)) /\ Before(L, WalletLines(s), MemoLines(s))
  BY AsRequestsLists
<1>. HIDE DEF L
<1>2. L \in Seq(Lines(s)) /\ Len(L) \in Nat /\ \A i \in 1..Len(L) : L[i] \in Lines(s)
  BY <1>1 DEF Lists
<1>. DEFINE X(i) == {L[j] : j \in 1..i}
<1>3. ASSUME NEW i \in 0..Len(L), Replayed(L)[i] = Partial(s, X(i)), i + 1 \in 1..Len(L)
      PROVE  /\ Accepts(Replayed(L)[i], L[i + 1])
             /\ Replayed(L)[i + 1] = Partial(s, X(i + 1))
  <2>1. X(i) \subseteq Lines(s) /\ L[i + 1] \in Lines(s)
    BY <1>2, <1>3
  <2>2. L[i + 1] \notin X(i)
    <3>. SUFFICES ASSUME NEW j \in 1..i, L[j] = L[i + 1] PROVE FALSE
      OBVIOUS
    <3>1. j \in 1..Len(L) /\ j # i + 1
      BY <1>2
    <3>. QED BY <1>1, <1>3, <3>1, Zenon DEF Lists
  <2>3. ASSUME L[i + 1] \in MemoLines(s) PROVE WalletLines(s) \subseteq X(i)
    <3>1. (i + 1) - 1 = i
      BY <1>2
    <3>2. \A x \in WalletLines(s) : \E j \in 1..i : L[j] = x
      BY <1>1, <1>3, <2>3, <3>1 DEF Before
    <3>. QED BY <3>2
  <2>4. X(i + 1) = X(i) \cup {L[i + 1]}
    <3>1. 1..(i + 1) = 1..i \cup {i + 1}
      BY <1>2
    <3>. QED BY <3>1
  <2>5. Replayed(L)[i + 1] = Apply(Replayed(L)[i], L[i + 1])
    <3>1. (i + 1) - 1 = i
      BY <1>2
    <3>. QED BY <1>2, <1>3, <3>1, ReplayedStep
  <2>. HIDE DEF X
  <2>6. /\ Accepts(Partial(s, X(i)), L[i + 1])
        /\ Apply(Partial(s, X(i)), L[i + 1]) = Partial(s, X(i) \cup {L[i + 1]})
    BY <2>1, <2>2, <2>3, PartialStep, Zenon
  <2>. QED BY <1>3, <2>4, <2>5, <2>6, Zenon
<1>4. Replayed(L)[0] = Partial(s, X(0))
  <2>1. X(0) = {}
    OBVIOUS
  <2>2. Partial(s, {}) = Fresh
    BY DEF Partial, Fresh
  <2>. QED BY <1>2, <2>1, <2>2, ReplayedStep
<1>5. \A i \in 0..Len(L) : Replayed(L)[i] = Partial(s, X(i))
  <2>. DEFINE Bad == {i \in 0..Len(L) : Replayed(L)[i] # Partial(s, X(i))}
  <2>. SUFFICES ASSUME Bad # {} PROVE FALSE
    BY Zenon
  <2>1. PICK n \in Bad : \A m \in Bad : n <= m
    <3>1. Bad \subseteq Nat
      BY <1>2
    <3>. QED BY <3>1, Zenon DEF WellOrdered
  <2>2. n # 0
    BY <1>4, Zenon
  <2>3. n - 1 \in 0..Len(L) /\ (n - 1) + 1 = n /\ n \in 1..Len(L) /\ ~(n <= n - 1)
    BY <1>2, <2>2
  <2>4. n - 1 \notin Bad
    BY <2>1, <2>3
  <2>5. Replayed(L)[n - 1] = Partial(s, X(n - 1))
    BY <2>3, <2>4
  <2>. HIDE DEF X
  <2>6. Replayed(L)[(n - 1) + 1] = Partial(s, X((n - 1) + 1))
    BY <1>3, <2>3, <2>5
  <2>. QED BY <2>1, <2>3, <2>6
<1>6. Replayable(L)
  <2>. SUFFICES ASSUME NEW i \in 1..Len(L) PROVE Accepts(Replayed(L)[i - 1], L[i])
    BY DEF Replayable
  <2>1. i - 1 \in 0..Len(L) /\ (i - 1) + 1 = i
    BY <1>2
  <2>. HIDE DEF X
  <2>. QED BY <1>3, <1>5, <2>1
<1>7. X(Len(L)) = Lines(s)
  <2>1. X(Len(L)) \subseteq Lines(s)
    BY <1>2
  <2>2. \A x \in Lines(s) : \E i \in 1..Len(L) : L[i] = x
    BY <1>1 DEF Lists
  <2>. QED BY <2>1, <2>2
<1>8. Replay(L) = Partial(s, Lines(s))
  <2>1. Len(L) \in 0..Len(L)
    BY <1>2
  <2>. QED BY <1>5, <1>7, <2>1 DEF Replay
<1>9. Partial(s, Lines(s)) \in AppState
  BY PartialType
<1>10. Matches(Partial(s, Lines(s)), s)
  <2>. DEFINE p == Partial(s, Lines(s))
  <2>0. /\ s.wollets \in [Name -> Desc \cup {None}] /\ s.memos \subseteq Name
        /\ s.signers \in [Signer -> SignerLoad \cup {"none"}]
    BY DEF Proper, AppState
  <2>1. p.wollets = s.wollets
    <3>1. \A n \in Name : s.wollets[n] # None => Req("WalletLoad", n, s.wollets[n]) \in Lines(s)
      BY DEF Lines, WalletLines, Loaded
    <3>2. p.wollets = [n \in Name |-> IF Req("WalletLoad", n, s.wollets[n]) \in Lines(s)
                                      THEN s.wollets[n] ELSE None]
      BY DEF Partial
    <3>. QED BY <2>0, <3>1, <3>2
  <2>2. p.memos = s.memos
    <3>1. \A n \in s.memos : Req("WalletSetMemo", n, None) \in Lines(s)
      BY DEF Lines, MemoLines
    <3>. QED BY <3>1 DEF Partial
  <2>3. p.assets = Shown(s.assets)
    <3>1. \A a \in s.assets \cap Asset : Req("AssetInsert", a, None) \in Lines(s)
      BY DEF Lines, AssetLines
    <3>. DEFINE I == {a \in s.assets \cap Asset : Req("AssetInsert", a, None) \in Lines(s)}
    <3>2. p.assets = {Policy} \cup I \cup {Token(a) : a \in I}
      BY DEF Partial
    <3>3. I = s.assets \cap Asset
      BY <3>1
    <3>. HIDE DEF I, p
    <3>. QED BY <3>2, <3>3, Zenon DEF Shown
  <2>4. p.signers = s.signers
    <3>1. \A x \in Signer : s.signers[x] # "none" => Req("SignerLoad", x, s.signers[x]) \in Lines(s)
      BY DEF Lines, SignerLines, LoadedSigners
    <3>2. p.signers = [x \in Signer |-> IF Req("SignerLoad", x, s.signers[x]) \in Lines(s)
                                        THEN s.signers[x] ELSE "none"]
      BY DEF Partial
    <3>. QED BY <2>0, <3>1, <3>2, Zenon
  <2>. HIDE DEF p
  <2>5. Matches(p, s)
    BY <2>1, <2>2, <2>3, <2>4 DEF Matches
  <2>. QED BY <2>5 DEF p
<1>. QED BY <1>6, <1>8, <1>9, <1>10 DEF L

-----------------------------------------------------------------------------
(* The file replays to the state.                                          *)

\* A file that brings back state s.
Holds(f, s) ==
    /\ f \in Seq(Request) /\ \A i \in 1..Len(f) : LoadLine(f[i])
    /\ Replayable(f) /\ Replay(f) \in AppState /\ Matches(Replay(f), s)

\* An asset that is inserted is shown with its token.
LEMMA ShownInsert ==
    ASSUME NEW A, NEW a \in Asset
    PROVE  Shown(A \cup {a, Token(a)}) = Shown(A) \cup {a, Token(a)}
<1>1. (A \cup {a, Token(a)}) \cap Asset = (A \cap Asset) \cup {a}
  BY AssetAssumption
<1>2. {Token(x) : x \in (A \cap Asset) \cup {a}} = {Token(x) : x \in A \cap Asset} \cup {Token(a)}
  BY Zenon
<1>. QED BY <1>1, <1>2 DEF Shown

\* What is shown shows itself.
LEMMA ShownAgain ==
    ASSUME NEW A PROVE Shown(Shown(A)) = Shown(A)
<1>1. Shown(A) \cap Asset = A \cap Asset
  BY AssetAssumption DEF Shown
<1>. QED BY <1>1, Zenon DEF Shown

\* A line that is appended is accepted by the replay, and does there what the
\* request did.
LEMMA LineKeeps ==
    ASSUME NEW b \in AppState, NEW s \in AppState, Matches(b, s), NEW r \in Request,
           Accepts(s, r),
           NEW x, \/ LoadLine(r) /\ x = r
                  \/ \E a \in Asset : /\ r = Req("AssetFromRegistry", a, None)
                                      /\ x = Req("AssetInsert", a, None)
    PROVE  LoadLine(x) /\ Accepts(b, x) /\ Apply(b, x) \in AppState
           /\ Matches(Apply(b, x), Apply(s, r))
<1>. DEFINE c == Apply(b, x)
            t == Apply(s, r)
<1>0. /\ b.wollets = s.wollets /\ b.memos = s.memos /\ b.assets = Shown(s.assets)
      /\ \A y \in Signer :
            /\ s.signers[y] = "kept" => b.signers[y] = "kept"
            /\ b.signers[y] # "none" => b.signers[y] = s.signers[y]
  BY Zenon DEF Matches
<1>s. b.signers \in [Signer -> SignerLoad \cup {"none"}]
      /\ s.signers \in [Signer -> SignerLoad \cup {"none"}]
  BY Zenon DEF AppState
<1>. HIDE DEF c, t
<1>1. ASSUME NEW n \in Name, NEW d \in Desc, r = Req("WalletLoad", n, d), LoadLine(r), x = r
      PROVE  LoadLine(x) /\ Accepts(b, x) /\ c \in AppState /\ Matches(c, t)
  <2>1. /\ s.wollets[n] = None /\ \A o \in Name : s.wollets[o] # d
        /\ t.wollets = [s.wollets EXCEPT ![n] = d]
        /\ t.memos = s.memos /\ t.signers = s.signers /\ t.assets = s.assets
    BY <1>1, WalletLoadDoes DEF t
  <2>2. /\ Accepts(b, x) <=> (b.wollets[n] = None /\ \A o \in Name : b.wollets[o] # d)
        /\ c \in AppState /\ c.wollets = [b.wollets EXCEPT ![n] = d]
        /\ c.memos = b.memos /\ c.signers = b.signers /\ c.assets = b.assets
    BY <1>1, WalletLoadDoes DEF c
  <2>. QED BY <1>0, <1>1, <2>1, <2>2, ZenonT(30) DEF Matches
<1>2. ASSUME NEW n \in Name, r = Req("WalletSetMemo", n, None), LoadLine(r), x = r
      PROVE  LoadLine(x) /\ Accepts(b, x) /\ c \in AppState /\ Matches(c, t)
  <2>1. /\ s.wollets[n] # None /\ t.wollets = s.wollets
        /\ t.memos = s.memos \cup {n} /\ t.signers = s.signers /\ t.assets = s.assets
    BY <1>2, WalletSetMemoDoes, Zenon DEF t
  <2>2. /\ Accepts(b, x) <=> b.wollets[n] # None
        /\ c \in AppState /\ c.wollets = b.wollets
        /\ c.memos = b.memos \cup {n} /\ c.signers = b.signers /\ c.assets = b.assets
    BY <1>2, WalletSetMemoDoes, Zenon DEF c
  <2>. QED BY <1>0, <1>2, <2>1, <2>2, Zenon DEF Matches
<1>3. ASSUME NEW y \in Signer, NEW k \in SignerLoad, r = Req("SignerLoad", y, k), LoadLine(r), x = r
      PROVE  LoadLine(x) /\ Accepts(b, x) /\ c \in AppState /\ Matches(c, t)
  <2>1. /\ s.signers[y] = "none" /\ t.signers = [s.signers EXCEPT ![y] = k]
        /\ t.wollets = s.wollets /\ t.memos = s.memos /\ t.assets = s.assets
    BY <1>3, SignerLoadDoes, ZenonT(30) DEF t
  <2>2. /\ Accepts(b, x) <=> b.signers[y] = "none"
        /\ c \in AppState /\ c.signers = [b.signers EXCEPT ![y] = k]
        /\ c.wollets = b.wollets /\ c.memos = b.memos /\ c.assets = b.assets
    BY <1>3, SignerLoadDoes DEF c
  <2>3. b.signers[y] = "none"
    BY <1>0, <2>1, ZenonT(30)
  <2>4. ASSUME NEW z \in Signer
        PROVE  /\ t.signers[z] = "kept" => c.signers[z] = "kept"
               /\ c.signers[z] # "none" => c.signers[z] = t.signers[z]
    BY <1>0, <1>s, <2>1, <2>2
  <2>. QED BY <1>0, <1>3, <2>1, <2>2, <2>3, <2>4, Zenon DEF Matches
<1>4. ASSUME NEW a \in Asset, NEW m \in {"AssetInsert", "AssetFromRegistry"},
             r = Req(m, a, None), x = Req("AssetInsert", a, None)
      PROVE  LoadLine(x) /\ Accepts(b, x) /\ c \in AppState /\ Matches(c, t)
  <2>1. /\ t.assets = s.assets \cup {a, Token(a)}
        /\ t.wollets = s.wollets /\ t.memos = s.memos /\ t.signers = s.signers
    BY <1>4, AssetInsertDoes DEF t
  <2>2. /\ Accepts(b, x) /\ c \in AppState /\ c.assets = b.assets \cup {a, Token(a)}
        /\ c.wollets = b.wollets /\ c.memos = b.memos /\ c.signers = b.signers
    BY <1>4, AssetInsertDoes, ZenonT(30) DEF c
  <2>3. c.assets = Shown(t.assets)
    <3>1. Shown(s.assets \cup {a, Token(a)}) = Shown(s.assets) \cup {a, Token(a)}
      BY <1>4, ShownInsert
    <3>. QED BY <1>0, <2>1, <2>2, <3>1, Zenon
  <2>4. LoadLine(x)
    <3>1. x \in Request
      BY <1>4 DEF Request
    <3>2. x.method = "AssetInsert"
      BY <1>4, Zenon DEF Req
    <3>. QED BY <3>1, <3>2 DEF LoadLine
  <2>. QED BY <1>0, <2>1, <2>2, <2>3, <2>4, ZenonT(30) DEF Matches
<1>5. CASE LoadLine(r) /\ x = r
  <2>1. \/ \E n \in Name, d \in Desc : r = Req("WalletLoad", n, d)
        \/ \E n \in Name : r = Req("WalletSetMemo", n, None)
        \/ \E y \in Signer, k \in SignerLoad : r = Req("SignerLoad", y, k)
        \/ \E a \in Asset : r = Req("AssetInsert", a, None)
    BY <1>5, RequestCases DEF LoadLine, Req
  <2>. QED BY <1>1, <1>2, <1>3, <1>4, <1>5, <2>1, ZenonT(30) DEF c, t
<1>6. CASE \E a \in Asset : /\ r = Req("AssetFromRegistry", a, None)
                            /\ x = Req("AssetInsert", a, None)
  BY <1>4, <1>6 DEF c, t
<1>. QED BY <1>5, <1>6, Zenon

\* A request while the state is persisted leaves a file that brings back the state
\* after it.
LEMMA FileKeeps ==
    ASSUME Enumerated, WellOrdered, NEW f, NEW s, Proper(s), Holds(f, s),
           NEW r \in Request, Accepts(s, r)
    PROVE  Holds(FileAfter(f, s, r, TRUE), Apply(s, r))
<1>. DEFINE g == FileAfter(f, s, r, TRUE)
            t == Apply(s, r)
<1>0. s \in AppState /\ Proper(t)
  BY ApplyProper, Zenon DEF Proper
<1>. HIDE DEF g, t
<1>1. CASE g = AsRequests(t)
  BY <1>0, <1>1, AsRequestsReplay, AsRequestsLines, Zenon DEF Holds, t, g
<1>2. ASSUME g = f, NEW x \in Signer, r = Req("SignerLoad", x, "volatile")
      PROVE  Holds(g, t)
  <2>1. /\ s.signers[x] = "none" /\ t.signers = [s.signers EXCEPT ![x] = "volatile"]
        /\ t.wollets = s.wollets /\ t.memos = s.memos /\ t.assets = s.assets
    BY <1>0, <1>2, SignerLoadDoes, Zenon DEF t, SignerLoad
  <2>2. s.signers \in [Signer -> SignerLoad \cup {"none"}]
    BY <1>0 DEF AppState
  <2>. DEFINE b == Replay(f)
  <2>3. Matches(b, s)
    BY DEF Holds
  <2>. HIDE DEF b
  <2>4. Matches(b, t)
    BY <2>1, <2>2, <2>3 DEF Matches
  <2>. QED BY <1>2, <2>4 DEF Holds, b
<1>3. ASSUME NEW x, g = Append(f, x),
             \/ LoadLine(r) /\ x = r
             \/ \E a \in Asset : /\ r = Req("AssetFromRegistry", a, None)
                                 /\ x = Req("AssetInsert", a, None)
      PROVE  Holds(g, t)
  <2>1. Replay(f) \in AppState /\ Matches(Replay(f), s) /\ f \in Seq(Request) /\ Replayable(f)
    BY DEF Holds
  <2>2. LoadLine(x) /\ Accepts(Replay(f), x) /\ Apply(Replay(f), x) \in AppState
        /\ Matches(Apply(Replay(f), x), t)
    BY <1>0, <1>3, <2>1, LineKeeps DEF t
  <2>3. x \in Request
    BY <2>2 DEF LoadLine
  <2>4. Replayable(g) /\ Replay(g) = Apply(Replay(f), x)
    BY <1>3, <2>1, <2>2, <2>3, ReplayAppend, ZenonT(30)
  <2>5. g \in Seq(Request) /\ \A i \in 1..Len(g) : g[i] = x \/ \E j \in 1..Len(f) : g[i] = f[j]
    BY <1>3, <2>1, <2>3
  <2>. QED BY <2>2, <2>4, <2>5 DEF Holds
<1>. QED BY <1>1, <1>2, <1>3, FileAfterCases, ZenonT(30) DEF g, t

-----------------------------------------------------------------------------
(* The types that the file depends on.                                     *)

Typed ==
    /\ Proper(st) /\ file \in Seq(Request) /\ loading \in Seq(Request)
    /\ do_persist \in BOOLEAN

\* The state changes by accepted requests only, and is empty when a process starts.
LEMMA StateStep ==
    ASSUME Typed, [Next]_vars
    PROVE  \/ st' = st /\ file' = file
           \/ st' = Fresh /\ file' = file /\ main' \in {"load", "down"}
           \/ /\ main = "load" /\ loading # <<>> /\ Accepts(st, Head(loading))
              /\ main' = main /\ st' = Apply(st, Head(loading)) /\ loading' = Tail(loading)
              /\ file' = FileAfter(file, st, Head(loading), do_persist)
              /\ do_persist' = do_persist
           \/ \E r \in Request :
                 /\ Serving /\ Accepts(st, r) /\ main' = main /\ loading' = loading
                 /\ st' = Apply(st, r) /\ file' = FileAfter(file, st, r, do_persist)
                 /\ do_persist' = do_persist
<1>1. CASE Run
  BY <1>1 DEF Run
<1>2. CASE ReplayLine
  BY <1>2 DEF ReplayLine
<1>3. CASE BuildRefused \/ Started \/ Stop
  BY <1>3 DEF BuildRefused, Started, Stop
<1>4. CASE Joined \/ Killed
  BY <1>4 DEF Joined, Killed, Gone
<1>5. CASE \E r \in Request : Serve(r)
  BY <1>5 DEF Serve, threads
<1>6. CASE \E n \in Name : ServeTransaction(n)
  BY <1>6 DEF ServeTransaction
<1>7. CASE ServeScan \/ ScanReturns \/ ServeStop \/ WorkerExits
  BY <1>7, ZenonT(30) DEF ServeScan, ScanReturns, ServeStop, WorkerExits
<1>8. CASE ScannerStep
  BY <1>8 DEF ScannerStep, LoopStarts, Snapshot, Fetch, ApplyUpdate, LoopEnds, ScannerExits,
              ScannerLeaves
<1>9. CASE Block
  BY <1>9 DEF Block
<1>10. CASE UNCHANGED vars
  BY <1>10 DEF vars
<1>. QED BY <1>1, <1>2, <1>3, <1>4, <1>5, <1>6, <1>7, <1>8, <1>9, <1>10, Zenon DEF Next

\* The first state has its types.
LEMMA TypeInit == Init => Typed
<1>. SUFFICES ASSUME Init PROVE Typed
  OBVIOUS
<1>1. Proper(st)
  BY FreshProper DEF Init
<1>2. file \in Seq(Request) /\ loading \in Seq(Request)
  BY DEF Init
<1>3. do_persist \in BOOLEAN
  BY Zenon DEF Init
<1>. QED BY <1>1, <1>2, <1>3, Zenon DEF Typed

\* The state stays proper, and the file and what is left of it to replay hold
\* requests.
LEMMA StateNext ==
    ASSUME Enumerated, Typed, [Next]_vars
    PROVE  Proper(st)' /\ file' \in Seq(Request) /\ loading' \in Seq(Request)
<1>0. /\ Proper(st) /\ file \in Seq(Request) /\ loading \in Seq(Request)
      /\ do_persist \in BOOLEAN
  BY DEF Typed
<1>1. Proper(st') /\ file' \in Seq(Request)
  <2>1. ASSUME NEW r \in Request, Accepts(st, r), st' = Apply(st, r),
               file' = FileAfter(file, st, r, do_persist)
        PROVE  Proper(st') /\ file' \in Seq(Request)
    BY <1>0, <2>1, ApplyProper, FileAfterType
  <2>2. loading # <<>> => Head(loading) \in Request
    BY <1>0
  <2>. QED BY <1>0, <2>1, <2>2, StateStep, FreshProper
<1>3. loading' \in Seq(Request)
  <2>1. CASE Run
    <3>1. loading' = file
      BY <2>1 DEF Run
    <3>. QED BY <1>0, <3>1
  <2>2. CASE ReplayLine
    <3>1. loading' = loading \/ (loading # <<>> /\ loading' = Tail(loading))
      BY <2>2 DEF ReplayLine
    <3>. QED BY <1>0, <3>1
  <2>3. CASE Joined \/ Killed
    <3>1. loading' = <<>>
      BY <2>3 DEF Joined, Killed, Gone
    <3>. QED BY <3>1
  <2>4. CASE ~(Run \/ ReplayLine \/ Joined \/ Killed)
    <3>1. loading' = loading
      BY <2>4, Zenon DEF Next, BuildRefused, Started, Stop, Serve, ServeTransaction, ServeScan, ScanReturns,
                  ServeStop, WorkerExits, ScannerStep, LoopStarts, Snapshot, Fetch, ApplyUpdate,
                  LoopEnds, ScannerExits, ScannerLeaves, Block, threads, vars
    <3>. QED BY <1>0, <3>1, Zenon
  <2>. QED BY <2>1, <2>2, <2>3, <2>4
<1>. QED BY <1>1, <1>3

\* Types are kept.
LEMMA TypeNext ==
    ASSUME Enumerated PROVE Typed /\ [Next]_vars => Typed'
<1>. SUFFICES ASSUME Typed, [Next]_vars PROVE Typed'
  OBVIOUS
<1>1. Proper(st)' /\ file' \in Seq(Request) /\ loading' \in Seq(Request)
  BY StateNext
<1>2. do_persist' \in {do_persist, TRUE, FALSE}
  <2>1. CASE Run \/ Started \/ Joined \/ Killed
    BY <2>1, Zenon DEF Run, Started, Joined, Killed, Gone
  <2>2. CASE ~(Run \/ Started \/ Joined \/ Killed)
    <3>1. do_persist' = do_persist
      BY <2>2, Zenon DEF Next, ReplayLine, BuildRefused, Stop, Serve, ServeTransaction, ServeScan, ScanReturns,
                  ServeStop, WorkerExits, ScannerStep, LoopStarts, Snapshot, Fetch, ApplyUpdate,
                  LoopEnds, ScannerExits, ScannerLeaves, Block, threads, vars
    <3>. QED BY <3>1, Zenon
  <2>. QED BY <2>1, <2>2, Zenon
<1>3. do_persist' \in BOOLEAN
  BY <1>2, Zenon DEF Typed
<1>. QED BY <1>1, <1>3, Zenon DEF Typed

-----------------------------------------------------------------------------
(* Every step keeps the file.                                              *)

\* The file always replays.  While it is being replayed, and if that ends with a
\* wallet that cannot be built, the lines still to come are its last ones and the
\* state is the one after the others; from then on the file brings back the state.
Kept ==
    /\ main = "failed" => loading # <<>> /\ Head(loading).method = "WalletLoad"
    /\ \A i \in 1..Len(file) : LoadLine(file[i])
    /\ Replayable(file) /\ Replay(file) \in AppState
    /\ Replay(file).assets = Shown(Replay(file).assets)
    /\ main \in {"load", "failed"} =>
          /\ ~do_persist /\ Len(loading) <= Len(file)
          /\ \A j \in 1..Len(loading) : loading[j] = file[Len(file) - Len(loading) + j]
          /\ st = Replayed(file)[Len(file) - Len(loading)]
    /\ main \in {"run", "stopping"} => do_persist /\ Matches(Replay(file), st)

\* An empty file replays to the first state.
LEMMA KeptInit ==
    ASSUME WellOrdered PROVE Init => Kept
<1>. SUFFICES ASSUME Init PROVE Kept
  OBVIOUS
<1>1. file = <<>> /\ Len(file) = 0 /\ main = "down"
  BY DEF Init
<1>2. Replay(file) = Fresh
  BY <1>1, ReplayedStep DEF Replay
<1>3. Fresh \in AppState
  BY FreshProper, Zenon DEF Proper
<1>4. Fresh.assets = Shown(Fresh.assets)
  BY AssetAssumption DEF Fresh, Shown
<1>. QED BY <1>1, <1>2, <1>3, <1>4 DEF Kept, Replayable

\* The next line of a replay is accepted.
LEMMA KeptAccepts ==
    ASSUME Typed, Kept, main \in {"load", "failed"}, loading # <<>>
    PROVE  Accepts(st, Head(loading))
<1>. DEFINE k == Len(file) - Len(loading)
<1>0. file \in Seq(Request) /\ loading \in Seq(Request)
  BY DEF Typed
<1>1. /\ Len(loading) <= Len(file) /\ loading[1] = file[k + 1]
      /\ st = Replayed(file)[k] /\ Replayable(file)
  BY <1>0 DEF Kept
<1>2. Len(file) \in Nat /\ Len(loading) \in Nat /\ Len(loading) > 0 /\ Head(loading) = loading[1]
  BY <1>0
<1>3. k + 1 \in 1..Len(file) /\ (k + 1) - 1 = k
  BY <1>1, <1>2
<1>. HIDE DEF k
<1>. QED BY <1>1, <1>2, <1>3 DEF Replayable

\* Replaying a line: it is accepted, and the file stays as it is.
LEMMA KeptReplay ==
    ASSUME WellOrdered, Typed, Kept, ReplayLine PROVE Kept'
<1>. DEFINE k == Len(file) - Len(loading)
            r == Head(loading)
<1>0. /\ main = "load" /\ loading # <<>> /\ file \in Seq(Request) /\ loading \in Seq(Request)
      /\ do_persist \in BOOLEAN
  BY DEF ReplayLine, Typed
<1>1. /\ ~do_persist /\ Len(loading) <= Len(file)
      /\ \A j \in 1..Len(loading) : loading[j] = file[k + j]
      /\ st = Replayed(file)[k] /\ Replayable(file)
      /\ \A i \in 1..Len(file) : LoadLine(file[i])
  BY <1>0 DEF Kept
<1>2. /\ Len(file) \in Nat /\ Len(loading) \in Nat /\ Len(loading) > 0 /\ r = loading[1]
      /\ Len(Tail(loading)) = Len(loading) - 1
      /\ \A j \in 1..Len(Tail(loading)) : Tail(loading)[j] = loading[j + 1]
  BY <1>0
<1>3. k \in Nat /\ k + 1 \in 1..Len(file) /\ r = file[k + 1] /\ (k + 1) - 1 = k
  BY <1>1, <1>2
<1>. HIDE DEF k, r
<1>4. Accepts(st, r) /\ LoadLine(r)
  BY <1>1, <1>3 DEF Replayable
<1>5. FileAfter(file, st, r, do_persist) = file
  BY <1>1, <1>4 DEF FileAfter, LoadLine
<1>6. /\ main' = main /\ file' = file /\ st' = Apply(st, r) /\ loading' = Tail(loading)
      /\ do_persist' = do_persist
  BY <1>4, <1>5, Zenon DEF ReplayLine, r
<1>7. st' = Replayed(file)[k + 1]
  <2>1. Replayed(file)[k + 1] = Apply(Replayed(file)[(k + 1) - 1], file[k + 1])
    BY <1>2, <1>3, ReplayedStep
  <2>. QED BY <1>1, <1>3, <1>6, <2>1, Zenon
<1>8. Len(file) - Len(loading') = k + 1 /\ Len(loading') <= Len(file)
  <2>1. Len(loading') = Len(loading) - 1
    BY <1>2, <1>6
  <2>2. Len(file) \in Nat /\ Len(loading) \in Nat /\ Len(loading) <= Len(file)
    BY <1>1, <1>2
  <2>. QED BY ONLY <2>1, <2>2, SMTT(20) DEF k
<1>9. ASSUME NEW j \in 1..Len(loading') PROVE loading'[j] = file[(k + 1) + j]
  <2>1. j \in Nat /\ j + 1 \in 1..Len(loading) /\ k + (j + 1) = (k + 1) + j
    BY <1>2, <1>3, <1>6
  <2>2. loading'[j] = loading[j + 1]
    BY <1>2, <1>6
  <2>3. loading[j + 1] = file[k + (j + 1)]
    BY <1>1, <2>1, Zenon
  <2>. QED BY <2>1, <2>2, <2>3
<1>. QED BY <1>0, <1>1, <1>6, <1>7, <1>8, <1>9, Zenon DEF Kept

\* A request that is served after the start.
LEMMA KeptServe ==
    ASSUME Enumerated, WellOrdered, ~EarlyClients, Typed, Kept, NEW r \in Request, Serve(r)
    PROVE  Kept'
<1>1. /\ main \in {"run", "stopping"} /\ main' = main /\ do_persist' = do_persist
      /\ Accepts(st, r) /\ st' = Apply(st, r)
      /\ file' = FileAfter(file, st, r, do_persist)
  BY DEF Serve, Serving, threads
<1>2. Proper(st) /\ file \in Seq(Request) /\ do_persist \in BOOLEAN
  BY DEF Typed
<1>3. Holds(file, st) /\ do_persist
  BY <1>1, <1>2, Zenon DEF Kept, Holds
<1>4. do_persist = TRUE
  BY <1>2, <1>3, Zenon
<1>5. Holds(file', st')
  BY <1>1, <1>2, <1>3, <1>4, FileKeeps, Zenon
<1>6. Replay(file').assets = Shown(Replay(file').assets)
  BY <1>5, ShownAgain, Zenon DEF Holds, Matches
<1>7. main' \notin {"load", "failed"}
  BY <1>1
<1>. QED BY <1>1, <1>3, <1>5, <1>6, <1>7, Zenon DEF Kept, Holds

\* Every step keeps it, when no client calls during the replay.
LEMMA KeptNext ==
    ASSUME Enumerated, WellOrdered, ~EarlyClients, Typed, Kept, [Next]_vars
    PROVE  Kept'
<1>0. file \in Seq(Request) /\ loading \in Seq(Request) /\ Len(file) \in Nat
  BY DEF Typed
<1>1. CASE Run
  <2>1. main' = "load" /\ loading' = file /\ file' = file /\ st' = Fresh /\ ~do_persist'
    BY <1>1 DEF Run
  <2>2. Replayed(file)[0] = Fresh /\ Len(file) - Len(file) = 0
    BY <1>0, ReplayedStep
  <2>3. \A j \in 1..Len(file) : file[j] = file[0 + j]
    BY <1>0
  <2>4. Len(file) <= Len(file)
    BY <1>0
  <2>. QED BY <2>1, <2>2, <2>3, <2>4, Zenon DEF Kept
<1>2. CASE ReplayLine
  BY <1>2, KeptReplay, ZenonT(30)
<1>2a. CASE BuildRefused
  <2>1. /\ main = "load" /\ main' = "failed" /\ loading # <<>> /\ Head(loading).method = "WalletLoad"
        /\ loading' = loading /\ file' = file /\ st' = st /\ do_persist' = do_persist
    BY <1>2a DEF BuildRefused
  <2>. QED BY <2>1 DEF Kept
<1>3. CASE Started
  <2>1. main = "load" /\ loading = <<>> /\ main' = "run" /\ file' = file /\ st' = st
    BY <1>3 DEF Started
  <2>2. do_persist'
    BY <1>3 DEF Started
  <2>3. Len(loading) = 0 /\ Len(file) - 0 = Len(file)
    BY <1>0, <2>1
  <2>4. st = Replay(file)
    BY <2>1, <2>3 DEF Kept, Replay
  <2>5. Matches(st, st)
    BY <2>4, Zenon DEF Matches, Kept
  <2>. QED BY <2>1, <2>2, <2>4, <2>5 DEF Kept
<1>4. CASE Joined \/ Killed
  <2>1. main' = "down" /\ file' = file
    BY <1>4, ZenonT(30) DEF Joined, Killed, Gone
  <2>. QED BY <2>1, Zenon DEF Kept
<1>5. CASE Stop
  <2>1. main = "run" /\ main' = "stopping" /\ file' = file /\ st' = st /\ do_persist' = do_persist
    BY <1>5 DEF Stop
  <2>. QED BY <2>1 DEF Kept
<1>6. CASE \E r \in Request : Serve(r)
  BY <1>6, KeptServe, Zenon
<1>7. CASE \/ \E n \in Name : ServeTransaction(n)
           \/ ServeScan \/ ScanReturns \/ ServeStop \/ WorkerExits
           \/ ScannerStep \/ Block \/ UNCHANGED vars
  <2>1. /\ main' = main /\ loading' = loading /\ file' = file /\ st' = st
        /\ do_persist' = do_persist
    BY <1>7, Zenon DEF ServeTransaction, ServeScan, ScanReturns, ServeStop, WorkerExits, ScannerStep,
                LoopStarts, Snapshot, Fetch, ApplyUpdate, LoopEnds, ScannerExits, ScannerLeaves,
                Block, threads, vars
  <2>. QED BY <2>1, Zenon DEF Kept
<1>. QED BY <1>1, <1>2, <1>2a, <1>3, <1>4, <1>5, <1>6, <1>7 DEF Next

\* Such a file replays, and brings back the state.
LEMMA KeptGives == Typed /\ Kept => Restarts /\ RestartRestores
<1>. SUFFICES ASSUME Typed, Kept PROVE Restarts /\ RestartRestores
  OBVIOUS
<1>1. Restarts
  BY KeptAccepts, ZenonT(30) DEF Kept, Restarts
<1>2. ASSUME main \in {"run", "stopping"} PROVE Matches(Replay(file), st)
  BY <1>2, Zenon DEF Kept
<1>3. st.signers \in [Signer -> SignerLoad \cup {"none"}]
      /\ (main \in {"run", "stopping"} =>
            Replay(file).signers \in [Signer -> SignerLoad \cup {"none"}])
  BY DEF Typed, Proper, Kept, AppState
<1>4. RestartRestores
  <2>. SUFFICES ASSUME main \in {"run", "stopping"} PROVE RestartRestores
    BY Zenon DEF RestartRestores
  <2>. DEFINE b == Replay(file)
  <2>1. Matches(b, st)
    BY <1>2
  <2>2. ASSUME NEW s \in Signer
        PROVE  b.signers[s] \in IF st.signers[s] = "volatile" THEN {"none", "volatile"}
                                                             ELSE {st.signers[s]}
    <3>1. st.signers[s] \in {"kept", "volatile", "none"}
      BY <1>3 DEF SignerLoad
    <3>. HIDE DEF b
    <3>. QED BY <2>1, <3>1 DEF Matches
  <2>3. b.wollets = st.wollets /\ b.memos = st.memos /\ b.assets = Shown(st.assets)
    BY <2>1, Zenon DEF Matches
  <2>. HIDE DEF b
  <2>. QED BY <2>2, <2>3, Zenon DEF RestartRestores, Shown, b
<1>. QED BY <1>1, <1>4, Zenon

-----------------------------------------------------------------------------
(* The theorems.                                                           *)

INSTANCE FiniteSetTheorems

\* The entries of a finite map are listed.
LEMMA InOrderLists == Enumerated
<1>. SUFFICES ASSUME NEW T, IsFiniteSet(T) PROVE Lists(InOrder(T), T)
  BY DEF Enumerated
<1>. DEFINE n == Cardinality(T)
<1>1. n \in Nat /\ ExistsBijection(1..n, T)
  BY FS_CardinalityType
<1>2. PICK b : b \in Bijection(1..n, T)
  BY <1>1 DEF ExistsBijection
<1>3. b \in [1..n -> T] /\ IsInjective(b)
  BY <1>2 DEF Bijection, Injection, IsInjective
<1>4. InOrder(T) \in [1..n -> T] /\ IsInjective(InOrder(T))
  BY <1>3 DEF InOrder
<1>. DEFINE q == InOrder(T)
<1>. HIDE DEF q
<1>5. q \in [1..n -> T] /\ IsInjective(q)
  BY <1>4 DEF q
<1>6. q \in Seq(T) /\ Len(q) = n
  BY <1>1, <1>5
<1>7. q \in Injection(1..n, T)
  BY <1>5 DEF IsInjective, Injection
<1>8. q \in Surjection(1..n, T)
  <2>1. IsFiniteSet(1..n) /\ Cardinality(1..n) = n
    BY <1>1, FS_Interval
  <2>. QED BY <1>7, <2>1, FS_Injection
<1>9. \A x \in T : \E i \in 1..n : q[i] = x
  BY <1>8 DEF Surjection
<1>10. \A i, j \in 1..n : q[i] = q[j] => i = j
  BY <1>5 DEF IsInjective
<1>. QED BY <1>6, <1>9, <1>10 DEF Lists, q

\* The natural numbers are well ordered.
LEMMA LeastNatural == WellOrdered
<1>. SUFFICES ASSUME NEW S \in SUBSET Nat, S # {} PROVE \E m \in S : \A n \in S : m <= n
  BY DEF WellOrdered
<1>1. PICK m \in S : \A n \in S : ~(<<n, m>> \in OpToRel(<, Nat))
  BY NatLessThanWellFounded, WFMin, Zenon
<1>2. ASSUME NEW n \in S PROVE m <= n
  <2>1. <<n, m>> \in Nat \X Nat
    BY <1>2
  <2>2. ~(n < m)
    BY <1>1, <1>2, <2>1 DEF OpToRel
  <2>. QED BY <1>2, <2>2
<1>. QED BY <1>2

\* The inductive invariant.
LEMMA AlwaysKept ==
    ASSUME ~EarlyClients PROVE Spec => [](Typed /\ Kept)
<1>1. Typed /\ Kept /\ [Next]_vars => (Typed /\ Kept)'
  <2>1. ASSUME Typed, Kept, [Next]_vars PROVE Kept'
    BY <2>1, InOrderLists, LeastNatural, KeptNext, Zenon
  <2>2. ASSUME Typed, [Next]_vars PROVE Typed'
    BY <2>2, InOrderLists, TypeNext, Zenon
  <2>. QED BY <2>1, <2>2, Zenon
<1>2. Init => Kept
  BY LeastNatural, KeptInit, Zenon
<1>. QED BY <1>1, <1>2, TypeInit, PTL DEF Spec

\* The state file always replays, whatever the requests, stops and kills were: a
\* start fails only if the store of a wallet refuses to be opened, never on what
\* earlier sessions appended and rewrote.  Clients are assumed not to call while
\* the file is replayed.
THEOREM StateFileReplays ==
    ASSUME ~EarlyClients
    PROVE  Spec => []Restarts
<1>1. Typed /\ Kept => Restarts
  BY KeptGives, Zenon
<1>. QED BY <1>1, AlwaysKept, PTL

\* A start brings back what the last answered request left: the wallets with their
\* memos, the registry assets with their tokens, the policy asset and every signer
\* that is to be kept, and nothing that was unloaded; for any number of wallets, signers and assets.  Clients are
\* assumed not to call while the file is replayed.
THEOREM RestartBringsBack ==
    ASSUME ~EarlyClients
    PROVE  Spec => []RestartRestores
<1>1. Typed /\ Kept => RestartRestores
  BY KeptGives, Zenon
<1>. QED BY <1>1, AlwaysKept, PTL

==============================================================================
