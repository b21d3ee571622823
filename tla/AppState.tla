------------------------------ MODULE AppState -------------------------------
(***************************************************************************)
(* The state of the application and its state file (lwk_app/src/state.rs,  *)
(* and the handlers of lwk_app/src/lib.rs that change it).  The file is a  *)
(* list of requests; starting the application replays them.  A handler     *)
(* holds the lock from its first read of the state to its last write, the  *)
(* one to the file included, hence it is one step.                         *)
(***************************************************************************)
EXTENDS Naturals, Sequences, FiniteSets, Functions

CONSTANTS
    Name,       \* names of wallets
    Desc,       \* descriptors, one first address each
    Signer,     \* signers, one name and fingerprint each
    Asset,      \* registry assets
    Token(_),   \* Token(a): the reissuance token of a
    Policy,     \* the policy asset
    None

ASSUME NoneAssumption == None \notin Desc
ASSUME AssetAssumption ==
    /\ Policy \notin Asset
    /\ \A a \in Asset : Token(a) \notin Asset \cup {Policy}

AnyAsset == Asset \cup {Token(a) : a \in Asset} \cup {Policy}

\* AppSigner: "kept" are software signers loaded with persist, external and Jade
\* signers; "volatile" are software signers loaded without persist.
SignerLoad == {"kept", "volatile"}

\* wollets: the descriptor under each name; memos: wallets with a transaction or
\* address memo; assets: registry assets, their tokens and the policy asset.
AppState == [wollets : [Name -> Desc \cup {None}], memos : SUBSET Name,
             signers : [Signer -> SignerLoad \cup {"none"}], assets : SUBSET AnyAsset]

\* State of run(), with insert_policy_asset
Fresh == [wollets |-> [n \in Name |-> None], memos |-> {},
          signers |-> [s \in Signer |-> "none"], assets |-> {Policy}]

\* The names of the wallets that are loaded.
Loaded(s) == {n \in Name : s.wollets[n] # None}

Req(method, name, arg) == [method |-> method, name |-> name, arg |-> arg]

\* The requests that change the state.
Request ==
    {Req("WalletLoad", n, d) : n \in Name, d \in Desc}
    \cup {Req("SignerLoad", s, k) : s \in Signer, k \in SignerLoad}
    \cup {Req(m, n, None) : m \in {"WalletUnload", "WalletSetMemo"}, n \in Name}
    \cup {Req("SignerUnload", s, None) : s \in Signer}
    \cup {Req(m, a, None) : m \in {"AssetInsert", "AssetFromRegistry"}, a \in Asset}
    \cup {Req("AssetRemove", a, None) : a \in AnyAsset}

-----------------------------------------------------------------------------
(* One operator per handler: the state after it.                           *)

\* Wollets::insert refuses a name that is taken and a first address that is.
CanLoadWallet(st, n, d) == st.wollets[n] = None /\ \A o \in Name : st.wollets[o] # d
WalletLoad(st, n, d) == [st EXCEPT !.wollets[n] = d]

\* Mutant: the memos of an unloaded wallet stay.
WalletUnloadKeepsMemos(st, n) == [st EXCEPT !.wollets[n] = None]

WalletUnload(st, n) == [st EXCEPT !.wollets[n] = None, !.memos = @ \ {n}]

WalletSetMemo(st, n) == [st EXCEPT !.memos = @ \cup {n}]

\* Signers::insert, Signers::remove
LoadSigner(st, s, k) == [st EXCEPT !.signers[s] = k]
SignerUnload(st, s) == [st EXCEPT !.signers[s] = "none"]

\* State::insert_asset (over what is there), State::remove_asset (that id only)
InsertAsset(st, a) == [st EXCEPT !.assets = @ \cup {a, Token(a)}]
RemoveAsset(st, a) == [st EXCEPT !.assets = @ \ {a}]

\* Does the handler get past its early returns?
Accepts(st, r) ==
    CASE r.method = "WalletLoad" -> CanLoadWallet(st, r.name, r.arg)
      [] r.method \in {"WalletUnload", "WalletSetMemo"} -> st.wollets[r.name] # None
      [] r.method = "SignerLoad" -> st.signers[r.name] = "none"
      [] r.method = "SignerUnload" -> st.signers[r.name] # "none"
      [] r.method = "AssetInsert" -> TRUE
      [] r.method = "AssetFromRegistry" -> r.name \notin st.assets
      [] r.method = "AssetRemove" -> r.name \in st.assets

Apply(st, r) ==
    CASE r.method = "WalletLoad" -> WalletLoad(st, r.name, r.arg)
      [] r.method = "WalletUnload" -> WalletUnload(st, r.name)
      [] r.method = "WalletSetMemo" -> WalletSetMemo(st, r.name)
      [] r.method = "SignerLoad" -> LoadSigner(st, r.name, r.arg)
      [] r.method = "SignerUnload" -> SignerUnload(st, r.name)
      [] r.method \in {"AssetInsert", "AssetFromRegistry"} -> InsertAsset(st, r.name)
      [] r.method = "AssetRemove" -> RemoveAsset(st, r.name)

-----------------------------------------------------------------------------
(* The state file.                                                         *)

\* The entries of a map, in the order of the map, which may be any.
InOrder(S) == CHOOSE q \in [1..Cardinality(S) -> S] : IsInjective(q)

\* State::as_requests: wallets, memos, signers, assets, each group in the order
\* of its map.  Every signer is listed; tokens and the policy asset have no
\* request of their own.
AsRequests(st) ==
    InOrder({Req("WalletLoad", n, st.wollets[n]) : n \in {x \in Name : st.wollets[x] # None}})
    \o InOrder({Req("WalletSetMemo", n, None) : n \in st.memos})
    \o InOrder({Req("SignerLoad", s, st.signers[s]) :
                    s \in {x \in Signer : st.signers[x] # "none"}})
    \o InOrder({Req("AssetInsert", a, None) : a \in st.assets \cap Asset})

\* The line State::persist appends: the request itself, except that an asset
\* from the registry is kept as the insertion that needs no network.
Line(r) == IF r.method = "AssetFromRegistry" THEN Req("AssetInsert", r.name, None) ELSE r

\* Mutant: removals leave the file alone.
FileAfterForgets(file, st, r, do_persist) ==
    IF do_persist /\ r.method \in {"WalletLoad", "WalletSetMemo", "AssetInsert",
                                   "AssetFromRegistry", "SignerLoad"}
    THEN Append(file, Line(r)) ELSE file

\* persist_all (rewriting the whole file, whatever do_persist says) after a
\* removal, else persist; a volatile signer is not persisted.
FileAfter(file, st, r, do_persist) ==
    CASE r.method \in {"WalletUnload", "SignerUnload", "AssetRemove"} ->
            AsRequests(Apply(st, r))
      [] r.method = "SignerLoad" /\ r.arg = "volatile" -> file
      [] OTHER -> IF do_persist THEN Append(file, Line(r)) ELSE file

\* The states a start goes through as it replays the lines of the file.
Replayed(file) ==
    LET after[i \in 0..Len(file)] ==
            IF i = 0 THEN Fresh ELSE Apply(after[i - 1], file[i])
    IN  after

\* The state a start finds in the file.
Replay(file) == Replayed(file)[Len(file)]

\* Would the replay succeed?  apply_request stops at the first error.
Replayable(file) ==
    \A i \in 1..Len(file) : Accepts(Replayed(file)[i - 1], file[i])

=============================================================================
