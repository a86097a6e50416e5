------------------------ MODULE ConfigBuilderProofs ------------------------
(***************************************************************************)
(* Proofs about ConfigBuilder, for every set of root certificates.         *)
(***************************************************************************)
EXTENDS ConfigBuilder, TLAPS

-----------------------------------------------------------------------------
(***************************************************************************)
(* The inductive invariant.  TrustsOnlyGiven is not inductive: BuilderFree *)
(* and ConfigFree forget what was given, which is right only because there *)
(* is a builder or a config and never both; and a setter keeps the trusted *)
(* roots only if it sets another field of a builder that has them.         *)
(* ConfigComplete needs that the base of every builder was checked.        *)
(***************************************************************************)
\* A builder, or the config made of it.
Whole(b) ==
    b # NoBuilder =>
        /\ {"side", "base", "verifier", "resolver"} \subseteq DOMAIN b
        /\ b.side \in {"client", "server"}
        /\ b.base.suites \cap b.base.versions # {}

IInv ==
    /\ builder = NoBuilder \/ config = NoBuilder
    /\ Whole(builder) /\ Whole(config)
    /\ TrustsOnlyGiven
    /\ ConfigComplete

\* NoBuilder is told by its side, and trusts nothing.
LEMMA NoBuilderSide == NoBuilder.side = "none" /\ RootsOf(NoBuilder) = {} /\ Whole(NoBuilder)
BY DEF NoBuilder, RootsOf, Whole

\* A new builder trusts nothing and is whole, if its base is.
LEMMA NewWhole ==
  ASSUME NEW side \in {"client", "server"}, NEW base,
         base.suites \cap base.versions # {}
  PROVE  /\ new_builder(side, base) # NoBuilder
         /\ Whole(new_builder(side, base))
         /\ RootsOf(new_builder(side, base)) = {}
<1> DEFINE b == new_builder(side, base)
<1>1. /\ {"side", "base", "verifier", "resolver"} \subseteq DOMAIN b
      /\ b.side = side /\ b.base = base /\ b.verifier = NoVerifier
  BY DEF new_builder, NewClient, NewServer
<1>2. NoVerifier.roots = {}
  BY DEF NoVerifier
<1> HIDE DEF b
<1>3. b # NoBuilder
  BY <1>1, NoBuilderSide
<1> QED
  BY <1>1, <1>2, <1>3 DEF Whole, RootsOf, b

\* A base that rustls_..._config_builder_new_custom accepts has a suite for one
\* of the versions that rustls knows.
LEMMA CheckedBase ==
  ASSUME NEW suites \in SuiteLists, NEW versions \in VersionLists,
         checked_base(suites, versions) = "Ok"
  PROVE  {suites[i] : i \in DOMAIN suites} \cap (versions \ {"tls11"}) # {}
<1>1. {i \in DOMAIN suites : suites[i] \in {NULL, "other"}} = {}
  BY DEF checked_base
<1>2. PICK i \in DOMAIN suites : suites[i] \in versions
  BY <1>1 DEF checked_base
<1>3. suites[i] # "tls11"
  BY <1>1, <1>2 DEF SuiteLists
<1> QED
  BY <1>2, <1>3

\* A setter keeps the builder whole, and what it trusts is given.
LEMMA SetIInv ==
  ASSUME IInv, NEW sides, sides \subseteq {"client", "server"}, NEW value, NEW result,
         NEW field \in {"verifier", "resolver", "alpn", "enable_sni",
                        "session_storage", "ignore_client_order"},
         Set(sides, field, value, result), config' = config
  PROVE  IInv'
<1>1. builder # NoBuilder /\ config = NoBuilder
  BY NoBuilderSide DEF Set, IInv
<1>2. CASE result # "Ok"
  BY <1>2 DEF Set, IInv, TrustsOnlyGiven, ConfigComplete
<1>3. CASE result = "Ok"
  <2>1. builder' = [builder EXCEPT ![field] = value]
    BY <1>3 DEF Set
  <2>2. /\ DOMAIN builder' = DOMAIN builder
        /\ builder'.side = builder.side /\ builder'.base = builder.base
        /\ field # "verifier" => builder'.verifier = builder.verifier
        /\ field = "verifier" => builder'.verifier = value
    BY <1>1, <2>1 DEF IInv, Whole
  <2>3. builder' # NoBuilder
    BY <1>1, <2>2, NoBuilderSide DEF IInv, Whole
  <2>4. Whole(builder')
    BY <1>1, <2>2 DEF IInv, Whole
  <2>5. RootsOf(builder') \subseteq given'
    <3>1. RootsOf(builder) = builder.verifier.roots /\ RootsOf(builder') = builder'.verifier.roots
      BY <1>1, <2>3 DEF RootsOf
    <3>2. RootsOf(builder) \subseteq given
      BY DEF IInv, TrustsOnlyGiven
    <3>3. given' = IF field = "verifier" THEN given \cup value.roots ELSE given
      BY <1>3 DEF Set
    <3> QED
      BY <2>2, <3>1, <3>2, <3>3
  <2> QED
    BY <1>1, <2>4, <2>5, NoBuilderSide DEF IInv, TrustsOnlyGiven, ConfigComplete
<1> QED
  BY <1>2, <1>3

\* The initial state satisfies the invariant.
LEMMA InitIInv == Init => IInv
BY NoBuilderSide DEF Init, IInv, TrustsOnlyGiven, ConfigComplete

\* Calls on the store, and a new client verifier, touch no builder.
LEMMA StoreIInv ==
  ASSUME IInv, UNCHANGED <<builder, config, given>>
  PROVE  IInv'
BY DEF IInv, TrustsOnlyGiven, ConfigComplete, RootsOf, Whole

\* A new builder satisfies the invariant.
LEMMA NewIInv ==
  ASSUME IInv, NEW side \in {"client", "server"}, config' = config,
         \/ BuilderNew(side)
         \/ \E suites \in SuiteLists, versions \in VersionLists :
                BuilderNewCustom(side, suites, versions)
  PROVE  IInv'
<1>1. config' = NoBuilder /\ given' = given
  BY Zenon DEF BuilderNew, BuilderNewCustom
<1>2. \/ UNCHANGED builder
      \/ \E base : base.suites \cap base.versions # {} /\ builder' = new_builder(side, base)
  <2>1. CASE BuilderNew(side)
    <3>1. "tls12" \in SafeDefaults.suites \cap SafeDefaults.versions
      BY DEF SafeDefaults
    <3> QED
      BY <2>1, <3>1 DEF BuilderNew
  <2>2. ASSUME NEW suites \in SuiteLists, NEW versions \in VersionLists,
               BuilderNewCustom(side, suites, versions)
        PROVE  \/ UNCHANGED builder
               \/ \E base : /\ base.suites \cap base.versions # {}
                            /\ builder' = new_builder(side, base)
    <3> DEFINE base == [suites |-> {suites[i] : i \in DOMAIN suites},
                        versions |-> versions \ {"tls11"}]
    <3>1. CASE checked_base(suites, versions) # "Ok"
      BY <2>2, <3>1 DEF BuilderNewCustom
    <3>2. CASE checked_base(suites, versions) = "Ok"
      <4>1. builder' = new_builder(side, base)
        BY <2>2, <3>2 DEF BuilderNewCustom
      <4>2. base.suites \cap base.versions # {}
        BY <3>2, CheckedBase
      <4> HIDE DEF base
      <4> QED
        BY <4>1, <4>2
    <3> QED
      BY <3>1, <3>2
  <2> QED
    BY <2>1, <2>2
<1>3. CASE UNCHANGED builder
  BY <1>1, <1>3, StoreIInv DEF BuilderNew, BuilderNewCustom
<1>4. ASSUME NEW base, base.suites \cap base.versions # {}, builder' = new_builder(side, base)
      PROVE  IInv'
  BY <1>1, <1>4, NewWhole, NoBuilderSide DEF IInv, TrustsOnlyGiven, ConfigComplete
<1> QED
  BY <1>2, <1>3, <1>4

\* Freeing the builder or the config forgets what was given to it.
LEMMA FreeIInv ==
  ASSUME IInv, \/ BuilderFree /\ config' = config
               \/ ConfigFree
  PROVE  IInv'
<1>1. builder' = NoBuilder /\ config' = NoBuilder
  BY DEF IInv, BuilderFree, ConfigFree
<1> QED
  BY <1>1, NoBuilderSide DEF IInv, TrustsOnlyGiven, ConfigComplete

\* Building hands the builder's contents to the config, or drops them.
LEMMA BuildIInv ==
  ASSUME IInv, Build
  PROVE  IInv'
<1>1. builder' = NoBuilder /\ config' = built(builder)
  BY DEF Build
<1>2. CASE config' = NoBuilder
  BY <1>1, <1>2, NoBuilderSide DEF IInv, TrustsOnlyGiven, ConfigComplete
<1>3. CASE config' # NoBuilder
  <2>1. /\ config' = builder /\ given' = given
        /\ builder.side = "server" => builder.resolver # "none"
    BY <1>1, <1>3 DEF built, Build
  <2>2. RootsOf(config') \subseteq given'
    BY <2>1 DEF IInv, TrustsOnlyGiven
  <2> QED
    BY <1>1, <1>3, <2>1, <2>2, NoBuilderSide
    DEF IInv, TrustsOnlyGiven, ConfigComplete, Whole
<1> QED
  BY <1>2, <1>3

\* The setters.
LEMMA SettersIInv ==
  ASSUME IInv, config' = config,
         \/ \E name \in {"NULL", "missing", "present"}, file \in Pems :
                load_roots_from_file(name, file)
         \/ \E list \in {"p1"}, null \in BOOLEAN : set_alpn_protocols(list, null)
         \/ \E enable \in BOOLEAN : set_enable_sni(enable)
         \/ \E ignore \in {"yes", "no"} : set_ignore_client_order(ignore)
         \/ \E null \in BOOLEAN :
                \/ set_certificate_verifier(null)
                \/ use_roots(null)
                \/ set_certified_keys(null)
                \/ set_hello_callback(null)
                \/ set_persistence(null)
                \/ set_client_verifier(null)
  PROVE  IInv'
<1>1. /\ Client \subseteq {"client", "server"}
      /\ Server \subseteq {"client", "server"}
  BY DEF Client, Server
<1>2. ASSUME NEW name, NEW file, load_roots_from_file(name, file) PROVE IInv'
  BY <1>1, <1>2, SetIInv DEF load_roots_from_file
<1>3. ASSUME NEW list, NEW null, set_alpn_protocols(list, null) PROVE IInv'
  BY <1>3, SetIInv DEF set_alpn_protocols
<1>4. ASSUME NEW value, set_enable_sni(value) \/ set_ignore_client_order(value) PROVE IInv'
  BY <1>1, <1>4, SetIInv, Zenon DEF set_enable_sni, set_ignore_client_order
<1>5. ASSUME NEW null, set_certificate_verifier(null) \/ use_roots(null) PROVE IInv'
  BY <1>1, <1>5, SetIInv, Zenon DEF set_certificate_verifier, use_roots
<1>6. ASSUME NEW null, set_certified_keys(null) \/ set_hello_callback(null) PROVE IInv'
  BY <1>1, <1>6, SetIInv, Zenon DEF set_certified_keys, set_hello_callback
<1>7. ASSUME NEW null, set_persistence(null) \/ set_client_verifier(null) PROVE IInv'
  BY <1>1, <1>7, SetIInv, Zenon DEF set_persistence, set_client_verifier
<1> QED
  BY <1>2, <1>3, <1>4, <1>5, <1>6, <1>7

\* The invariant is inductive.
LEMMA NextIInv == IInv /\ [Next]_vars => IInv'
<1> SUFFICES ASSUME IInv, [Next]_vars PROVE IInv'
  OBVIOUS
<1>1. CASE UNCHANGED vars
  BY <1>1, StoreIInv DEF vars
<1>2. CASE StoreCall \/ \E kind \in {"required", "optional"} : client_cert_verifier_new(kind)
  BY <1>2, StoreIInv DEF StoreCall, client_cert_verifier_new
<1>3. CASE BuilderCall
  BY <1>3, NewIInv, FreeIInv, SettersIInv DEF BuilderCall
<1>4. CASE Build \/ ConfigFree
  BY <1>4, BuildIInv, FreeIInv
<1> QED
  BY <1>1, <1>2, <1>3, <1>4 DEF Next

\* In every reachable state the invariant holds.
THEOREM ConfigInvariant == Spec => []IInv
BY InitIInv, NextIInv, PTL DEF Spec

\* A builder, and the config built from it, trust only roots that a successful
\* call gave it (client.rs:325-380, server.rs:205-222), for any set of roots.
THEOREM ConfigTrust == Spec => []TrustsOnlyGiven
<1>1. IInv => TrustsOnlyGiven
  BY DEF IInv
<1> QED
  BY <1>1, ConfigInvariant, PTL

\* Every config that is built has a suite for one of its versions, and a
\* server's has a resolver (server.rs:143-147, 293-297).
THEOREM ConfigUsable == Spec => []ConfigComplete
<1>1. IInv => ConfigComplete
  BY DEF IInv
<1> QED
  BY <1>1, ConfigInvariant, PTL

-----------------------------------------------------------------------------
(* A refused call. *)

\* A setter that does not return Ok leaves the builder alone.
LEMMA SetRefused ==
  ASSUME NEW sides, NEW field, NEW value, NEW result, Set(sides, field, value, result),
         ret' # "Ok"
  PROVE  builder' = builder
BY DEF Set

\* Every call on a builder that is refused leaves it alone.
LEMMA BuilderRefused ==
  ASSUME BuilderCall, ret' \notin {"Ok", "NULL"}
  PROVE  UNCHANGED <<store, ver, builder, config>>
<1>1. UNCHANGED <<store, ver, config>>
  BY DEF BuilderCall
<1>2. ASSUME NEW side, BuilderNew(side) PROVE FALSE
  BY <1>2 DEF BuilderNew
<1>3. ASSUME NEW side, NEW suites, NEW versions, BuilderNewCustom(side, suites, versions)
      PROVE  builder' = builder
  BY <1>3 DEF BuilderNewCustom
<1>4. ~BuilderFree
  BY DEF BuilderFree
<1>5. ASSUME \/ \E name, file : load_roots_from_file(name, file)
             \/ \E list, null : set_alpn_protocols(list, null)
             \/ \E v : set_enable_sni(v) \/ set_ignore_client_order(v)
             \/ \E null : \/ set_certificate_verifier(null) \/ use_roots(null)
                          \/ set_certified_keys(null) \/ set_hello_callback(null)
                          \/ set_persistence(null) \/ set_client_verifier(null)
      PROVE  builder' = builder
  BY <1>5, SetRefused, Zenon
  DEF load_roots_from_file, set_alpn_protocols, set_enable_sni, set_ignore_client_order,
      set_certificate_verifier, use_roots, set_certified_keys, set_hello_callback,
      set_persistence, set_client_verifier
<1>6. builder' = builder
  BY <1>2, <1>3, <1>4, <1>5 DEF BuilderCall
<1> QED
  BY <1>1, <1>6

\* A call that returns an error has changed neither the store nor the builder
\* nor a config: "There are no partial successes or partial failures"
\* (README.md:123-124), for any set of roots and any file.
THEOREM ConfigRefusal == Spec => FailureChangesNothing
<1>1. ASSUME Next, ret' \notin {"Ok", "NULL"}
      PROVE  UNCHANGED <<store, ver, builder, config>>
  <2>1. CASE StoreCall
    BY <1>1, <2>1 DEF StoreCall, add_pem, store_renew
  <2>2. ~(Build \/ ConfigFree \/ \E kind \in {"required", "optional"} :
                                     client_cert_verifier_new(kind))
    BY <1>1 DEF Build, ConfigFree, client_cert_verifier_new
  <2> QED
    BY <1>1, <2>1, <2>2, BuilderRefused DEF Next
<1>2. [Next]_vars => [ret' \notin {"Ok", "NULL"} =>
                          UNCHANGED <<store, ver, builder, config>>]_vars
  BY <1>1
<1> QED
  BY <1>2, PTL DEF Spec, FailureChangesNothing
=============================================================================
