---------------------------- MODULE ConfigBuilder ----------------------------
(***************************************************************************)
(* What a config contains after any sequence of calls on its builder, on   *)
(* the client's side and on the server's, together with the root store     *)
(* that feeds them.  One program builds one config at a time; ownership    *)
(* and concurrency are the subject of Handles.                             *)
(*                                                                         *)
(* A certificate is a member of Roots, or unparseable.  A PEM text or file *)
(* either cannot be read, or is a set of roots and perhaps an unparseable  *)
(* one.  A protocol list, a key list and a callback are opaque values.     *)
(***************************************************************************)
EXTENDS Naturals, Sequences, FiniteSets

CONSTANTS
    Roots,       \* root certificates
    NULL

VARIABLES
    store,     \* the roots in the root store
    ver,       \* the client certificate verifier that was made last
    builder,   \* the builder, or NoBuilder
    config,    \* the config that was built last, or NoBuilder
    ret,       \* the result of the last call
    given      \* the roots that successful calls gave to the builder

vars == <<store, ver, builder, config, ret, given>>

Pems == [readable : {TRUE}, roots : SUBSET Roots, bad : BOOLEAN]
            \cup {[readable |-> FALSE, roots |-> {}, bad |-> FALSE]}
NoVerifier == [kind |-> "none", roots |-> {}]
NoBuilder == [side |-> "none"]

\* ClientConfigBuilder: NoneVerifier, no ALPN, SNI on.
NewClient(base) ==
    [side |-> "client", base |-> base, verifier |-> NoVerifier, resolver |-> "none",
     alpn |-> "none", enable_sni |-> TRUE]

\* ServerConfigBuilder: NoClientAuth, no resolver, rustls's own session storage.
NewServer(base) ==
    [side |-> "server", base |-> base, verifier |-> NoVerifier, resolver |-> "none",
     alpn |-> "none", session_storage |-> "none", ignore_client_order |-> "default"]

\* A cipher suite is named for the protocol version it is for; "other" is a
\* suite that rustls does not have.
SuiteLists == {<<>>, <<"tls12">>, <<"tls13", "tls12">>, <<"tls13", "other", NULL>>, <<NULL, "other">>}
VersionLists == {{}, {"tls11"}, {"tls13"}, {"tls11", "tls12"}}
SafeDefaults == [suites |-> {"tls12", "tls13"}, versions |-> {"tls12", "tls13"}]

-----------------------------------------------------------------------------
(***************************************************************************)
(* The root store.                                                         *)
(***************************************************************************)
\* Mutant of add_pem: the roots go straight into the store.
add_pem_directly(pem, strict) ==
    LET fails == ~pem.readable \/ (strict /\ (pem.bad \/ pem.roots = {}))
    IN  /\ store' = IF pem.readable THEN store \cup pem.roots ELSE store
        /\ ret' = IF fails THEN "CertificateParseError" ELSE "Ok"

\* rustls_root_cert_store_add_pem.
add_pem(pem, strict) ==
    LET fails == ~pem.readable \/ (strict /\ (pem.bad \/ pem.roots = {}))
    IN  /\ store' = IF fails THEN store ELSE store \cup pem.roots
        /\ ret' = IF fails THEN "CertificateParseError" ELSE "Ok"

\* rustls_root_cert_store_free, and rustls_root_cert_store_new for the next one.
store_renew ==
    /\ store # {}
    /\ store' = {}
    /\ ret' = "Ok"

StoreCall ==
    /\ \/ \E pem \in Pems, strict \in BOOLEAN : add_pem(pem, strict)
       \/ store_renew
    /\ UNCHANGED <<ver, builder, config, given>>

\* rustls_client_cert_verifier_new and _optional_new: a copy of the store.
client_cert_verifier_new(kind) ==
    /\ ver' = [kind |-> kind, roots |-> store]
    /\ ret' = "Ok"
    /\ UNCHANGED <<store, builder, config, given>>

-----------------------------------------------------------------------------
(***************************************************************************)
(* Creating a builder.                                                     *)
(***************************************************************************)
\* The loop over the suites ends at the first NULL or unknown one; unknown
\* versions are skipped; rustls refuses a base in which no suite is for one of
\* the versions (with_protocol_versions).
checked_base(suites, versions) ==
    LET wrong == {i \in DOMAIN suites : suites[i] \in {NULL, "other"}}
    IN  IF wrong # {}
        THEN IF suites[CHOOSE i \in wrong : \A j \in wrong : i <= j] = NULL
             THEN "NullParameter" ELSE "InvalidParameter"
        ELSE IF \E i \in DOMAIN suites : suites[i] \in versions THEN "Ok"
        ELSE "InvalidParameter"

new_builder(side, base) == IF side = "client" THEN NewClient(base) ELSE NewServer(base)

\* rustls_{client,server}_config_builder_new.
BuilderNew(side) ==
    /\ builder = NoBuilder /\ config = NoBuilder
    /\ builder' = new_builder(side, SafeDefaults)
    /\ ret' = "Ok"
    /\ UNCHANGED given

\* rustls_{client,server}_config_builder_new_custom; a version "tls11" is one
\* that rustls does not have.
BuilderNewCustom(side, suites, versions) ==
    LET base == [suites |-> {suites[i] : i \in DOMAIN suites}, versions |-> versions \ {"tls11"}]
    IN  /\ builder = NoBuilder /\ config = NoBuilder
        /\ ret' = checked_base(suites, versions)
        /\ builder' = IF ret' = "Ok" THEN new_builder(side, base) ELSE builder
        /\ UNCHANGED given

\* rustls_{client,server}_config_builder_free.
BuilderFree ==
    /\ builder # NoBuilder
    /\ builder' = NoBuilder
    /\ given' = {}
    /\ ret' = "Ok"

-----------------------------------------------------------------------------
(***************************************************************************)
(* The setters.                                                            *)
(***************************************************************************)
\* A setter: it returns its result, and sets its field if that is Ok.
Set(sides, field, value, result) ==
    /\ builder.side \in sides
    /\ ret' = result
    /\ builder' = IF result = "Ok" THEN [builder EXCEPT ![field] = value] ELSE builder
    /\ given' = IF result = "Ok" /\ field = "verifier" THEN given \cup value.roots ELSE given

Client == {"client"}
Server == {"server"}

\* ..._dangerous_set_certificate_verifier
set_certificate_verifier(null) ==
    Set(Client, "verifier", [kind |-> "callback", roots |-> {}],
        IF null THEN "InvalidParameter" ELSE "Ok")

\* ..._use_roots: a verifier with a copy of the store.
use_roots(null) ==
    Set(Client, "verifier", [kind |-> "webpki", roots |-> store],
        IF null THEN "NullParameter" ELSE "Ok")

\* Mutant of load_roots_from_file: the certificates that could be parsed are
\* used although there was one that could not.
load_roots_from_file_partial(name, file) ==
    /\ builder.side = "client"
    /\ builder' = IF name = "present" /\ file.readable
                  THEN [builder EXCEPT !.verifier = [kind |-> "webpki", roots |-> file.roots]]
                  ELSE builder
    /\ ret' = IF name = "NULL" THEN "NullParameter"
              ELSE IF name # "present" \/ ~file.readable THEN "Io"
              ELSE IF file.bad THEN "CertificateParseError" ELSE "Ok"
    /\ given' = IF ret' = "Ok" THEN given \cup file.roots ELSE given

\* ..._load_roots_from_file: a verifier with the roots of the file.  The name is
\* NULL, or not that of a file that can be opened, or that of the file.
load_roots_from_file(name, file) ==
    Set(Client, "verifier", [kind |-> "webpki", roots |-> file.roots],
        IF name = "NULL" THEN "NullParameter"
        ELSE IF name # "present" \/ ~file.readable THEN "Io"
        ELSE IF file.bad THEN "CertificateParseError" ELSE "Ok")

\* ..._set_alpn_protocols, on either side; a NULL in the list is an error.
set_alpn_protocols(list, null) ==
    Set({"client", "server"}, "alpn", list,
        IF null THEN "NullParameter" ELSE "Ok")

\* rustls_client_config_builder_set_enable_sni.
set_enable_sni(enable) == Set(Client, "enable_sni", enable, "Ok")

\* rustls_client_config_builder_set_certified_key and
\* rustls_server_config_builder_set_certified_keys.
set_certified_keys(null) ==
    Set({"client", "server"}, "resolver", "keys",
        IF null THEN "NullParameter" ELSE "Ok")

\* rustls_server_config_builder_set_hello_callback.
set_hello_callback(null) ==
    Set(Server, "resolver", "hello", IF null THEN "NullParameter" ELSE "Ok")

\* rustls_server_config_builder_set_persistence: both callbacks are needed.
set_persistence(null) ==
    Set(Server, "session_storage", "broker",
        IF null THEN "NullParameter" ELSE "Ok")

\* rustls_server_config_builder_set_client_verifier and _optional.  They
\* return nothing; a NULL is ignored.
set_client_verifier(null) ==
    /\ null \/ ver # NoVerifier
    /\ Set(Server, "verifier", ver, IF null THEN "ignored" ELSE "Ok")

\* rustls_server_config_builder_set_ignore_client_order.
set_ignore_client_order(ignore) ==
    Set(Server, "ignore_client_order", ignore, "Ok")

\* Mutant of built: a server config without a resolver.
built_anyway(b) == b

\* The config of a builder.  A server without a resolver has none.
built(b) == IF b.side = "server" /\ b.resolver = "none" THEN NoBuilder ELSE b

\* rustls_{client,server}_config_builder_build: the builder is consumed.
Build ==
    /\ builder # NoBuilder
    /\ config' = built(builder)
    /\ builder' = NoBuilder
    /\ ret' = IF config' = NoBuilder THEN "NULL" ELSE "Ok"
    /\ given' = IF config' = NoBuilder THEN {} ELSE given
    /\ UNCHANGED <<store, ver>>

\* rustls_{client,server}_config_free.
ConfigFree ==
    /\ config # NoBuilder
    /\ config' = NoBuilder
    /\ given' = {}
    /\ ret' = "Ok"
    /\ UNCHANGED <<store, ver, builder>>

Init ==
    /\ store = {} /\ ver = NoVerifier
    /\ builder = NoBuilder /\ config = NoBuilder
    /\ ret = "Ok" /\ given = {}

BuilderCall ==
    /\ \/ \E side \in {"client", "server"} :
              \/ BuilderNew(side)
              \/ \E suites \in SuiteLists, versions \in VersionLists :
                     BuilderNewCustom(side, suites, versions)
       \/ BuilderFree
       \/ \E name \in {"NULL", "missing", "present"}, file \in Pems :
              load_roots_from_file(name, file)
       \/ \E list \in {"p1"}, null \in BOOLEAN : set_alpn_protocols(list, null)
       \/ \E enable \in BOOLEAN : set_enable_sni(enable)
       \/ \E ignore \in {"yes", "no"} : set_ignore_client_order(ignore)
       \/ \E null \in BOOLEAN :
              \/ set_certificate_verifier(null)
              \/ use_roots(null)
              \/ set_certified_keys(null)
              \/ set_hello_callback(null)
              \/ set_persistence(null)
              \/ set_client_verifier(null)
    /\ UNCHANGED <<store, ver, config>>

Next ==
    \/ StoreCall
    \/ \E kind \in {"required", "optional"} : client_cert_verifier_new(kind)
    \/ BuilderCall
    \/ Build
    \/ ConfigFree

Spec == Init /\ [][Next]_vars

-----------------------------------------------------------------------------
(***************************************************************************)
(* Properties.                                                             *)
(***************************************************************************)
RootsOf(b) == IF b = NoBuilder THEN {} ELSE b.verifier.roots

\* A call that returns an error has changed nothing, wherever in its loop or
\* its parsing it failed ("There are no partial successes or partial failures",
\* README.md:123-124; cipher.rs:493-495).
FailureChangesNothing ==
    [][ret' \notin {"Ok", "NULL"} => UNCHANGED <<store, ver, builder, config>>]_vars

\* A config trusts a root only if a successful call gave that root to its
\* builder: not the roots of a file that was refused, nor those added to the
\* store after it was copied ("starts out with no trusted roots",
\* client.rs:93-95).
TrustsOnlyGiven ==
    RootsOf(builder) \cup RootsOf(config) \subseteq given

\* A config can be used: it has a cipher suite for one of its versions, and a
\* server's has a certificate resolver (server.rs:143-147, 293-297).
ConfigComplete ==
    config # NoBuilder =>
        /\ config.base.suites \cap config.base.versions # {}
        /\ config.side = "server" => config.resolver # "none"
=============================================================================
