----------------------------- MODULE ClientHello -----------------------------
(***************************************************************************)
(* Which certificate a connection presents.  A server config resolves it   *)
(* from a list of keys (ResolvesServerCertFromChoices) or asks a C         *)
(* callback (ClientHelloResolver), which may use                           *)
(* rustls_client_hello_select_certified_key; a client config resolves it   *)
(* from a list (ResolvesClientCertFromChoices).  The signature schemes     *)
(* reach the callback as numbers and come back from it through a table.    *)
(* After the hello, C may ask for the name that the client sent.           *)
(*                                                                         *)
(* A scheme is a pair <<name, 0>>, or <<"Unknown", n>>.  A server name is  *)
(* its length, 0 for none.  userdata_get succeeds in a callback below      *)
(* process_new_packets (UserdataStack), and a DNS name that rustls has     *)
(* parsed has no NUL byte: the early returns for these are not reached.    *)
(***************************************************************************)
EXTENDS Naturals, Sequences, FiniteSets

CONSTANTS
    Keys,        \* certified keys
    supports,    \* the schemes that a key can sign with
    Hellos,      \* the lists of schemes that peers offer
    Names,       \* the lengths of the names that clients send, 0 for none
    Counts,      \* the sizes of the buffers for the name
    NULL,
    MaxKeys      \* bound on the length of a list of keys

VARIABLES
    resolver,    \* the config's resolver
    at,          \* "start", "callback" (the hello callback runs), or "done"
    hello,       \* the peer's schemes
    chosen,      \* the key that rustls was given; NULL for None
    sni,         \* the name the connection has saved
    sel,         \* the last call of select_certified_key: its keys and result
    out_key,     \* what its output parameter points to
    name         \* the last call of get_sni_hostname and its outputs

vars == <<resolver, at, hello, chosen, sni, sel, out_key, name>>

KeyLists == UNION {[1 .. n -> Keys] : n \in 0 .. MaxKeys}
KeyArgs == UNION {[1 .. n -> Keys \cup {NULL}] : n \in 0 .. MaxKeys}

-----------------------------------------------------------------------------
(***************************************************************************)
(* Signature schemes.                                                      *)
(***************************************************************************)
\* The numbers of the schemes that rustls has a name for.
SchemeNumber ==
    [RSA_PKCS1_SHA1 |-> 513, ECDSA_SHA1_Legacy |-> 515, RSA_PKCS1_SHA256 |-> 1025,
     ECDSA_NISTP256_SHA256 |-> 1027, RSA_PKCS1_SHA384 |-> 1281,
     ECDSA_NISTP384_SHA384 |-> 1283, RSA_PKCS1_SHA512 |-> 1537,
     ECDSA_NISTP521_SHA512 |-> 1539, RSA_PSS_SHA256 |-> 2052, RSA_PSS_SHA384 |-> 2053,
     RSA_PSS_SHA512 |-> 2054, ED25519 |-> 2055, ED448 |-> 2056]

get_u16(s) == IF s[1] = "Unknown" THEN s[2] ELSE SchemeNumber[s[1]]

\* What ClientHelloResolver::resolve shows the callback.
mapped_sigs(schemes) == [i \in DOMAIN schemes |-> get_u16(schemes[i])]

\* Mutant of sigscheme: two neighbours of the table are swapped.
sigscheme_swapped(n) ==
    CASE n = 1027 -> <<"ECDSA_NISTP384_SHA384", 0>>
      [] n = 1283 -> <<"ECDSA_NISTP256_SHA256", 0>>
      [] n = 2052 -> <<"RSA_PSS_SHA256", 0>>
      [] n = 2055 -> <<"ED25519", 0>>
      [] OTHER    -> <<"Unknown", n>>

\* The table of sigschemes.
sigscheme(n) ==
    CASE n =  513 -> <<"RSA_PKCS1_SHA1", 0>>
      [] n =  515 -> <<"ECDSA_SHA1_Legacy", 0>>
      [] n = 1025 -> <<"RSA_PKCS1_SHA256", 0>>
      [] n = 1027 -> <<"ECDSA_NISTP256_SHA256", 0>>
      [] n = 1281 -> <<"RSA_PKCS1_SHA384", 0>>
      [] n = 1283 -> <<"ECDSA_NISTP384_SHA384", 0>>
      [] n = 1537 -> <<"RSA_PKCS1_SHA512", 0>>
      [] n = 1539 -> <<"ECDSA_NISTP521_SHA512", 0>>
      [] n = 2052 -> <<"RSA_PSS_SHA256", 0>>
      [] n = 2053 -> <<"RSA_PSS_SHA384", 0>>
      [] n = 2054 -> <<"RSA_PSS_SHA512", 0>>
      [] n = 2055 -> <<"ED25519", 0>>
      [] n = 2056 -> <<"ED448", 0>>
      [] OTHER    -> <<"Unknown", n>>

sigschemes(input) == [i \in DOMAIN input |-> sigscheme(input[i])]

\* key.choose_scheme(offered).is_some()
choose_scheme(key, offered) == \E i \in DOMAIN offered : offered[i] \in supports[key]

-----------------------------------------------------------------------------
(***************************************************************************)
(* The resolvers.                                                          *)
(***************************************************************************)
\* A loop over keys that ends at the first one for which stop holds: the
\* place it ends at, or 0.
RunsTo(keys, stop(_)) ==
    LET from[i \in 1 .. Len(keys) + 1] ==
            IF i > Len(keys) THEN 0 ELSE IF stop(keys[i]) THEN i ELSE from[i + 1]
    IN  from[1]

\* ResolvesServerCertFromChoices::resolve.
resolve(keys, offered) ==
    LET i == RunsTo(keys, LAMBDA k : choose_scheme(k, offered))
    IN  IF i = 0 THEN NULL ELSE keys[i]

\* ResolvesClientCertFromChoices::resolve and has_certs: a client that has no
\* certificates is not asked for one.
resolve_client(keys, offered) ==
    IF keys = <<>> THEN NULL
    ELSE LET i == RunsTo(keys, LAMBDA k : choose_scheme(k, offered))
         IN  IF i = 0 THEN NULL ELSE keys[i]

\* rustls_client_hello_select_certified_key: the loop ends at a suitable key
\* or at a NULL.
select_certified_key(sigs, keys) ==
    LET schemes == sigschemes(sigs)
        i == RunsTo(keys, LAMBDA k : k = NULL \/ choose_scheme(k, schemes))
    IN  CASE i = 0          -> [keys |-> keys, ret |-> "NotFound", out |-> out_key]
          [] i > 0 /\ keys[i] = NULL ->
                 [keys |-> keys, ret |-> "NullParameter", out |-> out_key]
          [] i > 0 /\ keys[i] # NULL ->
                 [keys |-> keys, ret |-> "Ok", out |-> keys[i]]

-----------------------------------------------------------------------------
(***************************************************************************)
(* Steps.                                                                  *)
(***************************************************************************)
\* A server receives a client hello, or a client a certificate request.
Receive(schemes, n) ==
    /\ at = "start"
    /\ hello' = schemes
    /\ sni' = IF resolver.kind = "client" THEN 0 ELSE n
    /\ CASE resolver.kind = "hello"  -> at' = "callback" /\ UNCHANGED chosen
         [] resolver.kind = "server" -> at' = "done" /\ chosen' = resolve(resolver.keys, schemes)
         [] resolver.kind = "client" ->
                at' = "done" /\ chosen' = resolve_client(resolver.keys, schemes)
    /\ UNCHANGED <<resolver, sel, out_key, name>>

\* The callback calls select_certified_key; a NULL for its list or for its
\* output parameter is refused.
CallSelect(keys, null) ==
    /\ at = "callback"
    /\ IF null
       THEN sel' = [keys |-> <<NULL>>, ret |-> "NullParameter"] /\ UNCHANGED out_key
       ELSE LET r == select_certified_key(mapped_sigs(hello), keys)
            IN  sel' = [keys |-> keys, ret |-> r.ret] /\ out_key' = r.out
    /\ UNCHANGED <<resolver, at, hello, chosen, sni, name>>

\* The callback returns a key, or NULL; rustls gets a copy of the key, or None.
CallbackReturns(key) ==
    /\ at = "callback"
    /\ at' = "done"
    /\ chosen' = key
    /\ UNCHANGED <<resolver, hello, sni, sel, out_key, name>>

\* Mutant of get_sni_hostname: a name that is too long is cut off.
get_sni_hostname_cut(count, null) ==
    IF null \/ resolver.kind = "client"
    THEN [name EXCEPT !.ret = IF null THEN "NullParameter" ELSE "InvalidParameter",
                      !.count = count]
    ELSE [ret |-> "Ok", count |-> count, buf |-> IF sni > count THEN count ELSE sni,
          out_n |-> IF sni > count THEN count ELSE sni]

\* rustls_server_connection_get_sni_hostname: its result, the bytes of the name
\* in the buffer, and *out_n.
get_sni_hostname(count, null) ==
    CASE null -> [name EXCEPT !.ret = "NullParameter", !.count = count]
      [] ~null /\ resolver.kind = "client" ->
             [name EXCEPT !.ret = "InvalidParameter", !.count = count]
      [] ~null /\ resolver.kind # "client" /\ sni = 0 ->
             [name EXCEPT !.ret = "Ok", !.count = count, !.out_n = 0]
      [] ~null /\ resolver.kind # "client" /\ sni > count ->
             [name EXCEPT !.ret = "InsufficientSize", !.count = count, !.out_n = 0]
      [] ~null /\ resolver.kind # "client" /\ sni \in 1 .. count ->
             [ret |-> "Ok", count |-> count, buf |-> sni, out_n |-> sni]

\* C calls it before the hello or after it: the connection is in one call at a
\* time, so not in the callback.
GetSni(count, null) ==
    /\ at # "callback"
    /\ name' = get_sni_hostname(count, null)
    /\ UNCHANGED <<resolver, at, hello, chosen, sni, sel, out_key>>

Uninitialized == 99   \* what C's variables hold before a call has set them

Init ==
    /\ resolver \in [kind : {"server", "client"}, keys : KeyLists]
                        \cup {[kind |-> "hello", keys |-> <<>>]}
    /\ at = "start" /\ hello = <<>> /\ chosen = NULL /\ sni = 0
    /\ sel = [keys |-> <<>>, ret |-> "none"]
    /\ out_key = NULL
    /\ name = [ret |-> "none", count |-> 0, buf |-> 0, out_n |-> Uninitialized]

Next ==
    \/ \E schemes \in Hellos, n \in Names : Receive(schemes, n)
    \/ \E keys \in KeyArgs : CallSelect(keys, FALSE)
    \/ CallSelect(<<>>, TRUE)
    \/ \E key \in Keys \cup {NULL} : CallbackReturns(key)
    \/ \E count \in Counts, null \in BOOLEAN : GetSni(count, null)

Spec == Init /\ [][Next]_vars

-----------------------------------------------------------------------------
(***************************************************************************)
(* Properties.                                                             *)
(***************************************************************************)

Suitable(k) == k \in Keys /\ \E i \in DOMAIN hello : hello[i] \in supports[k]

\* k is the first key of the list that can sign for the peer.
IsFirst(keys, k) ==
    \E i \in DOMAIN keys :
        keys[i] = k /\ Suitable(k) /\ \A j \in 1 .. i - 1 : keys[j] # NULL /\ ~Suitable(keys[j])

\* A configured list presents its first suitable key, and none only if no key
\* is suitable ("will select the first one that is compatible",
\* server.rs:253-254, client.rs:426-428).  select_certified_key finds for the
\* callback what the same list, configured on the server, would present: the
\* schemes survive the way through the numbers (server.rs:519-523, 590-612).
FirstSuitable ==
    /\ at = "done" /\ resolver.kind # "hello" =>
           IF chosen = NULL THEN \A i \in DOMAIN resolver.keys : ~Suitable(resolver.keys[i])
                            ELSE IsFirst(resolver.keys, chosen)
    /\ sel.ret = "Ok" => IsFirst(sel.keys, out_key)
    /\ sel.ret = "NotFound" => \A i \in DOMAIN sel.keys : sel.keys[i] # NULL /\ ~Suitable(sel.keys[i])
    /\ sel.ret = "NullParameter" => \E i \in DOMAIN sel.keys : sel.keys[i] = NULL

\* C is told the whole name that the client sent, or an error, never a part of
\* it and never beyond its buffer; and *out_n = 0 only before the hello or if
\* there was no name (server.rs:356-361).
NameWholeOrNone ==
    [][name' # name /\ name'.ret = "Ok" =>
           /\ name'.out_n = sni
           /\ sni > 0 => name'.buf = sni /\ sni <= name'.count]_vars
=============================================================================
