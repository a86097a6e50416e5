------------------------------ MODULE Handles ------------------------------
(***************************************************************************)
(* Ownership of the objects that C holds by pointer.  A certified key, a   *)
(* client certificate verifier and a config are Arcs: the pointer that C   *)
(* holds is one strong reference (ArcCastPtr, lib.rs:352-380).  A builder  *)
(* and a connection are Boxes: C owns them alone (BoxCastPtr,              *)
(* lib.rs:328-348).                                                        *)
(*                                                                         *)
(* Threads run calls concurrently.  Each change of a reference count is    *)
(* one step: the loops of set_certified_key(s) take their references one   *)
(* by one, and dropping a config releases what it holds one by one.        *)
(*                                                                         *)
(* Contract on the C caller: a pointer is not used after it is freed, is   *)
(* not freed while a call uses it, and a builder or connection is in one   *)
(* call at a time (README.md:79-88).                                       *)
(***************************************************************************)
EXTENDS Occurrences

CONSTANTS
    Threads,
    Keys,        \* memory for Arc<CertifiedKey>
    Vers,        \* memory for the two kinds of Arc'd client verifier
    Configs,     \* memory for Arc<ClientConfig> and Arc<ServerConfig>
    Builders,    \* memory for Box<...ConfigBuilder>
    Conns,       \* memory for Box<Connection>
    Servers,     \* the builders that are server builders
    NULL,
    MaxKeys      \* bound on the length of a key list

ASSUME HandlesAssumption ==
    /\ MaxKeys \in Nat
    /\ IsFiniteSet(Threads) /\ IsFiniteSet(Builders)
    /\ IsFiniteSet(Configs) /\ IsFiniteSet(Conns)
    /\ Servers \subseteq Builders
    /\ NULL \notin Keys \cup Vers \cup Configs \cup Builders \cup Conns
    /\ Keys \cap Vers = {} /\ Configs \cap (Keys \cup Vers) = {}
    /\ Builders \cap Conns = {}
    /\ (Builders \cup Conns) \cap (Keys \cup Vers \cup Configs) = {}

VARIABLES
    strong,   \* the strong count of each Arc; 0 if the memory is free
    inner,    \* the Arcs whose value has been made and not been dropped
    held,     \* the pointers that C owns
    builder,  \* what a builder holds
    config,   \* what a config holds
    conncfg,  \* the config a connection refers to, NULL if there is none
    call,     \* the call in progress on each thread
    drops     \* the references each thread has yet to drop, next first

vars == <<strong, inner, held, builder, config, conncfg, call, drops>>

Arcs == Keys \cup Vers \cup Configs
KeyLists == UNION {[1 .. n -> Keys] : n \in 0 .. MaxKeys}
KeyArgs == UNION {[1 .. n -> Keys \cup {NULL}] : n \in 0 .. MaxKeys}

(***************************************************************************)
(* What a builder or a config holds: a client verifier, and a resolver     *)
(* with its keys.  (NoneVerifier, NoClientAuth, a WebPkiVerifier and a     *)
(* hello callback are owned by it alone and hold nothing counted here.)    *)
(***************************************************************************)
Fields == [ver : Vers \cup {NULL}, res : {"none", "keys", "hello"}, keys : KeyLists]
NoFields == [ver |-> NULL, res |-> "none", keys |-> <<>>]
Reference(o) == IF o = NULL THEN <<>> ELSE <<o>>
References(f) == Reference(f.ver) \o f.keys

\* A call: the pointers C passed to it, and what it has taken so far.
Idle == [op |-> "idle", ptrs |-> {}, todo |-> <<>>, got |-> <<>>]
Ready(t) == call[t] = Idle /\ drops[t] = <<>>
Using(p) == \E t \in Threads : p \in call[t].ptrs
Free(p) == p \in held /\ ~Using(p)

-----------------------------------------------------------------------------
(***************************************************************************)
(* Reference counts.                                                       *)
(***************************************************************************)

\* Mutant of to_arc: the Arc rebuilt from the raw pointer is handed out
\* itself, without the clone that leaves C's count in place.
to_arc_without_clone(o) == strong

\* lib.rs:366-375: from_raw, clone, forget.
to_arc(o) == [strong EXCEPT ![o] = @ + 1]

\* Arc::into_raw(Arc::new(..)): C gets the only reference.
to_const_ptr(o) == [strong EXCEPT ![o] = 1]

\* Mutant of drop_one: the last reference but one destroys the object.
drop_one_early(t) ==
    LET o == Head(drops[t])
        last == strong[o] <= 2
    IN  /\ strong' = [strong EXCEPT ![o] = @ - 1]
        /\ inner' = IF last THEN inner \ {o} ELSE inner
        /\ config' = IF last /\ o \in Configs THEN [config EXCEPT ![o] = NoFields] ELSE config
        /\ drops' = [drops EXCEPT ![t] =
               (IF last /\ o \in Configs THEN References(config[o]) ELSE <<>>) \o Tail(@)]

\* Arc::drop: the thread that drops the last reference destroys the object,
\* and then drops what it held.
drop_one(t) ==
    LET o == Head(drops[t])
        last == strong[o] = 1
    IN  /\ strong' = [strong EXCEPT ![o] = @ - 1]
        /\ inner' = IF last THEN inner \ {o} ELSE inner
        /\ config' = IF last /\ o \in Configs THEN [config EXCEPT ![o] = NoFields] ELSE config
        /\ drops' = [drops EXCEPT ![t] =
               (IF last /\ o \in Configs THEN References(config[o]) ELSE <<>>) \o Tail(@)]

Drop(t) ==
    /\ drops[t] # <<>>
    /\ drop_one(t)
    /\ UNCHANGED <<held, builder, conncfg, call>>

-----------------------------------------------------------------------------
(***************************************************************************)
(* Creating and freeing.                                                   *)
(***************************************************************************)

\* rustls_certified_key_build, rustls_client_cert_verifier_new, _optional_new,
\* and rustls_certified_key_clone_with_ocsp, whose copy is independent of the key
\* that it reads.
ArcNew(t, o) ==
    /\ Ready(t)
    /\ strong[o] = 0
    /\ strong' = to_const_ptr(o)
    /\ inner' = inner \cup {o}
    /\ held' = held \cup {o}
    /\ UNCHANGED <<builder, config, conncfg, call, drops>>

\* rustls_{client,server}_config_builder_new and _new_custom.
BuilderNew(t, b) ==
    /\ Ready(t)
    /\ b \notin held
    /\ held' = held \cup {b}
    /\ builder' = [builder EXCEPT ![b] = NoFields]
    /\ UNCHANGED <<strong, inner, config, conncfg, call, drops>>

\* rustls_client_config_free and rustls_server_config_free: the pointer is cast
\* to the config's type, so that the Arc made from it drops the config.
ConfigFree(t, g) ==
    /\ Ready(t)
    /\ Free(g)
    /\ held' = held \ {g}
    /\ drops' = [drops EXCEPT ![t] = <<g>>]
    /\ UNCHANGED <<strong, inner, builder, config, conncfg, call>>

\* rustls_certified_key_free, rustls_client_cert_verifier_free and
\* _optional_free make the Arc from the pointer to the empty opaque struct.
\* Its drop counts down and releases the memory, but drops no inner value.
OpaqueFree(t, o) ==
    /\ Ready(t)
    /\ Free(o)
    /\ held' = held \ {o}
    /\ strong' = [strong EXCEPT ![o] = @ - 1]
    /\ UNCHANGED <<inner, builder, config, conncfg, call, drops>>

KeyFree(t, k) == OpaqueFree(t, k)
VerifierFree(t, v) == OpaqueFree(t, v)

\* rustls_{client,server}_config_builder_free.
BuilderFree(t, b) ==
    /\ Ready(t)
    /\ Free(b)
    /\ held' = held \ {b}
    /\ builder' = [builder EXCEPT ![b] = NoFields]
    /\ drops' = [drops EXCEPT ![t] = References(builder[b])]
    /\ UNCHANGED <<strong, inner, config, conncfg, call>>

\* rustls_connection_free.
ConnectionFree(t, c) ==
    /\ Ready(t)
    /\ Free(c)
    /\ held' = held \ {c}
    /\ conncfg' = [conncfg EXCEPT ![c] = NULL]
    /\ drops' = [drops EXCEPT ![t] = <<conncfg[c]>>]
    /\ UNCHANGED <<strong, inner, builder, config, call>>

-----------------------------------------------------------------------------
(***************************************************************************)
(* The builder's setters.                                                  *)
(***************************************************************************)

\* rustls_client_config_builder_set_certified_key and
\* rustls_server_config_builder_set_certified_keys, up to their loops.
SetKeys(t, b, list) ==
    /\ Ready(t)
    /\ Free(b)
    /\ \A i \in DOMAIN list : list[i] = NULL \/ list[i] \in held
    /\ call' = [call EXCEPT ![t] =
           [Idle EXCEPT !.op = "set_keys", !.todo = list,
                        !.ptrs = {b} \cup {list[i] : i \in DOMAIN list}]]
    /\ UNCHANGED <<strong, inner, held, builder, config, conncfg, drops>>

\* One turn of the loop: try_arc_from_ptr! takes a reference, or returns
\* NullParameter, which drops the ones already taken.
TakeKey(t) ==
    /\ call[t].op = "set_keys"
    /\ call[t].todo # <<>>
    /\ LET c == call[t]
           k == Head(c.todo)
       IN  IF k = NULL
           THEN /\ call' = [call EXCEPT ![t] = Idle]
                /\ drops' = [drops EXCEPT ![t] = c.got]
                /\ UNCHANGED strong
           ELSE /\ strong' = to_arc(k)
                /\ call' = [call EXCEPT ![t] =
                       [c EXCEPT !.todo = Tail(c.todo), !.got = Append(c.got, k)]]
                /\ UNCHANGED drops
    /\ UNCHANGED <<inner, held, builder, config, conncfg>>

\* Mutant of old_resolver: the replaced resolver is never dropped.
old_resolver_leaks(b) == <<>>

\* Assigning builder.cert_resolver drops the resolver it replaces.
old_resolver(b) == builder[b].keys

\* The end: the new resolver replaces the old one.  The client's takes over
\* the references; the server's clones them and the originals are dropped.
KeysSet(t, b) ==
    /\ call[t].op = "set_keys"
    /\ call[t].todo = <<>>
    /\ b \in call[t].ptrs
    /\ LET keys == call[t].got
       IN  /\ builder' = [builder EXCEPT ![b] = [@ EXCEPT !.res = "keys", !.keys = keys]]
           /\ IF b \in Servers
              THEN /\ strong' = [o \in Arcs |-> strong[o] + Count(keys, o)]
                   /\ drops' = [drops EXCEPT ![t] = old_resolver(b) \o keys]
              ELSE /\ drops' = [drops EXCEPT ![t] = old_resolver(b)]
                   /\ UNCHANGED strong
    /\ call' = [call EXCEPT ![t] = Idle]
    /\ UNCHANGED <<inner, held, config, conncfg>>

\* rustls_server_config_builder_set_client_verifier and _optional: the new
\* reference replaces the old one, which is dropped.
SetVerifier(t, b, v) ==
    /\ Ready(t)
    /\ b \in Servers /\ Free(b)
    /\ v \in held
    /\ strong' = to_arc(v)
    /\ builder' = [builder EXCEPT ![b] = [@ EXCEPT !.ver = v]]
    /\ drops' = [drops EXCEPT ![t] = Reference(builder[b].ver)]
    /\ UNCHANGED <<inner, held, config, conncfg, call>>

\* rustls_server_config_builder_set_hello_callback.
SetHelloCallback(t, b) ==
    /\ Ready(t)
    /\ b \in Servers /\ Free(b)
    /\ builder' = [builder EXCEPT ![b] = [@ EXCEPT !.res = "hello", !.keys = <<>>]]
    /\ drops' = [drops EXCEPT ![t] = old_resolver(b)]
    /\ UNCHANGED <<strong, inner, held, config, conncfg, call>>

\* rustls_{client,server}_config_builder_build: the builder is consumed and
\* what it held moves into the config.  A server builder without a resolver
\* yields NULL, and is dropped all the same.
Build(t, b, g) ==
    /\ Ready(t)
    /\ Free(b)
    /\ builder' = [builder EXCEPT ![b] = NoFields]
    /\ IF b \in Servers /\ builder[b].res = "none"
       THEN /\ held' = held \ {b}
            /\ drops' = [drops EXCEPT ![t] = References(builder[b])]
            /\ UNCHANGED <<strong, inner, config>>
       ELSE /\ strong[g] = 0
            /\ strong' = to_const_ptr(g)
            /\ inner' = inner \cup {g}
            /\ config' = [config EXCEPT ![g] = builder[b]]
            /\ held' = (held \ {b}) \cup {g}
            /\ UNCHANGED drops
    /\ UNCHANGED <<conncfg, call>>

-----------------------------------------------------------------------------
(***************************************************************************)
(* Connections.                                                            *)
(***************************************************************************)

\* rustls_client_connection_new and rustls_server_connection_new take a
\* reference to the config ...
ConnectionNew(t, g) ==
    /\ Ready(t)
    /\ g \in held
    /\ strong' = to_arc(g)
    /\ call' = [call EXCEPT ![t] = [Idle EXCEPT !.op = "conn_new", !.ptrs = {g},
                                                !.got = <<g>>]]
    /\ UNCHANGED <<inner, held, builder, config, conncfg, drops>>

\* ... which moves into the connection, or is dropped on an error.
ConnectionNewOk(t, c) ==
    /\ call[t].op = "conn_new"
    /\ conncfg[c] = NULL
    /\ conncfg' = [conncfg EXCEPT ![c] = call[t].got[1]]
    /\ held' = held \cup {c}
    /\ call' = [call EXCEPT ![t] = Idle]
    /\ UNCHANGED <<strong, inner, builder, config, drops>>

ConnectionNewFails(t) ==
    /\ call[t].op = "conn_new"
    /\ drops' = [drops EXCEPT ![t] = call[t].got]
    /\ call' = [call EXCEPT ![t] = Idle]
    /\ UNCHANGED <<strong, inner, held, builder, config, conncfg>>

\* process_new_packets resolves a certificate: the resolver of the config
\* hands out a reference to one of its keys ...
Resolve(t, c, i) ==
    /\ Ready(t)
    /\ Free(c)
    /\ i \in DOMAIN config[conncfg[c]].keys
    /\ LET k == config[conncfg[c]].keys[i]
       IN  /\ strong' = [strong EXCEPT ![k] = @ + 1]
           /\ call' = [call EXCEPT ![t] = [Idle EXCEPT !.op = "process", !.ptrs = {c},
                                                       !.got = <<k>>]]
    /\ UNCHANGED <<inner, held, builder, config, conncfg, drops>>

\* ... which rustls drops when it has signed.
Resolved(t) ==
    /\ call[t].op = "process"
    /\ drops' = [drops EXCEPT ![t] = call[t].got]
    /\ call' = [call EXCEPT ![t] = Idle]
    /\ UNCHANGED <<strong, inner, held, builder, config, conncfg>>

-----------------------------------------------------------------------------
Init ==
    /\ strong = [o \in Arcs |-> 0]
    /\ inner = {}
    /\ held = {}
    /\ builder = [b \in Builders |-> NoFields]
    /\ config = [g \in Configs |-> NoFields]
    /\ conncfg = [c \in Conns |-> NULL]
    /\ call = [t \in Threads |-> Idle]
    /\ drops = [t \in Threads |-> <<>>]

\* The steps of a call that has begun.
Continue(t) ==
    \/ Drop(t)
    \/ TakeKey(t)
    \/ \E b \in Builders : KeysSet(t, b)
    \/ \E c \in Conns : ConnectionNewOk(t, c)
    \/ ConnectionNewFails(t)
    \/ Resolved(t)

Begin(t) ==
    \/ \E o \in Keys \cup Vers : ArcNew(t, o)
    \/ \E k \in Keys : KeyFree(t, k)
    \/ \E v \in Vers : VerifierFree(t, v)
    \/ \E g \in Configs : ConfigFree(t, g)
    \/ \E b \in Builders :
           \/ BuilderNew(t, b)
           \/ BuilderFree(t, b)
           \/ \E list \in KeyArgs : SetKeys(t, b, list)
           \/ \E v \in Vers : SetVerifier(t, b, v)
           \/ SetHelloCallback(t, b)
           \/ \E g \in Configs : Build(t, b, g)
    \/ \E g \in Configs : ConnectionNew(t, g)
    \/ \E c \in Conns : ConnectionFree(t, c)
    \/ \E c \in Conns : \E i \in 1 .. MaxKeys : Resolve(t, c, i)

Next == \E t \in Threads : Continue(t) \/ Begin(t)

Spec == Init /\ [][Next]_vars

-----------------------------------------------------------------------------
(***************************************************************************)
(* Properties.                                                             *)
(***************************************************************************)
\* The types of the variables; a Box that C does not hold has no contents.
TypeOK ==
    /\ strong \in [Arcs -> Nat]
    /\ inner \subseteq Arcs
    /\ held \subseteq Arcs \cup Builders \cup Conns
    /\ builder \in [Builders -> Fields]
    /\ config \in [Configs -> Fields]
    /\ conncfg \in [Conns -> Configs \cup {NULL}]
    /\ \A t \in Threads :
           /\ call[t].op \in {"idle", "set_keys", "conn_new", "process"}
           /\ Elems(call[t].got) \cup Elems(drops[t]) \subseteq Arcs
    /\ \A b \in Builders \ held : builder[b] = NoFields
    /\ \A c \in Conns : c \in held <=> conncfg[c] # NULL

\* The references that each builder, config, connection and thread has.
BuilderRefs == [b \in Builders |-> References(builder[b])]
ConfigRefs == [g \in Configs |-> References(config[g])]
ConnRefs == [c \in Conns |-> Reference(conncfg[c])]
CallRefs == [t \in Threads |-> call[t].got \o drops[t]]

\* The strong count of every key, verifier and config is the number of places
\* that refer to it: C's own pointer, builders, configs, connections, and what
\* the calls in progress have taken and not yet dropped.  (to_arc,
\* lib.rs:354-375, and every path that ends in a drop, the early returns of
\* the loops included.)
CountsExact ==
    \A o \in Arcs :
        strong[o] = (IF o \in held THEN 1 ELSE 0)
            + Occurrences(Builders, BuilderRefs, o)
            + Occurrences(Configs, ConfigRefs, o)
            + Occurrences(Conns, ConnRefs, o)
            + Occurrences(Threads, CallRefs, o)

\* What C can still reach: its own pointers and the calls in progress, the
\* configs of its connections, and what the builders and configs hold.
InCalls == UNION {Elems(call[t].got) \cup Elems(drops[t]) : t \in Threads}
ReachableConfigs ==
    ((held \cup InCalls) \cap Configs) \cup {conncfg[c] : c \in held \cap Conns}
OfBuilders == UNION {Elems(References(builder[b])) : b \in held \cap Builders}
OfConfigs == UNION {Elems(References(config[g])) : g \in ReachableConfigs}
Reachable == ((held \cup InCalls) \cap Arcs) \cup ReachableConfigs \cup OfBuilders \cup OfConfigs

\* An object is alive exactly as long as something reaches it: a connection
\* never uses a freed config, key or verifier, whatever C has freed meanwhile
\* ("even after the original caller has called rustls_certified_key_free,
\* other objects may retain a pointer", cipher.rs:282-286), and nothing that
\* has become unreachable stays allocated.
AliveIffReachable == {o \in Arcs : strong[o] > 0} = Reachable

\* A config is read-only for as long as it exists (client.rs:55, server.rs:63).
ConfigFrozen ==
    [][\A g \in Configs : strong[g] > 0 /\ strong'[g] > 0 => config'[g] = config[g]]_vars

\* Violated: a value is dropped when its last reference is, also when that one
\* is C's ("that refcount will go down to 0 and the inner object will be
\* dropped", cipher.rs:561-563; likewise cipher.rs:385-387).
InnerDropped == \A o \in inner : strong[o] > 0
=============================================================================
