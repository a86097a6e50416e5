---------------------------- MODULE HandlesSteps ----------------------------
(***************************************************************************)
(* The calls that create and free keys, verifiers and builders, and the    *)
(* setters of a builder, keep the invariant of Handles.                    *)
(***************************************************************************)
EXTENDS HandlesCounts

-----------------------------------------------------------------------------
(* Creating and freeing. *)

\* At first nothing exists and nothing refers to anything.
LEMMA InitIInv == Init => IInv
<1> SUFFICES ASSUME Init PROVE IInv
  OBVIOUS
<1>1. Types
  BY NoFieldsEmpty, IdleCall DEF Init, Types
<1>2. Calls /\ Passed /\ Boxes /\ DeadConfigs
  BY IdleCall, Zenon DEF Init, Calls, CallSound, Passed, Boxes, DeadConfigs
<1>3. CountsExact
  <2>1. RefsTyped
    BY <1>1, TypedRefs
  <2>2. /\ \A b \in Builders : BuilderRefs[b] = <<>>
        /\ \A g \in Configs : ConfigRefs[g] = <<>>
        /\ \A c \in Conns : ConnRefs[c] = <<>>
    BY NoFieldsEmpty DEF Init, BuilderRefs, ConfigRefs, ConnRefs, Reference
  <2>3. \A t \in Threads : CallRefs[t] = <<>>
    BY IdleCall DEF Init, CallRefs
  <2>4. \A o : o \notin Elems(<<>>)
    BY DEF Elems
  <2> SUFFICES ASSUME NEW o \in Arcs
               PROVE  strong[o] = inC(o) + nBuilders(o) + nConfigs(o) + nConns(o) + nCalls(o)
    BY CountTerms
  <2>5. /\ ~(nBuilders(o) > 0) /\ ~(nConfigs(o) > 0)
        /\ ~(nConns(o) > 0) /\ ~(nCalls(o) > 0)
    BY <2>1, <2>2, <2>3, <2>4, OccurrencesPositive, HandlesAssumption
       DEF RefsTyped, nBuilders, nConfigs, nConns, nCalls
  <2>6. /\ nBuilders(o) \in Nat /\ nConfigs(o) \in Nat
        /\ nConns(o) \in Nat /\ nCalls(o) \in Nat
    BY <2>1, TermsTyped
  <2>7. strong[o] = 0 /\ inC(o) = 0
    BY DEF Init, inC
  <2> QED
    BY <2>5, <2>6, <2>7
<1> QED
  BY <1>1, <1>2, <1>3 DEF IInv

\* rustls_certified_key_build and the like: the new object has one reference, C's.
LEMMA ArcNewIInv ==
  ASSUME IInv, NEW t \in Threads, NEW a \in Keys \cup Vers, ArcNew(t, a)
  PROVE  IInv'
<1>0. a \in Arcs /\ a \notin Configs /\ a \notin Builders /\ a \notin Conns
  BY HandlesAssumption DEF Arcs
<1>1. Types'
  BY <1>0 DEF ArcNew, to_const_ptr, IInv, Types
<1>2. Calls' /\ Passed'
  BY <1>0, Zenon DEF ArcNew, IInv, Calls, CallSound, Passed
<1>3. Boxes' /\ DeadConfigs'
  BY <1>0 DEF ArcNew, to_const_ptr, IInv, Types, Boxes, DeadConfigs
<1>4. CountsExact'
  <2> SUFFICES ASSUME NEW o \in Arcs
               PROVE  strong'[o] + inC(o) + Count(call[t].got, o) + Count(drops[t], o)
                      = strong[o] + inC(o)' + Count(call'[t].got, o) + Count(drops'[t], o)
    BY <1>1, CallBalance DEF OnlyThread, CallBalanced, ArcNew
  <2>1. /\ Count(call[t].got, o) = 0 /\ Count(drops[t], o) = 0
        /\ Count(call'[t].got, o) = 0 /\ Count(drops'[t], o) = 0
    BY ReadyEmpty DEF ArcNew
  <2>2. strong[a] = 0 /\ strong[o] \in Nat /\ strong'[o] = IF o = a THEN 1 ELSE strong[o]
    BY <1>0 DEF ArcNew, to_const_ptr, IInv, Types
  <2>3. a \notin held
    BY <1>0, <2>2, Counted
  <2>4. inC(o)' = (IF o = a THEN 1 ELSE inC(o)) /\ inC(a) = 0 /\ inC(o) \in Nat
    BY <2>3 DEF ArcNew, inC
  <2> QED
    BY <2>1, <2>2, <2>4
<1> QED
  BY <1>1, <1>2, <1>3, <1>4 DEF IInv

\* rustls_certified_key_free and the like: C's reference goes.
LEMMA OpaqueFreeIInv ==
  ASSUME IInv, NEW t \in Threads, NEW a \in Keys \cup Vers, OpaqueFree(t, a)
  PROVE  IInv'
<1>0. a \in Arcs /\ a \notin Configs /\ a \notin Builders /\ a \notin Conns
  BY HandlesAssumption DEF Arcs
<1>1. Types'
  <2>1. strong[a] - 1 \in Nat
    BY <1>0, Counted DEF OpaqueFree, Free
  <2> QED
    BY <1>0, <2>1 DEF OpaqueFree, IInv, Types
<1>2. Calls' /\ Passed'
  BY <1>0, Zenon DEF OpaqueFree, IInv, Calls, CallSound, Passed
<1>3. Boxes' /\ DeadConfigs'
  BY <1>0 DEF OpaqueFree, IInv, Types, Boxes, DeadConfigs
<1>4. CountsExact'
  <2> SUFFICES ASSUME NEW o \in Arcs
               PROVE  strong'[o] + inC(o) + Count(call[t].got, o) + Count(drops[t], o)
                      = strong[o] + inC(o)' + Count(call'[t].got, o) + Count(drops'[t], o)
    BY <1>1, CallBalance DEF OnlyThread, CallBalanced, OpaqueFree
  <2>1. /\ Count(call[t].got, o) = 0 /\ Count(drops[t], o) = 0
        /\ Count(call'[t].got, o) = 0 /\ Count(drops'[t], o) = 0
    BY ReadyEmpty DEF OpaqueFree
  <2>2. strong[o] \in Nat /\ strong'[o] = IF o = a THEN strong[o] - 1 ELSE strong[o]
    BY <1>0 DEF OpaqueFree, IInv, Types
  <2>3. inC(o)' = (IF o = a THEN 0 ELSE inC(o)) /\ inC(a) = 1 /\ inC(o) \in Nat
    BY DEF OpaqueFree, Free, inC
  <2> QED
    BY <2>1, <2>2, <2>3
<1> QED
  BY <1>1, <1>2, <1>3, <1>4 DEF IInv

\* rustls_client_config_free: C's reference becomes the one to drop.
LEMMA ConfigFreeIInv ==
  ASSUME IInv, NEW t \in Threads, NEW g \in Configs, ConfigFree(t, g)
  PROVE  IInv'
<1>0. g \in Arcs /\ g \notin Builders /\ g \notin Conns
  BY HandlesAssumption DEF Arcs
<1>1. Types'
  BY <1>0 DEF ConfigFree, IInv, Types
<1>2. Calls' /\ Passed'
  <2>1. CallSound(call'[t], drops'[t])
    BY IdleCall, Zenon DEF ConfigFree, Ready, CallSound
  <2>2. Calls'
    BY <2>1, OtherCalls DEF OnlyThread, ConfigFree, IInv, Types
  <2> QED
    BY <1>0, <2>2 DEF ConfigFree, IInv, Passed
<1>3. Boxes' /\ DeadConfigs'
  BY <1>0 DEF ConfigFree, IInv, Boxes, DeadConfigs
<1>4. CountsExact'
  <2> SUFFICES ASSUME NEW o \in Arcs
               PROVE  strong'[o] + inC(o) + Count(call[t].got, o) + Count(drops[t], o)
                      = strong[o] + inC(o)' + Count(call'[t].got, o) + Count(drops'[t], o)
    BY <1>1, CallBalance DEF OnlyThread, CallBalanced, ConfigFree, IInv, Types
  <2>1. /\ Count(call[t].got, o) = 0 /\ Count(drops[t], o) = 0
        /\ Count(call'[t].got, o) = 0
    BY ReadyEmpty DEF ConfigFree
  <2>2. Count(drops'[t], o) = IF g = o THEN 1 ELSE 0
    BY CountOne DEF ConfigFree, IInv, Types
  <2>3. strong[o] \in Nat /\ strong'[o] = strong[o]
    BY DEF ConfigFree, IInv, Types
  <2>4. inC(o)' = (IF o = g THEN 0 ELSE inC(o)) /\ inC(g) = 1 /\ inC(o) \in Nat
    BY DEF ConfigFree, Free, inC
  <2> QED
    BY <2>1, <2>2, <2>3, <2>4
<1> QED
  BY <1>1, <1>2, <1>3, <1>4 DEF IInv

\* rustls_client_config_builder_new: the new builder refers to nothing.
LEMMA BuilderNewIInv ==
  ASSUME IInv, NEW t \in Threads, NEW b \in Builders, BuilderNew(t, b)
  PROVE  IInv'
<1>0. b \notin Arcs /\ b \notin Conns
  BY HandlesAssumption DEF Arcs
<1>1. Types'
  BY NoFieldsEmpty DEF BuilderNew, IInv, Types
<1>2. Calls' /\ Passed'
  BY Zenon DEF BuilderNew, IInv, Calls, CallSound, Passed
<1>3. Boxes' /\ DeadConfigs'
  BY <1>0 DEF BuilderNew, IInv, Types, Boxes, DeadConfigs
<1>4. CountsExact'
  <2>1. builder' = builder
    BY DEF BuilderNew, IInv, Types, Boxes
  <2> SUFFICES ASSUME NEW o \in Arcs
               PROVE  strong'[o] + inC(o) + Count(call[t].got, o) + Count(drops[t], o)
                      = strong[o] + inC(o)' + Count(call'[t].got, o) + Count(drops'[t], o)
    BY <1>1, <2>1, CallBalance DEF OnlyThread, CallBalanced, BuilderNew
  <2>2. inC(o)' = inC(o)
    BY <1>0 DEF BuilderNew, inC
  <2> QED
    BY <2>2 DEF BuilderNew
<1> QED
  BY <1>1, <1>2, <1>3, <1>4 DEF IInv

\* rustls_client_config_builder_free: what the builder held is to be dropped.
LEMMA BuilderFreeIInv ==
  ASSUME IInv, NEW t \in Threads, NEW b \in Builders, BuilderFree(t, b)
  PROVE  IInv'
<1>0. b \notin Arcs /\ b \notin Conns
  BY HandlesAssumption DEF Arcs
<1>1. Types'
  <2>1. References(builder[b]) \in Seq(Arcs)
    BY FieldReferences DEF IInv, Types
  <2> QED
    BY <2>1, NoFieldsEmpty DEF BuilderFree, IInv, Types
<1>2. Calls' /\ Passed'
  <2>1. CallSound(call'[t], drops'[t])
    BY IdleCall, Zenon DEF BuilderFree, Ready, CallSound
  <2>2. Calls'
    BY <2>1, OtherCalls DEF OnlyThread, BuilderFree, IInv, Types
  <2> QED
    BY <2>2 DEF BuilderFree, Free, Using, IInv, Passed
<1>3. Boxes' /\ DeadConfigs'
  BY <1>0 DEF BuilderFree, IInv, Types, Boxes, DeadConfigs
<1>4. CountsExact'
  <2> SUFFICES ASSUME NEW o \in Arcs
               PROVE  strong'[o] + inC(o) + Count(References(builder[b]), o)
                          + Count(call[t].got, o) + Count(drops[t], o)
                      = strong[o] + inC(o)' + Count(References(builder'[b]), o)
                          + Count(call'[t].got, o) + Count(drops'[t], o)
    BY <1>1, BuilderBalance DEF OnlyThread, OnlyBuilder, BuilderBalanced, BuilderFree, IInv, Types
  <2>1. /\ Count(call[t].got, o) = 0 /\ Count(drops[t], o) = 0
        /\ Count(call'[t].got, o) = 0
    BY ReadyEmpty DEF BuilderFree
  <2>2. /\ drops'[t] = References(builder[b])
        /\ References(builder'[b]) = <<>>
    BY NoFieldsEmpty DEF BuilderFree, IInv, Types
  <2>3. strong'[o] = strong[o] /\ strong[o] \in Nat /\ inC(o)' = inC(o) /\ inC(o) \in Nat
    BY <1>0 DEF BuilderFree, inC, IInv, Types
  <2>4. Count(References(builder[b]), o) \in Nat
    BY FieldReferences, PlacesFinite DEF IInv, Types
  <2> QED
    BY <2>1, <2>2, <2>3, <2>4, CountEmpty
<1> QED
  BY <1>1, <1>2, <1>3, <1>4 DEF IInv

\* rustls_server_config_builder_set_hello_callback: the old resolver is to be dropped.
LEMMA SetHelloCallbackIInv ==
  ASSUME IInv, NEW t \in Threads, NEW b \in Builders, SetHelloCallback(t, b)
  PROVE  IInv'
<1> DEFINE f == [builder[b] EXCEPT !.res = "hello", !.keys = <<>>]
<1>0. /\ builder[b] \in Fields /\ builder[b].keys \in Seq(Arcs)
  BY FieldReferences DEF IInv, Types
<1>1. /\ f \in Fields /\ f.ver = builder[b].ver /\ f.keys = <<>>
  <2>1. <<>> \in KeyLists
    BY NoFieldsEmpty DEF NoFields, Fields
  <2> QED
    BY <1>0, <2>1, Zenon DEF Fields
<1>2. /\ builder' = [builder EXCEPT ![b] = f]
      /\ drops' = [drops EXCEPT ![t] = builder[b].keys]
  BY DEF SetHelloCallback, old_resolver
<1> HIDE DEF f
<1>3. Types'
  BY <1>0, <1>1, <1>2 DEF SetHelloCallback, IInv, Types
<1>4. Calls' /\ Passed'
  <2>1. CallSound(call'[t], drops'[t])
    BY IdleCall, Zenon DEF SetHelloCallback, Ready, CallSound
  <2>2. Calls'
    BY <1>2, <2>1, OtherCalls DEF OnlyThread, SetHelloCallback, IInv, Types
  <2> QED
    BY <2>2 DEF SetHelloCallback, IInv, Passed
<1>5. Boxes' /\ DeadConfigs'
  BY <1>2 DEF SetHelloCallback, Free, IInv, Types, Boxes, DeadConfigs
<1>6. CountsExact'
  <2> SUFFICES ASSUME NEW o \in Arcs
               PROVE  strong'[o] + inC(o) + Count(References(builder[b]), o)
                          + Count(call[t].got, o) + Count(drops[t], o)
                      = strong[o] + inC(o)' + Count(References(builder'[b]), o)
                          + Count(call'[t].got, o) + Count(drops'[t], o)
    BY <1>2, <1>3, BuilderBalance DEF OnlyThread, OnlyBuilder, BuilderBalanced, SetHelloCallback, IInv, Types
  <2>1. /\ Count(call[t].got, o) = 0 /\ Count(drops[t], o) = 0
        /\ Count(call'[t].got, o) = 0
    BY ReadyEmpty DEF SetHelloCallback
  <2>2. drops'[t] = builder[b].keys /\ builder'[b] = f
    BY <1>2 DEF IInv, Types
  <2>3. strong'[o] = strong[o] /\ strong[o] \in Nat /\ inC(o)' = inC(o) /\ inC(o) \in Nat
    BY DEF SetHelloCallback, inC, IInv, Types
  <2>4. /\ Count(References(builder[b]), o)
              = Count(Reference(builder[b].ver), o) + Count(builder[b].keys, o)
        /\ Count(References(f), o) = Count(Reference(builder[b].ver), o) + 0
    BY <1>0, <1>1, FieldReferences, CountEmpty
  <2>5. Count(Reference(builder[b].ver), o) \in Nat /\ Count(builder[b].keys, o) \in Nat
    BY <1>0, FieldReferences, PlacesFinite
  <2> QED
    BY <2>1, <2>2, <2>3, <2>4, <2>5
<1> QED
  BY <1>3, <1>4, <1>5, <1>6 DEF IInv

\* rustls_server_config_builder_set_client_verifier: a new reference to the
\* verifier, and the old one is to be dropped.
LEMMA SetVerifierIInv ==
  ASSUME IInv, NEW t \in Threads, NEW b \in Builders, NEW v \in Vers, SetVerifier(t, b, v)
  PROVE  IInv'
<1> DEFINE f == [builder[b] EXCEPT !.ver = v]
<1>0. /\ builder[b] \in Fields /\ Reference(builder[b].ver) \in Seq(Arcs)
      /\ v \in Arcs /\ v \notin Configs
  BY FieldReferences, HandlesAssumption DEF IInv, Types, Arcs
<1>1. f \in Fields /\ f.ver = v /\ f.keys = builder[b].keys
  BY <1>0 DEF Fields
<1>2. /\ builder' = [builder EXCEPT ![b] = f]
      /\ drops' = [drops EXCEPT ![t] = Reference(builder[b].ver)]
  BY DEF SetVerifier
<1> HIDE DEF f
<1>3. Types'
  <2>1. strong' \in [Arcs -> Nat]
    BY <1>0 DEF SetVerifier, to_arc, IInv, Types
  <2> QED
    BY <1>0, <1>1, <1>2, <2>1, Zenon DEF SetVerifier, IInv, Types
<1>4. Calls' /\ Passed'
  <2>1. CallSound(call'[t], drops'[t])
    BY IdleCall, Zenon DEF SetVerifier, Ready, CallSound
  <2>2. Calls'
    BY <1>2, <2>1, OtherCalls DEF OnlyThread, SetVerifier, IInv, Types
  <2> QED
    BY <2>2 DEF SetVerifier, IInv, Passed
<1>5. Boxes' /\ DeadConfigs'
  BY <1>0, <1>2 DEF SetVerifier, to_arc, Free, IInv, Types, Boxes, DeadConfigs
<1>6. CountsExact'
  <2> SUFFICES ASSUME NEW o \in Arcs
               PROVE  strong'[o] + inC(o) + Count(References(builder[b]), o)
                          + Count(call[t].got, o) + Count(drops[t], o)
                      = strong[o] + inC(o)' + Count(References(builder'[b]), o)
                          + Count(call'[t].got, o) + Count(drops'[t], o)
    BY <1>2, <1>3, BuilderBalance, Zenon DEF OnlyThread, OnlyBuilder, BuilderBalanced, SetVerifier, IInv, Types
  <2>1. /\ Count(call[t].got, o) = 0 /\ Count(drops[t], o) = 0
        /\ Count(call'[t].got, o) = 0
    BY ReadyEmpty DEF SetVerifier
  <2>2. drops'[t] = Reference(builder[b].ver) /\ builder'[b] = f
    BY <1>2 DEF IInv, Types
  <2>3. /\ strong[o] \in Nat /\ strong'[o] = IF o = v THEN strong[o] + 1 ELSE strong[o]
        /\ inC(o)' = inC(o) /\ inC(o) \in Nat
    BY <1>0 DEF SetVerifier, to_arc, inC, IInv, Types
  <2>4. /\ Count(References(builder[b]), o)
              = Count(Reference(builder[b].ver), o) + Count(builder[b].keys, o)
        /\ Count(References(f), o) = Count(Reference(v), o) + Count(builder[b].keys, o)
    BY <1>0, <1>1, FieldReferences
  <2>5. Count(Reference(builder[b].ver), o) \in Nat /\ Count(builder[b].keys, o) \in Nat
    BY <1>0, FieldReferences, PlacesFinite
  <2>6. Count(Reference(v), o) = IF v = o THEN 1 ELSE 0
    BY OneReference, HandlesAssumption, Zenon DEF Arcs
  <2> QED
    BY <2>1, <2>2, <2>3, <2>4, <2>5, <2>6
<1> QED
  BY <1>3, <1>4, <1>5, <1>6 DEF IInv

-----------------------------------------------------------------------------
(* Setting the keys. *)

\* The key lists that C passes are sequences, and not too long.
LEMMA KeyArgsAreSeqs ==
  \A s \in KeyArgs : s \in Seq(Keys \cup {NULL}) /\ Len(s) \in Nat /\ Len(s) <= MaxKeys
<1> TAKE s \in KeyArgs
<1>1. PICK n \in 0 .. MaxKeys : s \in [1 .. n -> Keys \cup {NULL}]
  BY DEF KeyArgs
<1> QED
  BY <1>1, HandlesAssumption

\* set_certified_keys is called: it has taken nothing yet.
LEMMA SetKeysIInv ==
  ASSUME IInv, NEW t \in Threads, NEW b \in Builders, NEW list \in KeyArgs,
         SetKeys(t, b, list)
  PROVE  IInv'
<1> DEFINE P == {b} \cup {list[i] : i \in DOMAIN list}
           c == [Idle EXCEPT !.op = "set_keys", !.todo = list, !.ptrs = P]
<1>0. /\ list \in Seq(Keys \cup {NULL}) /\ Len(list) \in Nat /\ Len(list) <= MaxKeys
      /\ P \subseteq Keys \cup {NULL, b} /\ b \in held /\ b \notin Keys
  BY KeyArgsAreSeqs, HandlesAssumption DEF SetKeys, Free
<1>1. /\ c.op = "set_keys" /\ c.todo = list /\ c.ptrs = P /\ c.got = <<>>
      /\ call' = [call EXCEPT ![t] = c]
  BY DEF Idle, SetKeys
<1>2. c \in CallType
  <2>1. P \in SUBSET (Arcs \cup Builders \cup Conns \cup {NULL})
    BY <1>0 DEF Arcs
  <2>2. <<>> \in Seq(Arcs)
    OBVIOUS
  <2> HIDE DEF P
  <2> QED
    BY <1>0, <2>1, <2>2, IdleCall, Zenon DEF CallType
<1>3. P \cap Builders \subseteq held
  BY <1>0, HandlesAssumption
<1> HIDE DEF c, P
<1>4. Types'
  BY <1>1, <1>2 DEF SetKeys, IInv, Types
<1>5. call'[t] = c /\ drops'[t] = <<>>
  BY <1>1 DEF SetKeys, Ready, IInv, Types
<1>6. Calls'
  <2>1. c.got \in Seq(Keys) /\ Len(c.got) + Len(c.todo) <= MaxKeys
    BY <1>0, <1>1, HandlesAssumption
  <2>2. CallSound(call'[t], drops'[t])
    BY <1>1, <1>5, <2>1, Zenon DEF CallSound
  <2> QED
    BY <1>1, <2>2, OtherCalls, Zenon DEF OnlyThread, SetKeys, IInv, Types
<1>7. Passed'
  BY <1>1, <1>3, <1>5, Zenon DEF SetKeys, IInv, Types, Passed
<1>8. Boxes' /\ DeadConfigs'
  BY DEF SetKeys, IInv, Boxes, DeadConfigs
<1>9. CountsExact'
  <2> SUFFICES ASSUME NEW o \in Arcs
               PROVE  strong'[o] + inC(o) + Count(call[t].got, o) + Count(drops[t], o)
                      = strong[o] + inC(o)' + Count(call'[t].got, o) + Count(drops'[t], o)
    BY <1>1, <1>4, CallBalance, Zenon DEF OnlyThread, CallBalanced, SetKeys, IInv, Types
  <2>1. Count(call[t].got, o) = 0 /\ Count(drops[t], o) = 0
    BY ReadyEmpty DEF SetKeys
  <2>2. Count(call'[t].got, o) = 0 /\ Count(drops'[t], o) = 0
    BY <1>1, <1>5, CountEmpty
  <2>3. strong'[o] = strong[o] /\ inC(o)' = inC(o)
    BY DEF SetKeys, inC
  <2> QED
    BY <2>1, <2>2, <2>3
<1> QED
  BY <1>4, <1>6, <1>7, <1>8, <1>9 DEF IInv

\* One turn of the loop: a reference is taken, or the ones taken so far are
\* to be dropped.
LEMMA TakeKeyIInv ==
  ASSUME IInv, NEW t \in Threads, TakeKey(t)
  PROVE  IInv'
<1> DEFINE c == call[t]
           k == Head(c.todo)
           d == [c EXCEPT !.todo = Tail(c.todo), !.got = Append(c.got, k)]
<1>0. /\ c \in CallType /\ c.op = "set_keys" /\ c.todo # <<>> /\ drops[t] = <<>>
      /\ c.got \in Seq(Keys) /\ Len(c.got) + Len(c.todo) <= MaxKeys
      /\ c.todo \in Seq(Keys \cup {NULL}) /\ c.got \in Seq(Arcs)
  BY Zenon DEF TakeKey, IInv, Types, CallType, Calls, CallSound
<1>1. /\ k \in Keys \cup {NULL} /\ Tail(c.todo) \in Seq(Keys \cup {NULL})
      /\ Len(Tail(c.todo)) = Len(c.todo) - 1 /\ Len(c.todo) \in Nat
  BY <1>0
<1>2. CASE k = NULL
  <2>1. /\ call' = [call EXCEPT ![t] = Idle] /\ drops' = [drops EXCEPT ![t] = c.got]
        /\ UNCHANGED <<strong, inner, held, builder, config, conncfg>>
    BY <1>2 DEF TakeKey
  <2>2. Types'
    BY <1>0, <2>1, IdleCall DEF IInv, Types
  <2>3. call'[t] = Idle /\ drops'[t] = c.got
    BY <2>1 DEF IInv, Types
  <2>4. Calls' /\ Passed'
    <3>1. CallSound(call'[t], drops'[t])
      BY <2>3, IdleCall DEF CallSound
    <3>2. Calls'
      BY <2>1, <3>1, OtherCalls DEF OnlyThread, IInv, Types
    <3> QED
      BY <2>1, <2>3, <3>2, IdleCall DEF IInv, Types, Passed
  <2>5. Boxes' /\ DeadConfigs'
    BY <2>1 DEF IInv, Boxes, DeadConfigs
  <2>6. CountsExact'
    <3> SUFFICES ASSUME NEW o \in Arcs
                 PROVE  strong'[o] + inC(o) + Count(call[t].got, o) + Count(drops[t], o)
                        = strong[o] + inC(o)' + Count(call'[t].got, o) + Count(drops'[t], o)
      BY <2>1, <2>2, CallBalance DEF OnlyThread, CallBalanced, IInv, Types
    <3>1. Count(drops[t], o) = 0 /\ Count(call'[t].got, o) = 0
      BY <1>0, <2>3, IdleCall, CountEmpty
    <3>2. /\ strong'[o] = strong[o] /\ strong[o] \in Nat /\ inC(o)' = inC(o) /\ inC(o) \in Nat
      BY <2>1 DEF inC, IInv, Types
    <3>3. Count(c.got, o) \in Nat
      BY <1>0, PlacesFinite
    <3> QED
      BY <2>3, <3>1, <3>2, <3>3
  <2> QED
    BY <2>2, <2>4, <2>5, <2>6 DEF IInv
<1>3. CASE k # NULL
  <2>0. k \in Keys /\ k \in Arcs /\ k \notin Configs
    BY <1>1, <1>3, HandlesAssumption DEF Arcs
  <2>1. /\ strong' = [strong EXCEPT ![k] = @ + 1] /\ call' = [call EXCEPT ![t] = d]
        /\ UNCHANGED <<inner, held, builder, config, conncfg, drops>>
    BY <1>3 DEF TakeKey, to_arc
  <2>2. /\ d.op = "set_keys" /\ d.ptrs = c.ptrs /\ d.todo = Tail(c.todo)
        /\ d.got = Append(c.got, k)
    BY <1>0 DEF CallType
  <2>3. d \in CallType
    <3>1. Append(c.got, k) \in Seq(Arcs)
      BY <1>0, <2>0
    <3> QED
      BY <1>0, <1>1, <3>1, Zenon DEF CallType
  <2> HIDE DEF d
  <2>4. Types'
    BY <2>0, <2>1, <2>3 DEF IInv, Types
  <2>5. call'[t] = d /\ drops'[t] = <<>>
    BY <1>0, <2>1 DEF IInv, Types
  <2>6. Calls'
    <3>1. d.got \in Seq(Keys) /\ Len(d.got) + Len(d.todo) <= MaxKeys
      <4>1. d.got \in Seq(Keys) /\ Len(d.got) = Len(c.got) + 1 /\ Len(c.got) \in Nat
        BY <1>0, <2>0, <2>2
      <4>2. Len(d.todo) = Len(c.todo) - 1
        BY <1>1, <2>2
      <4>3. \A p, q \in Nat : p + q <= MaxKeys => (p + 1) + (q - 1) <= MaxKeys
        BY HandlesAssumption
      <4> QED
        BY <1>0, <1>1, <4>1, <4>2, <4>3, Zenon
    <3>2. CallSound(call'[t], drops'[t])
      BY <2>2, <2>5, <3>1, Zenon DEF CallSound
    <3> QED
      BY <2>1, <3>2, OtherCalls DEF OnlyThread, IInv, Types
  <2>7. Passed'
    BY <2>1, <2>2, <2>5 DEF IInv, Types, Passed
  <2>8. Boxes' /\ DeadConfigs'
    BY <2>0, <2>1 DEF IInv, Types, Boxes, DeadConfigs
  <2>9. CountsExact'
    <3> SUFFICES ASSUME NEW o \in Arcs
                 PROVE  strong'[o] + inC(o) + Count(call[t].got, o) + Count(drops[t], o)
                        = strong[o] + inC(o)' + Count(call'[t].got, o) + Count(drops'[t], o)
      BY <2>1, <2>4, CallBalance DEF OnlyThread, CallBalanced, IInv, Types
    <3>1. /\ strong[o] \in Nat /\ strong'[o] = IF o = k THEN strong[o] + 1 ELSE strong[o]
          /\ inC(o)' = inC(o) /\ inC(o) \in Nat
      BY <2>0, <2>1 DEF inC, IInv, Types
    <3>2. Count(d.got, o) = Count(c.got, o) + (IF k = o THEN 1 ELSE 0)
      BY <1>0, <2>0, <2>2, CountAppend
    <3>3. Count(c.got, o) \in Nat /\ Count(drops[t], o) = 0 /\ Count(drops'[t], o) = 0
      BY <1>0, <2>5, PlacesFinite, CountEmpty
    <3> QED
      BY <2>5, <3>1, <3>2, <3>3
  <2> QED
    BY <2>4, <2>6, <2>7, <2>8, <2>9 DEF IInv
<1> QED
  BY <1>2, <1>3

\* The end of set_certified_keys: the client's resolver takes over the
\* references, the server's has references of its own.
LEMMA KeysSetIInv ==
  ASSUME IInv, NEW t \in Threads, NEW b \in Builders, KeysSet(t, b)
  PROVE  IInv'
<1> DEFINE keys == call[t].got
           old == builder[b].keys
           f == [builder[b] EXCEPT !.res = "keys", !.keys = keys]
<1>0. /\ keys \in Seq(Keys) /\ keys \in Seq(Arcs) /\ Len(keys) <= MaxKeys
      /\ drops[t] = <<>> /\ b \in held
  <2>1. /\ call[t].op = "set_keys" /\ call[t].todo = <<>> /\ b \in call[t].ptrs
        /\ call[t] \in CallType
    BY DEF KeysSet, IInv, Types
  <2>2. /\ drops[t] = <<>> /\ keys \in Seq(Keys) /\ Len(keys) + Len(call[t].todo) <= MaxKeys
    BY <2>1, Zenon DEF IInv, Calls, CallSound
  <2>3. b \in held
    BY <2>1 DEF IInv, Passed
  <2> QED
    BY <2>1, <2>2, <2>3, HandlesAssumption DEF Arcs
<1>1. /\ builder[b] \in Fields /\ old \in Seq(Arcs)
  BY FieldReferences DEF IInv, Types
<1>2. f \in Fields /\ f.ver = builder[b].ver /\ f.keys = keys
  <2>1. keys \in KeyLists
    BY <1>0, KeyListsAreSeqs
  <2> QED
    BY <1>1, <2>1, Zenon DEF Fields
<1>3. /\ builder' = [builder EXCEPT ![b] = f] /\ call' = [call EXCEPT ![t] = Idle]
      /\ UNCHANGED <<inner, held, config, conncfg>>
  BY DEF KeysSet
<1> DEFINE dd == IF b \in Servers THEN old \o keys ELSE old
           e(o) == IF b \in Servers THEN Count(keys, o) ELSE 0
<1>4. /\ dd \in Seq(Arcs) /\ drops' = [drops EXCEPT ![t] = dd]
  <2>1. old \o keys \in Seq(Arcs)
    BY <1>0, <1>1
  <2>2. dd \in Seq(Arcs)
    BY <1>1, <2>1
  <2>3. b \in Servers => drops' = [drops EXCEPT ![t] = old \o keys]
    BY Zenon DEF KeysSet, old_resolver
  <2>4. b \notin Servers => drops' = [drops EXCEPT ![t] = old]
    BY DEF KeysSet, old_resolver
  <2> QED
    BY <2>2, <2>3, <2>4, Zenon
<1>5. \A o \in Arcs : e(o) \in Nat /\ Count(old, o) \in Nat /\ Count(keys, o) \in Nat
  BY <1>0, <1>1, PlacesFinite
<1>6. \A o \in Arcs : strong[o] \in Nat /\ strong'[o] = strong[o] + e(o)
  BY DEF KeysSet, IInv, Types
<1>7. \A o \in Arcs : Count(dd, o) = Count(old, o) + e(o)
  <2>1. \A o \in Arcs : Count(old \o keys, o) = Count(old, o) + Count(keys, o)
    BY <1>0, <1>1, CountConcat
  <2> QED
    BY <1>5, <2>1
<1>8. strong' \in [Arcs -> Nat]
  <2>1. b \in Servers => strong' = [o \in Arcs |-> strong[o] + Count(keys, o)]
    BY DEF KeysSet
  <2>2. b \notin Servers => strong' = strong
    BY DEF KeysSet
  <2> QED
    BY <1>5, <1>6, <2>1, <2>2 DEF IInv, Types
<1> HIDE DEF f, dd, e
<1>9. Types'
  BY <1>2, <1>3, <1>4, <1>8, IdleCall DEF IInv, Types
<1>10. call'[t] = Idle /\ drops'[t] = dd /\ builder'[b] = f
  BY <1>3, <1>4 DEF IInv, Types
<1>11. Calls' /\ Passed'
  <2>1. CallSound(call'[t], drops'[t])
    BY <1>10, IdleCall DEF CallSound
  <2>2. Calls'
    BY <1>3, <1>4, <2>1, OtherCalls DEF OnlyThread, IInv, Types
  <2> QED
    BY <1>3, <1>10, <2>2, IdleCall DEF IInv, Types, Passed
<1>12. Boxes'
  BY <1>0, <1>3 DEF IInv, Types, Boxes
<1>13. DeadConfigs'
  BY <1>3, <1>5, <1>6 DEF IInv, DeadConfigs, Arcs
<1>14. CountsExact'
  <2> SUFFICES ASSUME NEW o \in Arcs
               PROVE  strong'[o] + inC(o) + Count(References(builder[b]), o)
                          + Count(call[t].got, o) + Count(drops[t], o)
                      = strong[o] + inC(o)' + Count(References(builder'[b]), o)
                          + Count(call'[t].got, o) + Count(drops'[t], o)
    BY <1>3, <1>4, <1>9, BuilderBalance DEF OnlyThread, OnlyBuilder, BuilderBalanced, IInv, Types
  <2>1. Count(drops[t], o) = 0 /\ Count(call'[t].got, o) = 0
    BY <1>0, <1>10, IdleCall, CountEmpty, Zenon
  <2>2. inC(o)' = inC(o) /\ inC(o) \in Nat
    BY <1>3 DEF inC
  <2>3. /\ Count(References(builder[b]), o)
              = Count(Reference(builder[b].ver), o) + Count(old, o)
        /\ Count(References(f), o) = Count(Reference(builder[b].ver), o) + Count(keys, o)
    BY <1>1, <1>2, FieldReferences
  <2>4. Count(Reference(builder[b].ver), o) \in Nat
    BY <1>1, FieldReferences, PlacesFinite
  <2>5. /\ strong[o] \in Nat /\ strong'[o] = strong[o] + e(o) /\ e(o) \in Nat
        /\ Count(old, o) \in Nat /\ Count(keys, o) \in Nat
        /\ Count(drops'[t], o) = Count(old, o) + e(o)
    BY <1>5, <1>6, <1>7, <1>10
  <2> QED
    BY <1>10, <2>1, <2>2, <2>3, <2>4, <2>5
<1> QED
  BY <1>9, <1>11, <1>12, <1>13, <1>14 DEF IInv

=============================================================================
