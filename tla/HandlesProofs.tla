--------------------------- MODULE HandlesProofs ----------------------------
(***************************************************************************)
(* Proofs about Handles, for any finite number of threads, builders,       *)
(* configs and connections, any keys and verifiers, and key lists of any   *)
(* length: reference counts are exact, an object is alive exactly as long  *)
(* as it is reachable, and a config never changes while it is alive.       *)
(***************************************************************************)
EXTENDS HandlesSteps

-----------------------------------------------------------------------------
(* Building a config. *)

\* rustls_client_config_builder_build: what the builder held moves into the
\* config, or is to be dropped.
LEMMA BuildIInv ==
  ASSUME IInv, NEW t \in Threads, NEW b \in Builders, NEW g \in Configs, Build(t, b, g)
  PROVE  IInv'
<1>0. /\ b \notin Arcs /\ b \notin Conns /\ g \in Arcs /\ g \notin Builders /\ g \notin Conns
      /\ builder[b] \in Fields /\ References(builder[b]) \in Seq(Arcs)
      /\ b \in held /\ \A x \in Threads : b \notin call[x].ptrs
      /\ call[t] = Idle /\ drops[t] = <<>>
  BY FieldReferences, HandlesAssumption DEF Arcs, IInv, Types, Build, Ready, Free, Using
<1>1. /\ builder' = [builder EXCEPT ![b] = NoFields] /\ UNCHANGED <<conncfg, call>>
      /\ builder'[b] = NoFields
  BY DEF Build, IInv, Types
<1>2. CASE b \in Servers /\ builder[b].res = "none"
  <2>1. /\ held' = held \ {b} /\ drops' = [drops EXCEPT ![t] = References(builder[b])]
        /\ UNCHANGED <<strong, inner, config>> /\ drops'[t] = References(builder[b])
    BY <1>2 DEF Build, IInv, Types
  <2>2. Types'
    BY <1>0, <1>1, <2>1, NoFieldsEmpty DEF IInv, Types
  <2>3. Calls' /\ Passed'
    <3>1. CallSound(call'[t], drops'[t])
      BY <1>0, <1>1, IdleCall, Zenon DEF CallSound
    <3>2. Calls'
      BY <1>1, <2>1, <3>1, OtherCalls DEF OnlyThread, IInv, Types
    <3> QED
      BY <1>0, <1>1, <2>1, <3>2 DEF IInv, Passed
  <2>4. Boxes' /\ DeadConfigs'
    BY <1>0, <1>1, <2>1 DEF IInv, Types, Boxes, DeadConfigs
  <2>5. CountsExact'
    <3> SUFFICES ASSUME NEW o \in Arcs
                 PROVE  strong'[o] + inC(o) + Count(References(builder[b]), o)
                            + Count(call[t].got, o) + Count(drops[t], o)
                        = strong[o] + inC(o)' + Count(References(builder'[b]), o)
                            + Count(call'[t].got, o) + Count(drops'[t], o)
      BY <1>1, <2>1, <2>2, BuilderBalance DEF OnlyThread, OnlyBuilder, BuilderBalanced, IInv, Types
    <3>1. /\ Count(call[t].got, o) = 0 /\ Count(drops[t], o) = 0
          /\ Count(call'[t].got, o) = 0 /\ Count(References(builder'[b]), o) = 0
      BY <1>0, <1>1, IdleCall, NoFieldsEmpty, CountEmpty
    <3>2. strong'[o] = strong[o] /\ strong[o] \in Nat /\ inC(o)' = inC(o) /\ inC(o) \in Nat
      BY <1>0, <2>1 DEF inC, IInv, Types
    <3>3. Count(References(builder[b]), o) \in Nat
      BY <1>0, PlacesFinite
    <3> QED
      BY <2>1, <3>1, <3>2, <3>3
  <2> QED
    BY <2>2, <2>3, <2>4, <2>5 DEF IInv
<1>3. CASE ~(b \in Servers /\ builder[b].res = "none")
  <2>1. /\ strong[g] = 0 /\ strong' = [strong EXCEPT ![g] = 1] /\ inner' = inner \cup {g}
        /\ config' = [config EXCEPT ![g] = builder[b]]
        /\ held' = (held \ {b}) \cup {g} /\ UNCHANGED drops
    BY <1>3 DEF Build, to_const_ptr
  <2>2. Types'
    BY <1>0, <1>1, <2>1, NoFieldsEmpty DEF IInv, Types
  <2>3. Calls' /\ Passed'
    BY <1>0, <1>1, <2>1, Zenon DEF IInv, Calls, CallSound, Passed
  <2>4. Boxes' /\ DeadConfigs'
    BY <1>0, <1>1, <2>1 DEF IInv, Types, Boxes, DeadConfigs
  <2>5. CountsExact'
    <3> SUFFICES ASSUME NEW o \in Arcs
                 PROVE  strong'[o] + inC(o) + nBuilders(o) + nConfigs(o) + nConns(o)
                            + Count(call[t].got, o) + Count(drops[t], o)
                        = strong[o] + inC(o)' + nBuilders(o)' + nConfigs(o)' + nConns(o)'
                            + Count(call'[t].got, o) + Count(drops'[t], o)
      BY <1>1, <2>1, <2>2, Balance DEF OnlyThread, Balanced
    <3>1. config[g] = NoFields /\ config'[g] = builder[b] /\ g \notin held
      <4>1. g \notin held
        BY <1>0, <2>1, Counted
      <4> QED
        BY <2>1, <4>1 DEF IInv, Types, DeadConfigs
    <3>2. nBuilders(o)' + Count(References(builder[b]), o) = nBuilders(o) + 0
      BY <1>1, <2>2, BuilderMoves, NoFieldsEmpty, CountEmpty DEF OnlyBuilder, IInv, Types
    <3>3. nConfigs(o)' + 0 = nConfigs(o) + Count(References(builder[b]), o)
      <4>1. nConfigs(o)' + Count(References(config[g]), o)
               = nConfigs(o) + Count(References(config'[g]), o)
        BY <2>1, <2>2, ConfigMoves DEF IInv, Types
      <4> QED
        BY <3>1, <4>1, NoFieldsEmpty, CountEmpty
    <3>4. nConns(o)' = nConns(o)
      BY <1>1, SameTerms
    <3>5. /\ nBuilders(o) \in Nat /\ nConfigs(o) \in Nat /\ nConns(o) \in Nat
          /\ nBuilders(o)' \in Nat /\ nConfigs(o)' \in Nat
      BY <2>2, TypedRefs, TermsTyped, TypedRefsNext, TermsTypedNext DEF IInv
    <3>6. Count(References(builder[b]), o) \in Nat
      BY <1>0, PlacesFinite
    <3>7. /\ strong[o] \in Nat /\ strong'[o] = IF o = g THEN strong[o] + 1 ELSE strong[o]
          /\ inC(o) \in Nat /\ inC(o)' = IF o = g THEN inC(o) + 1 ELSE inC(o)
      BY <1>0, <2>1, <3>1 DEF inC, IInv, Types
    <3>8. call'[t] = call[t] /\ drops'[t] = drops[t] /\ Count(call[t].got, o) = 0
          /\ Count(drops[t], o) = 0
      BY <1>0, <1>1, <2>1, IdleCall, CountEmpty
    <3> QED
      BY <3>2, <3>3, <3>4, <3>5, <3>6, <3>7, <3>8
  <2> QED
    BY <2>2, <2>3, <2>4, <2>5 DEF IInv
<1> QED
  BY <1>2, <1>3

-----------------------------------------------------------------------------
(* Connections. *)

\* rustls_client_connection_new takes a reference to the config.
LEMMA ConnectionNewIInv ==
  ASSUME IInv, NEW t \in Threads, NEW g \in Configs, ConnectionNew(t, g)
  PROVE  IInv'
<1> DEFINE c == [Idle EXCEPT !.op = "conn_new", !.ptrs = {g}, !.got = <<g>>]
<1>0. g \in Arcs /\ g \notin Builders
  BY HandlesAssumption DEF Arcs
<1>1. /\ c.op = "conn_new" /\ c.ptrs = {g} /\ c.got = <<g>> /\ c \in CallType
      /\ call' = [call EXCEPT ![t] = c]
  <2>1. call' = [call EXCEPT ![t] = c]
    BY DEF ConnectionNew
  <2>2. <<g>> \in Seq(Arcs)
    BY <1>0
  <2> QED
    BY <1>0, <2>1, <2>2, IdleCall, Zenon DEF CallType
<1> HIDE DEF c
<1>2. Types'
  BY <1>0, <1>1 DEF ConnectionNew, to_arc, IInv, Types
<1>3. call'[t] = c /\ drops'[t] = <<>>
  BY <1>1 DEF ConnectionNew, Ready, IInv, Types
<1>4. Calls' /\ Passed'
  <2>0. Len(c.got) = 1 /\ c.got[1] = g
    BY <1>1
  <2>1. CallSound(call'[t], drops'[t])
    BY <1>1, <1>3, <2>0, Zenon DEF CallSound
  <2>2. Calls'
    BY <1>1, <2>1, OtherCalls DEF OnlyThread, ConnectionNew, IInv, Types
  <2> QED
    BY <1>0, <1>1, <1>3, <2>2 DEF ConnectionNew, IInv, Types, Passed
<1>5. Boxes' /\ DeadConfigs'
  BY <1>0 DEF ConnectionNew, to_arc, IInv, Types, Boxes, DeadConfigs
<1>6. CountsExact'
  <2> SUFFICES ASSUME NEW o \in Arcs
               PROVE  strong'[o] + inC(o) + Count(call[t].got, o) + Count(drops[t], o)
                      = strong[o] + inC(o)' + Count(call'[t].got, o) + Count(drops'[t], o)
    BY <1>1, <1>2, CallBalance, Zenon DEF OnlyThread, CallBalanced, ConnectionNew, IInv, Types
  <2>1. Count(call[t].got, o) = 0 /\ Count(drops[t], o) = 0
    BY ReadyEmpty DEF ConnectionNew
  <2>2. Count(call'[t].got, o) = (IF g = o THEN 1 ELSE 0) /\ Count(drops'[t], o) = 0
    <3>1. call'[t].got = <<g>> /\ drops'[t] = <<>>
      BY <1>1, <1>3
    <3> QED
      BY <3>1, CountOne, CountEmpty
  <2>3. /\ strong[o] \in Nat /\ strong'[o] = IF o = g THEN strong[o] + 1 ELSE strong[o]
        /\ inC(o)' = inC(o) /\ inC(o) \in Nat
    BY <1>0 DEF ConnectionNew, to_arc, inC, IInv, Types
  <2> QED
    BY <2>1, <2>2, <2>3
<1> QED
  BY <1>2, <1>4, <1>5, <1>6 DEF IInv

\* The new connection has the reference.
LEMMA ConnectionNewOkIInv ==
  ASSUME IInv, NEW t \in Threads, NEW c \in Conns, ConnectionNewOk(t, c)
  PROVE  IInv'
<1> DEFINE g == call[t].got[1]
<1>0. c \notin Arcs /\ c \notin Builders /\ NULL \notin Arcs
  BY HandlesAssumption DEF Arcs
<1>1. /\ g \in Configs /\ g # NULL /\ call[t].got = <<g>> /\ drops[t] = <<>>
  <2>1. /\ call[t].got \in Seq(Arcs) /\ call[t].op = "conn_new"
    BY DEF ConnectionNewOk, IInv, Types, CallType
  <2>2. /\ drops[t] = <<>> /\ Len(call[t].got) = 1 /\ g \in Configs
    BY <2>1, Zenon DEF IInv, Calls, CallSound
  <2> QED
    BY <2>1, <2>2, HandlesAssumption
<1>2. /\ conncfg[c] = NULL /\ conncfg' = [conncfg EXCEPT ![c] = g] /\ held' = held \cup {c}
      /\ call' = [call EXCEPT ![t] = Idle]
      /\ UNCHANGED <<strong, inner, builder, config, drops>>
  BY DEF ConnectionNewOk
<1> HIDE DEF g
<1>3. Types'
  BY <1>1, <1>2, IdleCall DEF IInv, Types
<1>4. call'[t] = Idle /\ drops'[t] = <<>> /\ conncfg'[c] = g
  BY <1>1, <1>2 DEF IInv, Types
<1>5. Calls' /\ Passed'
  <2>1. CallSound(call'[t], drops'[t])
    BY <1>4, IdleCall DEF CallSound
  <2>2. Calls'
    BY <1>2, <2>1, OtherCalls DEF OnlyThread, IInv, Types
  <2> QED
    BY <1>2, <1>4, <2>2, IdleCall DEF IInv, Types, Passed
<1>6. Boxes' /\ DeadConfigs'
  BY <1>0, <1>1, <1>2 DEF IInv, Types, Boxes, DeadConfigs
<1>7. CountsExact'
  <2> SUFFICES ASSUME NEW o \in Arcs
               PROVE  strong'[o] + inC(o) + nBuilders(o) + nConfigs(o) + nConns(o)
                          + Count(call[t].got, o) + Count(drops[t], o)
                      = strong[o] + inC(o)' + nBuilders(o)' + nConfigs(o)' + nConns(o)'
                          + Count(call'[t].got, o) + Count(drops'[t], o)
    BY <1>2, <1>3, Balance DEF OnlyThread, Balanced, IInv, Types
  <2>1. nConns(o)' + 0 = nConns(o) + (IF g = o THEN 1 ELSE 0)
    <3>1. nConns(o)' + (IF conncfg[c] = o THEN 1 ELSE 0)
             = nConns(o) + (IF conncfg'[c] = o THEN 1 ELSE 0)
      BY <1>2, <1>3, ConnMoves DEF IInv, Types
    <3> QED
      BY <1>0, <1>2, <1>4, <3>1
  <2>2. nBuilders(o)' = nBuilders(o) /\ nConfigs(o)' = nConfigs(o)
    BY <1>2, SameTerms
  <2>3. /\ nBuilders(o) \in Nat /\ nConfigs(o) \in Nat /\ nConns(o) \in Nat
        /\ nConns(o)' \in Nat
    BY <1>3, TypedRefs, TermsTyped, TypedRefsNext, TermsTypedNext DEF IInv
  <2>4. /\ Count(call[t].got, o) = (IF g = o THEN 1 ELSE 0) /\ Count(drops[t], o) = 0
        /\ Count(call'[t].got, o) = 0 /\ Count(drops'[t], o) = 0
    BY <1>1, <1>4, IdleCall, CountOne, CountEmpty
  <2>5. strong'[o] = strong[o] /\ strong[o] \in Nat /\ inC(o)' = inC(o) /\ inC(o) \in Nat
    BY <1>0, <1>2 DEF inC, IInv, Types
  <2> QED
    BY <2>1, <2>2, <2>3, <2>4, <2>5
<1> QED
  BY <1>3, <1>5, <1>6, <1>7 DEF IInv

\* A call ends, and what it had taken is to be dropped: a connection that
\* could not be made, or a certificate that has been used.
LEMMA CallEndsIInv ==
  ASSUME IInv, NEW t \in Threads, ConnectionNewFails(t) \/ Resolved(t)
  PROVE  IInv'
<1>0. /\ call[t].op # "idle" /\ drops' = [drops EXCEPT ![t] = call[t].got]
      /\ call' = [call EXCEPT ![t] = Idle]
      /\ UNCHANGED <<strong, inner, held, builder, config, conncfg>>
  BY DEF ConnectionNewFails, Resolved
<1>1. drops[t] = <<>> /\ call[t].got \in Seq(Arcs)
  BY <1>0, Zenon DEF IInv, Types, CallType, Calls, CallSound
<1>2. Types'
  BY <1>0, <1>1, IdleCall DEF IInv, Types
<1>3. call'[t] = Idle /\ drops'[t] = call[t].got
  BY <1>0 DEF IInv, Types
<1>4. Calls' /\ Passed'
  <2>1. CallSound(call'[t], drops'[t])
    BY <1>3, IdleCall DEF CallSound
  <2>2. Calls'
    BY <1>0, <2>1, OtherCalls DEF OnlyThread, IInv, Types
  <2> QED
    BY <1>0, <1>3, <2>2, IdleCall DEF IInv, Types, Passed
<1>5. Boxes' /\ DeadConfigs'
  BY <1>0 DEF IInv, Boxes, DeadConfigs
<1>6. CountsExact'
  <2> SUFFICES ASSUME NEW o \in Arcs
               PROVE  strong'[o] + inC(o) + Count(call[t].got, o) + Count(drops[t], o)
                      = strong[o] + inC(o)' + Count(call'[t].got, o) + Count(drops'[t], o)
    BY <1>0, <1>2, CallBalance DEF OnlyThread, CallBalanced, IInv, Types
  <2>1. Count(drops[t], o) = 0 /\ Count(call'[t].got, o) = 0
    BY <1>1, <1>3, IdleCall, CountEmpty
  <2>2. strong'[o] = strong[o] /\ strong[o] \in Nat /\ inC(o)' = inC(o) /\ inC(o) \in Nat
    BY <1>0 DEF inC, IInv, Types
  <2>3. Count(call[t].got, o) \in Nat
    BY <1>1, PlacesFinite
  <2> QED
    BY <1>3, <2>1, <2>2, <2>3
<1> QED
  BY <1>2, <1>4, <1>5, <1>6 DEF IInv

\* The resolver hands out a reference to one of the keys of the config.
LEMMA ResolveIInv ==
  ASSUME IInv, NEW t \in Threads, NEW c \in Conns, NEW i, Resolve(t, c, i)
  PROVE  IInv'
<1> DEFINE k == config[conncfg[c]].keys[i]
           d == [Idle EXCEPT !.op = "process", !.ptrs = {c}, !.got = <<k>>]
<1>0. k \in Keys /\ k \in Arcs /\ k \notin Configs /\ c \notin Builders
  <2>1. conncfg[c] \in Configs
    BY DEF Resolve, Free, IInv, Types, Boxes
  <2>2. config[conncfg[c]].keys \in Seq(Keys)
    BY <2>1, FieldReferences DEF IInv, Types
  <2>3. i \in DOMAIN config[conncfg[c]].keys
    BY DEF Resolve
  <2>4. k \in Keys
    BY <2>2, <2>3
  <2> QED
    BY <2>4, HandlesAssumption DEF Arcs
<1>1. /\ call' = [call EXCEPT ![t] = d] /\ strong' = [strong EXCEPT ![k] = @ + 1]
      /\ UNCHANGED <<inner, held, builder, config, conncfg, drops>>
  BY DEF Resolve
<1>2. drops[t] = <<>> /\ call[t] = Idle
  BY DEF Resolve, Ready
<1> HIDE DEF k
<1>3. /\ d.op = "process" /\ d.ptrs = {c} /\ d.got = <<k>> /\ d \in CallType
  <2>1. <<k>> \in Seq(Arcs)
    BY <1>0
  <2> QED
    BY <1>0, <2>1, IdleCall, Zenon DEF CallType
<1> HIDE DEF d
<1>4. Types'
  <2>1. strong' \in [Arcs -> Nat]
    BY <1>0, <1>1 DEF IInv, Types
  <2> QED
    BY <1>1, <1>3, <2>1, Zenon DEF IInv, Types
<1>5. call'[t] = d /\ drops'[t] = <<>>
  BY <1>1, <1>2 DEF IInv, Types
<1>6. Calls' /\ Passed'
  <2>1. CallSound(call'[t], drops'[t])
    BY <1>3, <1>5, Zenon DEF CallSound
  <2>2. Calls'
    BY <1>1, <2>1, OtherCalls DEF OnlyThread, IInv, Types
  <2> QED
    BY <1>0, <1>1, <1>3, <1>5, <2>2 DEF IInv, Types, Passed
<1>7. Boxes' /\ DeadConfigs'
  BY <1>0, <1>1 DEF IInv, Types, Boxes, DeadConfigs
<1>8. CountsExact'
  <2> SUFFICES ASSUME NEW o \in Arcs
               PROVE  strong'[o] + inC(o) + Count(call[t].got, o) + Count(drops[t], o)
                      = strong[o] + inC(o)' + Count(call'[t].got, o) + Count(drops'[t], o)
    BY <1>1, <1>4, CallBalance, Zenon DEF OnlyThread, CallBalanced, IInv, Types
  <2>1. Count(call[t].got, o) = 0 /\ Count(drops[t], o) = 0
    BY <1>2, IdleCall, CountEmpty
  <2>2. Count(call'[t].got, o) = (IF k = o THEN 1 ELSE 0) /\ Count(drops'[t], o) = 0
    BY <1>3, <1>5, CountOne, CountEmpty, Zenon
  <2>3. /\ strong[o] \in Nat /\ strong'[o] = IF o = k THEN strong[o] + 1 ELSE strong[o]
        /\ inC(o)' = inC(o) /\ inC(o) \in Nat
    BY <1>0, <1>1 DEF inC, IInv, Types
  <2> QED
    BY <2>1, <2>2, <2>3
<1> QED
  BY <1>4, <1>6, <1>7, <1>8 DEF IInv

\* rustls_connection_free: the connection's reference is to be dropped.
LEMMA ConnectionFreeIInv ==
  ASSUME IInv, NEW t \in Threads, NEW c \in Conns, ConnectionFree(t, c)
  PROVE  IInv'
<1> DEFINE g == conncfg[c]
<1>0. /\ c \notin Arcs /\ c \notin Builders /\ NULL \notin Arcs
      /\ g \in Configs /\ g \in Arcs /\ call[t] = Idle /\ drops[t] = <<>>
  BY HandlesAssumption DEF Arcs, ConnectionFree, Free, Ready, IInv, Types, Boxes
<1>1. /\ held' = held \ {c} /\ conncfg' = [conncfg EXCEPT ![c] = NULL]
      /\ drops' = [drops EXCEPT ![t] = <<g>>]
      /\ UNCHANGED <<strong, inner, builder, config, call>>
  BY DEF ConnectionFree
<1>2. Types'
  BY <1>0, <1>1 DEF IInv, Types
<1>3. drops'[t] = <<g>> /\ conncfg'[c] = NULL /\ call'[t] = Idle
  BY <1>0, <1>1 DEF IInv, Types
<1>4. Calls' /\ Passed'
  <2>1. CallSound(call'[t], drops'[t])
    BY <1>3, IdleCall DEF CallSound
  <2>2. Calls'
    BY <1>1, <2>1, OtherCalls DEF OnlyThread, IInv, Types
  <2> QED
    BY <1>0, <1>1, <2>2 DEF IInv, Passed
<1>5. Boxes' /\ DeadConfigs'
  BY <1>0, <1>1 DEF IInv, Types, Boxes, DeadConfigs
<1>6. CountsExact'
  <2> SUFFICES ASSUME NEW o \in Arcs
               PROVE  strong'[o] + inC(o) + nBuilders(o) + nConfigs(o) + nConns(o)
                          + Count(call[t].got, o) + Count(drops[t], o)
                      = strong[o] + inC(o)' + nBuilders(o)' + nConfigs(o)' + nConns(o)'
                          + Count(call'[t].got, o) + Count(drops'[t], o)
    BY <1>1, <1>2, Balance, Zenon DEF OnlyThread, Balanced, IInv, Types
  <2>1. nConns(o)' + (IF g = o THEN 1 ELSE 0) = nConns(o) + 0
    <3>1. nConns(o)' + (IF conncfg[c] = o THEN 1 ELSE 0)
             = nConns(o) + (IF conncfg'[c] = o THEN 1 ELSE 0)
      BY <1>1, <1>2, ConnMoves DEF IInv, Types
    <3> QED
      BY <1>0, <1>3, <3>1, Zenon
  <2>2. nBuilders(o)' = nBuilders(o) /\ nConfigs(o)' = nConfigs(o)
    BY <1>1, SameTerms
  <2>3. /\ nBuilders(o) \in Nat /\ nConfigs(o) \in Nat /\ nConns(o) \in Nat
        /\ nConns(o)' \in Nat
    BY <1>2, TypedRefs, TermsTyped, TypedRefsNext, TermsTypedNext DEF IInv
  <2>4. /\ Count(call[t].got, o) = 0 /\ Count(drops[t], o) = 0
        /\ Count(call'[t].got, o) = 0 /\ Count(drops'[t], o) = IF g = o THEN 1 ELSE 0
    BY <1>0, <1>3, IdleCall, CountOne, CountEmpty
  <2>5. strong'[o] = strong[o] /\ strong[o] \in Nat /\ inC(o)' = inC(o) /\ inC(o) \in Nat
    BY <1>0, <1>1 DEF inC, IInv, Types
  <2> QED
    BY <2>1, <2>2, <2>3, <2>4, <2>5
<1> QED
  BY <1>2, <1>4, <1>5, <1>6 DEF IInv

-----------------------------------------------------------------------------
(* Dropping. *)

\* Arc::drop: one reference goes; with the last one to a config, what the
\* config held is to be dropped.
LEMMA DropIInv ==
  ASSUME IInv, NEW t \in Threads, Drop(t)
  PROVE  IInv'
<1> DEFINE a == Head(drops[t])
           rest == Tail(drops[t])
<1>0. /\ a \in Arcs /\ rest \in Seq(Arcs) /\ strong[a] - 1 \in Nat
      /\ drops[t] \in Seq(Arcs) /\ drops[t] # <<>>
      /\ call[t] \in CallType /\ call[t].op = "idle"
  <2>1. drops[t] \in Seq(Arcs) /\ drops[t] # <<>> /\ call[t] \in CallType
    BY DEF Drop, IInv, Types
  <2>2. a \in Arcs /\ rest \in Seq(Arcs)
    BY <2>1
  <2>3. strong[a] - 1 \in Nat
    BY <2>1, <2>2, Counted
  <2>4. call[t].op = "idle"
    BY <2>1, Zenon DEF IInv, Calls, CallSound
  <2> QED
    BY <2>1, <2>2, <2>3, <2>4
<1>1. /\ strong' = [strong EXCEPT ![a] = @ - 1] /\ inner' \subseteq inner
      /\ UNCHANGED <<held, builder, conncfg, call>>
  BY DEF Drop, drop_one
<1>2. ASSUME Types', NEW o \in Arcs
      PROVE  /\ strong[o] \in Nat /\ strong'[o] = IF o = a THEN strong[o] - 1 ELSE strong[o]
             /\ Count(drops[t], o) = Count(rest, o) + (IF a = o THEN 1 ELSE 0)
             /\ Count(rest, o) \in Nat /\ inC(o)' = inC(o) /\ inC(o) \in Nat
  <2>1. /\ strong[o] \in Nat /\ strong'[o] = IF o = a THEN strong[o] - 1 ELSE strong[o]
        /\ inC(o)' = inC(o) /\ inC(o) \in Nat
    BY <1>0, <1>1 DEF inC, IInv, Types
  <2>2. /\ Count(drops[t], o) = Count(rest, o) + (IF a = o THEN 1 ELSE 0)
        /\ Count(rest, o) \in Nat
    BY <1>0, CountTail, PlacesFinite, Zenon
  <2> QED
    BY <2>1, <2>2
<1>3. Passed' /\ Boxes'
  BY <1>1 DEF IInv, Passed, Boxes
<1>4. CASE strong[a] = 1 /\ a \in Configs
  <2>1. /\ config' = [config EXCEPT ![a] = NoFields]
        /\ drops' = [drops EXCEPT ![t] = References(config[a]) \o rest]
    BY <1>4 DEF Drop, drop_one
  <2>2. References(config[a]) \in Seq(Arcs)
    BY <1>4, FieldReferences DEF IInv, Types
  <2>3. Types'
    <3>1. strong' \in [Arcs -> Nat]
      BY <1>0, <1>1 DEF IInv, Types
    <3>2. References(config[a]) \o rest \in Seq(Arcs)
      BY <1>0, <2>2
    <3> QED
      BY <1>1, <1>4, <2>1, <3>1, <3>2, NoFieldsEmpty DEF IInv, Types
  <2>4. /\ call'[t] = call[t] /\ drops'[t] = References(config[a]) \o rest
        /\ config'[a] = NoFields
    BY <1>1, <1>4, <2>1, Zenon DEF IInv, Types
  <2>5. Calls'
    <3>1. CallSound(call'[t], drops'[t])
      BY <1>0, <2>4, Zenon DEF CallSound
    <3> QED
      BY <1>1, <2>1, <3>1, OtherCalls, Zenon DEF OnlyThread, IInv, Types
  <2>6. DeadConfigs'
    BY <1>0, <1>1, <2>1 DEF IInv, Types, DeadConfigs, Arcs
  <2>7. CountsExact'
    <3> SUFFICES ASSUME NEW o \in Arcs
                 PROVE  strong'[o] + inC(o) + nBuilders(o) + nConfigs(o) + nConns(o)
                            + Count(call[t].got, o) + Count(drops[t], o)
                        = strong[o] + inC(o)' + nBuilders(o)' + nConfigs(o)' + nConns(o)'
                            + Count(call'[t].got, o) + Count(drops'[t], o)
      BY <1>1, <2>1, <2>3, Balance, Zenon DEF OnlyThread, Balanced, IInv, Types
    <3>1. nConfigs(o)' + Count(References(config[a]), o) = nConfigs(o) + 0
      <4>1. nConfigs(o)' + Count(References(config[a]), o)
               = nConfigs(o) + Count(References(config'[a]), o)
        BY <1>4, <2>1, <2>3, ConfigMoves DEF IInv, Types
      <4> QED
        BY <2>4, <4>1, NoFieldsEmpty, CountEmpty, Zenon
    <3>2. nBuilders(o)' = nBuilders(o) /\ nConns(o)' = nConns(o)
      BY <1>1, SameTerms
    <3>3. /\ nBuilders(o) \in Nat /\ nConfigs(o) \in Nat /\ nConns(o) \in Nat
          /\ nConfigs(o)' \in Nat
      BY <2>3, TypedRefs, TermsTyped, TypedRefsNext, TermsTypedNext DEF IInv
    <3>4. /\ Count(drops'[t], o) = Count(References(config[a]), o) + Count(rest, o)
          /\ Count(References(config[a]), o) \in Nat
      <4>1. Count(References(config[a]) \o rest, o)
               = Count(References(config[a]), o) + Count(rest, o)
        BY <1>0, <2>2, CountConcat, Zenon
      <4> QED
        BY <2>2, <2>4, <4>1, PlacesFinite
    <3>5. Count(call[t].got, o) \in Nat
      BY <1>0, PlacesFinite DEF CallType
    <3>6. /\ strong[o] \in Nat /\ strong'[o] = IF o = a THEN strong[o] - 1 ELSE strong[o]
          /\ Count(drops[t], o) = Count(rest, o) + (IF a = o THEN 1 ELSE 0)
          /\ Count(rest, o) \in Nat /\ inC(o)' = inC(o) /\ inC(o) \in Nat
      BY <1>2, <2>3
    <3>7. PICK R \in Nat : R = Count(References(config[a]), o)
      BY <3>4
    <3>8. /\ nConfigs(o)' + R = nConfigs(o) + 0 /\ Count(drops'[t], o) = R + Count(rest, o)
          /\ call'[t] = call[t]
      BY <2>4, <3>1, <3>4, <3>7, Zenon
    <3> QED
      BY <3>2, <3>3, <3>5, <3>6, <3>8
  <2> QED
    BY <1>3, <2>3, <2>5, <2>6, <2>7 DEF IInv
<1>5. CASE ~(strong[a] = 1 /\ a \in Configs)
  <2>1. config' = config /\ drops' = [drops EXCEPT ![t] = rest]
    <3>1. config' = config /\ drops' = [drops EXCEPT ![t] = <<>> \o rest]
      BY <1>5, Zenon DEF Drop, drop_one
    <3>2. <<>> \o rest = rest
      BY <1>0
    <3> QED
      BY <3>1, <3>2
  <2>2. Types'
    BY <1>0, <1>1, <2>1 DEF IInv, Types
  <2>3. call'[t] = call[t] /\ drops'[t] = rest
    BY <1>1, <2>1 DEF IInv, Types
  <2>4. Calls'
    <3>1. CallSound(call'[t], drops'[t])
      BY <1>0, <2>3, Zenon DEF CallSound
    <3> QED
      BY <1>1, <2>1, <3>1, OtherCalls DEF OnlyThread, IInv, Types
  <2>5. DeadConfigs'
    BY <1>0, <1>1, <1>5, <2>1 DEF IInv, Types, DeadConfigs, Arcs
  <2>6. CountsExact'
    <3> SUFFICES ASSUME NEW o \in Arcs
                 PROVE  strong'[o] + inC(o) + Count(call[t].got, o) + Count(drops[t], o)
                        = strong[o] + inC(o)' + Count(call'[t].got, o) + Count(drops'[t], o)
      BY <1>1, <2>1, <2>2, CallBalance DEF OnlyThread, CallBalanced, IInv, Types
    <3>1. Count(call[t].got, o) \in Nat
      BY <1>0, PlacesFinite DEF CallType
    <3>2. /\ strong[o] \in Nat /\ strong'[o] = IF o = a THEN strong[o] - 1 ELSE strong[o]
          /\ Count(drops[t], o) = Count(rest, o) + (IF a = o THEN 1 ELSE 0)
          /\ Count(rest, o) \in Nat /\ inC(o)' = inC(o) /\ inC(o) \in Nat
      BY <1>2, <2>2
    <3> QED
      BY <2>3, <3>1, <3>2
  <2> QED
    BY <1>3, <2>2, <2>4, <2>5, <2>6 DEF IInv
<1> QED
  BY <1>4, <1>5

-----------------------------------------------------------------------------
(* The theorems. *)

\* Every step keeps the invariant.
LEMMA NextIInv == IInv /\ [Next]_vars => IInv'
<1> SUFFICES ASSUME IInv, [Next]_vars PROVE IInv'
  OBVIOUS
<1>1. CASE UNCHANGED vars
  <2>1. UNCHANGED <<strong, held, builder, config, conncfg, call, drops, inner>>
    BY <1>1 DEF vars
  <2>2. Types' /\ Calls' /\ Passed' /\ Boxes' /\ DeadConfigs'
    BY <2>1, Zenon DEF IInv, Types, Calls, CallSound, Passed, Boxes, DeadConfigs
  <2>3. CountsExact'
    BY <2>1, Zenon DEF IInv, CountsExact, BuilderRefs, ConfigRefs, ConnRefs, CallRefs
  <2> QED
    BY <2>2, <2>3 DEF IInv
<1>2. ASSUME NEW t \in Threads, Continue(t)
      PROVE  IInv'
  BY <1>2, DropIInv, TakeKeyIInv, KeysSetIInv, ConnectionNewOkIInv, CallEndsIInv DEF Continue
<1>3. ASSUME NEW t \in Threads, Begin(t)
      PROVE  IInv'
  BY <1>3, ArcNewIInv, OpaqueFreeIInv, ConfigFreeIInv, BuilderNewIInv, BuilderFreeIInv,
     SetKeysIInv, SetVerifierIInv, SetHelloCallbackIInv, BuildIInv, ConnectionNewIInv,
     ConnectionFreeIInv, ResolveIInv DEF Begin, KeyFree, VerifierFree
<1> QED
  BY <1>1, <1>2, <1>3 DEF Next

\* The inductive invariant of the handles.
THEOREM HandlesInvariant == Spec => []IInv
BY InitIInv, NextIInv, PTL DEF Spec

\* The variables keep their types, and a builder or connection that C does
\* not hold has no contents (BoxCastPtr, lib.rs:328-348).
THEOREM HandlesTypes == Spec => []TypeOK
<1>1. IInv => TypeOK
  <2> SUFFICES ASSUME IInv PROVE TypeOK
    OBVIOUS
  <2>1. ASSUME NEW t \in Threads
        PROVE  /\ call[t].op \in {"idle", "set_keys", "conn_new", "process"}
               /\ Elems(call[t].got) \cup Elems(drops[t]) \subseteq Arcs
    <3>1. call[t] \in CallType /\ drops[t] \in Seq(Arcs)
      BY DEF IInv, Types
    <3>2. call[t].got \in Seq(Arcs)
      BY <3>1 DEF CallType
    <3>3. Elems(call[t].got) \subseteq Arcs /\ Elems(drops[t]) \subseteq Arcs
      BY <3>1, <3>2 DEF Elems
    <3> QED
      BY <3>1, <3>3 DEF CallType
  <2> QED
    BY <2>1 DEF IInv, Types, Boxes, TypeOK
<1> QED
  BY <1>1, HandlesInvariant, PTL

\* Reference counts are exact: every path through to_arc, the loops of the
\* setters with their early returns, build, and the drops gives back exactly
\* what it took (lib.rs:352-380).
THEOREM CountsExactAlways == Spec => []CountsExact
<1>1. IInv => CountsExact
  BY DEF IInv
<1> QED
  BY <1>1, HandlesInvariant, PTL

\* A builder or config refers to keys and verifiers only, never to a config.
LEMMA ElemsOfFields ==
  ASSUME NEW f \in Fields
  PROVE  Elems(References(f)) \subseteq Keys \cup Vers
<1>1. f.keys \in Seq(Keys) /\ f.ver \in Vers \cup {NULL}
  BY FieldReferences
<1>2. f.keys \in Seq(Keys \cup Vers)
  BY <1>1
<1>3. Reference(f.ver) \in Seq(Keys \cup Vers)
  <2>1. f.ver \in (Keys \cup Vers) \cup {NULL}
    BY <1>1
  <2> QED
    BY <2>1, OneReference
<1>4. References(f) \in Seq(Keys \cup Vers)
  BY <1>2, <1>3 DEF References
<1> QED
  BY <1>4 DEF Elems

\* What C reaches, from the counts.
LEMMA AliveFromCounts == IInv => AliveIffReachable
<1> SUFFICES ASSUME IInv PROVE AliveIffReachable
  OBVIOUS
<1> DEFINE viaBuilder(o) == \E b \in Builders : o \in Elems(References(builder[b]))
           viaConfig(o) == \E g \in Configs : o \in Elems(References(config[g]))
           viaConn(o) == \E c \in Conns : conncfg[c] = o
<1>1. ASSUME NEW o \in Arcs
      PROVE  strong[o] > 0 <=> \/ o \in held \/ viaBuilder(o) \/ viaConfig(o)
                               \/ viaConn(o) \/ o \in InCalls
  <2>1. strong[o] = inC(o) + nBuilders(o) + nConfigs(o) + nConns(o) + nCalls(o)
    BY CountTerms DEF IInv
  <2>2. RefsTyped
    BY TypedRefs DEF IInv
  <2>3. /\ nBuilders(o) \in Nat /\ nConfigs(o) \in Nat /\ nConns(o) \in Nat
        /\ nCalls(o) \in Nat /\ inC(o) \in Nat
    BY <2>2, TermsTyped
  <2>4. inC(o) > 0 <=> o \in held
    BY DEF inC
  <2>5. nBuilders(o) > 0 <=> viaBuilder(o)
    <3>1. nBuilders(o) > 0 <=> \E b \in Builders : o \in Elems(BuilderRefs[b])
      BY <2>2, OccurrencesPositive, HandlesAssumption DEF RefsTyped, nBuilders
    <3> QED
      BY <3>1 DEF BuilderRefs
  <2>6. nConfigs(o) > 0 <=> viaConfig(o)
    <3>1. nConfigs(o) > 0 <=> \E g \in Configs : o \in Elems(ConfigRefs[g])
      BY <2>2, OccurrencesPositive, HandlesAssumption DEF RefsTyped, nConfigs
    <3> QED
      BY <3>1 DEF ConfigRefs
  <2>7. nConns(o) > 0 <=> viaConn(o)
    <3>1. nConns(o) > 0 <=> \E c \in Conns : o \in Elems(ConnRefs[c])
      BY <2>2, OccurrencesPositive, HandlesAssumption DEF RefsTyped, nConns
    <3>2. o # NULL
      BY HandlesAssumption DEF Arcs
    <3>3. \A c \in Conns : o \in Elems(Reference(conncfg[c])) <=> conncfg[c] = o
      BY <3>2 DEF Reference, Elems
    <3> QED
      BY <3>1, <3>3 DEF ConnRefs
  <2>8. nCalls(o) > 0 <=> o \in InCalls
    <3>1. nCalls(o) > 0 <=> \E t \in Threads : o \in Elems(CallRefs[t])
      BY <2>2, OccurrencesPositive, HandlesAssumption DEF RefsTyped, nCalls
    <3>2. ASSUME NEW t \in Threads
          PROVE  Elems(CallRefs[t]) = Elems(call[t].got) \cup Elems(drops[t])
      <4>1. call[t].got \in Seq(Arcs) /\ drops[t] \in Seq(Arcs)
        BY DEF IInv, Types, CallType
      <4> QED
        BY <4>1, ElemsConcat DEF CallRefs
    <3> QED
      BY <3>1, <3>2 DEF InCalls
  <2> HIDE DEF viaBuilder, viaConfig, viaConn
  <2> QED
    BY <2>1, <2>3, <2>4, <2>5, <2>6, <2>7, <2>8
<1>2. /\ \A b \in Builders : Elems(References(builder[b])) \subseteq Keys \cup Vers
      /\ \A g \in Configs : Elems(References(config[g])) \subseteq Keys \cup Vers
  BY ElemsOfFields DEF IInv, Types
<1>3. ASSUME NEW g \in Configs
      PROVE  strong[g] > 0 <=> g \in ReachableConfigs
  <2>1. g \in Arcs /\ g \notin Keys \cup Vers
    BY HandlesAssumption DEF Arcs
  <2>2. ~viaBuilder(g) /\ ~viaConfig(g)
    BY <1>2, <2>1
  <2>3. viaConn(g) <=> g \in {conncfg[c] : c \in held \cap Conns}
    BY HandlesAssumption DEF IInv, Boxes
  <2> HIDE DEF viaBuilder, viaConfig, viaConn
  <2> QED
    BY <1>1, <2>1, <2>2, <2>3 DEF ReachableConfigs
<1>4. ASSUME NEW o
      PROVE  viaBuilder(o) <=> o \in OfBuilders
  <2>1. Elems(<<>>) = {}
    BY DEF Elems
  <2>2. \A b \in Builders : b \notin held => Elems(References(builder[b])) = {}
    BY <2>1, NoFieldsEmpty DEF IInv, Boxes
  <2> QED
    BY <2>2 DEF OfBuilders
<1>5. ASSUME NEW o
      PROVE  viaConfig(o) <=> o \in OfConfigs
  <2>1. Elems(<<>>) = {}
    BY DEF Elems
  <2>2. \A g \in Configs : strong[g] \in Nat
    BY DEF IInv, Types, Arcs
  <2>3. \A g \in Configs : g \notin ReachableConfigs => Elems(References(config[g])) = {}
    BY <1>3, <2>1, <2>2, NoFieldsEmpty DEF IInv, DeadConfigs
  <2>4. ReachableConfigs \subseteq Configs
    BY HandlesAssumption DEF ReachableConfigs, IInv, Types, Boxes
  <2> QED
    BY <2>3, <2>4 DEF OfConfigs
<1>6. \A o \in Arcs : viaConn(o) => o \in ReachableConfigs
  BY HandlesAssumption DEF ReachableConfigs, IInv, Types, Boxes, Arcs
<1>7. /\ ReachableConfigs \subseteq Arcs
      /\ \A o : viaBuilder(o) \/ viaConfig(o) => o \in Arcs
  BY <1>2, HandlesAssumption DEF ReachableConfigs, IInv, Types, Boxes, Arcs
<1>8. \A o \in ReachableConfigs : strong[o] > 0
  BY <1>3, HandlesAssumption DEF ReachableConfigs, IInv, Types, Boxes
<1> HIDE DEF viaBuilder, viaConfig, viaConn
<1>9. ASSUME NEW o
       PROVE  o \in Reachable <=> o \in Arcs /\ strong[o] > 0
  <2>1. o \in Reachable <=> \/ o \in Arcs /\ (o \in held \/ o \in InCalls)
                            \/ o \in ReachableConfigs \/ viaBuilder(o) \/ viaConfig(o)
    BY <1>4, <1>5 DEF Reachable
  <2>2. CASE o \in Arcs
    BY <1>1, <1>6, <1>8, <2>1, <2>2
  <2>3. CASE o \notin Arcs
    BY <1>7, <2>1, <2>3
  <2> QED
    BY <2>2, <2>3
<1> QED
  BY <1>9 DEF AliveIffReachable

\* An object is alive exactly as long as something reaches it
\* (cipher.rs:282-286, and the drops of every function that frees).
THEOREM AliveIffReachableAlways == Spec => []AliveIffReachable
BY AliveFromCounts, HandlesInvariant, PTL

\* A config is written when it is built, in memory that no config uses, and
\* cleared when its last reference is dropped (client.rs:485-500,
\* server.rs:291-307): in between it does not change.
THEOREM ConfigFrozenAlways == Spec => ConfigFrozen
<1> DEFINE Frozen == \A g \in Configs : strong[g] > 0 /\ strong'[g] > 0 => config'[g] = config[g]
<1>1. ASSUME IInv, [Next]_vars PROVE [Frozen]_vars
  <2>1. CASE UNCHANGED vars
    BY <2>1
  <2>2. ASSUME NEW t \in Threads, Drop(t) PROVE Frozen
    <3>1. ASSUME NEW g \in Configs, strong[g] > 0, strong'[g] > 0
          PROVE  config'[g] = config[g]
      <4> DEFINE a == Head(drops[t])
      <4>1. /\ strong' = [strong EXCEPT ![a] = @ - 1]
            /\ config' = IF strong[a] = 1 /\ a \in Configs
                         THEN [config EXCEPT ![a] = NoFields] ELSE config
        BY <2>2 DEF Drop, drop_one
      <4>2. g \in DOMAIN strong /\ g \in DOMAIN config
        BY <1>1 DEF IInv, Types, Arcs
      <4>3. g = a => strong[a] # 1
        BY <3>1, <4>1, <4>2
      <4> HIDE DEF a
      <4> QED
        BY <4>1, <4>2, <4>3
    <3> QED
      BY <3>1
  <2>3. ASSUME NEW t \in Threads, Continue(t), ~Drop(t) PROVE Frozen
    <3>1. config' = config
      BY <2>3, Zenon DEF Continue, TakeKey, KeysSet, ConnectionNewOk, ConnectionNewFails, Resolved
    <3> QED
      BY <3>1
  <2>4. ASSUME NEW t \in Threads, NEW b \in Builders, NEW g \in Configs, Build(t, b, g)
        PROVE  Frozen
    <3>1. \/ config' = config
          \/ strong[g] = 0 /\ config' = [config EXCEPT ![g] = builder[b]]
      BY <2>4 DEF Build
    <3> QED
      BY <1>1, <3>1 DEF IInv, Types
  <2>5. ASSUME NEW t \in Threads, Begin(t),
               ~\E b \in Builders, g \in Configs : Build(t, b, g)
        PROVE  Frozen
    <3>1. config' = config
      BY <2>5, Zenon DEF Begin, ArcNew, KeyFree, VerifierFree, OpaqueFree, ConfigFree, BuilderNew,
         BuilderFree, SetKeys, SetVerifier, SetHelloCallback, ConnectionNew, ConnectionFree,
         Resolve
    <3> QED
      BY <3>1
  <2> HIDE DEF Frozen
  <2> QED
    BY <1>1, <2>1, <2>2, <2>3, <2>4, <2>5 DEF Next
<1> QED
  BY <1>1, HandlesInvariant, PTL DEF Spec, ConfigFrozen
=============================================================================
