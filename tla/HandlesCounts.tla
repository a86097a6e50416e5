--------------------------- MODULE HandlesCounts ----------------------------
(***************************************************************************)
(* The inductive invariant of Handles, and how a step changes the terms of *)
(* the reference count: the lemmas that the proofs about its actions       *)
(* share.                                                                  *)
(***************************************************************************)
EXTENDS Handles, OccurrenceLemmas

CallType ==
    [op : {"idle", "set_keys", "conn_new", "process"},
     ptrs : SUBSET (Arcs \cup Builders \cup Conns \cup {NULL}),
     todo : Seq(Keys \cup {NULL}), got : Seq(Arcs)]

\* The types, in full.
Types ==
    /\ strong \in [Arcs -> Nat]
    /\ inner \subseteq Arcs
    /\ held \subseteq Arcs \cup Builders \cup Conns
    /\ builder \in [Builders -> Fields]
    /\ config \in [Configs -> Fields]
    /\ conncfg \in [Conns -> Configs \cup {NULL}]
    /\ call \in [Threads -> CallType]
    /\ drops \in [Threads -> Seq(Arcs)]

\* What a call in progress has taken; it has nothing to drop before it ends.
CallSound(c, d) ==
    /\ c.op # "idle" => d = <<>>
    /\ c.op = "set_keys" => c.got \in Seq(Keys) /\ Len(c.got) + Len(c.todo) <= MaxKeys
    /\ c.op = "conn_new" => Len(c.got) = 1 /\ c.got[1] \in Configs

Calls == \A t \in Threads : CallSound(call[t], drops[t])

\* The builder that a call works on is not freed or built meanwhile.
Passed == \A t \in Threads : call[t].ptrs \cap Builders \subseteq held

\* A Box that C does not hold has no contents.
Boxes ==
    /\ \A b \in Builders \ held : builder[b] = NoFields
    /\ \A c \in Conns : c \in held <=> conncfg[c] # NULL

\* The memory of a config that was destroyed refers to nothing.
DeadConfigs == \A g \in Configs : strong[g] = 0 => config[g] = NoFields

(***************************************************************************)
(* The inductive invariant.  CountsExact is not inductive: what a call has *)
(* taken must be of the kind its end passes on, with no drop waiting       *)
(* (Calls), and a new builder, config or connection must take the place of *)
(* one that refers to nothing (Boxes, DeadConfigs), or its references      *)
(* would be lost.                                                          *)
(***************************************************************************)
IInv == Types /\ Calls /\ Passed /\ Boxes /\ DeadConfigs /\ CountsExact

-----------------------------------------------------------------------------
(* What the places hold. *)

\* The idle call holds nothing, and has its type.
LEMMA IdleCall ==
  /\ Idle \in CallType /\ Idle.op = "idle" /\ Idle.ptrs = {}
  /\ Idle.todo = <<>> /\ Idle.got = <<>>
BY DEF Idle, CallType

\* A pointer gives one reference, NULL none.
LEMMA OneReference ==
  ASSUME NEW T, NEW x \in T \cup {NULL}
  PROVE  /\ Reference(x) \in Seq(T)
         /\ \A o : o # NULL => Count(Reference(x), o) = IF x = o THEN 1 ELSE 0
<1>1. CASE x = NULL
  BY <1>1, CountEmpty DEF Reference
<1>2. CASE x # NULL
  BY <1>2, CountOne DEF Reference
<1> QED
  BY <1>1, <1>2

\* Key lists are the sequences of keys that are not too long.
LEMMA KeyListsAreSeqs ==
  /\ \A s \in KeyLists : s \in Seq(Keys) /\ Len(s) <= MaxKeys
  /\ \A s \in Seq(Keys) : Len(s) <= MaxKeys => s \in KeyLists
<1>1. ASSUME NEW s \in KeyLists
      PROVE  s \in Seq(Keys) /\ Len(s) <= MaxKeys
  <2>1. PICK n \in 0 .. MaxKeys : s \in [1 .. n -> Keys]
    BY DEF KeyLists
  <2> QED
    BY <2>1, HandlesAssumption
<1>2. ASSUME NEW s \in Seq(Keys), Len(s) <= MaxKeys
      PROVE  s \in KeyLists
  <2>1. s \in [1 .. Len(s) -> Keys] /\ Len(s) \in 0 .. MaxKeys
    BY <1>2, LenProperties, HandlesAssumption
  <2> QED
    BY <2>1 DEF KeyLists
<1> QED
  BY <1>1, <1>2

\* What a builder or config refers to: its verifier, and its keys.
LEMMA FieldReferences ==
  ASSUME NEW f \in Fields
  PROVE  /\ f.keys \in Seq(Keys) /\ f.keys \in Seq(Arcs)
         /\ f.ver \in Vers \cup {NULL} /\ Reference(f.ver) \in Seq(Arcs)
         /\ References(f) \in Seq(Arcs)
         /\ \A o : Count(References(f), o) = Count(Reference(f.ver), o) + Count(f.keys, o)
<1>1. f.keys \in Seq(Keys) /\ f.ver \in Vers \cup {NULL}
  BY KeyListsAreSeqs DEF Fields
<1>2. f.keys \in Seq(Arcs)
  BY <1>1 DEF Arcs
<1>3. Reference(f.ver) \in Seq(Arcs)
  <2>1. f.ver \in Arcs \cup {NULL}
    BY <1>1 DEF Arcs
  <2> QED
    BY <2>1, OneReference
<1>4. References(f) \in Seq(Arcs)
  BY <1>2, <1>3 DEF References
<1>5. \A o : Count(References(f), o) = Count(Reference(f.ver), o) + Count(f.keys, o)
  BY <1>2, <1>3, CountConcat DEF References
<1> QED
  BY <1>1, <1>2, <1>3, <1>4, <1>5

\* An empty builder or config refers to nothing.
LEMMA NoFieldsEmpty ==
  NoFields \in Fields /\ References(NoFields) = <<>>
<1>1. <<>> \in KeyLists
  <2>1. <<>> \in Seq(Keys) /\ Len(<<>>) <= MaxKeys
    BY HandlesAssumption
  <2> QED
    BY <2>1, KeyListsAreSeqs, Zenon
<1> QED
  BY <1>1 DEF NoFields, Fields, References, Reference

-----------------------------------------------------------------------------
(* The terms of the count. *)

inC(o) == IF o \in held THEN 1 ELSE 0
nBuilders(o) == Occurrences(Builders, BuilderRefs, o)
nConfigs(o) == Occurrences(Configs, ConfigRefs, o)
nConns(o) == Occurrences(Conns, ConnRefs, o)
nCalls(o) == Occurrences(Threads, CallRefs, o)

\* Each kind of owner has a sequence of references.
RefsTyped ==
    /\ BuilderRefs \in Lists(Builders, Arcs)
    /\ ConfigRefs \in Lists(Configs, Arcs)
    /\ ConnRefs \in Lists(Conns, Arcs)
    /\ CallRefs \in Lists(Threads, Arcs)

\* So it is in every state of the right types.
LEMMA TypedRefs == Types => RefsTyped
<1> SUFFICES ASSUME Types PROVE RefsTyped
  OBVIOUS
<1>1. \A b \in Builders : References(builder[b]) \in Seq(Arcs)
  BY FieldReferences DEF Types
<1>2. \A g \in Configs : References(config[g]) \in Seq(Arcs)
  BY FieldReferences DEF Types
<1>3. \A c \in Conns : Reference(conncfg[c]) \in Seq(Arcs)
  <2>1. \A c \in Conns : conncfg[c] \in Arcs \cup {NULL}
    BY DEF Types, Arcs
  <2> QED
    BY <2>1, OneReference
<1>4. \A t \in Threads : call[t].got \o drops[t] \in Seq(Arcs)
  BY DEF Types, CallType
<1> QED
  BY <1>1, <1>2, <1>3, <1>4 DEF RefsTyped, BuilderRefs, ConfigRefs, ConnRefs, CallRefs, Lists

\* The same after a step.
LEMMA TypedRefsNext == Types' => RefsTyped'
BY TypedRefs, PTL

\* The terms are numbers.
LEMMA TermsTyped ==
  ASSUME RefsTyped, NEW o
  PROVE  /\ nBuilders(o) \in Nat /\ nConfigs(o) \in Nat
         /\ nConns(o) \in Nat /\ nCalls(o) \in Nat /\ inC(o) \in Nat
BY OwnedFinite, HandlesAssumption
   DEF RefsTyped, nBuilders, nConfigs, nConns, nCalls, inC

\* The same after a step.
LEMMA TermsTypedNext ==
  ASSUME RefsTyped', NEW o
  PROVE  /\ nBuilders(o)' \in Nat /\ nConfigs(o)' \in Nat
         /\ nConns(o)' \in Nat /\ nCalls(o)' \in Nat /\ inC(o)' \in Nat
BY OwnedFinite, HandlesAssumption
   DEF RefsTyped, nBuilders, nConfigs, nConns, nCalls, inC

\* The other threads, and the other builders, stay as they are.
OnlyThread(t) == \A x \in Threads \ {t} : call'[x] = call[x] /\ drops'[x] = drops[x]
OnlyBuilder(b) == \A x \in Builders \ {b} : builder'[x] = builder[x]

\* One builder changes.
LEMMA BuilderMoves ==
  ASSUME Types, Types', NEW b \in Builders, NEW o,
         OnlyBuilder(b)
  PROVE  nBuilders(o)' + Count(References(builder[b]), o)
            = nBuilders(o) + Count(References(builder'[b]), o)
<1>1. BuilderRefs \in Lists(Builders, Arcs) /\ BuilderRefs' \in Lists(Builders, Arcs)
  BY TypedRefs, TypedRefsNext DEF RefsTyped
<1>2. /\ \A y \in Builders \ {b} : BuilderRefs'[y] = BuilderRefs[y]
      /\ BuilderRefs[b] = References(builder[b])
      /\ BuilderRefs'[b] = References(builder'[b])
  BY Zenon DEF OnlyBuilder, BuilderRefs, References
<1>3. Occurrences(Builders, BuilderRefs', o) + Count(BuilderRefs[b], o)
         = Occurrences(Builders, BuilderRefs, o) + Count(BuilderRefs'[b], o)
  BY <1>1, <1>2, OccurrencesMove, HandlesAssumption
<1> QED
  BY <1>2, <1>3 DEF nBuilders

\* One config changes.
LEMMA ConfigMoves ==
  ASSUME Types, Types', NEW g \in Configs, NEW o,
         \A x \in Configs \ {g} : config'[x] = config[x]
  PROVE  nConfigs(o)' + Count(References(config[g]), o)
            = nConfigs(o) + Count(References(config'[g]), o)
<1>1. ConfigRefs \in Lists(Configs, Arcs) /\ ConfigRefs' \in Lists(Configs, Arcs)
  BY TypedRefs, TypedRefsNext DEF RefsTyped
<1>2. /\ \A y \in Configs \ {g} : ConfigRefs'[y] = ConfigRefs[y]
      /\ ConfigRefs[g] = References(config[g])
      /\ ConfigRefs'[g] = References(config'[g])
  BY Zenon DEF ConfigRefs, References
<1>3. Occurrences(Configs, ConfigRefs', o) + Count(ConfigRefs[g], o)
         = Occurrences(Configs, ConfigRefs, o) + Count(ConfigRefs'[g], o)
  BY <1>1, <1>2, OccurrencesMove, HandlesAssumption
<1> QED
  BY <1>2, <1>3 DEF nConfigs

\* One connection changes.
LEMMA ConnMoves ==
  ASSUME Types, Types', NEW c \in Conns, NEW o \in Arcs,
         \A x \in Conns \ {c} : conncfg'[x] = conncfg[x]
  PROVE  nConns(o)' + (IF conncfg[c] = o THEN 1 ELSE 0)
            = nConns(o) + (IF conncfg'[c] = o THEN 1 ELSE 0)
<1>1. ConnRefs \in Lists(Conns, Arcs) /\ ConnRefs' \in Lists(Conns, Arcs)
  BY TypedRefs, TypedRefsNext DEF RefsTyped
<1>2. /\ \A y \in Conns \ {c} : ConnRefs'[y] = ConnRefs[y]
      /\ ConnRefs[c] = Reference(conncfg[c])
      /\ ConnRefs'[c] = Reference(conncfg'[c])
  BY DEF ConnRefs, Reference
<1>3. Occurrences(Conns, ConnRefs', o) + Count(ConnRefs[c], o)
         = Occurrences(Conns, ConnRefs, o) + Count(ConnRefs'[c], o)
  BY <1>1, <1>2, OccurrencesMove, HandlesAssumption
<1>4. /\ conncfg[c] \in Configs \cup {NULL} /\ conncfg'[c] \in Configs \cup {NULL}
      /\ o # NULL
  BY HandlesAssumption DEF Types, Arcs
<1>5. /\ Count(Reference(conncfg[c]), o) = IF conncfg[c] = o THEN 1 ELSE 0
      /\ Count(Reference(conncfg'[c]), o) = IF conncfg'[c] = o THEN 1 ELSE 0
  BY <1>4, OneReference, Zenon
<1> QED
  BY <1>2, <1>3, <1>5 DEF nConns

\* One thread moves on.
LEMMA CallMoves ==
  ASSUME Types, Types', NEW t \in Threads, NEW o,
         OnlyThread(t)
  PROVE  nCalls(o)' + Count(call[t].got, o) + Count(drops[t], o)
            = nCalls(o) + Count(call'[t].got, o) + Count(drops'[t], o)
<1>1. CallRefs \in Lists(Threads, Arcs) /\ CallRefs' \in Lists(Threads, Arcs)
  BY TypedRefs, TypedRefsNext DEF RefsTyped
<1>0. \A y \in Threads \ {t} : CallRefs'[y] = CallRefs[y]
  BY Zenon DEF OnlyThread, CallRefs
<1>2. /\ CallRefs[t] = call[t].got \o drops[t]
      /\ CallRefs'[t] = call'[t].got \o drops'[t]
  BY Zenon DEF CallRefs
<1>3. Occurrences(Threads, CallRefs', o) + Count(CallRefs[t], o)
         = Occurrences(Threads, CallRefs, o) + Count(CallRefs'[t], o)
  BY <1>0, <1>1, OccurrencesMove, HandlesAssumption
<1>4. /\ call[t].got \in Seq(Arcs) /\ drops[t] \in Seq(Arcs)
      /\ call'[t].got \in Seq(Arcs) /\ drops'[t] \in Seq(Arcs)
  BY DEF Types, CallType
<1>5. /\ Count(CallRefs[t], o) = Count(call[t].got, o) + Count(drops[t], o)
      /\ Count(CallRefs'[t], o) = Count(call'[t].got, o) + Count(drops'[t], o)
  BY <1>2, <1>4, CountConcat
<1>6. /\ Count(call[t].got, o) \in Nat /\ Count(drops[t], o) \in Nat
      /\ Count(call'[t].got, o) \in Nat /\ Count(drops'[t], o) \in Nat
  BY <1>4, PlacesFinite
<1>7. nCalls(o) \in Nat /\ nCalls(o)' \in Nat
  BY TypedRefs, TypedRefsNext, TermsTyped, TermsTypedNext
<1> QED
  BY <1>3, <1>5, <1>6, <1>7 DEF nCalls

\* The count from its terms.
LEMMA CountTerms ==
  CountsExact <=> \A o \in Arcs :
      strong[o] = inC(o) + nBuilders(o) + nConfigs(o) + nConns(o) + nCalls(o)
BY DEF CountsExact, inC, nBuilders, nConfigs, nConns, nCalls

\* The same after a step.
LEMMA CountTermsNext ==
  CountsExact' <=> \A o \in Arcs :
      strong'[o] = inC(o)' + nBuilders(o)' + nConfigs(o)' + nConns(o)' + nCalls(o)'
BY DEF CountsExact, inC, nBuilders, nConfigs, nConns, nCalls

\* What does not change keeps its terms.
LEMMA SameTerms ==
  ASSUME NEW o
  PROVE  /\ UNCHANGED builder => nBuilders(o)' = nBuilders(o)
         /\ UNCHANGED config => nConfigs(o)' = nConfigs(o)
         /\ UNCHANGED conncfg => nConns(o)' = nConns(o)
         /\ UNCHANGED <<call, drops>> => nCalls(o)' = nCalls(o)
         /\ UNCHANGED held => inC(o)' = inC(o)
<1>1. /\ UNCHANGED builder => BuilderRefs' = BuilderRefs
      /\ UNCHANGED config => ConfigRefs' = ConfigRefs
      /\ UNCHANGED conncfg => ConnRefs' = ConnRefs
      /\ UNCHANGED <<call, drops>> => CallRefs' = CallRefs
  BY Zenon DEF BuilderRefs, ConfigRefs, ConnRefs, CallRefs
<1> QED
  BY <1>1 DEF nBuilders, nConfigs, nConns, nCalls, inC

\* What the count of each object gains in a step of thread t is what the
\* places that refer to it gain: in general, ...
Balanced(t) ==
    \A o \in Arcs :
        strong'[o] + inC(o) + nBuilders(o) + nConfigs(o) + nConns(o)
            + Count(call[t].got, o) + Count(drops[t], o)
        = strong[o] + inC(o)' + nBuilders(o)' + nConfigs(o)' + nConns(o)'
            + Count(call'[t].got, o) + Count(drops'[t], o)

\* ... if no builder, config or connection changes, ...
CallBalanced(t) ==
    \A o \in Arcs :
        strong'[o] + inC(o) + Count(call[t].got, o) + Count(drops[t], o)
        = strong[o] + inC(o)' + Count(call'[t].got, o) + Count(drops'[t], o)

\* ... and if builder b alone does.
BuilderBalanced(t, b) ==
    \A o \in Arcs :
        strong'[o] + inC(o) + Count(References(builder[b]), o)
            + Count(call[t].got, o) + Count(drops[t], o)
        = strong[o] + inC(o)' + Count(References(builder'[b]), o)
            + Count(call'[t].got, o) + Count(drops'[t], o)

\* A step of thread t that is balanced keeps the counts exact.
LEMMA Balance ==
  ASSUME IInv, Types', NEW t \in Threads,
         OnlyThread(t),
         Balanced(t)
  PROVE  CountsExact'
<1> SUFFICES ASSUME NEW o \in Arcs
             PROVE  strong'[o] = inC(o)' + nBuilders(o)' + nConfigs(o)' + nConns(o)' + nCalls(o)'
  BY CountTermsNext
<1>1. strong[o] = inC(o) + nBuilders(o) + nConfigs(o) + nConns(o) + nCalls(o)
  BY CountTerms DEF IInv
<1>2. /\ nBuilders(o) \in Nat /\ nConfigs(o) \in Nat /\ nConns(o) \in Nat
      /\ nCalls(o) \in Nat /\ inC(o) \in Nat
  BY TypedRefs, TermsTyped DEF IInv
<1>3. /\ nBuilders(o)' \in Nat /\ nConfigs(o)' \in Nat /\ nConns(o)' \in Nat
      /\ nCalls(o)' \in Nat /\ inC(o)' \in Nat
  BY TypedRefsNext, TermsTypedNext
<1>4. nCalls(o)' + Count(call[t].got, o) + Count(drops[t], o)
         = nCalls(o) + Count(call'[t].got, o) + Count(drops'[t], o)
  BY CallMoves DEF IInv
<1>5. /\ call[t].got \in Seq(Arcs) /\ drops[t] \in Seq(Arcs)
      /\ call'[t].got \in Seq(Arcs) /\ drops'[t] \in Seq(Arcs)
  BY DEF IInv, Types, CallType
<1>6. /\ Count(call[t].got, o) \in Nat /\ Count(drops[t], o) \in Nat
      /\ Count(call'[t].got, o) \in Nat /\ Count(drops'[t], o) \in Nat
  BY <1>5, PlacesFinite
<1>7. strong[o] \in Nat /\ strong'[o] \in Nat
  BY DEF IInv, Types
<1>8. strong'[o] + inC(o) + nBuilders(o) + nConfigs(o) + nConns(o)
          + Count(call[t].got, o) + Count(drops[t], o)
      = strong[o] + inC(o)' + nBuilders(o)' + nConfigs(o)' + nConns(o)'
          + Count(call'[t].got, o) + Count(drops'[t], o)
  BY DEF Balanced
<1> QED
  BY <1>1, <1>2, <1>3, <1>4, <1>6, <1>7, <1>8, SMTT(20)

\* The same for a step that changes no builder, config or connection.
LEMMA CallBalance ==
  ASSUME IInv, Types', NEW t \in Threads, UNCHANGED <<builder, config, conncfg>>,
         OnlyThread(t),
         CallBalanced(t)
  PROVE  CountsExact'
<1> SUFFICES ASSUME NEW o \in Arcs
             PROVE  strong'[o] + inC(o) + nBuilders(o) + nConfigs(o) + nConns(o)
                        + Count(call[t].got, o) + Count(drops[t], o)
                    = strong[o] + inC(o)' + nBuilders(o)' + nConfigs(o)' + nConns(o)'
                        + Count(call'[t].got, o) + Count(drops'[t], o)
  BY Balance DEF Balanced
<1>1. /\ nBuilders(o) \in Nat /\ nConfigs(o) \in Nat /\ nConns(o) \in Nat /\ inC(o) \in Nat
  BY TypedRefs, TermsTyped DEF IInv
<1>2. /\ nBuilders(o)' = nBuilders(o) /\ nConfigs(o)' = nConfigs(o) /\ nConns(o)' = nConns(o)
  BY SameTerms
<1>3. inC(o)' \in Nat
  BY TypedRefsNext, TermsTypedNext
<1>4. /\ call[t].got \in Seq(Arcs) /\ drops[t] \in Seq(Arcs)
      /\ call'[t].got \in Seq(Arcs) /\ drops'[t] \in Seq(Arcs)
  BY DEF IInv, Types, CallType
<1>5. /\ Count(call[t].got, o) \in Nat /\ Count(drops[t], o) \in Nat
      /\ Count(call'[t].got, o) \in Nat /\ Count(drops'[t], o) \in Nat
  BY <1>4, PlacesFinite
<1>6. strong[o] \in Nat /\ strong'[o] \in Nat
  BY DEF IInv, Types
<1>7. strong'[o] + inC(o) + Count(call[t].got, o) + Count(drops[t], o)
         = strong[o] + inC(o)' + Count(call'[t].got, o) + Count(drops'[t], o)
  BY DEF CallBalanced
<1> QED
  BY <1>1, <1>2, <1>3, <1>5, <1>6, <1>7, SMTT(20)

\* The same for a step that changes one builder.
LEMMA BuilderBalance ==
  ASSUME IInv, Types', NEW t \in Threads, NEW b \in Builders, UNCHANGED <<config, conncfg>>,
         OnlyBuilder(b),
         OnlyThread(t),
         BuilderBalanced(t, b)
  PROVE  CountsExact'
<1> SUFFICES ASSUME NEW o \in Arcs
             PROVE  strong'[o] + inC(o) + nBuilders(o) + nConfigs(o) + nConns(o)
                        + Count(call[t].got, o) + Count(drops[t], o)
                    = strong[o] + inC(o)' + nBuilders(o)' + nConfigs(o)' + nConns(o)'
                        + Count(call'[t].got, o) + Count(drops'[t], o)
  BY Balance DEF Balanced
<1>1. /\ nBuilders(o) \in Nat /\ nConfigs(o) \in Nat /\ nConns(o) \in Nat /\ inC(o) \in Nat
  BY TypedRefs, TermsTyped DEF IInv
<1>2. /\ nConfigs(o)' = nConfigs(o) /\ nConns(o)' = nConns(o)
  BY SameTerms
<1>3. inC(o)' \in Nat /\ nBuilders(o)' \in Nat
  BY TypedRefsNext, TermsTypedNext
<1>4. /\ call[t].got \in Seq(Arcs) /\ drops[t] \in Seq(Arcs)
      /\ call'[t].got \in Seq(Arcs) /\ drops'[t] \in Seq(Arcs)
  BY DEF IInv, Types, CallType
<1>5. /\ Count(call[t].got, o) \in Nat /\ Count(drops[t], o) \in Nat
      /\ Count(call'[t].got, o) \in Nat /\ Count(drops'[t], o) \in Nat
  BY <1>4, PlacesFinite
<1>6. strong[o] \in Nat /\ strong'[o] \in Nat
  BY DEF IInv, Types
<1>7. nBuilders(o)' + Count(References(builder[b]), o)
         = nBuilders(o) + Count(References(builder'[b]), o)
  BY BuilderMoves DEF IInv
<1>8. builder[b] \in Fields /\ builder'[b] \in Fields
  BY DEF IInv, Types
<1>9. Count(References(builder[b]), o) \in Nat /\ Count(References(builder'[b]), o) \in Nat
  BY <1>8, FieldReferences, PlacesFinite
<1>10. strong'[o] + inC(o) + Count(References(builder[b]), o)
           + Count(call[t].got, o) + Count(drops[t], o)
       = strong[o] + inC(o)' + Count(References(builder'[b]), o)
           + Count(call'[t].got, o) + Count(drops'[t], o)
  BY DEF BuilderBalanced
<1> QED
  BY <1>1, <1>2, <1>3, <1>5, <1>6, <1>7, <1>9, <1>10, SMTT(20)

\* A thread that is ready has taken nothing.
LEMMA ReadyEmpty ==
  ASSUME NEW t \in Threads, Ready(t), NEW o
  PROVE  Count(call[t].got, o) = 0 /\ Count(drops[t], o) = 0
BY IdleCall, CountEmpty DEF Ready

\* An object that C holds has a reference; so has one that a thread must drop.
LEMMA Counted ==
  ASSUME IInv, NEW o \in Arcs
  PROVE  /\ strong[o] \in Nat
         /\ o \in held => strong[o] >= 1
         /\ \A t \in Threads : drops[t] # <<>> /\ Head(drops[t]) = o => strong[o] >= 1
<1>1. strong[o] = inC(o) + nBuilders(o) + nConfigs(o) + nConns(o) + nCalls(o)
  BY CountTerms DEF IInv
<1>2. /\ nBuilders(o) \in Nat /\ nConfigs(o) \in Nat /\ nConns(o) \in Nat
      /\ nCalls(o) \in Nat /\ inC(o) \in Nat
  BY TypedRefs, TermsTyped DEF IInv
<1>3. o \in held => inC(o) = 1
  BY DEF inC
<1>4. ASSUME NEW t \in Threads, drops[t] # <<>>, Head(drops[t]) = o
      PROVE  nCalls(o) >= 1
  <2>1. /\ call[t].got \in Seq(Arcs) /\ drops[t] \in Seq(Arcs)
    BY DEF IInv, Types, CallType
  <2>2. o \in Elems(drops[t])
    BY <1>4, <2>1 DEF Elems
  <2>3. Count(drops[t], o) > 0
    BY <2>1, <2>2, CountPositive
  <2>4. /\ Count(call[t].got, o) \in Nat /\ Count(drops[t], o) \in Nat
        /\ Count(call[t].got \o drops[t], o) = Count(call[t].got, o) + Count(drops[t], o)
    BY <2>1, PlacesFinite, CountConcat
  <2>5. Count(CallRefs[t], o) > 0
    BY <2>3, <2>4 DEF CallRefs
  <2>6. CallRefs \in Lists(Threads, Arcs) /\ CallRefs[t] \in Seq(Arcs)
    BY <2>1, TypedRefs DEF IInv, RefsTyped, CallRefs
  <2>7. o \in Elems(CallRefs[t])
    BY <2>5, <2>6, CountPositive
  <2>8. Occurrences(Threads, CallRefs, o) > 0
    BY <2>6, <2>7, OccurrencesPositive, HandlesAssumption
  <2> QED
    BY <1>2, <2>8 DEF nCalls
<1> QED
  BY <1>1, <1>2, <1>3, <1>4

\* A step of thread t leaves the other calls as they are.
LEMMA OtherCalls ==
  ASSUME Calls, NEW t \in Threads, CallSound(call'[t], drops'[t]),
         OnlyThread(t)
  PROVE  Calls'
<1> SUFFICES ASSUME NEW x \in Threads PROVE CallSound(call'[x], drops'[x])
  BY Zenon DEF Calls, CallSound
<1> QED
  BY DEF OnlyThread, Calls

=============================================================================
