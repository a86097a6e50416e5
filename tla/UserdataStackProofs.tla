------------------------ MODULE UserdataStackProofs ------------------------
(***************************************************************************)
(* Proofs about UserdataStack, for every set of threads, connections and   *)
(* pointers.                                                               *)
(***************************************************************************)
EXTENDS UserdataStack, SequenceTheorems, TLAPS

-----------------------------------------------------------------------------
(* Facts about the sequence operators of the model. *)

\* Popping undoes pushing.
LEMMA PopAppend ==
  ASSUME NEW S, NEW s \in Seq(S), NEW e \in S
  PROVE  /\ Append(s, e) # <<>>
         /\ Front(Append(s, e)) = s
         /\ Last(Append(s, e)) = e
<1>1. /\ Append(s, e) \in Seq(S)
      /\ Append(s, e) # << >>
      /\ Len(Append(s, e)) = Len(s)+1
      /\ \A i \in 1.. Len(s) : Append(s, e)[i] = s[i]
      /\ Append(s, e)[Len(s)+1] = e
  BY AppendProperties
<1>2. Len(s) \in Nat
  BY LenProperties
<1>3. Front(Append(s, e)) = SubSeq(Append(s, e), 1, Len(s))
  BY <1>1, <1>2 DEF Front
<1>4. SubSeq(Append(s, e), 1, Len(s)) = s
  BY <1>1, <1>2
<1>5. QED
  BY <1>1, <1>2, <1>3, <1>4 DEF Last

\* What Front keeps.
LEMMA FrontFacts ==
  ASSUME NEW S, NEW s \in Seq(S), s # <<>>
  PROVE  /\ Front(s) \in Seq(S)
         /\ Len(s) \in Nat \ {0}
         /\ Len(Front(s)) = Len(s) - 1
         /\ DOMAIN s = 1 .. Len(s)
         /\ DOMAIN Front(s) = 1 .. Len(s) - 1
         /\ \A i \in 1 .. Len(s) - 1 : Front(s)[i] = s[i]
BY DEF Front

-----------------------------------------------------------------------------
(***************************************************************************)
(* The inductive invariant.  StackMatchesCalls alone is not inductive: a   *)
(* return pops whatever is on top, so it needs GuardsIntact to know that   *)
(* the pop succeeds and hits this call's entry.                            *)
(***************************************************************************)
IInv ==
    /\ TypeOK
    /\ StackMatchesCalls
    /\ GuardsIntact
    /\ CallbackSeesOwnUserdata

\* The initial state satisfies the invariant.
LEMMA InitIInv == Init => IInv
<1> SUFFICES ASSUME Init PROVE IInv
  OBVIOUS
<1> USE DEF Init
<1>1. \A t \in Threads : DOMAIN frames[t] = {}
  OBVIOUS
<1>2. TypeOK
  BY <1>1, UserdataAssumption DEF TypeOK, Userdata
<1>3. StackMatchesCalls /\ GuardsIntact /\ CallbackSeesOwnUserdata
  BY <1>1 DEF StackMatchesCalls, GuardsIntact, CallbackSeesOwnUserdata
<1> QED
  BY <1>2, <1>3 DEF IInv

\* Facts about the frames of a thread that every step uses.
LEMMA FrameFacts ==
  ASSUME TypeOK, NEW t \in Threads
  PROVE  /\ frames[t] \in Seq(Frame)
         /\ Len(frames[t]) \in Nat
         /\ DOMAIN frames[t] = 1 .. Len(frames[t])
         /\ \A i \in DOMAIN frames[t] : frames[t][i] \in Frame
         /\ frames[t] # <<>> => /\ Len(frames[t]) \in DOMAIN frames[t]
                                /\ Top(t) = frames[t][Len(frames[t])]
                                /\ Top(t) \in Frame
BY DEF TypeOK, Top, Last

-----------------------------------------------------------------------------
(***************************************************************************)
(* The four kinds of step: a call is entered, a call returns, the top      *)
(* frame changes, a connection outside every call changes.                 *)
(***************************************************************************)

\* The conditions on the state that no step can disturb in type.
SameKind ==
    /\ live' \subseteq Conns
    /\ logger' \in {"none", "ours", "other"}
    /\ ret' \in [Threads -> {"None", "Ok", "Error", "Panic"}]

\* A frame whose callback, if any, is made as CallbackSeesOwnUserdata says.
GoodFrame(f) ==
    /\ f \in Frame
    /\ (f.guard # None) <=> (f.fn = "process")
    /\ f.fn = "process" =>
           /\ f.guard = conn[f.conn].userdata
           /\ ~f.refused
           /\ f.at = "callback" => f.arg = conn[f.conn].userdata
           /\ f.cb = "log" => f.cbfn = conn[f.conn].log_callback

\* StackUnder in the next state.
NextUnder(f) ==
    IF f.fn = "process" THEN Append(f.saved, conn'[f.conn]) ELSE f.saved

\* Entering a call preserves the invariant.
LEMMA PushStep ==
  ASSUME IInv, SameKind, NEW t \in Threads, NEW f, GoodFrame(f),
         Idle(f.conn), f.saved = USERDATA[t], f.fn = "process" => t \in tls,
         PushFrame(t, f), UNCHANGED <<conn, tls>>,
         USERDATA' = [USERDATA EXCEPT ![t] = StackUnder(f)]
  PROVE  IInv'
<1> DEFINE n == Len(frames[t])
<1>1. /\ frames'[t] = Append(frames[t], f)
      /\ \A u \in Threads \ {t} : frames'[u] = frames[u] /\ USERDATA'[u] = USERDATA[u]
      /\ USERDATA'[t] = StackUnder(f)
      /\ frames' = [frames EXCEPT ![t] = Append(@, f)]
  BY DEF PushFrame, IInv, TypeOK
<1>2. /\ n \in Nat
      /\ DOMAIN frames[t] = 1 .. n
      /\ frames'[t] \in Seq(Frame)
      /\ Len(frames'[t]) = n + 1
      /\ DOMAIN frames'[t] = 1 .. n + 1
      /\ \A i \in 1 .. n : frames'[t][i] = frames[t][i]
      /\ frames'[t][n + 1] = f
      /\ frames'[t] # <<>>
  BY <1>1, FrameFacts, AppendProperties, LenProperties DEF IInv, GoodFrame
<1>3. \A u \in Threads : \A i \in DOMAIN frames'[u] :
          \/ i \in DOMAIN frames[u] /\ frames'[u][i] = frames[u][i]
          \/ u = t /\ i = n + 1 /\ frames'[u][i] = f
  BY <1>1, <1>2
<1>4. \A g : NextUnder(g) = StackUnder(g)
  BY DEF StackUnder, NextUnder
<1>5. StackUnder(f) \in Seq(Userdata)
  BY AppendProperties DEF StackUnder, IInv, TypeOK, GoodFrame, Frame
<1>6. TypeOK'
  <2>1. USERDATA' \in [Threads -> Seq(Userdata)]
    BY <1>5 DEF IInv, TypeOK
  <2>2. frames' \in [Threads -> Seq(Frame)]
    BY <1>1, <1>2 DEF IInv, TypeOK
  <2>3. \A u \in Threads : \A i \in DOMAIN frames'[u] :
            (frames'[u][i].guard # None) <=> (frames'[u][i].fn = "process")
    <3>1. \A u \in Threads : \A i \in DOMAIN frames[u] :
              (frames[u][i].guard # None) <=> (frames[u][i].fn = "process")
      BY DEF IInv, TypeOK
    <3>2. (f.guard # None) <=> (f.fn = "process")
      BY DEF GoodFrame
    <3> QED
      BY <1>3, <3>1, <3>2
  <2> QED
    BY <2>1, <2>2, <2>3 DEF IInv, TypeOK, SameKind
<1>7. StackMatchesCalls'
  <2> SUFFICES ASSUME NEW u \in Threads
               PROVE  /\ USERDATA'[u] = IF frames'[u] = <<>> THEN <<>>
                                        ELSE StackUnder(Last(frames'[u]))
                      /\ \A i \in DOMAIN frames'[u] : frames'[u][i].saved =
                             IF i = 1 THEN <<>> ELSE StackUnder(frames'[u][i - 1])
    BY <1>4 DEF StackMatchesCalls, Top, StackUnder, NextUnder
  <2>1. CASE u # t
    BY <2>1, <1>1 DEF IInv, StackMatchesCalls, Top
  <2>2. CASE u = t
    <3>1. Last(frames'[t]) = f
      BY <1>2 DEF Last
    <3>2. frames'[t][n + 1].saved = IF n + 1 = 1 THEN <<>>
                                    ELSE StackUnder(frames'[t][n])
      <4>1. CASE n = 0
        BY <4>1, <1>2, FrameFacts, EmptySeq DEF IInv, StackMatchesCalls
      <4>2. CASE n # 0
        <5>1. frames[t] # <<>> /\ Top(t) = frames[t][n] /\ n \in 1 .. n
          BY <4>2, <1>2, FrameFacts, EmptySeq DEF IInv
        <5> QED
          BY <5>1, <4>2, <1>2 DEF IInv, StackMatchesCalls
      <4> QED
        BY <4>1, <4>2
    <3>3. \A i \in 1 .. n : frames'[t][i].saved =
              IF i = 1 THEN <<>> ELSE StackUnder(frames'[t][i - 1])
      <4>1. \A i \in 1 .. n : frames[t][i].saved =
                IF i = 1 THEN <<>> ELSE StackUnder(frames[t][i - 1])
        BY <1>2 DEF IInv, StackMatchesCalls
      <4>2. \A i \in 1 .. n : i = 1 \/ i - 1 \in 1 .. n
        BY <1>2
      <4> QED
        BY <1>2, <4>1, <4>2, SMTT(20)
    <3>4. \A i \in DOMAIN frames'[t] : i \in 1 .. n \/ i = n + 1
      BY <1>2
    <3>5. \A i \in DOMAIN frames'[t] : frames'[t][i].saved =
              IF i = 1 THEN <<>> ELSE StackUnder(frames'[t][i - 1])
      BY <1>2, <3>2, <3>3, <3>4
    <3> QED
      BY <2>2, <1>1, <1>2, <3>1, <3>5
  <2> QED
    BY <2>1, <2>2
<1>8. GuardsIntact'
  <2>1. \A u \in Threads : \A i \in DOMAIN frames[u] : frames[u][i].conn # f.conn
    BY DEF Idle
  <2>2. \A u \in Threads : \A i \in DOMAIN frames'[u] :
            frames'[u][i].fn = "process" =>
                u \in tls /\ frames'[u][i].guard = conn[frames'[u][i].conn].userdata
    BY <1>3 DEF IInv, GuardsIntact, GoodFrame
  <2>3. \A u, w \in Threads : \A i \in DOMAIN frames'[u], j \in DOMAIN frames'[w] :
            frames'[w][j].conn = frames'[u][i].conn => w = u /\ j = i
    BY <1>3, <2>1 DEF IInv, GuardsIntact
  <2> QED
    BY <2>2, <2>3 DEF GuardsIntact
<1>9. CallbackSeesOwnUserdata'
  BY <1>3 DEF IInv, CallbackSeesOwnUserdata, GoodFrame
<1> QED
  BY <1>6, <1>7, <1>8, <1>9 DEF IInv

\* Returning from a call preserves the invariant, if the stack is restored.
LEMMA PopStep ==
  ASSUME IInv, SameKind, NEW t \in Threads, frames[t] # <<>>,
         PopFrame(t), tls' = tls,
         conn' \in [Conns -> Userdata],
         \A c \in Conns \ {Top(t).conn} : conn'[c] = conn[c],
         USERDATA' = [USERDATA EXCEPT ![t] = Top(t).saved]
  PROVE  IInv'
<1> DEFINE n == Len(frames[t])
<1>1. /\ frames'[t] = Front(frames[t])
      /\ \A u \in Threads \ {t} : frames'[u] = frames[u] /\ USERDATA'[u] = USERDATA[u]
      /\ USERDATA'[t] = Top(t).saved
      /\ frames' = [frames EXCEPT ![t] = Front(@)]
  BY DEF PopFrame, IInv, TypeOK
<1>2. /\ n \in Nat \ {0}
      /\ frames'[t] \in Seq(Frame)
      /\ Len(frames'[t]) = n - 1
      /\ DOMAIN frames[t] = 1 .. n
      /\ DOMAIN frames'[t] = 1 .. n - 1
      /\ \A i \in 1 .. n - 1 : frames'[t][i] = frames[t][i]
      /\ Top(t) = frames[t][n]
      /\ Top(t) \in Frame
  BY <1>1, FrontFacts, FrameFacts DEF IInv
<1>3. \A u \in Threads : \A i \in DOMAIN frames'[u] :
          /\ i \in DOMAIN frames[u]
          /\ frames'[u][i] = frames[u][i]
          /\ ~(u = t /\ i = n)
  BY <1>1, <1>2
<1>4. \A u \in Threads : \A i \in DOMAIN frames'[u] :
          conn'[frames'[u][i].conn] = conn[frames[u][i].conn]
  <2> SUFFICES ASSUME NEW u \in Threads, NEW i \in DOMAIN frames'[u]
               PROVE  conn'[frames'[u][i].conn] = conn[frames[u][i].conn]
    OBVIOUS
  <2>1. frames[u][i] \in Frame /\ i \in DOMAIN frames[u]
    BY <1>3, FrameFacts DEF IInv
  <2>2. frames[u][i].conn # Top(t).conn
    BY <1>2, <1>3, <2>1 DEF IInv, GuardsIntact
  <2>3. frames[u][i].conn \in Conns
    BY <2>1 DEF Frame
  <2> QED
    BY <1>3, <2>2, <2>3
<1>5. \A u \in Threads : \A i \in DOMAIN frames'[u] :
          NextUnder(frames[u][i]) = StackUnder(frames[u][i])
  BY <1>3, <1>4 DEF StackUnder, NextUnder
<1>6. TypeOK'
  <2>1. Top(t).saved \in Seq(Userdata)
    BY <1>2 DEF Frame
  <2>2. USERDATA' \in [Threads -> Seq(Userdata)]
    BY <2>1 DEF IInv, TypeOK
  <2>3. frames' \in [Threads -> Seq(Frame)]
    BY <1>1, <1>2 DEF IInv, TypeOK
  <2>4. \A u \in Threads : \A i \in DOMAIN frames'[u] :
            (frames'[u][i].guard # None) <=> (frames'[u][i].fn = "process")
    BY <1>3 DEF IInv, TypeOK
  <2> QED
    BY <2>2, <2>3, <2>4 DEF IInv, TypeOK, SameKind
<1>7. StackMatchesCalls'
  <2> SUFFICES ASSUME NEW u \in Threads
               PROVE  /\ USERDATA'[u] = IF frames'[u] = <<>> THEN <<>>
                                        ELSE NextUnder(Last(frames'[u]))
                      /\ \A i \in DOMAIN frames'[u] : frames'[u][i].saved =
                             IF i = 1 THEN <<>> ELSE NextUnder(frames'[u][i - 1])
    BY DEF StackMatchesCalls, Top, StackUnder, NextUnder
  <2>1. /\ frames'[u] \in Seq(Frame)
        /\ DOMAIN frames'[u] = 1 .. Len(frames'[u])
        /\ Len(frames'[u]) \in Nat
        /\ frames'[u] # <<>> => Len(frames'[u]) \in DOMAIN frames'[u]
    BY <1>6 DEF TypeOK
  <2>2. \A i \in DOMAIN frames'[u] : frames'[u][i].saved =
            IF i = 1 THEN <<>> ELSE NextUnder(frames'[u][i - 1])
    <3>1. \A i \in DOMAIN frames'[u] : i = 1 \/ i - 1 \in DOMAIN frames'[u]
      BY <2>1
    <3>2. \A i \in DOMAIN frames'[u] : frames[u][i].saved =
              IF i = 1 THEN <<>> ELSE StackUnder(frames[u][i - 1])
      BY <1>3 DEF IInv, StackMatchesCalls
    <3> QED
      BY <1>3, <1>5, <3>1, <3>2
  <2>3. USERDATA'[u] = IF frames'[u] = <<>> THEN <<>>
                       ELSE NextUnder(Last(frames'[u]))
    <3>1. CASE u # t
      <4>1. frames[u] # <<>> => NextUnder(Last(frames[u])) = StackUnder(Last(frames[u]))
        BY <3>1, <1>1, <1>5, <2>1 DEF Last
      <4> QED
        BY <3>1, <4>1, <1>1 DEF IInv, StackMatchesCalls, Top
    <3>2. CASE u = t
      <4>1. Top(t).saved = IF n = 1 THEN <<>> ELSE StackUnder(frames[t][n - 1])
        <5>1. n \in DOMAIN frames[t]
          BY <1>2
        <5> HIDE DEF n
        <5> QED
          BY <1>2, <5>1 DEF IInv, StackMatchesCalls
      <4>2. CASE n = 1
        BY <3>2, <4>1, <4>2, <1>1, <1>2, EmptySeq
      <4>3. CASE n # 1
        <5> HIDE DEF n
        <5>1. n - 1 \in 1 .. n - 1 /\ Len(frames'[t]) # 0
          BY <4>3, <1>2
        <5>2. frames'[t] # <<>>
          BY <5>1
        <5>3. Last(frames'[t]) = frames'[t][n - 1]
          BY <1>2 DEF Last
        <5>4. /\ n - 1 \in DOMAIN frames'[t]
              /\ frames'[t][n - 1] = frames[t][n - 1]
          BY <5>1, <1>2
        <5>5. NextUnder(frames[t][n - 1]) = StackUnder(frames[t][n - 1])
          BY <5>4, <1>5
        <5> QED
          BY <3>2, <4>1, <4>3, <5>2, <5>3, <5>4, <5>5, <1>1
      <4> QED
        BY <4>2, <4>3
    <3> QED
      BY <3>1, <3>2
  <2> QED
    BY <2>2, <2>3
<1>8. GuardsIntact'
  BY <1>3, <1>4 DEF IInv, GuardsIntact
<1>9. CallbackSeesOwnUserdata'
  BY <1>3, <1>4 DEF IInv, CallbackSeesOwnUserdata
<1> QED
  BY <1>6, <1>7, <1>8, <1>9 DEF IInv

\* Changing where the innermost call is preserves the invariant.
LEMMA SetTopStep ==
  ASSUME IInv, NEW t \in Threads, frames[t] # <<>>, NEW f, GoodFrame(f),
         f.fn = Top(t).fn, f.conn = Top(t).conn, f.saved = Top(t).saved,
         SetTop(t, f), UNCHANGED <<live, conn, logger, tls, USERDATA, ret>>
  PROVE  IInv'
<1> DEFINE n == Len(frames[t])
<1>1. /\ frames'[t] = ReplaceLast(frames[t], f)
      /\ \A u \in Threads \ {t} : frames'[u] = frames[u]
      /\ frames' = [frames EXCEPT ![t] = ReplaceLast(@, f)]
  BY DEF SetTop, IInv, TypeOK
<1>2. /\ n \in Nat \ {0}
      /\ frames'[t] \in Seq(Frame)
      /\ frames'[t] # <<>>
      /\ Len(frames'[t]) = n
      /\ DOMAIN frames[t] = 1 .. n
      /\ DOMAIN frames'[t] = 1 .. n
      /\ \A i \in 1 .. n : frames'[t][i] = IF i = n THEN f ELSE frames[t][i]
      /\ Top(t) = frames[t][n]
  <2>1. frames[t] \in Seq(Frame) /\ f \in Frame /\ Top(t) = frames[t][n]
    BY FrameFacts DEF IInv, GoodFrame
  <2>2. n \in Nat \ {0} /\ DOMAIN frames[t] = 1 .. n
    BY <2>1, FrontFacts
  <2>3. /\ ReplaceLast(frames[t], f) \in Seq(Frame)
        /\ ReplaceLast(frames[t], f) # <<>>
        /\ Len(ReplaceLast(frames[t], f)) = n
        /\ DOMAIN ReplaceLast(frames[t], f) = 1 .. n
        /\ \A i \in 1 .. n : ReplaceLast(frames[t], f)[i] =
                                IF i = n THEN f ELSE frames[t][i]
    BY <2>1, <2>2 DEF ReplaceLast
  <2> QED
    BY <1>1, <2>1, <2>2, <2>3
<1> HIDE DEF n
<1>3. \A u \in Threads : DOMAIN frames'[u] = DOMAIN frames[u]
  BY <1>1, <1>2
<1>4. \A u \in Threads : \A i \in DOMAIN frames[u] :
          \/ frames'[u][i] = frames[u][i]
          \/ u = t /\ i = n /\ frames'[u][i] = f
  BY <1>1, <1>2
<1>5. \A u \in Threads : \A i \in DOMAIN frames[u] :
          /\ frames'[u][i].fn = frames[u][i].fn
          /\ frames'[u][i].conn = frames[u][i].conn
          /\ frames'[u][i].saved = frames[u][i].saved
  BY <1>2, <1>4
<1>6. \A u \in Threads : \A i \in DOMAIN frames[u] :
          NextUnder(frames'[u][i]) = StackUnder(frames[u][i])
  BY <1>5 DEF NextUnder, StackUnder
<1>7. TypeOK'
  <2>1. frames' \in [Threads -> Seq(Frame)]
    BY <1>1, <1>2 DEF IInv, TypeOK
  <2>2. \A u \in Threads : \A i \in DOMAIN frames'[u] :
            (frames'[u][i].guard # None) <=> (frames'[u][i].fn = "process")
    <3>1. (f.guard # None) <=> (f.fn = "process")
      BY DEF GoodFrame
    <3>2. \A u \in Threads : \A i \in DOMAIN frames[u] :
              (frames[u][i].guard # None) <=> (frames[u][i].fn = "process")
      BY DEF IInv, TypeOK
    <3> QED
      BY <1>3, <1>4, <3>1, <3>2
  <2> QED
    BY <2>1, <2>2 DEF IInv, TypeOK
<1>8. StackMatchesCalls'
  <2> SUFFICES ASSUME NEW u \in Threads
               PROVE  /\ USERDATA[u] = IF frames'[u] = <<>> THEN <<>>
                                       ELSE NextUnder(Last(frames'[u]))
                      /\ \A i \in DOMAIN frames'[u] : frames'[u][i].saved =
                             IF i = 1 THEN <<>> ELSE NextUnder(frames'[u][i - 1])
    BY DEF StackMatchesCalls, Top, StackUnder, NextUnder
  <2>1. /\ Len(frames[u]) \in Nat
        /\ DOMAIN frames[u] = 1 .. Len(frames[u])
        /\ frames[u] # <<>> => Len(frames[u]) \in DOMAIN frames[u]
    BY FrameFacts DEF IInv
  <2>2. \A i \in DOMAIN frames'[u] : frames'[u][i].saved =
            IF i = 1 THEN <<>> ELSE NextUnder(frames'[u][i - 1])
    <3>1. \A i \in DOMAIN frames[u] : i = 1 \/ i - 1 \in DOMAIN frames[u]
      BY <2>1
    <3>2. \A i \in DOMAIN frames[u] : frames[u][i].saved =
              IF i = 1 THEN <<>> ELSE StackUnder(frames[u][i - 1])
      BY DEF IInv, StackMatchesCalls
    <3> QED
      BY <1>3, <1>5, <1>6, <3>1, <3>2
  <2>3. /\ (frames'[u] = <<>>) <=> (frames[u] = <<>>)
        /\ Len(frames'[u]) = Len(frames[u])
    BY <1>1, <1>2 DEF n
  <2>4. frames[u] # <<>> => NextUnder(Last(frames'[u])) = StackUnder(Last(frames[u]))
    BY <1>6, <2>1, <2>3 DEF Last
  <2> QED
    BY <2>2, <2>3, <2>4 DEF IInv, StackMatchesCalls, Top
<1>9. GuardsIntact'
  <2>1. \A u \in Threads : \A i \in DOMAIN frames[u] :
            frames'[u][i].fn = "process" =>
                u \in tls /\ frames'[u][i].guard = conn[frames'[u][i].conn].userdata
    BY <1>2, <1>4, <1>5, SMTT(20) DEF IInv, GuardsIntact, GoodFrame
  <2> QED
    BY <1>3, <1>5, <2>1, SMTT(20) DEF IInv, GuardsIntact
<1>10. CallbackSeesOwnUserdata'
  BY <1>3, <1>4 DEF IInv, CallbackSeesOwnUserdata, GoodFrame
<1> QED
  BY <1>7, <1>8, <1>9, <1>10 DEF IInv

\* Changing a connection that is in no call preserves the invariant.
LEMMA IdleStep ==
  ASSUME IInv, SameKind, NEW c \in Conns, Idle(c),
         conn' \in [Conns -> Userdata],
         \A d \in Conns \ {c} : conn'[d] = conn[d],
         UNCHANGED <<tls, USERDATA, frames>>
  PROVE  IInv'
<1>1. \A u \in Threads : \A i \in DOMAIN frames[u] :
          conn'[frames[u][i].conn] = conn[frames[u][i].conn]
  <2> SUFFICES ASSUME NEW u \in Threads, NEW i \in DOMAIN frames[u]
               PROVE  conn'[frames[u][i].conn] = conn[frames[u][i].conn]
    OBVIOUS
  <2>1. frames[u][i].conn \in Conns
    BY FrameFacts DEF IInv, Frame
  <2> QED
    BY <2>1 DEF Idle
<1>2. \A u \in Threads : \A i \in DOMAIN frames[u] :
          NextUnder(frames[u][i]) = StackUnder(frames[u][i])
  BY <1>1 DEF StackUnder, NextUnder
<1>3. TypeOK'
  BY DEF IInv, TypeOK, SameKind
<1>4. StackMatchesCalls'
  <2> SUFFICES ASSUME NEW u \in Threads
               PROVE  /\ USERDATA[u] = IF frames[u] = <<>> THEN <<>>
                                       ELSE NextUnder(Last(frames[u]))
                      /\ \A i \in DOMAIN frames[u] : frames[u][i].saved =
                             IF i = 1 THEN <<>> ELSE NextUnder(frames[u][i - 1])
    BY DEF StackMatchesCalls, Top, StackUnder, NextUnder
  <2>1. /\ DOMAIN frames[u] = 1 .. Len(frames[u])
        /\ Len(frames[u]) \in Nat
        /\ frames[u] # <<>> => Len(frames[u]) \in DOMAIN frames[u]
    BY FrameFacts DEF IInv
  <2>2. \A i \in DOMAIN frames[u] : i = 1 \/ i - 1 \in DOMAIN frames[u]
    BY <2>1
  <2> QED
    BY <1>2, <2>1, <2>2 DEF IInv, StackMatchesCalls, Top, Last
<1>5. GuardsIntact' /\ CallbackSeesOwnUserdata'
  BY <1>1 DEF IInv, GuardsIntact, CallbackSeesOwnUserdata
<1> QED
  BY <1>3, <1>4, <1>5 DEF IInv

-----------------------------------------------------------------------------
(***************************************************************************)
(* The frames the calls push and the pops they end with.                   *)
(***************************************************************************)

\* A frame without a guard is good and adds nothing to the stack.
LEMMA PlainFrame ==
  ASSUME IInv, NEW t \in Threads, NEW c \in Conns, NEW fn \in ApiFns \ {"process"}
  PROVE  LET f == NewFrame(t, fn, c, None)
         IN  /\ GoodFrame(f)
             /\ f.saved = USERDATA[t] /\ f.conn = c /\ f.fn = fn
             /\ StackUnder(f) = USERDATA[t]
             /\ USERDATA = [USERDATA EXCEPT ![t] = StackUnder(f)]
BY UserdataAssumption DEF NewFrame, GoodFrame, Frame, IInv, TypeOK, StackUnder, ApiFns

\* Dropping the guard of the innermost call, explicitly or while unwinding,
\* succeeds and restores the stack that the call found.
LEMMA DropRestores ==
  ASSUME IInv, NEW t \in Threads, frames[t] # <<>>, Top(t).fn = "process"
  PROVE  /\ try_drop(t, USERDATA[t], Top(t).guard).err = "None"
         /\ try_drop(t, USERDATA[t], Top(t).guard).stack = Top(t).saved
         /\ drop_guard(t, USERDATA[t], Top(t).guard) = Top(t).saved
<1> DEFINE f == Top(t)
<1>1. /\ f \in Frame
      /\ f = frames[t][Len(frames[t])]
      /\ Len(frames[t]) \in DOMAIN frames[t]
  BY FrameFacts DEF IInv
<1>2. /\ t \in tls
      /\ f.guard = conn[f.conn].userdata
      /\ f.guard # None
  BY <1>1 DEF IInv, GuardsIntact, TypeOK
<1>3. f.saved \in Seq(Userdata) /\ conn[f.conn] \in Userdata
  BY <1>1 DEF IInv, TypeOK, Frame
<1>4. USERDATA[t] = Append(f.saved, conn[f.conn])
  BY Zenon DEF IInv, StackMatchesCalls, StackUnder
<1>5. /\ USERDATA[t] # <<>>
      /\ Front(USERDATA[t]) = f.saved
      /\ Last(USERDATA[t]) = conn[f.conn]
  BY <1>3, <1>4, PopAppend
<1> HIDE DEF f
<1>6. /\ try_pop(t, USERDATA[t], f.guard).err = "None"
      /\ try_pop(t, USERDATA[t], f.guard).stack = f.saved
      /\ try_pop(t, USERDATA[t], f.guard).data = None
  BY <1>2, <1>5 DEF try_pop
<1>7. drop_guard(t, f.saved, None) = f.saved
  BY DEF drop_guard, try_pop
<1>8. drop_guard(t, USERDATA[t], f.guard) = f.saved
  BY <1>6 DEF drop_guard
<1>9. /\ try_drop(t, USERDATA[t], f.guard).err = "None"
      /\ try_drop(t, USERDATA[t], f.guard).stack = f.saved
  BY <1>6, <1>7, SMTT(20) DEF try_drop
<1> QED
  BY <1>8, <1>9, SMTT(20) DEF f

\* The innermost call is as the invariant says.
LEMMA TopGood ==
  ASSUME IInv, NEW t \in Threads, frames[t] # <<>>
  PROVE  GoodFrame(Top(t)) /\ Top(t).conn \in Conns
<1>1. /\ Top(t) \in Frame
      /\ Top(t) = frames[t][Len(frames[t])]
      /\ Len(frames[t]) \in DOMAIN frames[t]
  BY FrameFacts DEF IInv
<1>2. (Top(t).guard # None) <=> (Top(t).fn = "process")
  BY <1>1 DEF IInv, TypeOK
<1>3. Top(t).fn = "process" =>
        /\ Top(t).guard = conn[Top(t).conn].userdata
        /\ ~Top(t).refused
        /\ Top(t).at = "callback" => Top(t).arg = conn[Top(t).conn].userdata
        /\ Top(t).cb = "log" => Top(t).cbfn = conn[Top(t).conn].log_callback
  BY <1>1 DEF IInv, GuardsIntact, CallbackSeesOwnUserdata
<1>4. Top(t).conn \in Conns
  BY <1>1 DEF Frame
<1> QED
  BY <1>1, <1>2, <1>3, <1>4 DEF GoodFrame

\* The entry that a callback below process_new_packets reads is that of the
\* connection being processed.
LEMMA LastEntryOwn ==
  ASSUME IInv, NEW t \in Threads, frames[t] # <<>>, Top(t).fn = "process"
  PROVE  /\ last_entry(t).err = "None"
         /\ last_entry(t).entry = conn[Top(t).conn]
<1>1. Top(t) \in Frame /\ t \in tls
  BY FrameFacts DEF IInv, GuardsIntact
<1>2. Top(t).saved \in Seq(Userdata) /\ conn[Top(t).conn] \in Userdata
  BY <1>1 DEF IInv, TypeOK, Frame
<1>3. USERDATA[t] = Append(Top(t).saved, conn[Top(t).conn])
  BY Zenon DEF IInv, StackMatchesCalls, StackUnder
<1>4. USERDATA[t] # <<>> /\ Last(USERDATA[t]) = conn[Top(t).conn]
  BY <1>2, <1>3, PopAppend
<1> QED
  BY <1>1, <1>4 DEF last_entry

-----------------------------------------------------------------------------
(***************************************************************************)
(* One lemma per group of actions, and the theorem.                        *)
(***************************************************************************)

\* Creating a connection, and the calls that do not push, preserve the
\* invariant when they are entered.
LEMMA EnterPreserves ==
  ASSUME IInv, NEW t \in Threads, NEW c \in Conns,
         \/ ConnectionNew(t, c)
         \/ SendCloseNotify(t, c)
         \/ \E u \in Ptrs : TlsIo(t, c, u)
  PROVE  IInv'
<1>1. ASSUME NEW fn \in {"new", "plain"}, Idle(c),
             PushFrame(t, NewFrame(t, fn, c, None)),
             UNCHANGED <<live, conn, logger, tls, USERDATA, ret>>
      PROVE  IInv'
  <2> DEFINE f == NewFrame(t, fn, c, None)
  <2>1. /\ GoodFrame(f) /\ f.saved = USERDATA[t] /\ f.conn = c /\ f.fn = fn
        /\ USERDATA' = [USERDATA EXCEPT ![t] = StackUnder(f)]
    BY <1>1, PlainFrame DEF ApiFns
  <2>2. SameKind
    BY <1>1 DEF SameKind, IInv, TypeOK
  <2> HIDE DEF f
  <2>3. PushFrame(t, f)
    BY <1>1 DEF f
  <2> QED
    BY <1>1, <2>1, <2>2, <2>3, PushStep, ZenonT(20)
<1>2. ASSUME NEW u \in Ptrs, TlsIo(t, c, u)
      PROVE  IInv'
  <2> DEFINE f == [NewFrame(t, "io", c, None) EXCEPT
                      !.at = "callback", !.cb = "io", !.arg = u]
  <2>1. /\ GoodFrame(f) /\ f.saved = USERDATA[t] /\ f.conn = c /\ f.fn = "io"
        /\ StackUnder(f) = USERDATA[t]
    BY UserdataAssumption, Zenon
    DEF NewFrame, GoodFrame, Frame, IInv, TypeOK, StackUnder, ApiFns
  <2> HIDE DEF f
  <2>2. /\ PushFrame(t, f) /\ Idle(c)
        /\ UNCHANGED <<live, conn, logger, tls, USERDATA, ret>>
    BY <1>2, Zenon DEF TlsIo, f
  <2>3. SameKind /\ USERDATA' = [USERDATA EXCEPT ![t] = StackUnder(f)]
    BY <2>1, <2>2 DEF SameKind, IInv, TypeOK
  <2> QED
    BY <2>1, <2>2, <2>3, PushStep, Zenon
<1> QED
  BY <1>1, <1>2 DEF ConnectionNew, SendCloseNotify

\* Entering process_new_packets pushes the entry that its frame accounts for.
LEMMA ProcessPreserves ==
  ASSUME IInv, NEW t \in Threads, NEW c \in Conns, ProcessNewPackets(t, c)
  PROVE  IInv'
<1>1. CASE t \in tls
  <2> DEFINE f == NewFrame(t, "process", c, conn[c].userdata)
  <2>1. conn[c] \in Userdata
    BY DEF IInv, TypeOK
  <2>2. [userdata |-> conn[c].userdata, log_callback |-> conn[c].log_callback] = conn[c]
    BY <2>1 DEF Userdata
  <2>3. /\ GoodFrame(f) /\ f.saved = USERDATA[t] /\ f.conn = c /\ f.fn = "process"
        /\ StackUnder(f) = Append(USERDATA[t], conn[c])
    BY <2>1, UserdataAssumption, ZenonT(20)
    DEF NewFrame, GoodFrame, Frame, IInv, TypeOK, StackUnder, ApiFns, Userdata
  <2> HIDE DEF f
  <2>4. /\ USERDATA' = [USERDATA EXCEPT ![t] = StackUnder(f)]
        /\ PushFrame(t, f) /\ Idle(c)
        /\ UNCHANGED <<live, conn, logger, tls, ret>>
    BY <1>1, <2>2, <2>3 DEF ProcessNewPackets, userdata_push, UserdataGuard_new, f
  <2>5. SameKind
    BY <2>4 DEF SameKind, IInv, TypeOK
  <2> QED
    BY <1>1, <2>3, <2>4, <2>5, PushStep, Zenon
<1>2. CASE t \notin tls
  <2>1. /\ ret' = [ret EXCEPT ![t] = "Panic"] /\ Idle(c)
        /\ UNCHANGED <<live, conn, logger, tls, USERDATA, frames>>
    BY <1>2, Zenon DEF ProcessNewPackets, userdata_push
  <2>2. SameKind /\ conn' \in [Conns -> Userdata]
    BY <2>1 DEF SameKind, IInv, TypeOK
  <2> QED
    BY <2>1, <2>2, IdleStep
<1> QED
  BY <1>1, <1>2

\* Managing a connection that is in no call preserves the invariant.
LEMMA ManagePreserves ==
  ASSUME IInv, NEW t \in Threads, NEW c \in Conns,
         \/ ConnectionFree(t, c)
         \/ \E u \in Ptrs : SetUserdata(t, c, u)
         \/ \E cb \in LogFns \cup {None} : SetLogCallback(t, c, cb)
  PROVE  IInv'
<1>1. conn \in [Conns -> Userdata] /\ conn[c] \in Userdata
  BY DEF IInv, TypeOK
<1>2. /\ Idle(c)
      /\ UNCHANGED <<tls, USERDATA, frames>>
      /\ \E e \in Userdata : conn' = [conn EXCEPT ![c] = e]
  BY <1>1, UserdataAssumption
  DEF ConnectionFree, SetUserdata, SetLogCallback, Userdata
<1>3. /\ conn' \in [Conns -> Userdata]
      /\ \A d \in Conns \ {c} : conn'[d] = conn[d]
  BY <1>1, <1>2
<1>4. SameKind
  BY DEF SameKind, IInv, TypeOK, ConnectionFree, SetUserdata, SetLogCallback,
         ensure_log_registered
<1> QED
  BY <1>2, <1>3, <1>4, IdleStep

\* The returns of the calls that did not push leave the stack as it is, which
\* is the stack they found.
LEMMA PlainReturnPreserves ==
  ASSUME IInv, NEW t \in Threads,
         \/ ConnectionNewReturns(t)
         \/ SendCloseNotifyReturns(t)
         \/ TlsIoReturns(t)
  PROVE  IInv' /\ USERDATA'[t] = Top(t).saved
<1>1. /\ frames[t] # <<>> /\ Top(t).fn # "process" /\ PopFrame(t)
      /\ UNCHANGED <<logger, tls, USERDATA, ret>>
  BY DEF ConnectionNewReturns, SendCloseNotifyReturns, TlsIoReturns, InRustls
<1>2. Top(t).conn \in Conns
  BY <1>1, TopGood
<1>3. USERDATA[t] = Top(t).saved
  BY <1>1 DEF IInv, StackMatchesCalls, StackUnder
<1>4. USERDATA' = [USERDATA EXCEPT ![t] = Top(t).saved]
  BY <1>1, <1>3 DEF IInv, TypeOK
<1>5. /\ conn' \in [Conns -> Userdata]
      /\ \A d \in Conns \ {Top(t).conn} : conn'[d] = conn[d]
  <2> DEFINE e == [userdata |-> NULL, log_callback |-> None]
  <2>1. e \in Userdata /\ conn \in [Conns -> Userdata]
    BY UserdataAssumption DEF Userdata, IInv, TypeOK
  <2>2. conn' = conn \/ conn' = [conn EXCEPT ![Top(t).conn] = e]
    BY DEF ConnectionNewReturns, SendCloseNotifyReturns, TlsIoReturns
  <2> HIDE DEF e
  <2> QED
    BY <1>2, <2>1, <2>2
<1>6. SameKind
  BY <1>1, <1>2
  DEF SameKind, IInv, TypeOK, ConnectionNewReturns, SendCloseNotifyReturns, TlsIoReturns
<1> QED
  BY <1>1, <1>3, <1>4, <1>5, <1>6, PopStep, ZenonT(20)

\* process_new_packets returns the stack it found, and the result of rustls.
LEMMA ProcessReturnPreserves ==
  ASSUME IInv, NEW t \in Threads, NEW r \in {"Ok", "Error"}, ProcessReturns(t, r)
  PROVE  IInv' /\ USERDATA'[t] = Top(t).saved /\ ret'[t] = r
<1>1. /\ frames[t] # <<>> /\ Top(t).fn = "process" /\ PopFrame(t)
      /\ UNCHANGED <<live, conn, logger, tls>>
  BY DEF ProcessReturns, InRustls
<1>2. /\ USERDATA' = [USERDATA EXCEPT ![t] = Top(t).saved]
      /\ ret' = [ret EXCEPT ![t] = r]
  BY <1>1, DropRestores, Zenon DEF ProcessReturns
<1>3. SameKind /\ conn' \in [Conns -> Userdata]
  BY <1>1, <1>2 DEF SameKind, IInv, TypeOK
<1>4. USERDATA'[t] = Top(t).saved /\ ret'[t] = r
  BY <1>2 DEF IInv, TypeOK
<1> QED
  BY <1>1, <1>2, <1>3, <1>4, PopStep, Zenon

\* Unwinding restores the stack too.
LEMMA UnwindPreserves ==
  ASSUME IInv, NEW t \in Threads, Unwind(t)
  PROVE  IInv' /\ USERDATA'[t] = Top(t).saved
<1>1. /\ frames[t] # <<>> /\ PopFrame(t)
      /\ ret' = [ret EXCEPT ![t] = "Panic"]
      /\ USERDATA' = [USERDATA EXCEPT ![t] = drop_guard(t, USERDATA[t], Top(t).guard)]
      /\ UNCHANGED <<live, conn, logger, tls>>
  BY DEF Unwind
<1>2. drop_guard(t, USERDATA[t], Top(t).guard) = Top(t).saved
  <2>1. CASE Top(t).fn = "process"
    BY <1>1, <2>1, DropRestores, SMTT(20)
  <2>2. CASE Top(t).fn # "process"
    <3>1. Top(t).guard = None
      BY <1>1, <2>2, TopGood DEF GoodFrame
    <3>2. USERDATA[t] = Top(t).saved
      BY <1>1, <2>2 DEF IInv, StackMatchesCalls, StackUnder
    <3> QED
      BY <3>1, <3>2, SMTT(20) DEF drop_guard, try_pop
  <2> QED
    BY <2>1, <2>2
<1>3. USERDATA' = [USERDATA EXCEPT ![t] = Top(t).saved]
  BY <1>1, <1>2
<1>4. SameKind /\ conn' \in [Conns -> Userdata]
  BY <1>1 DEF SameKind, IInv, TypeOK
<1>5. USERDATA'[t] = Top(t).saved
  BY <1>3 DEF IInv, TypeOK
<1> QED
  BY <1>1, <1>3, <1>4, <1>5, PopStep, Zenon

\* A callback starts or ends, or rustls panics: only the innermost call
\* changes.  The number of calls in progress stays the same.
LEMMA CallbackPreserves ==
  ASSUME IInv, NEW t \in Threads,
         \/ Panic(t) \/ AppCallback(t) \/ LogCallback(t) \/ CallbackReturns(t)
  PROVE  /\ IInv'
         /\ \E f : SetTop(t, f)
         /\ frames[t] # <<>>
<1>1. /\ frames[t] # <<>>
      /\ UNCHANGED <<live, conn, logger, tls, USERDATA, ret>>
  BY SMTT(20) DEF Panic, AppCallback, LogCallback, CallbackReturns, InRustls
<1>2. GoodFrame(Top(t)) /\ Top(t) \in Frame /\ Top(t).conn \in Conns
  BY <1>1, TopGood, SMTT(20) DEF GoodFrame
<1> SUFFICES \E f : /\ GoodFrame(f) /\ SetTop(t, f)
                    /\ f.fn = Top(t).fn /\ f.conn = Top(t).conn
                    /\ f.saved = Top(t).saved
  BY <1>1, SetTopStep
<1> DEFINE g == Top(t)
<1>3. CASE Panic(t)
  <2> DEFINE h == [g EXCEPT !.at = "unwinding"]
  <2>1. GoodFrame(h) /\ h.fn = g.fn /\ h.conn = g.conn /\ h.saved = g.saved
    BY <1>2 DEF GoodFrame, Frame
  <2>2. SetTop(t, h)
    BY <1>3 DEF Panic
  <2> QED
    BY <2>1, <2>2, Zenon
<1>4. CASE AppCallback(t)
  <2>1. /\ last_entry(t).err = "None" /\ g.fn = "process"
        /\ last_entry(t).entry = conn[g.conn]
    BY <1>1, <1>4, LastEntryOwn DEF AppCallback
  <2> DEFINE h == [g EXCEPT !.at = "callback", !.cb = "app",
                            !.arg = conn[g.conn].userdata]
  <2>2. conn[g.conn].userdata \in Ptrs
    BY <1>2 DEF IInv, TypeOK, Userdata
  <2>3. GoodFrame(h) /\ h.fn = g.fn /\ h.conn = g.conn /\ h.saved = g.saved
    BY <1>2, <2>2, Zenon DEF GoodFrame, Frame
  <2>4. SetTop(t, h)
    BY <1>4, <2>1 DEF AppCallback
  <2> QED
    BY <2>3, <2>4, Zenon
<1>5. CASE LogCallback(t)
  <2> DEFINE e == last_entry(t).entry
             h == [g EXCEPT !.at = "callback", !.cb = "log",
                            !.cbfn = e.log_callback, !.arg = e.userdata]
  <2>1. e \in Userdata
    <3>1. USERDATA[t] # <<>> /\ e = Last(USERDATA[t])
      BY <1>5 DEF LogCallback, last_entry
    <3>2. USERDATA[t] \in Seq(Userdata)
      BY DEF IInv, TypeOK
    <3> QED
      BY <3>1, <3>2 DEF Last
  <2>2. g.fn = "process" => e = conn[g.conn]
    BY <1>1, LastEntryOwn
  <2>3. SetTop(t, h)
    BY <1>5 DEF LogCallback
  <2> HIDE DEF e
  <2>4. GoodFrame(h) /\ h.fn = g.fn /\ h.conn = g.conn /\ h.saved = g.saved
    BY <1>2, <2>1, <2>2, Zenon DEF GoodFrame, Frame, Userdata
  <2> QED
    BY <2>3, <2>4, Zenon
<1>6. CASE CallbackReturns(t)
  <2> DEFINE h == [g EXCEPT !.at = "rustls", !.cb = "none",
                            !.cbfn = None, !.arg = NULL]
  <2>1. GoodFrame(h) /\ h.fn = g.fn /\ h.conn = g.conn /\ h.saved = g.saved
    BY <1>2, UserdataAssumption, Zenon DEF GoodFrame, Frame
  <2>2. SetTop(t, h)
    BY <1>6 DEF CallbackReturns
  <2> QED
    BY <2>1, <2>2, Zenon
<1> QED
  BY <1>3, <1>4, <1>5, <1>6

\* A thread that exits is in no call, so its stack is empty already.
LEMMA ThreadExitPreserves ==
  ASSUME IInv, NEW t \in Threads, ThreadExit(t)
  PROVE  IInv'
<1>1. USERDATA[t] = <<>> /\ DOMAIN frames[t] = {}
  BY DEF ThreadExit, IInv, StackMatchesCalls
<1>2. USERDATA' = USERDATA
  BY <1>1 DEF ThreadExit, IInv, TypeOK
<1>3. TypeOK'
  BY <1>2, SMTT(20) DEF ThreadExit, IInv, TypeOK
<1>4. StackMatchesCalls' /\ CallbackSeesOwnUserdata'
  BY <1>2 DEF ThreadExit, IInv, StackMatchesCalls, CallbackSeesOwnUserdata, StackUnder, Top
<1>5. GuardsIntact'
  BY <1>1 DEF ThreadExit, IInv, GuardsIntact
<1> QED
  BY <1>3, <1>4, <1>5 DEF IInv

\* The invariant is inductive.
LEMMA NextIInv == IInv /\ [Next]_vars => IInv'
<1> SUFFICES ASSUME IInv, [Next]_vars PROVE IInv'
  OBVIOUS
<1>1. CASE UNCHANGED vars
  <2>1. TypeOK' /\ GuardsIntact' /\ CallbackSeesOwnUserdata'
    BY <1>1, SMTT(20) DEF vars, IInv, TypeOK, GuardsIntact, CallbackSeesOwnUserdata
  <2>2. StackMatchesCalls'
    BY <1>1 DEF vars, IInv, StackMatchesCalls, StackUnder, Top
  <2> QED
    BY <2>1, <2>2, SMTT(20) DEF IInv
<1>2. ASSUME NEW t \in Threads, ThreadStep(t) PROVE IInv'
  BY <1>2, PlainReturnPreserves, ProcessReturnPreserves, UnwindPreserves,
     CallbackPreserves, ThreadExitPreserves DEF ThreadStep
<1>3. ASSUME NEW t \in Threads, NEW c \in Conns, ConnCall(t, c) PROVE IInv'
  BY <1>3, EnterPreserves, ProcessPreserves, ManagePreserves DEF ConnCall
<1> QED
  BY <1>1, <1>2, <1>3 DEF Next

\* In every reachable state the stack of each thread has one entry per
\* process_new_packets call in progress on it, the guards are intact, and
\* every callback below such a call gets its connection's userdata.
THEOREM UserdataInvariant == Spec => []IInv
BY InitIInv, NextIInv, PTL DEF Spec

\* The variables keep their types.
THEOREM UserdataTypes == Spec => []TypeOK
<1>1. IInv => TypeOK
  BY DEF IInv
<1> QED
  BY <1>1, UserdataInvariant, PTL

\* The stack of a thread (lib.rs:46-59) mirrors its process_new_packets calls.
THEOREM StackMatchesCallsAlways == Spec => []StackMatchesCalls
<1>1. IInv => StackMatchesCalls
  BY DEF IInv
<1> QED
  BY <1>1, UserdataInvariant, PTL

\* What a live UserdataGuard relies on holds as long as it lives.
THEOREM GuardsIntactAlways == Spec => []GuardsIntact
<1>1. IInv => GuardsIntact
  BY DEF IInv
<1> QED
  BY <1>1, UserdataInvariant, PTL

\* Callbacks below process_new_packets get the right userdata, at any nesting
\* depth and for any number of threads and connections.
THEOREM CallbackSeesOwnUserdataAlways == Spec => []CallbackSeesOwnUserdata
<1>1. IInv => CallbackSeesOwnUserdata
  BY DEF IInv
<1> QED
  BY <1>1, UserdataInvariant, PTL

-----------------------------------------------------------------------------
(***************************************************************************)
(* What a return does.                                                     *)
(***************************************************************************)

\* A step shortens the call stack of a thread only by one of its returns.
LEMMA ShorterIsReturn ==
  ASSUME IInv, [Next]_vars, NEW t \in Threads, Len(frames'[t]) < Len(frames[t])
  PROVE  \/ ConnectionNewReturns(t) \/ SendCloseNotifyReturns(t) \/ TlsIoReturns(t)
         \/ \E r \in {"Ok", "Error"} : ProcessReturns(t, r)
         \/ Unwind(t)
<1>1. frames \in [Threads -> Seq(Frame)] /\ frames[t] \in Seq(Frame) /\ Len(frames[t]) \in Nat
  BY FrameFacts DEF IInv, TypeOK
<1>2. frames' # frames
  BY <1>1
<1>3. ASSUME NEW w \in Threads, \/ \E f : SetTop(w, f) /\ frames[w] # <<>>
                                \/ \E f : PushFrame(w, f)
      PROVE  FALSE
  <2>1. CASE w # t
    BY <1>1, <1>3, <2>1 DEF SetTop, PushFrame
  <2>2. ASSUME w = t, NEW f, SetTop(t, f), frames[t] # <<>> PROVE FALSE
    <3>1. Len(ReplaceLast(frames[t], f)) = Len(frames[t])
      BY <1>1, <2>2 DEF ReplaceLast
    <3> QED
      BY <1>1, <2>2, <3>1 DEF SetTop
  <2>3. ASSUME w = t, NEW f, PushFrame(t, f) PROVE FALSE
    <3>1. frames'[t] = Append(frames[t], f)
      BY <1>1, <2>3 DEF PushFrame
    <3>2. Len(Append(frames[t], f)) = Len(frames[t]) + 1
      BY <1>1
    <3> QED
      BY <1>1, <3>1, <3>2
  <2> QED
    BY <1>3, <2>1, <2>2, <2>3
<1>4. ASSUME NEW w \in Threads, PopFrame(w) PROVE w = t
  BY <1>1, <1>4 DEF PopFrame
<1>5. ASSUME NEW w \in Threads, NEW c \in Conns, ConnCall(w, c) PROVE FALSE
  BY <1>2, <1>3, <1>5, Zenon
  DEF ConnCall, ConnectionNew, ConnectionFree, SetUserdata, SetLogCallback,
      ProcessNewPackets, SendCloseNotify, TlsIo
<1>6. ASSUME NEW w \in Threads, ThreadStep(w)
      PROVE  \/ ConnectionNewReturns(t) \/ SendCloseNotifyReturns(t) \/ TlsIoReturns(t)
             \/ \E r \in {"Ok", "Error"} : ProcessReturns(t, r)
             \/ Unwind(t)
  <2>1. ~ (Panic(w) \/ AppCallback(w) \/ LogCallback(w) \/ CallbackReturns(w))
    BY <1>3, CallbackPreserves
  <2>2. ~ ThreadExit(w)
    BY <1>2 DEF ThreadExit
  <2>3. w = t
    BY <1>4, <1>6, <2>1, <2>2, Zenon
    DEF ThreadStep, ConnectionNewReturns, SendCloseNotifyReturns, TlsIoReturns,
        ProcessReturns, Unwind
  <2> QED
    BY <1>6, <2>1, <2>2, <2>3 DEF ThreadStep
<1> QED
  BY <1>2, <1>5, <1>6 DEF Next, vars

\* Every return, normal or by unwinding, leaves the stack as the call found
\* it (the guard of lib.rs:61-122), for any number of threads and any nesting.
THEOREM StackRestoredAlways == Spec => StackRestored
<1>1. IInv /\ [Next]_vars =>
        [\A t \in Threads :
            Len(frames'[t]) < Len(frames[t]) => USERDATA'[t] = Top(t).saved]_vars
  BY ShorterIsReturn, PlainReturnPreserves, ProcessReturnPreserves, UnwindPreserves
<1> QED
  BY <1>1, UserdataInvariant, PTL DEF Spec, StackRestored

\* process_new_packets reports Panic after reaching rustls only for a panic
\* of rustls: the explicit try_drop (connection.rs:261-264) never fails.
THEOREM PanicOnlyIfPanickedAlways == Spec => PanicOnlyIfPanicked
<1>1. ASSUME IInv, [Next]_vars, NEW t \in Threads,
             Len(frames'[t]) < Len(frames[t]),
             Top(t).fn = "process", ret'[t] = "Panic"
      PROVE  Top(t).at = "unwinding"
  <2>1. ~ (ConnectionNewReturns(t) \/ SendCloseNotifyReturns(t) \/ TlsIoReturns(t))
    BY <1>1 DEF ConnectionNewReturns, SendCloseNotifyReturns, TlsIoReturns
  <2>2. ~ \E r \in {"Ok", "Error"} : ProcessReturns(t, r)
    BY <1>1, ProcessReturnPreserves
  <2> QED
    BY <1>1, <2>1, <2>2, ShorterIsReturn, Zenon DEF Unwind
<1>2. IInv /\ [Next]_vars =>
        [\A t \in Threads :
            (/\ Len(frames'[t]) < Len(frames[t])
             /\ Top(t).fn = "process"
             /\ ret'[t] = "Panic") => Top(t).at = "unwinding"]_vars
  BY <1>1
<1> QED
  BY <1>2, UserdataInvariant, PTL DEF Spec, PanicOnlyIfPanicked
=============================================================================
