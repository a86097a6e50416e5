------------------------ MODULE UserdataScopeProofs ------------------------
(***************************************************************************)
(* UserdataStack implements CallbackScope, for every set of threads,       *)
(* connections and pointers: with the stack and the guards hidden, each    *)
(* step of the library is a step that the specification without a stack    *)
(* allows.                                                                 *)
(***************************************************************************)
EXTENDS UserdataStackProofs

-----------------------------------------------------------------------------
(* The calls of one thread, as CallbackScope has them. *)

Call == [fn : ApiFns, conn : Conns, at : {"rustls", "callback", "unwinding"},
         cb : {"none", "app", "log", "io"}, cbfn : LogFns \cup {None}, arg : Ptrs]

Abs(s) == [i \in DOMAIN s |-> AbstractCall(s[i])]

\* Abs keeps the length of a sequence of frames, and where each frame is.
LEMMA AbsShape ==
  ASSUME NEW s \in Seq(Frame)
  PROVE  /\ Abs(s) \in Seq(Call)
         /\ Len(Abs(s)) = Len(s)
         /\ DOMAIN Abs(s) = 1 .. Len(s)
         /\ \A i \in 1 .. Len(s) : Abs(s)[i] = AbstractCall(s[i])
         /\ (Abs(s) = <<>>) <=> (s = <<>>)
         /\ s # <<>> => Last(Abs(s)) = AbstractCall(Last(s))
<1>1. Len(s) \in Nat /\ DOMAIN s = 1 .. Len(s)
  OBVIOUS
<1>2. \A f \in Frame : AbstractCall(f) \in Call
  BY DEF AbstractCall, Frame, Call
<1>3. \A i \in 1 .. Len(s) : Abs(s)[i] = AbstractCall(s[i]) /\ Abs(s)[i] \in Call
  BY <1>1, <1>2 DEF Abs
<1>4. Abs(s) \in [1 .. Len(s) -> Call]
  BY <1>1, <1>2 DEF Abs
<1>5. Abs(s) \in Seq(Call) /\ Len(Abs(s)) = Len(s)
  BY <1>1, <1>4
<1>6. s # <<>> => Len(s) \in 1 .. Len(s)
  BY <1>1
<1> QED
  BY <1>1, <1>3, <1>5, <1>6 DEF Last

\* Abs of a stack that is pushed, popped or changed at its top.
LEMMA AbsMoves ==
  ASSUME NEW s \in Seq(Frame), NEW f \in Frame
  PROVE  /\ Abs(Append(s, f)) = Append(Abs(s), AbstractCall(f))
         /\ s # <<>> => /\ Abs(Front(s)) = Front(Abs(s))
                        /\ Abs(ReplaceLast(s, f)) = ReplaceLast(Abs(s), AbstractCall(f))
<1> DEFINE a == Abs(s)
           b == AbstractCall(f)
           n == Len(s)
<1>1. /\ a \in Seq(Call) /\ Len(a) = n /\ DOMAIN a = 1 .. n
      /\ \A i \in 1 .. n : a[i] = AbstractCall(s[i])
      /\ n \in Nat /\ DOMAIN s = 1 .. n
      /\ (a = <<>>) <=> (s = <<>>)
  BY AbsShape
<1>2. b \in Call
  BY DEF AbstractCall, Frame, Call
<1>3. Abs(Append(s, f)) = Append(a, b)
  <2>1. /\ Append(s, f) \in Seq(Frame) /\ Len(Append(s, f)) = n + 1
        /\ \A i \in 1 .. n : Append(s, f)[i] = s[i]
        /\ Append(s, f)[n + 1] = f
    BY <1>1, AppendProperties
  <2>2. /\ Append(a, b) \in Seq(Call) /\ Len(Append(a, b)) = n + 1
        /\ \A i \in 1 .. n : Append(a, b)[i] = a[i]
        /\ Append(a, b)[n + 1] = b
    BY <1>1, <1>2, AppendProperties
  <2>3. /\ Abs(Append(s, f)) \in Seq(Call) /\ Len(Abs(Append(s, f))) = n + 1
        /\ \A i \in 1 .. n + 1 : Abs(Append(s, f))[i] = AbstractCall(Append(s, f)[i])
    BY <2>1, AbsShape, Zenon
  <2> HIDE DEF a, b, n
  <2>4. \A i \in 1 .. n + 1 : Abs(Append(s, f))[i] = Append(a, b)[i]
    <3>1. \A i \in 1 .. n + 1 : i \in 1 .. n \/ i = n + 1
      BY <1>1
    <3>2. AbstractCall(f) = b
      BY DEF b
    <3> QED
      BY <1>1, <2>1, <2>2, <2>3, <3>1, <3>2
  <2> QED
    BY <1>1, <2>2, <2>3, <2>4, SeqEqual
<1>4. ASSUME s # <<>> PROVE Abs(Front(s)) = Front(a)
  <2>1. /\ Front(s) \in Seq(Frame) /\ Len(Front(s)) = n - 1
        /\ \A i \in 1 .. n - 1 : Front(s)[i] = s[i]
    BY <1>4, FrontFacts
  <2>2. /\ Front(a) \in Seq(Call) /\ Len(Front(a)) = n - 1
        /\ \A i \in 1 .. n - 1 : Front(a)[i] = a[i]
    BY <1>1, <1>4, FrontFacts, Zenon
  <2>3. /\ Abs(Front(s)) \in Seq(Call) /\ Len(Abs(Front(s))) = n - 1
        /\ \A i \in 1 .. n - 1 : Abs(Front(s))[i] = AbstractCall(Front(s)[i])
    BY <2>1, AbsShape
  <2> HIDE DEF a, b, n
  <2>4. \A i \in 1 .. n - 1 : i \in 1 .. n
    BY <1>1
  <2> QED
    BY <1>1, <2>1, <2>2, <2>3, <2>4, SeqEqual
<1>5. ASSUME s # <<>> PROVE Abs(ReplaceLast(s, f)) = ReplaceLast(a, b)
  BY <1>1, <1>5, Zenon DEF ReplaceLast, Abs
<1> QED
  BY <1>3, <1>4, <1>5

-----------------------------------------------------------------------------
(***************************************************************************)
(* What the refinement needs beyond IInv.  CallbackScope finds the         *)
(* innermost process_new_packets call by searching the calls; the library  *)
(* reads the last entry of the stack.  That the two agree relates an entry *)
(* to a call any number of frames below the top, so it is an invariant of  *)
(* its own.                                                                *)
(***************************************************************************)

\* j is the innermost process_new_packets call among the first i calls of t.
InnermostOf(t, i, j) ==
    /\ j \in 1 .. i
    /\ frames[t][j].fn = "process"
    /\ \A k \in 1 .. i : k > j => frames[t][k].fn # "process"

\* The stack that a call leaves to the calls below it is empty, or its last
\* entry is that of the innermost process_new_packets call.
LastIsInnermost ==
    \A t \in Threads : \A i \in DOMAIN frames[t] :
        \/ StackUnder(frames[t][i]) = <<>>
        \/ \E j \in DOMAIN frames[t] :
               /\ InnermostOf(t, i, j)
               /\ Last(StackUnder(frames[t][i])) = conn[frames[t][j].conn]

\* Only process_new_packets unwinds.
OnlyProcessUnwinds ==
    \A t \in Threads : \A i \in DOMAIN frames[t] :
        frames[t][i].at = "unwinding" => frames[t][i].fn = "process"

RInv == IInv /\ LastIsInnermost /\ OnlyProcessUnwinds

\* What every step does to the calls in progress: it adds one at the top, or
\* keeps those that are still there, with their connections' fields.
CallsKept ==
    \A u \in Threads : \A i \in DOMAIN frames'[u] :
        \/ /\ i \in DOMAIN frames[u]
           /\ frames'[u][i].fn = frames[u][i].fn
           /\ frames'[u][i].conn = frames[u][i].conn
           /\ frames'[u][i].saved = frames[u][i].saved
           /\ conn'[frames[u][i].conn] = conn[frames[u][i].conn]
        \/ /\ i = Len(frames[u]) + 1

\* Such a step keeps the last entry with the innermost call.
LEMMA InnermostKept ==
  ASSUME IInv, IInv', LastIsInnermost, CallsKept
  PROVE  LastIsInnermost'
<1> DEFINE Under(u, i) == NextUnder(frames'[u][i])
           Found(u, i) ==
             \E j \in DOMAIN frames'[u] :
               /\ j \in 1 .. i
               /\ frames'[u][j].fn = "process"
               /\ \A k \in 1 .. i : k > j => frames'[u][k].fn # "process"
               /\ Last(Under(u, i)) = conn'[frames'[u][j].conn]
<1> SUFFICES ASSUME NEW u \in Threads, NEW i \in DOMAIN frames'[u]
             PROVE  Under(u, i) = <<>> \/ Found(u, i)
  BY DEF LastIsInnermost, InnermostOf, StackUnder, NextUnder
<1>1. /\ Len(frames[u]) \in Nat /\ DOMAIN frames[u] = 1 .. Len(frames[u])
      /\ Len(frames'[u]) \in Nat /\ DOMAIN frames'[u] = 1 .. Len(frames'[u])
      /\ \A k \in DOMAIN frames'[u] : frames'[u][k] \in Frame
      /\ conn' \in [Conns -> Userdata]
  BY DEF IInv, TypeOK
<1>2. ASSUME NEW k \in DOMAIN frames'[u], k \in DOMAIN frames[u]
      PROVE  Under(u, k) = <<>> \/ Found(u, k)
  <2>1. \A l \in 1 .. k :
            /\ l \in DOMAIN frames[u] /\ l \in DOMAIN frames'[u]
            /\ frames'[u][l].fn = frames[u][l].fn
            /\ frames'[u][l].conn = frames[u][l].conn
            /\ frames'[u][l].saved = frames[u][l].saved
            /\ conn'[frames'[u][l].conn] = conn[frames[u][l].conn]
    <3> SUFFICES ASSUME NEW l \in 1 .. k
                 PROVE  /\ l \in DOMAIN frames[u] /\ l \in DOMAIN frames'[u]
                        /\ l # Len(frames[u]) + 1
      BY DEF CallsKept
    <3> QED
      BY <1>1, <1>2
  <2>2. k \in 1 .. k
    BY <1>1
  <2>3. Under(u, k) = StackUnder(frames[u][k])
    BY <2>1, <2>2 DEF NextUnder, StackUnder
  <2>4. CASE StackUnder(frames[u][k]) = <<>>
    BY <2>3, <2>4
  <2>5. ASSUME NEW j \in DOMAIN frames[u], InnermostOf(u, k, j),
               Last(StackUnder(frames[u][k])) = conn[frames[u][j].conn]
        PROVE  Found(u, k)
    <3>1. /\ j \in 1 .. k /\ frames[u][j].fn = "process"
          /\ \A l \in 1 .. k : l > j => frames[u][l].fn # "process"
      BY <2>5 DEF InnermostOf
    <3> HIDE DEF Under
    <3> QED
      BY <2>1, <2>3, <2>5, <3>1
  <2> QED
    BY <1>2, <2>4, <2>5 DEF LastIsInnermost
<1>3. CASE i \in DOMAIN frames[u]
  BY <1>2, <1>3
<1>4. CASE frames'[u][i].fn = "process"
  <2>1. frames'[u][i] \in Frame
    BY <1>1
  <2>2. frames'[u][i].saved \in Seq(Userdata) /\ conn'[frames'[u][i].conn] \in Userdata
    BY <1>1, <2>1 DEF Frame
  <2>3. Last(Under(u, i)) = conn'[frames'[u][i].conn]
    BY <1>4, <2>2, PopAppend DEF NextUnder
  <2>4. i \in 1 .. i /\ \A k \in 1 .. i : ~(k > i)
    BY <1>1
  <2> HIDE DEF Under
  <2> QED
    BY <1>4, <2>3, <2>4
<1>5. CASE i \notin DOMAIN frames[u] /\ frames'[u][i].fn # "process"
  <2>1. i = Len(frames[u]) + 1
    BY <1>5 DEF CallsKept
  <2>2. Under(u, i) = frames'[u][i].saved
    BY <1>5 DEF NextUnder
  <2>3. frames'[u][i].saved = IF i = 1 THEN <<>> ELSE Under(u, i - 1)
    BY DEF IInv, StackMatchesCalls, StackUnder, NextUnder
  <2>4. CASE i = 1
    BY <2>2, <2>3, <2>4
  <2>5. CASE i # 1
    <3>1. /\ i - 1 \in DOMAIN frames'[u] /\ i - 1 \in DOMAIN frames[u]
          /\ \A k \in 1 .. i - 1 : k \in 1 .. i
          /\ \A k \in 1 .. i : k \in 1 .. i - 1 \/ k = i
      BY <1>1, <2>1, <2>5
    <3>2. Under(u, i - 1) = <<>> \/ Found(u, i - 1)
      BY <1>2, <3>1
    <3>3. Under(u, i) = Under(u, i - 1)
      BY <2>2, <2>3, <2>5
    <3> HIDE DEF Under
    <3>4. Found(u, i - 1) => Found(u, i)
      BY <1>5, <3>1, <3>3
    <3> QED
      BY <3>2, <3>3, <3>4
  <2> QED
    BY <2>4, <2>5
<1> QED
  BY <1>3, <1>4, <1>5

-----------------------------------------------------------------------------
(***************************************************************************)
(* The moves of the call stack, seen from CallbackScope.                   *)
(***************************************************************************)

\* Replacing the calls of one thread replaces its abstract calls.
LEMMA AbstractMove ==
  ASSUME TypeOK, NEW t \in Threads, NEW s, frames' = [frames EXCEPT ![t] = s]
  PROVE  AbstractCalls' = [AbstractCalls EXCEPT ![t] = Abs(s)]
<1>1. AbstractCalls = [u \in Threads |-> Abs(frames[u])]
  BY DEF AbstractCalls, Abs
<1>2. AbstractCalls' = [u \in Threads |-> Abs(frames'[u])]
  BY DEF AbstractCalls, Abs
<1>3. frames \in [Threads -> Seq(Frame)]
  BY DEF TypeOK
<1> QED
  BY <1>1, <1>2, <1>3, Zenon

\* The abstract calls of a thread, and its innermost call.
LEMMA AbstractTop ==
  ASSUME TypeOK, NEW t \in Threads
  PROVE  /\ AbstractCalls[t] = Abs(frames[t])
         /\ AbstractCalls[t] \in Seq(Call)
         /\ DOMAIN AbstractCalls[t] = DOMAIN frames[t]
         /\ \A i \in DOMAIN frames[t] : AbstractCalls[t][i] = AbstractCall(frames[t][i])
         /\ (AbstractCalls[t] = <<>>) <=> (frames[t] = <<>>)
         /\ frames[t] # <<>> => Last(AbstractCalls[t]) = AbstractCall(Top(t))
<1>1. frames[t] \in Seq(Frame) /\ DOMAIN frames[t] = 1 .. Len(frames[t])
  BY DEF TypeOK
<1>2. AbstractCalls[t] = Abs(frames[t])
  BY DEF AbstractCalls, Abs
<1> QED
  BY <1>1, <1>2, AbsShape DEF Top

\* A call is entered.
LEMMA PushMove ==
  ASSUME IInv, OnlyProcessUnwinds, NEW t \in Threads, NEW f \in Frame,
         f.at # "unwinding", PushFrame(t, f), conn' = conn
  PROVE  /\ CallsKept /\ OnlyProcessUnwinds'
         /\ AbstractCalls' = [AbstractCalls EXCEPT ![t] = Append(@, AbstractCall(f))]
<1> DEFINE n == Len(frames[t])
<1>1. /\ TypeOK
      /\ frames' = [frames EXCEPT ![t] = Append(frames[t], f)]
      /\ frames'[t] = Append(frames[t], f)
      /\ \A u \in Threads \ {t} : frames'[u] = frames[u]
  BY DEF PushFrame, IInv, TypeOK
<1>2. frames[t] \in Seq(Frame) /\ n \in Nat /\ DOMAIN frames[t] = 1 .. n
  BY <1>1, FrameFacts
<1>3. /\ DOMAIN frames'[t] = 1 .. n + 1
      /\ \A i \in 1 .. n : frames'[t][i] = frames[t][i]
      /\ frames'[t][n + 1] = f
  BY <1>1, <1>2, AppendProperties
<1>4. \A i \in 1 .. n + 1 : i \in 1 .. n \/ i = n + 1
  BY <1>2
<1> HIDE DEF n
<1>5. \A u \in Threads : \A i \in DOMAIN frames'[u] :
          \/ i \in DOMAIN frames[u] /\ frames'[u][i] = frames[u][i]
          \/ u = t /\ i = n + 1 /\ frames'[u][i] = f
  BY <1>1, <1>2, <1>3, <1>4
<1>6. CallsKept
  BY <1>5 DEF CallsKept, n
<1>7. OnlyProcessUnwinds'
  BY <1>5 DEF OnlyProcessUnwinds
<1>8. AbstractCalls' = [AbstractCalls EXCEPT ![t] = Append(@, AbstractCall(f))]
  <2>1. AbstractCalls' = [AbstractCalls EXCEPT ![t] = Abs(Append(frames[t], f))]
    BY <1>1, AbstractMove, Zenon
  <2>2. Abs(Append(frames[t], f)) = Append(Abs(frames[t]), AbstractCall(f))
    BY <1>2, AbsMoves
  <2>3. AbstractCalls[t] = Abs(frames[t])
    BY <1>1, AbstractTop
  <2> QED
    BY <2>1, <2>2, <2>3
<1> QED
  BY <1>6, <1>7, <1>8

\* A call returns; only its own connection's fields may change with it.
LEMMA PopMove ==
  ASSUME IInv, OnlyProcessUnwinds, NEW t \in Threads, frames[t] # <<>>,
         PopFrame(t), \A c \in Conns \ {Top(t).conn} : conn'[c] = conn[c]
  PROVE  /\ CallsKept /\ OnlyProcessUnwinds'
         /\ AbstractCalls' = [AbstractCalls EXCEPT ![t] = Front(@)]
<1> DEFINE n == Len(frames[t])
<1>1. /\ TypeOK
      /\ frames' = [frames EXCEPT ![t] = Front(frames[t])]
      /\ frames'[t] = Front(frames[t])
      /\ \A u \in Threads \ {t} : frames'[u] = frames[u]
  BY DEF PopFrame, IInv, TypeOK
<1>2. /\ frames[t] \in Seq(Frame) /\ n \in DOMAIN frames[t]
      /\ Top(t) = frames[t][n] /\ Top(t) \in Frame
  BY <1>1, FrameFacts
<1>3. \A u \in Threads : \A i \in DOMAIN frames'[u] :
          i \in DOMAIN frames[u] /\ frames'[u][i] = frames[u][i] /\ ~(u = t /\ i = n)
  <2>1. /\ DOMAIN frames[t] = 1 .. n /\ DOMAIN frames'[t] = 1 .. n - 1 /\ n \in Nat
        /\ \A i \in 1 .. n - 1 : frames'[t][i] = frames[t][i]
    BY <1>1, <1>2, FrontFacts
  <2> QED
    BY <1>1, <2>1
<1> HIDE DEF n
<1>4. \A u \in Threads : \A i \in DOMAIN frames'[u] :
          conn'[frames[u][i].conn] = conn[frames[u][i].conn]
  <2> SUFFICES ASSUME NEW u \in Threads, NEW i \in DOMAIN frames'[u]
               PROVE  frames[u][i].conn # Top(t).conn /\ frames[u][i].conn \in Conns
    OBVIOUS
  <2>1. i \in DOMAIN frames[u] /\ ~(u = t /\ i = n)
    BY <1>3
  <2>2. frames[u][i] \in Frame
    BY <1>1, <2>1, FrameFacts
  <2> QED
    BY <1>2, <2>1, <2>2 DEF IInv, GuardsIntact, Frame
<1>5. CallsKept
  BY <1>3, <1>4 DEF CallsKept
<1>6. OnlyProcessUnwinds'
  BY <1>3 DEF OnlyProcessUnwinds
<1>7. AbstractCalls' = [AbstractCalls EXCEPT ![t] = Front(@)]
  <2>1. AbstractCalls' = [AbstractCalls EXCEPT ![t] = Abs(Front(frames[t]))]
    BY <1>1, AbstractMove, Zenon
  <2>2. Abs(Front(frames[t])) = Front(Abs(frames[t]))
    BY <1>2, AbsMoves
  <2>3. AbstractCalls[t] = Abs(frames[t])
    BY <1>1, AbstractTop
  <2> QED
    BY <2>1, <2>2, <2>3
<1> QED
  BY <1>5, <1>6, <1>7

\* The innermost call changes where it is.
LEMMA TopMove ==
  ASSUME IInv, OnlyProcessUnwinds, NEW t \in Threads, frames[t] # <<>>,
         NEW f \in Frame, f.fn = Top(t).fn, f.conn = Top(t).conn,
         f.saved = Top(t).saved, f.at = "unwinding" => f.fn = "process",
         SetTop(t, f), conn' = conn
  PROVE  /\ CallsKept /\ OnlyProcessUnwinds'
         /\ AbstractCalls' = [AbstractCalls EXCEPT ![t] = ReplaceLast(@, AbstractCall(f))]
<1> DEFINE n == Len(frames[t])
<1>1. /\ TypeOK
      /\ frames' = [frames EXCEPT ![t] = ReplaceLast(frames[t], f)]
      /\ frames'[t] = ReplaceLast(frames[t], f)
      /\ \A u \in Threads \ {t} : frames'[u] = frames[u]
  BY DEF SetTop, IInv, TypeOK
<1>2. /\ frames[t] \in Seq(Frame) /\ n \in DOMAIN frames[t]
      /\ Top(t) = frames[t][n]
  BY <1>1, FrameFacts
<1>3. /\ DOMAIN frames'[t] = DOMAIN frames[t]
      /\ \A i \in DOMAIN frames[t] : frames'[t][i] = IF i = n THEN f ELSE frames[t][i]
  BY <1>1, <1>2 DEF ReplaceLast
<1> HIDE DEF n
<1>4. \A u \in Threads : \A i \in DOMAIN frames'[u] :
          /\ i \in DOMAIN frames[u]
          /\ frames'[u][i] = frames[u][i] \/ (u = t /\ i = n /\ frames'[u][i] = f)
  BY <1>1, <1>3
<1>5. CallsKept
  BY <1>2, <1>4 DEF CallsKept
<1>6. OnlyProcessUnwinds'
  BY <1>4 DEF OnlyProcessUnwinds
<1>7. AbstractCalls' = [AbstractCalls EXCEPT ![t] = ReplaceLast(@, AbstractCall(f))]
  <2>1. AbstractCalls' = [AbstractCalls EXCEPT ![t] = Abs(ReplaceLast(frames[t], f))]
    BY <1>1, AbstractMove, Zenon
  <2>2. Abs(ReplaceLast(frames[t], f)) = ReplaceLast(Abs(frames[t]), AbstractCall(f))
    BY <1>2, AbsMoves
  <2>3. AbstractCalls[t] = Abs(frames[t])
    BY <1>1, AbstractTop
  <2> QED
    BY <2>1, <2>2, <2>3
<1> QED
  BY <1>5, <1>6, <1>7

\* No call is entered or left; only a connection in no call may change.
LEMMA IdleMove ==
  ASSUME IInv, OnlyProcessUnwinds, NEW c \in Conns, Idle(c), frames' = frames,
         \A d \in Conns \ {c} : conn'[d] = conn[d]
  PROVE  CallsKept /\ OnlyProcessUnwinds' /\ AbstractCalls' = AbstractCalls
<1>1. \A u \in Threads : \A i \in DOMAIN frames[u] :
          conn'[frames[u][i].conn] = conn[frames[u][i].conn]
  <2> SUFFICES ASSUME NEW u \in Threads, NEW i \in DOMAIN frames[u]
               PROVE  frames[u][i].conn # c /\ frames[u][i].conn \in Conns
    OBVIOUS
  <2>1. frames[u][i] \in Frame
    BY FrameFacts DEF IInv
  <2> QED
    BY <2>1 DEF Idle, Frame
<1>2. CallsKept /\ OnlyProcessUnwinds'
  BY <1>1 DEF CallsKept, OnlyProcessUnwinds
<1>3. AbstractCalls' = AbstractCalls
  BY DEF AbstractCalls
<1> QED
  BY <1>2, <1>3

-----------------------------------------------------------------------------
(***************************************************************************)
(* One lemma per group of actions: the step keeps the calls that stay, and *)
(* is a step of CallbackScope.                                             *)
(***************************************************************************)

\* The conditions that the two specifications test agree.
LEMMA SameConditions ==
  ASSUME TypeOK, NEW t \in Threads
  PROVE  /\ (AbstractCalls[t] = <<>>) <=> (frames[t] = <<>>)
         /\ frames[t] # <<>> => Scope!Top(t) = AbstractCall(Top(t))
         /\ InC(t) => Scope!InC(t)
         /\ InRustls(t) => Scope!InRustls(t)
         /\ \A c \in Conns : Idle(c) => Scope!Idle(c)
<1>1. frames[t] # <<>> => Scope!Top(t) = AbstractCall(Top(t))
  BY AbstractTop DEF Scope!Top, Scope!Last, Last
<1>2. (AbstractCalls[t] = <<>>) <=> (frames[t] = <<>>)
  BY AbstractTop
<1>3. AbstractCall(Top(t)).at = Top(t).at
  BY DEF AbstractCall
<1>4. ASSUME NEW c \in Conns, Idle(c) PROVE Scope!Idle(c)
  <2> SUFFICES ASSUME NEW u \in Threads, NEW i \in DOMAIN AbstractCalls[u]
               PROVE  AbstractCalls[u][i].conn # c
    BY DEF Scope!Idle
  <2>1. i \in DOMAIN frames[u] /\ AbstractCalls[u][i] = AbstractCall(frames[u][i])
    BY AbstractTop
  <2> QED
    BY <1>4, <2>1 DEF Idle, AbstractCall
<1> QED
  BY <1>1, <1>2, <1>3, <1>4 DEF InC, InRustls, Scope!InC, Scope!InRustls

\* Entering a call is Enter of the abstract call.
LEMMA EnterScope ==
  ASSUME RInv, NEW t \in Threads, NEW c \in Conns, NEW f \in Frame,
         f.at # "unwinding", InC(t), Idle(c), (c \in live) <=> (f.fn # "new"),
         f.fn = "process" => t \in tls, PushFrame(t, f),
         UNCHANGED <<live, conn, logger, tls, ret>>
  PROVE  CallsKept /\ OnlyProcessUnwinds' /\ Scope!Enter(t, c, AbstractCall(f))
<1>1. /\ CallsKept /\ OnlyProcessUnwinds'
      /\ AbstractCalls' = [AbstractCalls EXCEPT ![t] = Append(@, AbstractCall(f))]
  BY PushMove DEF RInv
<1>2. Scope!InC(t) /\ Scope!Idle(c)
  BY SameConditions DEF RInv, IInv
<1>3. AbstractCall(f).fn = f.fn
  BY DEF AbstractCall
<1>4. (c \in live) = (AbstractCall(f).fn # "new")
  BY <1>3
<1> QED
  BY <1>1, <1>2, <1>3, <1>4 DEF Scope!Enter

\* The calls that do not push, and process_new_packets.
LEMMA CallScope ==
  ASSUME RInv, NEW t \in Threads, NEW c \in Conns,
         \/ ConnectionNew(t, c)
         \/ SendCloseNotify(t, c)
         \/ \E u \in Ptrs : TlsIo(t, c, u)
         \/ ProcessNewPackets(t, c)
  PROVE  CallsKept /\ OnlyProcessUnwinds' /\ Scope!Next
<1>1. /\ USERDATA[t] \in Seq(Userdata) /\ conn[c] \in Userdata
      /\ conn[c].userdata \in Ptrs
  BY Zenon DEF RInv, IInv, TypeOK, Userdata
<1>2. ASSUME NEW fn \in ApiFns, NEW g \in Ptrs \cup {None}
      PROVE  LET f == NewFrame(t, fn, c, g)
             IN  /\ f \in Frame /\ f.at = "rustls" /\ f.fn = fn
                 /\ AbstractCall(f) = Scope!NewCall(fn, c)
  BY <1>1, UserdataAssumption DEF NewFrame, Frame, AbstractCall, Scope!NewCall
<1>3. CASE ConnectionNew(t, c)
  <2> DEFINE f == NewFrame(t, "new", c, None)
  <2>1. f \in Frame /\ f.at = "rustls" /\ f.fn = "new" /\ AbstractCall(f) = Scope!NewCall("new", c)
    BY <1>2 DEF ApiFns
  <2> HIDE DEF f
  <2>2. /\ InC(t) /\ Idle(c) /\ c \notin live /\ PushFrame(t, f)
        /\ UNCHANGED <<live, conn, logger, tls, ret>>
    BY <1>3 DEF ConnectionNew, f
  <2>3. CallsKept /\ OnlyProcessUnwinds' /\ Scope!Enter(t, c, Scope!NewCall("new", c))
    BY <2>1, <2>2, EnterScope
  <2> QED
    BY <2>3, Zenon DEF Scope!Next
<1>4. CASE SendCloseNotify(t, c)
  <2> DEFINE f == NewFrame(t, "plain", c, None)
  <2>1. f \in Frame /\ f.at = "rustls" /\ f.fn = "plain" /\ AbstractCall(f) = Scope!NewCall("plain", c)
    BY <1>2 DEF ApiFns
  <2> HIDE DEF f
  <2>2. /\ InC(t) /\ Idle(c) /\ c \in live /\ PushFrame(t, f)
        /\ UNCHANGED <<live, conn, logger, tls, ret>>
    BY <1>4 DEF SendCloseNotify, f
  <2>3. CallsKept /\ OnlyProcessUnwinds' /\ Scope!Enter(t, c, Scope!NewCall("plain", c))
    BY <2>1, <2>2, EnterScope
  <2> QED
    BY <2>3, Zenon DEF Scope!Next
<1>5. ASSUME NEW u \in Ptrs, TlsIo(t, c, u)
      PROVE  CallsKept /\ OnlyProcessUnwinds' /\ Scope!Next
  <2> DEFINE f == [NewFrame(t, "io", c, None) EXCEPT
                      !.at = "callback", !.cb = "io", !.arg = u]
             a == [Scope!NewCall("io", c) EXCEPT
                      !.at = "callback", !.cb = "io", !.arg = u]
  <2>1. f \in Frame /\ f.at = "callback" /\ f.fn = "io" /\ AbstractCall(f) = a
    <3>1. f \in Frame /\ a \in Call
      BY <1>1, UserdataAssumption, Zenon DEF NewFrame, Frame, Scope!NewCall, Call, ApiFns
    <3>2. /\ f.fn = "io" /\ f.conn = c /\ f.at = "callback" /\ f.cb = "io"
          /\ f.cbfn = None /\ f.arg = u
      BY DEF NewFrame
    <3>3. /\ a.fn = "io" /\ a.conn = c /\ a.at = "callback" /\ a.cb = "io"
          /\ a.cbfn = None /\ a.arg = u
      BY DEF Scope!NewCall
    <3> HIDE DEF f, a
    <3>4. AbstractCall(f) = a
      BY <3>1, <3>2, <3>3 DEF AbstractCall, Frame, Call
    <3> QED
      BY <3>1, <3>2, <3>4
  <2> HIDE DEF f
  <2>2. /\ InC(t) /\ Idle(c) /\ c \in live /\ PushFrame(t, f)
        /\ UNCHANGED <<live, conn, logger, tls, ret>>
    BY <1>5, Zenon DEF TlsIo, f
  <2>3. CallsKept /\ OnlyProcessUnwinds' /\ Scope!Enter(t, c, AbstractCall(f))
    BY <2>1, <2>2, EnterScope
  <2>4. Scope!Enter(t, c, a)
    BY <2>1, <2>3
  <2> QED
    BY <2>3, <2>4, Zenon DEF Scope!Next
<1>6. CASE ProcessNewPackets(t, c) /\ t \in tls
  <2> DEFINE f == NewFrame(t, "process", c, conn[c].userdata)
  <2>1. f \in Frame /\ f.at = "rustls" /\ f.fn = "process" /\ AbstractCall(f) = Scope!NewCall("process", c)
    BY <1>1, <1>2 DEF ApiFns
  <2> HIDE DEF f
  <2>2. /\ InC(t) /\ Idle(c) /\ c \in live /\ PushFrame(t, f)
        /\ UNCHANGED <<live, conn, logger, tls, ret>>
    BY <1>6 DEF ProcessNewPackets, userdata_push, UserdataGuard_new, f
  <2>3. CallsKept /\ OnlyProcessUnwinds' /\ Scope!Enter(t, c, Scope!NewCall("process", c))
    BY <1>6, <2>1, <2>2, EnterScope
  <2> QED
    BY <2>3, Zenon DEF Scope!Next
<1>7. CASE ProcessNewPackets(t, c) /\ t \notin tls
  <2>1. /\ InC(t) /\ Idle(c) /\ c \in live
        /\ ret' = [ret EXCEPT ![t] = "Panic"]
        /\ UNCHANGED <<live, conn, logger, tls, frames>>
    BY <1>7 DEF ProcessNewPackets, userdata_push
  <2>2. CallsKept /\ OnlyProcessUnwinds' /\ AbstractCalls' = AbstractCalls
    BY <2>1, IdleMove DEF RInv
  <2>3. Scope!EnterFails(t, c)
    BY <1>7, <2>1, <2>2, SameConditions DEF RInv, IInv, Scope!EnterFails
  <2> QED
    BY <2>2, <2>3, Zenon DEF Scope!Next
<1> QED
  BY <1>3, <1>4, <1>5, <1>6, <1>7

\* Freeing a connection and setting its fields is Manage.
LEMMA ManageScope ==
  ASSUME RInv, NEW t \in Threads, NEW c \in Conns,
         \/ ConnectionFree(t, c)
         \/ \E u \in Ptrs : SetUserdata(t, c, u)
         \/ \E cb \in LogFns \cup {None} : SetLogCallback(t, c, cb)
  PROVE  CallsKept /\ OnlyProcessUnwinds' /\ Scope!Next
<1>1. /\ InC(t) /\ Idle(c) /\ c \in live
      /\ UNCHANGED <<tls, frames, ret>>
      /\ \A d \in Conns \ {c} : conn'[d] = conn[d]
  BY DEF ConnectionFree, SetUserdata, SetLogCallback, RInv, IInv, TypeOK
<1>2. CallsKept /\ OnlyProcessUnwinds' /\ AbstractCalls' = AbstractCalls
  BY <1>1, IdleMove DEF RInv
<1>3. Scope!InC(t) /\ Scope!Idle(c)
  BY <1>1, SameConditions DEF RInv, IInv
<1>4. Scope!Manage(t, c)
  <2>1. CASE ConnectionFree(t, c)
    BY <1>1, <1>2, <1>3, <2>1 DEF ConnectionFree, Scope!Manage, Scope!Fresh
  <2>2. ASSUME NEW u \in Ptrs, SetUserdata(t, c, u) PROVE Scope!Manage(t, c)
    BY <1>1, <1>2, <1>3, <2>2, Zenon DEF SetUserdata, Scope!Manage
  <2>3. ASSUME NEW cb \in LogFns \cup {None}, SetLogCallback(t, c, cb)
        PROVE  Scope!Manage(t, c)
    BY <1>1, <1>2, <1>3, <2>3, Zenon DEF SetLogCallback, ensure_log_registered, Scope!Manage
  <2> QED
    BY <2>1, <2>2, <2>3
<1> QED
  BY <1>2, <1>4, Zenon DEF Scope!Next

\* Every return is Leave; process_new_packets gives Ok or Error, or Panic when
\* it unwinds.
LEMMA ReturnScope ==
  ASSUME RInv, NEW t \in Threads,
         \/ ConnectionNewReturns(t)
         \/ SendCloseNotifyReturns(t)
         \/ TlsIoReturns(t)
         \/ \E r \in {"Ok", "Error"} : ProcessReturns(t, r)
         \/ Unwind(t)
  PROVE  CallsKept /\ OnlyProcessUnwinds' /\ Scope!Next
<1>1. frames[t] # <<>> /\ PopFrame(t) /\ UNCHANGED <<logger, tls>>
  BY DEF ConnectionNewReturns, SendCloseNotifyReturns, TlsIoReturns, ProcessReturns,
         Unwind, InRustls
<1>2. Top(t) \in Frame /\ Top(t).conn \in Conns
  BY <1>1, TopGood, SMTT(20) DEF RInv, GoodFrame
<1>3. \/ /\ Top(t).fn = "new"
         /\ live' = live \cup {Top(t).conn}
         /\ conn' = [conn EXCEPT ![Top(t).conn] = [userdata |-> NULL, log_callback |-> None]]
      \/ UNCHANGED <<live, conn>>
  BY SMTT(20) DEF ConnectionNewReturns, SendCloseNotifyReturns, TlsIoReturns, ProcessReturns, Unwind
<1>4. \A c \in Conns \ {Top(t).conn} : conn'[c] = conn[c]
  BY <1>2, <1>3 DEF RInv, IInv, TypeOK
<1>5. /\ CallsKept /\ OnlyProcessUnwinds'
      /\ AbstractCalls' = [AbstractCalls EXCEPT ![t] = Front(@)]
  BY <1>1, <1>4, PopMove DEF RInv
<1>6. \/ Top(t).fn # "process" /\ UNCHANGED ret
      \/ /\ Top(t).fn = "process" /\ Top(t).at = "rustls"
         /\ \E r \in {"Ok", "Error"} : ret' = [ret EXCEPT ![t] = r]
      \/ /\ Top(t).fn = "process" /\ Top(t).at = "unwinding"
         /\ ret' = [ret EXCEPT ![t] = "Panic"]
  <2>1. CASE ConnectionNewReturns(t) \/ SendCloseNotifyReturns(t) \/ TlsIoReturns(t)
    BY <2>1 DEF ConnectionNewReturns, SendCloseNotifyReturns, TlsIoReturns
  <2>2. ASSUME NEW r \in {"Ok", "Error"}, ProcessReturns(t, r)
        PROVE  /\ Top(t).fn = "process" /\ Top(t).at = "rustls"
               /\ ret' = [ret EXCEPT ![t] = r]
    BY <1>1, <2>2, DropRestores, Zenon DEF ProcessReturns, InRustls, RInv
  <2>3. CASE Unwind(t)
    <3>1. Top(t).at = "unwinding" /\ ret' = [ret EXCEPT ![t] = "Panic"]
      BY <2>3 DEF Unwind
    <3>2. Top(t).fn = "process"
      BY <1>1, <3>1, FrameFacts DEF RInv, IInv, OnlyProcessUnwinds
    <3> QED
      BY <3>1, <3>2
  <2> QED
    BY <2>1, <2>2, <2>3, SMTT(20)
<1>7. /\ AbstractCalls[t] # <<>>
      /\ Scope!Top(t).fn = Top(t).fn /\ Scope!Top(t).at = Top(t).at
      /\ Scope!Top(t).conn = Top(t).conn
  BY <1>1, SameConditions DEF RInv, IInv, AbstractCall
<1>8. (CASE Scope!Top(t).fn = "process" /\ Scope!Top(t).at = "rustls" ->
                \E r \in {"Ok", "Error"} : ret' = [ret EXCEPT ![t] = r]
         [] Scope!Top(t).fn = "process" /\ Scope!Top(t).at = "unwinding" ->
                ret' = [ret EXCEPT ![t] = "Panic"]
         [] OTHER -> Scope!Top(t).fn # "process" /\ UNCHANGED ret)
  BY <1>6, <1>7, SMTT(20)
<1>9. \/ /\ Scope!Top(t).fn = "new"
         /\ live' = live \cup {Scope!Top(t).conn}
         /\ conn' = [conn EXCEPT ![Scope!Top(t).conn] = Scope!Fresh]
      \/ UNCHANGED <<live, conn>>
  BY <1>3, <1>7 DEF Scope!Fresh
<1>10. Scope!Leave(t)
  BY <1>1, <1>5, <1>7, <1>8, <1>9 DEF Scope!Leave, Scope!Front, Front
<1> QED
  BY <1>5, <1>10, Zenon DEF Scope!Next

\* A callback starts or ends, or rustls panics.
LEMMA CallbackScopeStep ==
  ASSUME RInv, NEW t \in Threads,
         \/ Panic(t) \/ AppCallback(t) \/ LogCallback(t) \/ CallbackReturns(t)
  PROVE  CallsKept /\ OnlyProcessUnwinds' /\ Scope!Next
<1> DEFINE g == Top(t)
           a == Scope!Top(t)
<1>1. /\ frames[t] # <<>>
      /\ UNCHANGED <<live, conn, logger, tls, USERDATA, ret>>
  BY DEF Panic, AppCallback, LogCallback, CallbackReturns, InRustls
<1>2. g \in Frame /\ g.conn \in Conns
  BY <1>1, TopGood, SMTT(20) DEF RInv, GoodFrame
<1>3. /\ AbstractCalls[t] # <<>> /\ a = AbstractCall(g) /\ a \in Call
      /\ a.fn = g.fn /\ a.conn = g.conn /\ a.at = g.at
      /\ a.cb = g.cb /\ a.cbfn = g.cbfn /\ a.arg = g.arg
  BY <1>1, <1>2, SameConditions, SMTT(20) DEF RInv, IInv, AbstractCall, Frame, Call
<1>4. InRustls(t) => Scope!InRustls(t)
  BY SameConditions DEF RInv, IInv
<1>5. ASSUME NEW h \in Frame, h.fn = g.fn, h.conn = g.conn, h.saved = g.saved,
             h.at = "unwinding" => h.fn = "process", SetTop(t, h)
      PROVE  CallsKept /\ OnlyProcessUnwinds' /\ Scope!SetTop(t, AbstractCall(h))
  BY <1>1, <1>5, TopMove DEF RInv, Scope!SetTop, Scope!ReplaceLast, ReplaceLast
<1>6. CASE Panic(t)
  <2> DEFINE h == [g EXCEPT !.at = "unwinding"]
             b == [a EXCEPT !.at = "unwinding"]
  <2>1. /\ h \in Frame /\ h.fn = g.fn /\ h.conn = g.conn /\ h.saved = g.saved
        /\ h.at = "unwinding" /\ h.cb = g.cb /\ h.cbfn = g.cbfn /\ h.arg = g.arg
    BY <1>2 DEF Frame
  <2>2. /\ b \in Call /\ b.fn = a.fn /\ b.conn = a.conn
        /\ b.at = "unwinding" /\ b.cb = a.cb /\ b.cbfn = a.cbfn /\ b.arg = a.arg
    BY <1>3 DEF Call
  <2>3. SetTop(t, h) /\ g.fn = "process" /\ InRustls(t)
    BY <1>6 DEF Panic
  <2> HIDE DEF h, b, g, a
  <2>4. AbstractCall(h) = b
    BY <1>3, <2>1, <2>2, SMTT(20) DEF AbstractCall, Call
  <2>5. CallsKept /\ OnlyProcessUnwinds' /\ Scope!SetTop(t, b)
    BY <1>5, <2>1, <2>3, <2>4
  <2>6. Scope!Panics(t)
    BY <1>1, <1>3, <1>4, <2>3, <2>5 DEF Scope!Panics, a, b
  <2> QED
    BY <2>5, <2>6, Zenon DEF Scope!Next
<1>7. CASE AppCallback(t)
  <2> DEFINE u == conn[g.conn].userdata
             h == [g EXCEPT !.at = "callback", !.cb = "app", !.arg = u]
             b == [a EXCEPT !.at = "callback", !.cb = "app", !.arg = u]
  <2>1. /\ last_entry(t).err = "None" /\ g.fn = "process" /\ InRustls(t)
        /\ last_entry(t).entry = conn[g.conn]
    BY <1>1, <1>7, LastEntryOwn DEF AppCallback, RInv
  <2>2. SetTop(t, h)
    BY <1>7, <2>1, SMTT(20) DEF AppCallback
  <2>3. u \in Ptrs
    BY <1>2 DEF RInv, IInv, TypeOK, Userdata
  <2> HIDE DEF u
  <2>4. /\ h \in Frame /\ h.fn = g.fn /\ h.conn = g.conn /\ h.saved = g.saved
        /\ h.at = "callback" /\ h.cb = "app" /\ h.cbfn = g.cbfn /\ h.arg = u
    BY <1>2, <2>3, Zenon DEF Frame
  <2>5. /\ b \in Call /\ b.fn = a.fn /\ b.conn = a.conn
        /\ b.at = "callback" /\ b.cb = "app" /\ b.cbfn = a.cbfn /\ b.arg = u
    BY <1>3, <2>3, Zenon DEF Call
  <2> HIDE DEF h, b, g, a
  <2>6. AbstractCall(h) = b
    BY <1>3, <2>4, <2>5 DEF AbstractCall, Call
  <2>7. CallsKept /\ OnlyProcessUnwinds' /\ Scope!SetTop(t, b)
    BY <1>5, <2>2, <2>4, <2>6
  <2>8. b = [a EXCEPT !.at = "callback", !.cb = "app", !.arg = conn[a.conn].userdata]
    BY <1>3 DEF b, u
  <2>9. Scope!AppCallback(t)
    BY <1>1, <1>3, <1>4, <2>1, <2>7, <2>8 DEF Scope!AppCallback, a
  <2> QED
    BY <2>7, <2>9, Zenon DEF Scope!Next
<1>8. CASE LogCallback(t)
  <2> DEFINE e == Last(USERDATA[t])
             h == [g EXCEPT !.at = "callback", !.cb = "log",
                            !.cbfn = e.log_callback, !.arg = e.userdata]
             b == [a EXCEPT !.at = "callback", !.cb = "log",
                            !.cbfn = e.log_callback, !.arg = e.userdata]
  <2>1. /\ USERDATA[t] # <<>> /\ last_entry(t).entry = e
        /\ logger = "ours" /\ InRustls(t) /\ e.log_callback # None
    BY <1>8 DEF LogCallback, last_entry
  <2>2. SetTop(t, h)
    BY <1>8, <2>1 DEF LogCallback
  <2>3. e \in Userdata
    <3>1. USERDATA[t] \in Seq(Userdata)
      BY SMTT(20) DEF RInv, IInv, TypeOK
    <3> QED
      BY <2>1, <3>1 DEF Last
  <2>4. PICK j \in DOMAIN frames[t] :
            InnermostOf(t, Len(frames[t]), j) /\ e = conn[frames[t][j].conn]
    <3>1. Len(frames[t]) \in DOMAIN frames[t] /\ g = frames[t][Len(frames[t])]
      BY <1>1, FrameFacts DEF RInv, IInv
    <3>2. USERDATA[t] = StackUnder(g)
      BY <1>1 DEF RInv, IInv, StackMatchesCalls
    <3> HIDE DEF g
    <3> QED
      BY <2>1, <3>1, <3>2, SMTT(20) DEF RInv, LastIsInnermost
  <2> HIDE DEF e
  <2>5. /\ h \in Frame /\ h.fn = g.fn /\ h.conn = g.conn /\ h.saved = g.saved
        /\ h.at = "callback" /\ h.cb = "log" /\ h.cbfn = e.log_callback
        /\ h.arg = e.userdata
    BY <1>2, <2>3, Zenon DEF Frame, Userdata
  <2>6. /\ b \in Call /\ b.fn = a.fn /\ b.conn = a.conn
        /\ b.at = "callback" /\ b.cb = "log" /\ b.cbfn = e.log_callback
        /\ b.arg = e.userdata
    BY <1>3, <2>3, ZenonT(20) DEF Call, Userdata
  <2> HIDE DEF h, b, g, a
  <2>7. AbstractCall(h) = b
    BY <1>3, <2>5, <2>6, SMTT(20) DEF AbstractCall, Call
  <2>8. CallsKept /\ OnlyProcessUnwinds' /\ Scope!SetTop(t, b)
    BY <1>5, <2>2, <2>5, <2>7, SMTT(20)
  <2>9. /\ j \in DOMAIN AbstractCalls[t] /\ Scope!Innermost(t, j)
        /\ e = conn[AbstractCalls[t][j].conn]
    <3>1. /\ DOMAIN AbstractCalls[t] = DOMAIN frames[t]
          /\ DOMAIN frames[t] = 1 .. Len(frames[t])
          /\ \A i \in DOMAIN frames[t] : AbstractCalls[t][i] = AbstractCall(frames[t][i])
      BY AbstractTop, FrameFacts DEF RInv, IInv
    <3>2. \A i \in DOMAIN frames[t] : /\ AbstractCalls[t][i].fn = frames[t][i].fn
                                      /\ AbstractCalls[t][i].conn = frames[t][i].conn
      <4>1. \A f : AbstractCall(f).fn = f.fn /\ AbstractCall(f).conn = f.conn
        BY DEF AbstractCall
      <4> QED
        BY <3>1, <4>1
    <3> QED
      BY <2>4, <3>1, <3>2, SMTT(20) DEF InnermostOf, Scope!Innermost
  <2>10. Scope!LogCallback(t)
    BY <1>1, <1>4, <2>1, <2>8, <2>9, Zenon DEF Scope!LogCallback, a, b
  <2> QED
    BY <2>8, <2>10, Zenon DEF Scope!Next
<1>9. CASE CallbackReturns(t)
  <2> DEFINE h == [g EXCEPT !.at = "rustls", !.cb = "none", !.cbfn = None, !.arg = NULL]
             b == [a EXCEPT !.at = "rustls", !.cb = "none", !.cbfn = None, !.arg = NULL]
  <2>1. /\ h \in Frame /\ h.fn = g.fn /\ h.conn = g.conn /\ h.saved = g.saved
        /\ h.at = "rustls" /\ h.cb = "none" /\ h.cbfn = None /\ h.arg = NULL
    BY <1>2, UserdataAssumption, Zenon DEF Frame
  <2>2. /\ b \in Call /\ b.fn = a.fn /\ b.conn = a.conn
        /\ b.at = "rustls" /\ b.cb = "none" /\ b.cbfn = None /\ b.arg = NULL
    BY <1>3, UserdataAssumption, Zenon DEF Call
  <2>3. SetTop(t, h) /\ g.at = "callback"
    BY <1>9, SMTT(20) DEF CallbackReturns
  <2> HIDE DEF h, b, g, a
  <2>4. AbstractCall(h) = b
    BY <1>3, <2>1, <2>2, SMTT(20) DEF AbstractCall, Call
  <2>5. CallsKept /\ OnlyProcessUnwinds' /\ Scope!SetTop(t, b)
    BY <1>5, <2>1, <2>3, <2>4
  <2>6. Scope!CallbackReturns(t)
    BY <1>1, <1>3, <2>3, <2>5 DEF Scope!CallbackReturns, a, b
  <2> QED
    BY <2>5, <2>6, Zenon DEF Scope!Next
<1> QED
  BY <1>6, <1>7, <1>8, <1>9

\* The end of a thread.
LEMMA ThreadExitScope ==
  ASSUME RInv, NEW t \in Threads, ThreadExit(t)
  PROVE  CallsKept /\ OnlyProcessUnwinds' /\ Scope!Next
<1>1. /\ frames[t] = <<>> /\ t \in tls /\ tls' = tls \ {t}
      /\ UNCHANGED <<live, conn, logger, frames, ret>>
  BY DEF ThreadExit
<1>2. CallsKept /\ OnlyProcessUnwinds' /\ AbstractCalls' = AbstractCalls
  BY <1>1, SMTT(20) DEF CallsKept, OnlyProcessUnwinds, RInv, AbstractCalls
<1>3. AbstractCalls[t] = <<>>
  BY <1>1, SameConditions DEF RInv, IInv
<1>4. (Threads \ tls)' = (Threads \ tls) \cup {t}
  BY <1>1
<1>5. Scope!ThreadEnds(t)
  BY <1>1, <1>2, <1>3, <1>4 DEF Scope!ThreadEnds
<1> QED
  BY <1>2, <1>5, Zenon DEF Scope!Next

\* Every step keeps the invariant and is a step, or a stutter, of CallbackScope.
LEMMA NextScope == RInv /\ [Next]_vars => RInv' /\ [Scope!Next]_Scope!vars
<1> SUFFICES ASSUME RInv, [Next]_vars PROVE RInv' /\ [Scope!Next]_Scope!vars
  OBVIOUS
<1>1. IInv'
  BY NextIInv DEF RInv
<1>2. CASE UNCHANGED vars
  <2>1. LastIsInnermost'
    BY <1>2 DEF vars, RInv, LastIsInnermost, InnermostOf, StackUnder
  <2>2. OnlyProcessUnwinds'
    BY <1>2 DEF vars, RInv, OnlyProcessUnwinds
  <2>3. UNCHANGED Scope!vars
    BY <1>2 DEF vars, Scope!vars, AbstractCalls
  <2> QED
    BY <1>1, <2>1, <2>2, <2>3, SMTT(20) DEF RInv
<1>3. ASSUME Next PROVE CallsKept /\ OnlyProcessUnwinds' /\ Scope!Next
  <2>1. ASSUME NEW t \in Threads, ThreadStep(t)
        PROVE  CallsKept /\ OnlyProcessUnwinds' /\ Scope!Next
    BY <2>1, ReturnScope, CallbackScopeStep, ThreadExitScope DEF ThreadStep
  <2>2. ASSUME NEW t \in Threads, NEW c \in Conns, ConnCall(t, c)
        PROVE  CallsKept /\ OnlyProcessUnwinds' /\ Scope!Next
    BY <2>2, CallScope, ManageScope DEF ConnCall
  <2> QED
    BY <1>3, <2>1, <2>2 DEF Next
<1>4. CASE Next
  BY <1>1, <1>3, <1>4, InnermostKept DEF RInv
<1> QED
  BY <1>2, <1>4

\* The initial states are initial states of CallbackScope.
LEMMA InitScope == Init => RInv /\ Scope!Init
<1> SUFFICES ASSUME Init PROVE RInv /\ Scope!Init
  OBVIOUS
<1>1. \A t \in Threads : frames[t] = <<>> /\ DOMAIN frames[t] = {}
  BY DEF Init
<1>2. RInv
  BY <1>1, InitIInv DEF RInv, LastIsInnermost, OnlyProcessUnwinds
<1>3. AbstractCalls = [t \in Threads |-> <<>>]
  <2>1. \A t \in Threads : AbstractCalls[t] = <<>>
    BY <1>1, <1>2, SameConditions DEF RInv, IInv
  <2> QED
    BY <2>1 DEF AbstractCalls
<1>4. Threads \ tls = {}
  BY DEF Init
<1> QED
  BY <1>2, <1>3, <1>4 DEF Init, Scope!Init, Scope!Fresh

\* In every reachable state the last entry of a thread's stack is that of its
\* innermost process_new_packets call, at any nesting depth.
THEOREM ScopeInvariant == Spec => []RInv
BY InitScope, NextScope, PTL DEF Spec

\* The thread-local stack with its guards (lib.rs:46-187) implements the
\* specification that has neither: a callback is given the userdata of the
\* innermost process_new_packets call on its thread, for any number of threads
\* and connections, any nesting, and after any panic.
THEOREM StackImplementsScope == Spec => ImplementsCallbackScope
BY InitScope, NextScope, PTL DEF Spec, ImplementsCallbackScope, Scope!Spec
=============================================================================
