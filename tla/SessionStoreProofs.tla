------------------------- MODULE SessionStoreProofs -------------------------
(***************************************************************************)
(* Proofs about SessionStore, for every number of threads, keys and values *)
(* and every size of the buffer.                                           *)
(***************************************************************************)
EXTENDS SessionStore, TLAPS

Held(k, v) == [key |-> k, value |-> v]

OpType ==
    [at : {"idle", "get_cb", "put_cb", "returned"}, call : {"none", "get", "take", "put"},
     key : Keys, remove : BOOLEAN, value : [id : Nat, len : Nat], result : Nat]

OutType ==
    [call : {"none", "get", "take", "put"}, ok : BOOLEAN, key : Keys,
     value : Values \cup {Nothing}]

\* The types, in full.
Types ==
    /\ cache \in [Keys -> Values \cup {Nothing}]
    /\ op \in [Threads -> OpType]
    /\ out \in [Threads -> OutType]
    /\ puts \in 0 .. MaxPuts
    /\ taken \subseteq 1 .. MaxPuts
    /\ kept \subseteq [key : Keys, value : Values]

\* What is in the store was accepted, and was not taken; no two keys hold the
\* same value.
CacheKept ==
    \A k \in Keys : cache[k] # Nothing =>
        /\ Held(k, cache[k]) \in kept
        /\ cache[k].id \notin taken
        /\ \A j \in Keys : cache[j] # Nothing /\ cache[j].id = cache[k].id => j = k

\* Numbers are given out once: all that are in use are at most `puts', ...
Numbered ==
    /\ \A e \in kept : e.value.id <= puts
    /\ \A i \in taken : i <= puts
    /\ \A t \in Threads : /\ op[t].call = "put" => op[t].value.id <= puts
                          /\ out[t].call = "put" => out[t].value.id <= puts

\* ... and the number of a value that is about to be stored has no other use.
OwnNumber(t) ==
    /\ \A e \in kept : e.value.id # op[t].value.id
    /\ op[t].value.id \notin taken
    /\ \A u \in Threads : u # t /\ op[u].call = "put" => op[u].value.id # op[t].value.id
    /\ \A u \in Threads : out[u].call = "put" => out[u].value.id # op[t].value.id

Fresh == \A t \in Threads : op[t].at = "put_cb" => OwnNumber(t)

\* The operation in progress: what it is, and what its callback has done.
Sound(o, accepted) ==
    /\ o.at = "get_cb" => o.call \in {"get", "take"} /\ (o.remove <=> o.call = "take")
    /\ o.at = "put_cb" => o.call = "put"
    /\ o.call = "put" => o.value \in Values
    /\ o.at = "returned" /\ o.call = "put" =>
           (o.result = Ok <=> Held(o.key, o.value) \in accepted)
    /\ o.at = "returned" /\ o.call # "put" /\ o.result = Ok =>
           Held(o.key, o.value) \in accepted /\ o.value.len <= BufLen

OpSound == \A t \in Threads : Sound(op[t], kept)

(***************************************************************************)
(* The inductive invariant.  StoredIfTold alone is not inductive: a put    *)
(* that failed must not find its value stored by another thread, which     *)
(* only Numbered and Fresh exclude; TakenOnce needs CacheKept.             *)
(***************************************************************************)
IInv ==
    Types /\ CacheKept /\ Numbered /\ Fresh /\ OpSound /\ WholeValue /\ StoredIfTold

-----------------------------------------------------------------------------
\* The idle operation and the empty result have their types.
LEMMA Constants ==
  /\ NoOp \in OpType /\ NoResult \in OutType
  /\ NoOp.at = "idle" /\ NoOp.call = "none" /\ NoOp.value = Nothing
  /\ NoResult.call = "none"
  /\ Nothing \notin Values /\ \A v \in Values : v \in [id : Nat, len : Nat]
<1>1. (CHOOSE k \in Keys : TRUE) \in Keys
  BY SessionAssumption
<1>2. Nothing \in [id : Nat, len : Nat] /\ Nothing \notin Values
  <2>1. Nothing \in [id : Nat, len : Nat] /\ Nothing.id = 0
    BY DEF Nothing
  <2>2. \A v \in Values : v.id # 0
    BY SessionAssumption DEF Values
  <2>3. QED
    BY <2>1, <2>2
<1>3. \A v \in Values : v \in [id : Nat, len : Nat]
  <2>1. 1 .. MaxPuts \subseteq Nat /\ ValueLens \subseteq Nat
    BY SessionAssumption
  <2>2. QED
    BY <2>1, Zenon DEF Values
<1>4. PICK k \in Keys : NoOp = [at |-> "idle", call |-> "none", key |-> k, remove |-> FALSE,
                                value |-> Nothing, result |-> 0]
  BY <1>1, Zenon DEF NoOp
<1>5. NoOp \in OpType /\ NoOp.key = k
  BY <1>2, <1>4 DEF OpType
<1>6. NoResult \in OutType /\ NoResult.call = "none"
  BY <1>5 DEF NoResult, OutType
<1>7. QED
  BY <1>2, <1>3, <1>4, <1>5, <1>6

\* The initial state satisfies the invariant.
LEMMA InitIInv == Init => IInv
<1> SUFFICES ASSUME Init PROVE IInv
  OBVIOUS
<1> USE Constants, SessionAssumption DEF Init
<1>1. Types
  BY DEF Types
<1>2. CacheKept /\ Numbered /\ Fresh /\ OpSound
  BY DEF CacheKept, Numbered, Fresh, OwnNumber, OpSound, Sound
<1>3. WholeValue /\ StoredIfTold
  BY DEF WholeValue, StoredIfTold
<1>4. QED
  BY <1>1, <1>2, <1>3 DEF IInv

\* Starting a lookup: the operation has no value yet.
LEMMA RetrieveIInv ==
  ASSUME IInv, NEW t \in Threads, NEW k \in Keys, NEW call \in {"get", "take"},
         NEW remove \in BOOLEAN, remove <=> call = "take", retrieve(t, call, k, remove)
  PROVE  IInv'
<1> DEFINE o == [NoOp EXCEPT !.at = "get_cb", !.call = call, !.key = k, !.remove = remove]
<1>1. /\ o \in OpType
      /\ o.at = "get_cb" /\ o.call = call /\ (o.remove <=> call = "take")
  BY Constants, Zenon DEF OpType
<1>2. /\ op' = [op EXCEPT ![t] = o] /\ out' = [out EXCEPT ![t] = NoResult]
      /\ UNCHANGED <<cache, puts, kept, taken>>
  BY DEF retrieve, Start
<1> HIDE DEF o
<1>3. Types'
  BY <1>1, <1>2, Constants DEF IInv, Types
<1>4. /\ op'[t] = o /\ out'[t] = NoResult
      /\ \A u \in Threads : u # t => op'[u] = op[u] /\ out'[u] = out[u]
  BY <1>2 DEF IInv, Types
<1>5. CacheKept' /\ Numbered' /\ Fresh' /\ OpSound'
  BY <1>1, <1>2, <1>4, Constants DEF IInv, CacheKept, Numbered, Fresh, OwnNumber, OpSound, Sound
<1>6. WholeValue' /\ StoredIfTold'
  BY <1>2, <1>4, Constants DEF IInv, WholeValue, StoredIfTold
<1>7. QED
  BY <1>3, <1>5, <1>6 DEF IInv

\* Starting a put: its number is new.
LEMMA PutIInv ==
  ASSUME IInv, NEW t \in Threads, NEW k \in Keys, NEW n \in ValueLens, put(t, k, n)
  PROVE  IInv'
<1> DEFINE v == [id |-> puts + 1, len |-> n]
           o == [NoOp EXCEPT !.at = "put_cb", !.call = "put", !.key = k, !.value = v]
<1>1. puts \in Nat /\ puts + 1 \in 1 .. MaxPuts /\ puts' = puts + 1
  BY SessionAssumption DEF IInv, Types, put
<1>2. v \in Values /\ v.id = puts + 1
  BY <1>1 DEF Values
<1> HIDE DEF v
<1>3. o \in OpType /\ o.at = "put_cb" /\ o.call = "put" /\ o.value = v
  BY <1>2, Constants, Zenon DEF OpType
<1>4. /\ op' = [op EXCEPT ![t] = o] /\ out' = [out EXCEPT ![t] = NoResult]
      /\ UNCHANGED <<cache, kept, taken>>
  BY DEF put, Start, v
<1> HIDE DEF o
<1>5. Types'
  BY <1>1, <1>3, <1>4, Constants DEF IInv, Types
<1>6. /\ op'[t] = o /\ out'[t] = NoResult
      /\ \A u \in Threads : u # t => op'[u] = op[u] /\ out'[u] = out[u]
  BY <1>4 DEF IInv, Types
<1>7. /\ \A e \in kept : e.value.id \in Nat
      /\ \A i \in taken : i \in Nat
      /\ \A u \in Threads : op[u].value.id \in Nat /\ out[u].value.id \in Nat
  BY DEF IInv, Types, Values, OpType, OutType, Nothing
<1>8. CacheKept' /\ OpSound'
  BY <1>2, <1>3, <1>4, <1>6 DEF IInv, CacheKept, OpSound, Sound
<1>9. Numbered'
  BY <1>1, <1>2, <1>3, <1>4, <1>6, <1>7, Constants DEF IInv, Numbered
<1>10. Fresh'
  <2> SUFFICES ASSUME NEW u \in Threads, op'[u].at = "put_cb" PROVE OwnNumber(u)'
    BY DEF Fresh
  <2>1. CASE u = t
    BY <2>1, <1>1, <1>2, <1>3, <1>4, <1>6, <1>7, Constants DEF IInv, Numbered, OwnNumber
  <2>2. CASE u # t
    BY <2>2, <1>1, <1>2, <1>3, <1>4, <1>6, <1>7, Constants DEF IInv, Numbered, Fresh, OwnNumber, OpSound, Sound
  <2>3. QED
    BY <2>1, <2>2
<1>11. WholeValue' /\ StoredIfTold'
  BY <1>4, <1>6, Constants DEF IInv, WholeValue, StoredIfTold
<1>12. QED
  BY <1>5, <1>8, <1>9, <1>10, <1>11 DEF IInv

\* A callback answers: the fields of the operation that it sets.
LEMMA Answered ==
  ASSUME op \in [Threads -> OpType], NEW t \in Threads,
         NEW w \in [id : Nat, len : Nat], NEW r \in Nat,
         Answer(t, w, r)
  PROVE  /\ op' \in [Threads -> OpType]
         /\ \A u \in Threads : u # t => op'[u] = op[u]
         /\ op'[t].at = "returned" /\ op'[t].value = w /\ op'[t].result = r
         /\ op'[t].call = op[t].call /\ op'[t].key = op[t].key
<1> DEFINE o == [op[t] EXCEPT !.at = "returned", !.value = w, !.result = r]
<1>1. op[t] \in OpType
  OBVIOUS
<1>2. /\ o \in OpType
      /\ o.at = "returned" /\ o.value = w /\ o.result = r
      /\ o.call = op[t].call /\ o.key = op[t].key
  BY <1>1, Zenon DEF OpType
<1>3. op' = [op EXCEPT ![t] = o]
  BY DEF Answer
<1> HIDE DEF o
<1>4. QED
  BY <1>2, <1>3

\* The get callback answers.
LEMMA GetCallbackIInv ==
  ASSUME IInv, NEW t \in Threads, GetCallback(t)
  PROVE  IInv'
<1> DEFINE k == op[t].key
           v == cache[k]
           found == v # Nothing /\ v.len <= BufLen
           o == op'[t]
<1>1. k \in Keys /\ v \in Values \cup {Nothing} /\ op[t].at = "get_cb"
  BY DEF IInv, Types, OpType, GetCallback
<1>2. op[t].call \in {"get", "take"} /\ (op[t].remove <=> op[t].call = "take")
  BY <1>1 DEF IInv, OpSound, Sound
<1>3. /\ o.at = "returned" /\ o.call = op[t].call /\ o.key = k
      /\ o.value = (IF found THEN v ELSE Nothing)
      /\ o.result = (IF found THEN Ok ELSE NotFound)
      /\ \A u \in Threads : u # t => op'[u] = op[u]
      /\ op' \in [Threads -> OpType]
  <2>1. (IF found THEN v ELSE Nothing) \in [id : Nat, len : Nat]
    BY <1>1, Constants DEF Nothing
  <2>2. (IF found THEN Ok ELSE NotFound) \in Nat
    BY DEF Ok, NotFound
  <2> DEFINE w == IF found THEN v ELSE Nothing
             r == IF found THEN Ok ELSE NotFound
  <2>3. Answer(t, w, r)
    BY DEF GetCallback
  <2> HIDE DEF w, r, found, v
  <2>4. op \in [Threads -> OpType] /\ w \in [id : Nat, len : Nat] /\ r \in Nat
    BY <2>1, <2>2 DEF IInv, Types, w, r
  <2>5. /\ o.at = "returned" /\ o.call = op[t].call /\ o.key = k /\ o.value = w /\ o.result = r
        /\ \A u \in Threads : u # t => op'[u] = op[u]
        /\ op' \in [Threads -> OpType]
    BY <2>3, <2>4, Answered
  <2>6. QED
    BY <2>5 DEF w, r
<1>4. UNCHANGED <<out, puts, kept>>
  BY DEF GetCallback
<1>5. /\ cache' \in [Keys -> Values \cup {Nothing}]
      /\ \A j \in Keys : j # k => cache'[j] = cache[j]
      /\ cache'[k] \in {v, Nothing}
      /\ op[t].call = "take" => cache'[k] = Nothing
  BY <1>1, <1>2, SMTT(20) DEF IInv, Types, GetCallback
<1>6. /\ found => v \in Values /\ v.id \in 1 .. MaxPuts /\ Held(k, v) \in kept /\ v.len <= BufLen
      /\ taken' \in {taken, taken \cup {v.id}}
      /\ taken' # taken => found /\ op[t].call = "take"
  BY <1>1 DEF IInv, CacheKept, GetCallback, Values
<1> HIDE DEF found, v, k, o
<1>7. Types'
  BY <1>3, <1>4, <1>5, <1>6 DEF IInv, Types
<1>8. CacheKept'
  BY <1>1, <1>4, <1>5, <1>6 DEF IInv, CacheKept, v, found
<1>9. Numbered'
  <2>1. found => v.id <= puts
    BY <1>6 DEF IInv, Numbered, Held
  <2>2. QED
    BY <1>2, <1>3, <1>4, <1>6, <2>1 DEF IInv, Numbered, o
<1>10. Fresh'
  <2>1. \A u \in Threads : op'[u].at = "put_cb" => u # t /\ op[u].at = "put_cb"
    BY <1>3 DEF o
  <2>2. \A u \in Threads : op[u].at = "put_cb" /\ found => op[u].value.id # v.id
    BY <1>6 DEF IInv, Fresh, OwnNumber, Held
  <2>3. QED
    BY <1>2, <1>3, <1>4, <1>6, <2>1, <2>2 DEF IInv, Fresh, OwnNumber, o
<1>11. OpSound'
  BY <1>2, <1>3, <1>4, <1>6 DEF IInv, OpSound, Sound, o, Ok, NotFound
<1>12. WholeValue' /\ StoredIfTold'
  BY <1>4 DEF IInv, WholeValue, StoredIfTold
<1>13. QED
  BY <1>7, <1>8, <1>9, <1>10, <1>11, <1>12 DEF IInv

\* The get callback fails: whatever it has left, the result is not Ok.
LEMMA GetCallbackFailsIInv ==
  ASSUME IInv, NEW t \in Threads, NEW result \in Results \ {Ok}, NEW n \in ValueLens,
         GetCallbackFails(t, result, n)
  PROVE  IInv'
<1>1. UNCHANGED <<cache, out, puts, kept, taken>> /\ op[t].at = "get_cb"
  BY DEF GetCallbackFails
<1>2. op[t].call \in {"get", "take"}
  BY <1>1 DEF IInv, OpSound, Sound
<1>3. /\ op' \in [Threads -> OpType]
      /\ op'[t].at = "returned" /\ op'[t].call = op[t].call /\ op'[t].result # Ok
      /\ \A u \in Threads : u # t => op'[u] = op[u]
  <2> DEFINE w == [id |-> 0, len |-> n]
  <2>1. Answer(t, w, result)
    BY DEF GetCallbackFails
  <2>2. w \in [id : Nat, len : Nat] /\ result \in Nat /\ result # Ok
    BY SessionAssumption DEF Results, Ok, NotFound
  <2> HIDE DEF w
  <2>3. op \in [Threads -> OpType]
    BY DEF IInv, Types
  <2>4. QED
    BY <2>1, <2>2, <2>3, Answered
<1>4. Types'
  BY <1>1, <1>3, SMTT(20) DEF IInv, Types
<1>5. CacheKept' /\ Numbered' /\ Fresh' /\ OpSound'
  BY <1>1, <1>2, <1>3 DEF IInv, CacheKept, Numbered, Fresh, OwnNumber, OpSound, Sound
<1>6. WholeValue' /\ StoredIfTold'
  BY <1>1 DEF IInv, WholeValue, StoredIfTold
<1>7. QED
  BY <1>4, <1>5, <1>6 DEF IInv

\* The put callback answers: a value that it stores is a new one.
LEMMA PutCallbackIInv ==
  ASSUME IInv, NEW t \in Threads, NEW result \in Results, PutCallback(t, result)
  PROVE  IInv'
<1> DEFINE k == op[t].key
           v == op[t].value
           e0 == Held(k, v)
<1>1. op[t].at = "put_cb" /\ op[t].call = "put" /\ UNCHANGED <<out, puts, taken>>
  BY DEF IInv, OpSound, Sound, PutCallback
<1>2. v \in Values /\ k \in Keys /\ v \in [id : Nat, len : Nat]
  BY <1>1, Constants DEF IInv, OpSound, Sound, Types, OpType
<1>3. /\ op' \in [Threads -> OpType]
      /\ \A u \in Threads : u # t => op'[u] = op[u]
      /\ op'[t].at = "returned" /\ op'[t].value = v /\ op'[t].result = result
      /\ op'[t].call = "put" /\ op'[t].key = k
  <2>1. op \in [Threads -> OpType] /\ Answer(t, v, result) /\ result \in Nat
    BY DEF IInv, Types, PutCallback, Results, Ok, NotFound
  <2>2. QED
    BY <1>1, <1>2, <2>1, Answered
<1>4. /\ result = Ok => kept' = kept \cup {e0} /\ cache' = [cache EXCEPT ![k] = v]
      /\ result # Ok => kept' = kept /\ cache' = cache
  BY DEF PutCallback, Held
<1>5. e0 \in [key : Keys, value : Values] /\ e0.value = v /\ e0.key = k
  BY <1>2 DEF Held
<1>6. /\ \A e \in kept : e.value.id # v.id
      /\ v.id \notin taken
      /\ \A u \in Threads : u # t /\ op[u].call = "put" => op[u].value.id # v.id
      /\ \A u \in Threads : out[u].call = "put" => out[u].value.id # v.id
  BY <1>1 DEF IInv, Fresh, OwnNumber
<1>7. v.id <= puts /\ e0 \notin kept
  BY <1>1, <1>5, <1>6 DEF IInv, Numbered
<1> HIDE DEF k, v, e0
<1>8. Types'
  BY <1>1, <1>2, <1>3, <1>4, <1>5 DEF IInv, Types
<1>9. CacheKept'
  <2>1. CASE result # Ok
    BY <2>1, <1>1, <1>4 DEF IInv, CacheKept
  <2>2. CASE result = Ok
    <3>1. \A j \in Keys : cache[j] # Nothing =>
             Held(j, cache[j]) \in kept /\ Held(j, cache[j]).value = cache[j]
      BY DEF IInv, CacheKept, Held
    <3>2. /\ cache'[k] = v
          /\ \A j \in Keys : j # k => cache'[j] = cache[j]
          /\ \A j \in Keys : cache[j] # Nothing => cache[j].id # v.id
      BY <1>2, <1>4, <1>6, <2>2, <3>1 DEF IInv, Types
    <3>3. Held(k, v) \in kept' /\ kept \subseteq kept'
      BY <1>4, <2>2 DEF e0
    <3>4. QED
      BY <1>1, <1>2, <1>6, <3>2, <3>3 DEF IInv, CacheKept
  <2>3. QED
    BY <2>1, <2>2
<1>10. Numbered'
  BY <1>1, <1>3, <1>4, <1>5, <1>7 DEF IInv, Numbered
<1>11. Fresh'
  <2> SUFFICES ASSUME NEW u \in Threads, op'[u].at = "put_cb" PROVE OwnNumber(u)'
    BY DEF Fresh
  <2>1. u # t /\ op'[u] = op[u] /\ op[u].at = "put_cb" /\ op[u].call = "put"
    BY <1>3 DEF IInv, OpSound, Sound
  <2>2. op[u].value.id # v.id
    BY <1>6, <2>1
  <2>3. \A e \in kept' : e \in kept \/ e.value.id = v.id
    BY <1>4, <1>5
  <2>4. QED
    BY <1>1, <1>3, <2>1, <2>2, <2>3 DEF IInv, Fresh, OwnNumber
<1>12. \A j \in Keys, x \in [id : Nat, len : Nat] : x.id # v.id =>
          (Held(j, x) \in kept' <=> Held(j, x) \in kept)
  BY <1>4, <1>5 DEF Held
<1>13. OpSound'
  <2> SUFFICES ASSUME NEW u \in Threads PROVE Sound(op'[u], kept')
    BY DEF OpSound
  <2>1. CASE u = t
    BY <2>1, <1>2, <1>3, <1>4, <1>7 DEF Sound, e0
  <2>2. CASE u # t
    <3>1. op'[u] = op[u] /\ op[u] \in OpType
      BY <1>3, <2>2 DEF IInv, Types
    <3>2. op[u].call = "put" => op[u].value.id # v.id
      BY <1>6, <2>2
    <3>3. op[u].key \in Keys /\ op[u].value \in [id : Nat, len : Nat]
      BY <3>1 DEF OpType
    <3>4. kept \subseteq kept'
      BY <1>4
    <3>5. QED
      BY <1>12, <3>1, <3>2, <3>3, <3>4 DEF IInv, OpSound, Sound
  <2>3. QED
    BY <2>1, <2>2
<1>14. WholeValue'
  BY <1>1, <1>4 DEF IInv, WholeValue
<1>15. StoredIfTold'
  <2>1. \A u \in Threads : out[u].key \in Keys /\ out[u].value \in [id : Nat, len : Nat]
    BY Constants DEF IInv, Types, OutType, Nothing
  <2>2. \A u \in Threads : out[u].call = "put" =>
           ([key |-> out[u].key, value |-> out[u].value] \in kept' <=>
            [key |-> out[u].key, value |-> out[u].value] \in kept)
    BY <1>6, <1>12, <2>1 DEF Held
  <2>3. QED
    BY <1>1, <2>2 DEF IInv, StoredIfTold
<1>16. QED
  BY <1>8, <1>9, <1>10, <1>11, <1>13, <1>14, <1>15 DEF IInv

\* An operation returns: Ok stands for a value that was accepted, and for a put
\* that was stored.
LEMMA ReturnsIInv ==
  ASSUME IInv, NEW t \in Threads, Returns(t)
  PROVE  IInv'
<1> DEFINE o == op[t]
           ok == IF o.call = "put" THEN is_stored(o) ELSE is_some(o)
           w == IF ok \/ o.call = "put" THEN o.value ELSE Nothing
           r == [call |-> o.call, ok |-> ok, key |-> o.key, value |-> w]
<1>1. /\ o \in OpType /\ o.at = "returned" /\ Sound(o, kept)
      /\ UNCHANGED <<cache, puts, kept, taken>>
  BY DEF IInv, Types, OpSound, Returns
<1>2. (ok <=> o.result = Ok) /\ ok \in BOOLEAN
  BY DEF is_stored, is_some
<1>3. out' = [out EXCEPT ![t] = r] /\ op' = [op EXCEPT ![t] = NoOp]
  BY DEF Returns
<1> HIDE DEF ok
<1>4. w \in Values \cup {Nothing}
  <2>1. \A j : Held(j, o.value) \in kept => o.value \in Values
    BY DEF IInv, Types, Held
  <2>2. QED
    BY <1>1, <1>2, <2>1 DEF Sound
<1> HIDE DEF w
<1>5. /\ r \in OutType /\ r.call = o.call /\ r.ok = ok /\ r.key = o.key /\ r.value = w
      /\ o.call = "put" => w = o.value
      /\ ok => w = o.value
  <2>1. o.key \in Keys /\ o.call \in {"none", "get", "take", "put"}
    BY <1>1 DEF OpType
  <2>2. QED
    BY <1>2, <1>4, <2>1 DEF OutType, w
<1> HIDE DEF r
<1>6. /\ op'[t] = NoOp /\ out'[t] = r
      /\ \A u \in Threads : u # t => op'[u] = op[u] /\ out'[u] = out[u]
      /\ op' \in [Threads -> OpType] /\ out' \in [Threads -> OutType]
  BY <1>3, <1>5, Constants DEF IInv, Types
<1>7. Types' /\ CacheKept'
  BY <1>1, <1>6 DEF IInv, Types, CacheKept
<1>8. Numbered'
  BY <1>1, <1>5, <1>6, Constants DEF IInv, Numbered
<1>9. Fresh'
  <2> SUFFICES ASSUME NEW u \in Threads, op'[u].at = "put_cb" PROVE OwnNumber(u)'
    BY DEF Fresh
  <2>1. u # t /\ op'[u] = op[u] /\ OwnNumber(u)
    BY <1>6, Constants DEF IInv, Fresh
  <2>2. QED
    BY <1>1, <1>5, <1>6, <2>1, Constants DEF OwnNumber
<1>10. OpSound'
  <2>1. Sound(NoOp, kept)
    BY Constants DEF Sound
  <2>2. QED
    BY <1>1, <1>6, <2>1 DEF IInv, OpSound
<1>11. WholeValue'
  <2>1. r.call \in {"get", "take"} /\ r.ok =>
           [key |-> r.key, value |-> r.value] \in kept /\ r.value.len <= BufLen
    BY <1>1, <1>2, <1>5 DEF Sound, Held
  <2>2. QED
    BY <1>1, <1>6, <2>1 DEF IInv, WholeValue
<1>12. StoredIfTold'
  <2>1. r.call = "put" => (r.ok <=> [key |-> r.key, value |-> r.value] \in kept)
    BY <1>1, <1>2, <1>5 DEF Sound, Held
  <2>2. QED
    BY <1>1, <1>6, <2>1, SMTT(20) DEF IInv, StoredIfTold
<1>13. QED
  BY <1>7, <1>8, <1>9, <1>10, <1>11, <1>12 DEF IInv

\* Every step keeps the invariant.
LEMMA NextIInv == IInv /\ [Next]_vars => IInv'
<1> SUFFICES ASSUME IInv, [Next]_vars PROVE IInv'
  BY SMTT(20)
<1>1. CASE UNCHANGED vars
  BY <1>1 DEF vars, IInv, Types, CacheKept, Numbered, Fresh, OwnNumber, OpSound,
              WholeValue, StoredIfTold
<1>2. ASSUME NEW t \in Threads, NEW k \in Keys, get(t, k) \/ take(t, k)
      PROVE  IInv'
  BY <1>2, RetrieveIInv, Zenon DEF get, take
<1>3. ASSUME NEW t \in Threads, NEW k \in Keys, NEW n \in ValueLens, put(t, k, n)
      PROVE  IInv'
  BY <1>3, PutIInv
<1>4. ASSUME NEW t \in Threads, GetCallback(t) PROVE IInv'
  BY <1>4, GetCallbackIInv
<1>5. ASSUME NEW t \in Threads, NEW result \in Results \ {Ok}, NEW n \in ValueLens,
             GetCallbackFails(t, result, n)
      PROVE  IInv'
  BY <1>5, GetCallbackFailsIInv
<1>6. ASSUME NEW t \in Threads, NEW result \in Results, PutCallback(t, result)
      PROVE  IInv'
  BY <1>6, PutCallbackIInv
<1>7. ASSUME NEW t \in Threads, Returns(t) PROVE IInv'
  BY <1>7, ReturnsIInv
<1>8. QED
  BY <1>1, <1>2, <1>3, <1>4, <1>5, <1>6, <1>7 DEF Next

-----------------------------------------------------------------------------
\* The invariant holds in every reachable state.
THEOREM SessionInvariant == Spec => []IInv
<1>1. QED
  BY InitIInv, NextIInv, PTL DEF Spec

\* What rustls is given for a session id is a whole value that was stored under
\* it, whatever the callbacks of other threads do (session.rs:93-121).
THEOREM SessionWhole == Spec => []WholeValue
<1>1. IInv => WholeValue
  BY DEF IInv
<1>2. QED
  BY <1>1, SessionInvariant, PTL

\* rustls is told that a session was stored exactly if C has stored it
\* (session.rs:123-134).
THEOREM SessionStored == Spec => []StoredIfTold
<1>1. IInv => StoredIfTold
  BY DEF IInv
<1>2. QED
  BY <1>1, SessionInvariant, PTL

\* A step that changes neither the store nor an operation that waits for the
\* get callback.
LEMMA Untouched ==
  ASSUME NEW t \in Threads, op[t].at # "get_cb", cache' = cache,
         \A u \in Threads : u # t => op'[u] = op[u]
  PROVE  FoundUntaken /\ LeavesForCause
BY DEF FoundUntaken, LeavesForCause

\* No step finds a value that was taken, or loses one.
LEMMA StepTakenOnce == IInv /\ [Next]_vars => [FoundUntaken /\ LeavesForCause]_vars
<1> SUFFICES ASSUME IInv, Next PROVE FoundUntaken /\ LeavesForCause
  OBVIOUS
<1>1. op \in [Threads -> OpType] /\ cache \in [Keys -> Values \cup {Nothing}]
  BY DEF IInv, Types
<1>2. ASSUME NEW t \in Threads, NEW k \in Keys, NEW n \in ValueLens, put(t, k, n)
      PROVE  FoundUntaken /\ LeavesForCause
  <2>1. /\ op[t].at = "idle" /\ cache' = cache
        /\ \A u \in Threads : u # t => op'[u] = op[u]
    BY <1>1, <1>2 DEF put, Start
  <2>2. QED
    BY <2>1, Untouched
<1>3. ASSUME NEW t \in Threads, NEW k \in Keys, get(t, k) \/ take(t, k)
      PROVE  FoundUntaken /\ LeavesForCause
  <2>1. /\ op[t].at = "idle" /\ cache' = cache
        /\ \A u \in Threads : u # t => op'[u] = op[u]
    BY <1>1, <1>3 DEF get, take, retrieve, Start
  <2>2. QED
    BY <2>1, Untouched
<1>4. ASSUME NEW t \in Threads, GetCallback(t)
      PROVE  FoundUntaken /\ LeavesForCause
  <2> DEFINE k == op[t].key
             v == cache[k]
             found == v # Nothing /\ v.len <= BufLen
             w == IF found THEN v ELSE Nothing
             r == IF found THEN Ok ELSE NotFound
  <2>1. /\ op[t].at = "get_cb" /\ Answer(t, w, r) /\ k \in Keys
        /\ cache' = IF op[t].remove \/ ~found THEN [cache EXCEPT ![k] = Nothing] ELSE cache
        /\ taken' = IF found /\ op[t].call = "take" THEN taken \cup {v.id} ELSE taken
    BY <1>1, <1>4 DEF GetCallback, OpType
  <2>2. op[t].remove <=> op[t].call = "take"
    BY <2>1 DEF IInv, OpSound, Sound
  <2>3. w \in [id : Nat, len : Nat] /\ r \in Nat /\ (r = Ok => found /\ w = v)
    <3>1. v \in [id : Nat, len : Nat]
      BY <1>1, <2>1, Constants DEF Nothing
    <3>2. QED
      BY <3>1, Constants, SMTT(20) DEF Nothing, Ok, NotFound
  <2>4. found => v.id \notin taken
    BY <2>1 DEF IInv, CacheKept
  <2> HIDE DEF w, r
  <2>5. /\ \A u \in Threads : u # t => op'[u] = op[u]
        /\ op'[t].value = w /\ op'[t].result = r
    BY <1>1, <2>1, <2>3, Answered
  <2>6. FoundUntaken
    BY <2>3, <2>4, <2>5 DEF FoundUntaken
  <2>7. LeavesForCause
    <3>1. \A j \in Keys : j # k => cache'[j] = cache[j]
      BY <1>1, <2>1
    <3>2. v # Nothing /\ cache'[k] = Nothing => v.id \in taken' \/ v.len > BufLen
      <4>1. v # Nothing => v.len \in Nat
        BY <1>1, <2>1, SessionAssumption, Zenon DEF Values
      <4>2. QED
        BY <1>1, <2>1, <2>2, <4>1, SessionAssumption
    <3>3. QED
      BY <3>1, <3>2 DEF LeavesForCause
  <2>8. QED
    BY <2>6, <2>7
<1>5. ASSUME NEW t \in Threads, NEW result \in Results \ {Ok}, NEW n \in ValueLens,
             GetCallbackFails(t, result, n)
      PROVE  FoundUntaken /\ LeavesForCause
  <2>1. cache' = cache /\ op'[t].result # Ok /\ \A u \in Threads : u # t => op'[u] = op[u]
    BY <1>1, <1>5 DEF GetCallbackFails, Answer, OpType
  <2>2. QED
    BY <2>1 DEF FoundUntaken, LeavesForCause
<1>6. ASSUME NEW t \in Threads, NEW result \in Results, PutCallback(t, result)
      PROVE  FoundUntaken /\ LeavesForCause
  <2>1. /\ op[t].at = "put_cb" /\ op[t].value \in Values
        /\ \A u \in Threads : u # t => op'[u] = op[u]
    BY <1>1, <1>6 DEF IInv, OpSound, Sound, PutCallback, Answer
  <2>2. \A k \in Keys : cache'[k] = cache[k] \/ cache'[k] = op[t].value
    BY <1>1, <1>6 DEF PutCallback
  <2>3. QED
    BY <2>1, <2>2, Constants DEF FoundUntaken, LeavesForCause
<1>7. ASSUME NEW t \in Threads, Returns(t)
      PROVE  FoundUntaken /\ LeavesForCause
  <2>1. /\ op[t].at = "returned" /\ cache' = cache
        /\ \A u \in Threads : u # t => op'[u] = op[u]
    BY <1>1, <1>7 DEF Returns
  <2>2. QED
    BY <2>1, Untouched
<1>8. QED
  BY <1>2, <1>3, <1>4, <1>5, <1>6, <1>7 DEF Next

\* A session that was taken is not found again, and none is lost by looking it
\* up (session.rs:141-147).
THEOREM SessionTakenOnce == Spec => TakenOnce
<1>1. QED
  BY SessionInvariant, StepTakenOnce, PTL DEF Spec, TakenOnce
=============================================================================
