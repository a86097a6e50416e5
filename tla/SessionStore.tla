---------------------------- MODULE SessionStore ----------------------------
(***************************************************************************)
(* SessionStoreBroker: rustls keeps TLS sessions in a store that C         *)
(* provides as two callbacks.  Connections on several threads share the    *)
(* broker through their config.  Each operation goes through the callback  *)
(* and comes back with a number, a buffer and a length.                    *)
(*                                                                         *)
(* The store itself is C's.  It keeps to session.rs:11-68: one callback is *)
(* one step (it is thread-safe), it never copies a part of a value, and it *)
(* removes a value that it was asked to remove or that does not fit.  It   *)
(* may fail at any time, and what a failed callback has left in the buffer *)
(* and in out_n is arbitrary.  userdata_get succeeds below                 *)
(* process_new_packets (UserdataStack).                                    *)
(***************************************************************************)
EXTENDS Naturals, Sequences, FiniteSets

CONSTANTS
    Threads,
    Keys,         \* session ids
    BufLen,       \* the size of retrieve's buffer: 65 * 1024 in the code
    ValueLens,    \* the sizes of the values that rustls stores
    MaxPuts       \* bound on the number of values stored

ASSUME SessionAssumption ==
    /\ Keys # {} /\ MaxPuts \in Nat
    /\ BufLen \in Nat \ {0} /\ ValueLens \subseteq Nat \ {0}

VARIABLES
    cache,    \* C's store: a value for each key, or Nothing
    op,       \* the operation in progress on each thread
    out,      \* what the last operation on each thread returned to rustls
    puts,     \* how many values rustls has stored
    kept,     \* the values that C's store has ever accepted, with their keys
    taken     \* the values that a take has been given

vars == <<cache, op, out, puts, kept, taken>>

\* A value: a number of its own, and how many bytes there are.
Nothing == [id |-> 0, len |-> 0]
Values == [id : 1 .. MaxPuts, len : ValueLens]

Ok == 7000
NotFound == 7008
Results == {Ok, NotFound, 1}   \* 1 is no rustls_result

NoOp == [at |-> "idle", call |-> "none", key |-> CHOOSE k \in Keys : TRUE,
         remove |-> FALSE, value |-> Nothing, result |-> 0]
NoResult == [call |-> "none", ok |-> FALSE, key |-> NoOp.key, value |-> Nothing]

\* A thread starts an operation; it is done with the result of the one before.
Start(t, o) ==
    /\ op[t].at = "idle"
    /\ op' = [op EXCEPT ![t] = o]
    /\ out' = [out EXCEPT ![t] = NoResult]

-----------------------------------------------------------------------------
(***************************************************************************)
(* The operations that rustls calls.                                       *)
(***************************************************************************)
\* retrieve, up to its callback.
retrieve(t, call, k, remove) ==
    /\ Start(t, [NoOp EXCEPT !.at = "get_cb", !.call = call, !.key = k, !.remove = remove])
    /\ UNCHANGED <<cache, puts, kept, taken>>

\* StoresServerSessions::get and StoresClientSessions::get.
get(t, k) == retrieve(t, "get", k, FALSE)

\* Mutant of take: it leaves the value in the store.
take_keeps(t, k) == retrieve(t, "take", k, FALSE)

\* StoresServerSessions::take.
take(t, k) == retrieve(t, "take", k, TRUE)

\* StoresServerSessions::put, StoresClientSessions::put and store, up to the
\* callback.
put(t, k, n) ==
    /\ puts < MaxPuts
    /\ puts' = puts + 1
    /\ Start(t, [NoOp EXCEPT !.at = "put_cb", !.call = "put", !.key = k,
                             !.value = [id |-> puts + 1, len |-> n]])
    /\ UNCHANGED <<cache, kept, taken>>

-----------------------------------------------------------------------------
(***************************************************************************)
(* C's callbacks.                                                          *)
(***************************************************************************)
\* The callback returns a number; v is in the buffer.
Answer(t, v, result) ==
    op' = [op EXCEPT ![t] = [@ EXCEPT !.at = "returned", !.value = v, !.result = result]]

\* The get callback answers: with the value, or NotFound; a value that does not
\* fit is removed.
GetCallback(t) ==
    LET k == op[t].key
        v == cache[k]
        found == v # Nothing /\ v.len <= BufLen
    IN  /\ op[t].at = "get_cb"
        /\ Answer(t, IF found THEN v ELSE Nothing, IF found THEN Ok ELSE NotFound)
        /\ cache' = IF op[t].remove \/ ~found THEN [cache EXCEPT ![k] = Nothing] ELSE cache
        /\ taken' = IF found /\ op[t].call = "take" THEN taken \cup {v.id} ELSE taken
        /\ UNCHANGED <<out, puts, kept>>

\* The get callback fails, with any length in out_n.
GetCallbackFails(t, result, n) ==
    /\ op[t].at = "get_cb"
    /\ Answer(t, [id |-> 0, len |-> n], result)
    /\ UNCHANGED <<cache, out, puts, kept, taken>>

\* The put callback stores the value, or fails and does not.
PutCallback(t, result) ==
    /\ op[t].at = "put_cb"
    /\ Answer(t, op[t].value, result)
    /\ IF result = Ok
       THEN /\ cache' = [cache EXCEPT ![op[t].key] = op[t].value]
            /\ kept' = kept \cup {[key |-> op[t].key, value |-> op[t].value]}
       ELSE UNCHANGED <<cache, kept>>
    /\ UNCHANGED <<out, puts, taken>>

-----------------------------------------------------------------------------
(***************************************************************************)
(* The operations return.                                                  *)
(***************************************************************************)
\* Mutant of is_some: it looks at the length and not at the result.
is_some_by_length(o) == o.value.len > 0

\* retrieve: Some(data), cut to out_n, only for Ok.
is_some(o) == o.result = Ok

\* Mutant of is_stored: any rustls_result counts as success.
is_stored_leniently(o) == o.result >= Ok

\* store: true only for Ok.
is_stored(o) == o.result = Ok

\* The operation is over: out is its result.
Returns(t) ==
    /\ op[t].at = "returned"
    /\ LET ok == IF op[t].call = "put" THEN is_stored(op[t]) ELSE is_some(op[t])
       IN  out' = [out EXCEPT ![t] = [call |-> op[t].call, ok |-> ok, key |-> op[t].key,
                       value |-> IF ok \/ op[t].call = "put" THEN op[t].value ELSE Nothing]]
    /\ op' = [op EXCEPT ![t] = NoOp]
    /\ UNCHANGED <<cache, puts, kept, taken>>

Init ==
    /\ cache = [k \in Keys |-> Nothing]
    /\ op = [t \in Threads |-> NoOp]
    /\ out = [t \in Threads |-> NoResult]
    /\ puts = 0 /\ kept = {} /\ taken = {}

Next ==
    \E t \in Threads :
        \/ \E k \in Keys : get(t, k) \/ take(t, k) \/ \E n \in ValueLens : put(t, k, n)
        \/ GetCallback(t)
        \/ \E result \in Results \ {Ok}, n \in ValueLens : GetCallbackFails(t, result, n)
        \/ \E result \in Results : PutCallback(t, result)
        \/ Returns(t)

Spec == Init /\ [][Next]_vars

-----------------------------------------------------------------------------
(***************************************************************************)
(* Properties.                                                             *)
(***************************************************************************)

\* The types of the variables.
TypeOK ==
    /\ cache \in [Keys -> Values \cup {Nothing}]
    /\ \A t \in Threads :
           /\ op[t].at \in {"idle", "get_cb", "put_cb", "returned"}
           /\ out[t].ok \in BOOLEAN
           /\ out[t].value \in Values \cup {Nothing}
    /\ puts \in 0 .. MaxPuts /\ taken \subseteq 1 .. MaxPuts
    /\ kept \subseteq [key : Keys, value : Values]

\* What rustls is given for a session id is a value that was stored under that
\* id, whole, and that fits the buffer: neither what a failed callback has left
\* there, nor a part of something (session.rs:93-121).
WholeValue ==
    \A t \in Threads :
        out[t].call \in {"get", "take"} /\ out[t].ok =>
            [key |-> out[t].key, value |-> out[t].value] \in kept /\ out[t].value.len <= BufLen

\* rustls is told that a session was stored exactly if C has stored it, so that
\* it offers no ticket for a session that is not there (session.rs:123-134).
StoredIfTold ==
    \A t \in Threads :
        out[t].call = "put" =>
            (out[t].ok <=> [key |-> out[t].key, value |-> out[t].value] \in kept)

\* A callback answers with a value that no take has had before.
FoundUntaken ==
    \A t \in Threads :
        op[t].at = "get_cb" /\ op'[t].at = "returned" /\ op'[t].result = Ok =>
            op'[t].value.id \notin taken

\* A value leaves the store for a reason.
LeavesForCause ==
    \A k \in Keys :
        cache[k] # Nothing /\ cache'[k] = Nothing =>
            cache[k].id \in taken' \/ cache[k].len > BufLen

\* A session that was taken is not found again by any thread: TLS 1.3 tickets
\* are for one use (take asks for removal, session.rs:145-147).  And a session
\* leaves the store only when it is taken, replaced, or too large for the
\* buffer: looking it up does not lose it (session.rs:141-143).
TakenOnce == [][FoundUntaken /\ LeavesForCause]_vars
=============================================================================
