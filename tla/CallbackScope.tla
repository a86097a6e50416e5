--------------------------- MODULE CallbackScope ---------------------------
(***************************************************************************)
(* What the C caller is promised about callbacks, with no thread-local     *)
(* stack: a callback made by rustls receives the userdata of the innermost *)
(* process_new_packets call in progress on its thread (README.md:127-132), *)
(* and process_new_packets reports Panic only for a panic or for a thread  *)
(* that is past the destruction of its thread-locals.                      *)
(*                                                                         *)
(* UserdataStack implements this specification.                            *)
(***************************************************************************)
EXTENDS Naturals, Sequences, Stacks

CONSTANTS Threads, Conns, Ptrs, NULL, LogFns, None

VARIABLES
    live,    \* the connections that exist
    conn,    \* their userdata and log callback
    logger,  \* the process-wide logger
    ended,   \* the threads whose thread-locals are destroyed
    calls,   \* the calls in progress on each thread, innermost last
    ret      \* what process_new_packets last returned on each thread

vars == <<live, conn, logger, ended, calls, ret>>

Fresh == [userdata |-> NULL, log_callback |-> None]
NewCall(f, c) == [fn |-> f, conn |-> c, at |-> "rustls", cb |-> "none",
                  cbfn |-> None, arg |-> NULL]

Top(t) == Last(calls[t])
InC(t) == calls[t] # <<>> => Top(t).at = "callback"
InRustls(t) == calls[t] # <<>> /\ Top(t).at = "rustls"
Idle(c) == \A t \in Threads : \A i \in DOMAIN calls[t] : calls[t][i].conn # c
SetTop(t, f) == calls' = [calls EXCEPT ![t] = ReplaceLast(@, f)]
Innermost(t, i) ==
    /\ calls[t][i].fn = "process"
    /\ \A j \in DOMAIN calls[t] : j > i => calls[t][j].fn # "process"

-----------------------------------------------------------------------------
\* C creates, frees or sets up a connection that is in no call.
Manage(t, c) ==
    /\ InC(t)
    /\ Idle(c)
    /\ \/ c \in live /\ live' = live \ {c} /\ conn' = [conn EXCEPT ![c] = Fresh]
                     /\ UNCHANGED logger
       \/ \E u \in Ptrs : /\ c \in live
                          /\ conn' = [conn EXCEPT ![c].userdata = u]
                          /\ UNCHANGED <<live, logger>>
       \/ \E cb \in LogFns \cup {None} :
              /\ c \in live
              /\ conn' = [conn EXCEPT ![c].log_callback = cb]
              /\ logger' = IF logger = "none" THEN "ours" ELSE logger
              /\ UNCHANGED live
    /\ UNCHANGED <<ended, calls, ret>>

\* C calls the library.  A process call on an ended thread fails at once.
Enter(t, c, f) ==
    /\ InC(t)
    /\ Idle(c)
    /\ (c \in live) = (f.fn # "new")
    /\ f.fn = "process" => t \notin ended
    /\ calls' = [calls EXCEPT ![t] = Append(@, f)]
    /\ UNCHANGED <<live, conn, logger, ended, ret>>

EnterFails(t, c) ==
    /\ InC(t)
    /\ Idle(c)
    /\ c \in live
    /\ t \in ended
    /\ ret' = [ret EXCEPT ![t] = "Panic"]
    /\ UNCHANGED <<live, conn, logger, ended, calls>>

\* The innermost call returns.  Only a process call that unwinds reports Panic.
Leave(t) ==
    /\ calls[t] # <<>>
    /\ calls' = [calls EXCEPT ![t] = Front(@)]
    /\ CASE Top(t).fn = "process" /\ Top(t).at = "rustls" ->
                \E r \in {"Ok", "Error"} : ret' = [ret EXCEPT ![t] = r]
         [] Top(t).fn = "process" /\ Top(t).at = "unwinding" ->
                ret' = [ret EXCEPT ![t] = "Panic"]
         [] OTHER -> Top(t).fn # "process" /\ UNCHANGED ret
    /\ \/ /\ Top(t).fn = "new"
          /\ live' = live \cup {Top(t).conn}
          /\ conn' = [conn EXCEPT ![Top(t).conn] = Fresh]
       \/ UNCHANGED <<live, conn>>
    /\ UNCHANGED <<logger, ended>>

Panics(t) ==
    /\ InRustls(t)
    /\ Top(t).fn = "process"
    /\ SetTop(t, [Top(t) EXCEPT !.at = "unwinding"])
    /\ UNCHANGED <<live, conn, logger, ended, ret>>

\* A verify, hello or session callback is always made, with the userdata of
\* the connection being processed.
AppCallback(t) ==
    /\ InRustls(t)
    /\ Top(t).fn = "process"
    /\ SetTop(t, [Top(t) EXCEPT !.at = "callback", !.cb = "app",
                                !.arg = conn[Top(t).conn].userdata])
    /\ UNCHANGED <<live, conn, logger, ended, ret>>

\* A log record goes to the connection of the innermost process call.
LogCallback(t) ==
    /\ InRustls(t)
    /\ logger = "ours"
    /\ \E i \in DOMAIN calls[t] :
           /\ Innermost(t, i)
           /\ conn[calls[t][i].conn].log_callback # None
           /\ SetTop(t, [Top(t) EXCEPT
                  !.at = "callback", !.cb = "log",
                  !.cbfn = conn[calls[t][i].conn].log_callback,
                  !.arg = conn[calls[t][i].conn].userdata])
    /\ UNCHANGED <<live, conn, logger, ended, ret>>

CallbackReturns(t) ==
    /\ calls[t] # <<>>
    /\ Top(t).at = "callback"
    /\ SetTop(t, [Top(t) EXCEPT !.at = "rustls", !.cb = "none",
                                !.cbfn = None, !.arg = NULL])
    /\ UNCHANGED <<live, conn, logger, ended, ret>>

ThreadEnds(t) ==
    /\ calls[t] = <<>>
    /\ ended' = ended \cup {t}
    /\ UNCHANGED <<live, conn, logger, calls, ret>>

-----------------------------------------------------------------------------
Init ==
    /\ live = {}
    /\ conn = [c \in Conns |-> Fresh]
    /\ logger \in {"none", "other"}
    /\ ended = {}
    /\ calls = [t \in Threads |-> <<>>]
    /\ ret = [t \in Threads |-> "None"]

Next ==
    \E t \in Threads :
        \/ Leave(t) \/ Panics(t) \/ AppCallback(t) \/ LogCallback(t)
        \/ CallbackReturns(t) \/ ThreadEnds(t)
        \/ \E c \in Conns :
               \/ Manage(t, c)
               \/ EnterFails(t, c)
               \/ \E f \in {"process", "plain", "new"} : Enter(t, c, NewCall(f, c))
               \/ \E u \in Ptrs : Enter(t, c, [NewCall("io", c) EXCEPT
                                      !.at = "callback", !.cb = "io", !.arg = u])

Spec == Init /\ [][Next]_vars
=============================================================================
