--------------------------- MODULE UserdataStack ---------------------------
(***************************************************************************)
(* The thread-local USERDATA stack of src/src/lib.rs, the API calls that   *)
(* push onto it or read it, and the C callbacks that are made below them.  *)
(*                                                                         *)
(* A C thread calls into the library; the library calls rustls; rustls     *)
(* makes callbacks into C (verify, hello, session get/put, log, read,      *)
(* write); and a C callback may call the library again, on another         *)
(* connection.  `frames[t]' is the call stack of thread t, restricted to   *)
(* the calls of this API, innermost last.                                  *)
(*                                                                         *)
(* The closures passed to USERDATA.try_with copy what they need out of the *)
(* RefCell and return before anything is called, so each is one step.      *)
(*                                                                         *)
(* Contract on the C caller (README.md:80-83 and Rust's aliasing rule): a  *)
(* connection that is inside a call is passed to no other call, on any     *)
(* thread.  Calls therefore nest at most as deep as there are connections. *)
(***************************************************************************)
EXTENDS Naturals, Sequences, Stacks

CONSTANTS
    Threads,   \* OS threads that use the library
    Conns,     \* rustls_connection objects
    Ptrs,      \* values of a `void *userdata'
    NULL,      \* the null pointer, one of Ptrs
    LogFns,    \* C log callbacks
    None       \* Rust's Option::None

ASSUME UserdataAssumption ==
    /\ NULL \in Ptrs
    /\ None \notin Ptrs
    /\ None \notin LogFns

VARIABLES
    live,      \* the connections that exist
    conn,      \* their userdata and log_callback fields
    logger,    \* the process-wide logger: "none", "ours", "other"
    tls,       \* the threads whose USERDATA has not been destroyed
    USERDATA,  \* the thread-local stacks
    frames,    \* the API calls in progress on each thread
    ret        \* what process_new_packets last returned on each thread

vars == <<live, conn, logger, tls, USERDATA, frames, ret>>

Userdata == [userdata : Ptrs, log_callback : LogFns \cup {None}]

ApiFns == {"process", "io", "plain", "new"}

(***************************************************************************)
(* A call in progress.  `guard' is the `data' field of its UserdataGuard   *)
(* (None if it has no guard); `at' says whether rustls or a C callback is  *)
(* running, or the call is unwinding from a panic.  `cb', `cbfn' and `arg' *)
(* describe the callback being made: its kind, the log function if it is a *)
(* log callback, and the userdata argument.  `refused' records that a      *)
(* callback could not be made because userdata_get failed.  `saved' is a   *)
(* history value: the thread's stack when the call began.                  *)
(***************************************************************************)
Frame == [fn      : ApiFns,
          conn    : Conns,
          guard   : Ptrs \cup {None},
          at      : {"rustls", "callback", "unwinding"},
          cb      : {"none", "app", "log", "io"},
          cbfn    : LogFns \cup {None},
          arg     : Ptrs,
          refused : BOOLEAN,
          saved   : Seq(Userdata)]

NewFrame(t, f, c, g) ==
    [fn |-> f, conn |-> c, guard |-> g, at |-> "rustls", cb |-> "none",
     cbfn |-> None, arg |-> NULL, refused |-> FALSE, saved |-> USERDATA[t]]

Top(t) == Last(frames[t])
InC(t) == frames[t] # <<>> => Top(t).at = "callback"
InRustls(t) == frames[t] # <<>> /\ Top(t).at = "rustls"
SetTop(t, f) == frames' = [frames EXCEPT ![t] = ReplaceLast(@, f)]
PushFrame(t, f) == frames' = [frames EXCEPT ![t] = Append(@, f)]
PopFrame(t) == frames' = [frames EXCEPT ![t] = Front(@)]
Idle(c) == \A t \in Threads : \A i \in DOMAIN frames[t] : frames[t][i].conn # c

-----------------------------------------------------------------------------
(***************************************************************************)
(* The operations on the stack.  Each returns the error, "None" for Ok.    *)
(***************************************************************************)

\* Mutant of userdata_push: the entry replaces the outer calls' entries.
push_replaces(t, u, cb) ==
    [err |-> "None", stack |-> <<[userdata |-> u, log_callback |-> cb]>>]

\* lib.rs:140-159
userdata_push(t, u, cb) ==
    IF t \in tls
    THEN [err   |-> "None",
          stack |-> Append(USERDATA[t], [userdata |-> u, log_callback |-> cb])]
    ELSE [err |-> "AccessError", stack |-> USERDATA[t]]

\* Mutant of last_entry: the oldest entry is read.
first_entry(t) ==
    IF USERDATA[t] = <<>> THEN [err |-> "EmptyStack"]
    ELSE [err |-> "None", entry |-> Head(USERDATA[t])]

\* lib.rs:161-187: userdata_get and log_callback_get copy the last entry.
last_entry(t) ==
    IF t \notin tls THEN [err |-> "AccessError"]
    ELSE IF USERDATA[t] = <<>> THEN [err |-> "EmptyStack"]
    ELSE [err |-> "None", entry |-> Last(USERDATA[t])]

\* Mutant of UserdataGuard_new: the guard starts without data.
guard_without_data(u) == None

\* lib.rs:76-83
UserdataGuard_new(u) == u

\* Mutant of try_pop: `data' is kept, so Drop pops a second time.
pop_keeps_data(t, s, data) ==
    IF s = <<>> THEN [err |-> "EmptyStack", stack |-> s, data |-> data]
    ELSE [err   |-> IF Last(s).userdata = data THEN "None" ELSE "WrongData",
          stack |-> Front(s),
          data  |-> data]

\* lib.rs:93-115: `data' is cleared before the popped entry is compared.
try_pop(t, s, data) ==
    IF data = None THEN [err |-> "AlreadyPopped", stack |-> s, data |-> data]
    ELSE IF t \notin tls THEN [err |-> "AccessError", stack |-> s, data |-> data]
    ELSE IF s = <<>> THEN [err |-> "EmptyStack", stack |-> s, data |-> data]
    ELSE [err   |-> IF Last(s).userdata = data THEN "None" ELSE "WrongData",
          stack |-> Front(s),
          data  |-> None]

\* Mutant of drop_guard: the guard has no Drop.
drop_without_pop(t, s, data) == s

\* lib.rs:118-122: Drop ignores the error.
drop_guard(t, s, data) == try_pop(t, s, data).stack

\* lib.rs:89-91: try_drop takes the guard by value, so Drop runs after it.
try_drop(t, s, data) ==
    LET p == try_pop(t, s, data)
    IN  [err |-> p.err, stack |-> drop_guard(t, p.stack, p.data)]

-----------------------------------------------------------------------------
(***************************************************************************)
(* Connections and their settings.                                         *)
(***************************************************************************)

\* rustls_client_connection_new and rustls_server_connection_new: rustls
\* runs (and may log) before the connection exists.
ConnectionNew(t, c) ==
    /\ InC(t)
    /\ c \notin live
    /\ Idle(c)
    /\ PushFrame(t, NewFrame(t, "new", c, None))
    /\ UNCHANGED <<live, conn, logger, tls, USERDATA, ret>>

\* They return a connection without userdata or log callback, or an error.
ConnectionNewReturns(t) ==
    /\ InRustls(t)
    /\ Top(t).fn = "new"
    /\ PopFrame(t)
    /\ \/ /\ live' = live \cup {Top(t).conn}
          /\ conn' = [conn EXCEPT ![Top(t).conn] =
                         [userdata |-> NULL, log_callback |-> None]]
       \/ UNCHANGED <<live, conn>>
    /\ UNCHANGED <<logger, tls, USERDATA, ret>>

\* rustls_connection_free
ConnectionFree(t, c) ==
    /\ InC(t)
    /\ c \in live
    /\ Idle(c)
    /\ live' = live \ {c}
    /\ conn' = [conn EXCEPT ![c] = [userdata |-> NULL, log_callback |-> None]]
    /\ UNCHANGED <<logger, tls, USERDATA, frames, ret>>

\* rustls_connection_set_userdata
SetUserdata(t, c, u) ==
    /\ InC(t)
    /\ c \in live
    /\ Idle(c)
    /\ conn' = [conn EXCEPT ![c].userdata = u]
    /\ UNCHANGED <<live, logger, tls, USERDATA, frames, ret>>

\* ensure_log_registered: log::set_logger succeeds for the first logger only.
ensure_log_registered == logger' = IF logger = "none" THEN "ours" ELSE logger

\* rustls_connection_set_log_callback
SetLogCallback(t, c, cb) ==
    /\ InC(t)
    /\ c \in live
    /\ Idle(c)
    /\ ensure_log_registered
    /\ conn' = [conn EXCEPT ![c].log_callback = cb]
    /\ UNCHANGED <<live, tls, USERDATA, frames, ret>>

-----------------------------------------------------------------------------
(***************************************************************************)
(* Calls into rustls.                                                      *)
(***************************************************************************)

\* rustls_connection_process_new_packets up to the call of rustls.
ProcessNewPackets(t, c) ==
    /\ InC(t)
    /\ c \in live
    /\ Idle(c)
    /\ LET p == userdata_push(t, conn[c].userdata, conn[c].log_callback)
       IN  IF p.err = "None"
           THEN /\ USERDATA' = [USERDATA EXCEPT ![t] = p.stack]
                /\ PushFrame(t, NewFrame(t, "process", c,
                                         UserdataGuard_new(conn[c].userdata)))
                /\ UNCHANGED ret
           ELSE /\ ret' = [ret EXCEPT ![t] = "Panic"]
                /\ UNCHANGED <<USERDATA, frames>>
    /\ UNCHANGED <<live, conn, logger, tls>>

\* Its end, once rustls has returned `r'.
ProcessReturns(t, r) ==
    /\ InRustls(t)
    /\ Top(t).fn = "process"
    /\ LET p == try_drop(t, USERDATA[t], Top(t).guard)
       IN  /\ USERDATA' = [USERDATA EXCEPT ![t] = p.stack]
           /\ ret' = [ret EXCEPT ![t] = IF p.err = "None" THEN r ELSE "Panic"]
    /\ PopFrame(t)
    /\ UNCHANGED <<live, conn, logger, tls>>

\* rustls panics below process_new_packets ...
Panic(t) ==
    /\ InRustls(t)
    /\ Top(t).fn = "process"
    /\ SetTop(t, [Top(t) EXCEPT !.at = "unwinding"])
    /\ UNCHANGED <<live, conn, logger, tls, USERDATA, ret>>

\* ... unwinding drops the guard, and ffi_panic_boundary! returns Panic.
Unwind(t) ==
    /\ frames[t] # <<>>
    /\ Top(t).at = "unwinding"
    /\ USERDATA' = [USERDATA EXCEPT ![t] = drop_guard(t, @, Top(t).guard)]
    /\ ret' = [ret EXCEPT ![t] = "Panic"]
    /\ PopFrame(t)
    /\ UNCHANGED <<live, conn, logger, tls>>

\* rustls_connection_send_close_notify does not push.
SendCloseNotify(t, c) ==
    /\ InC(t)
    /\ c \in live
    /\ Idle(c)
    /\ PushFrame(t, NewFrame(t, "plain", c, None))
    /\ UNCHANGED <<live, conn, logger, tls, USERDATA, ret>>

SendCloseNotifyReturns(t) ==
    /\ InRustls(t)
    /\ Top(t).fn = "plain"
    /\ PopFrame(t)
    /\ UNCHANGED <<live, conn, logger, tls, USERDATA, ret>>

\* rustls_connection_{read_tls,write_tls,write_tls_vectored}: one callback,
\* with the userdata argument of the call itself.
TlsIo(t, c, u) ==
    /\ InC(t)
    /\ c \in live
    /\ Idle(c)
    /\ PushFrame(t, [NewFrame(t, "io", c, None) EXCEPT
                        !.at = "callback", !.cb = "io", !.arg = u])
    /\ UNCHANGED <<live, conn, logger, tls, USERDATA, ret>>

TlsIoReturns(t) ==
    /\ InC(t)
    /\ frames[t] # <<>>
    /\ Top(t).fn = "io"
    /\ PopFrame(t)
    /\ UNCHANGED <<live, conn, logger, tls, USERDATA, ret>>

-----------------------------------------------------------------------------
(***************************************************************************)
(* Callbacks into C.                                                       *)
(***************************************************************************)

\* The certificate verifier, the hello callback and the session store's get
\* and put: each asks userdata_get first, and gives up if it fails.
AppCallback(t) ==
    /\ InRustls(t)
    /\ Top(t).fn = "process"
    /\ LET e == last_entry(t)
       IN  SetTop(t, IF e.err = "None"
                     THEN [Top(t) EXCEPT !.at = "callback", !.cb = "app",
                                         !.arg = e.entry.userdata]
                     ELSE [Top(t) EXCEPT !.refused = TRUE])
    /\ UNCHANGED <<live, conn, logger, tls, USERDATA, ret>>

\* rustls emits a log record and Logger.log forwards it.
LogCallback(t) ==
    /\ InRustls(t)
    /\ logger = "ours"
    /\ LET e == last_entry(t)
       IN  /\ e.err = "None"
           /\ e.entry.log_callback # None
           /\ SetTop(t, [Top(t) EXCEPT !.at = "callback", !.cb = "log",
                                       !.cbfn = e.entry.log_callback,
                                       !.arg = e.entry.userdata])
    /\ UNCHANGED <<live, conn, logger, tls, USERDATA, ret>>

CallbackReturns(t) ==
    /\ frames[t] # <<>>
    /\ Top(t).at = "callback"
    /\ Top(t).fn # "io"
    /\ SetTop(t, [Top(t) EXCEPT !.at = "rustls", !.cb = "none",
                                !.cbfn = None, !.arg = NULL])
    /\ UNCHANGED <<live, conn, logger, tls, USERDATA, ret>>

\* The thread ends and its thread-locals are destroyed.  Destructors of C's
\* own thread-specific data may still call the library afterwards.
ThreadExit(t) ==
    /\ frames[t] = <<>>
    /\ t \in tls
    /\ tls' = tls \ {t}
    /\ USERDATA' = [USERDATA EXCEPT ![t] = <<>>]
    /\ UNCHANGED <<live, conn, logger, frames, ret>>

-----------------------------------------------------------------------------
Init ==
    /\ live = {}
    /\ conn = [c \in Conns |-> [userdata |-> NULL, log_callback |-> None]]
    /\ logger \in {"none", "other"}
    /\ tls = Threads
    /\ USERDATA = [t \in Threads |-> <<>>]
    /\ frames = [t \in Threads |-> <<>>]
    /\ ret = [t \in Threads |-> "None"]

ThreadStep(t) ==
    \/ ConnectionNewReturns(t)
    \/ \E r \in {"Ok", "Error"} : ProcessReturns(t, r)
    \/ Panic(t)
    \/ Unwind(t)
    \/ SendCloseNotifyReturns(t)
    \/ TlsIoReturns(t)
    \/ AppCallback(t)
    \/ LogCallback(t)
    \/ CallbackReturns(t)
    \/ ThreadExit(t)

ConnCall(t, c) ==
    \/ ConnectionNew(t, c)
    \/ ConnectionFree(t, c)
    \/ \E u \in Ptrs : SetUserdata(t, c, u)
    \/ \E cb \in LogFns \cup {None} : SetLogCallback(t, c, cb)
    \/ ProcessNewPackets(t, c)
    \/ SendCloseNotify(t, c)
    \/ \E u \in Ptrs : TlsIo(t, c, u)

Next == \E t \in Threads : ThreadStep(t) \/ \E c \in Conns : ConnCall(t, c)

Spec == Init /\ [][Next]_vars

-----------------------------------------------------------------------------
(***************************************************************************)
(* Properties.                                                             *)
(***************************************************************************)

\* The types of the variables.  A frame of process_new_packets has a guard
\* whose data is present as long as the guard is alive, as the invariants of
\* UserdataGuard (lib.rs:63-66) require; no other call has one.
TypeOK ==
    /\ live \subseteq Conns
    /\ conn \in [Conns -> Userdata]
    /\ logger \in {"none", "ours", "other"}
    /\ tls \subseteq Threads
    /\ USERDATA \in [Threads -> Seq(Userdata)]
    /\ frames \in [Threads -> Seq(Frame)]
    /\ ret \in [Threads -> {"None", "Ok", "Error", "Panic"}]
    /\ \A t \in Threads : \A i \in DOMAIN frames[t] :
           (frames[t][i].guard # None) <=> (frames[t][i].fn = "process")

\* The stack a call leaves to the calls below it.
StackUnder(f) ==
    IF f.fn = "process" THEN Append(f.saved, conn[f.conn]) ELSE f.saved

\* At every moment the stack of a thread holds exactly one entry for each
\* process_new_packets call in progress on it, outermost first, and each is
\* the current userdata and log callback of that call's connection; between
\* calls it is empty.  (lib.rs:46-51 and the invariants of UserdataGuard.)
StackMatchesCalls ==
    \A t \in Threads :
        /\ USERDATA[t] = IF frames[t] = <<>> THEN <<>> ELSE StackUnder(Top(t))
        /\ \A i \in DOMAIN frames[t] :
               frames[t][i].saved =
                   IF i = 1 THEN <<>> ELSE StackUnder(frames[t][i - 1])

\* What a live guard relies on (lib.rs:63-66): its thread's stack has not been
\* destroyed, and its data is still the userdata of the connection it was
\* built for, because no connection is in two calls at once.
GuardsIntact ==
    \A t \in Threads : \A i \in DOMAIN frames[t] :
        LET f == frames[t][i]
        IN  /\ f.fn = "process" => t \in tls /\ f.guard = conn[f.conn].userdata
            /\ \A u \in Threads : \A j \in DOMAIN frames[u] :
                   frames[u][j].conn = f.conn => u = t /\ j = i

\* A verify, hello, session or log callback made below process_new_packets
\* receives the userdata of the connection being processed, however the
\* calls above it are nested, and a log record goes to that connection's
\* log callback (README.md:127-132).  None is refused for want of userdata.
CallbackSeesOwnUserdata ==
    \A t \in Threads : \A i \in DOMAIN frames[t] :
        LET f == frames[t][i]
        IN  f.fn = "process" =>
                /\ ~f.refused
                /\ f.at = "callback" => f.arg = conn[f.conn].userdata
                /\ f.cb = "log" => f.cbfn = conn[f.conn].log_callback

\* When a call returns, normally or by a panic, the thread's stack is what
\* it was when the call began (lib.rs:48-51, 61-62).
StackRestored ==
    [][\A t \in Threads :
          Len(frames'[t]) < Len(frames[t]) => USERDATA'[t] = Top(t).saved]_vars

\* A process_new_packets call that has reached rustls returns Panic only if
\* rustls panicked: try_drop never fails (connection.rs:261-264).
PanicOnlyIfPanicked ==
    [][\A t \in Threads :
          (/\ Len(frames'[t]) < Len(frames[t])
           /\ Top(t).fn = "process"
           /\ ret'[t] = "Panic") => Top(t).at = "unwinding"]_vars

\* Every log callback made below a call on a connection receives that
\* connection's userdata, as lib.rs:46-48 says: "Before calling out to rustls
\* code that may call a callback, we set USERDATA for the current thread to
\* the userdata pointer for the current session".
LogSeesOwnUserdata ==
    \A t \in Threads : \A i \in DOMAIN frames[t] :
        LET f == frames[t][i]
        IN  f.cb = "log" /\ f.conn \in live => f.arg = conn[f.conn].userdata

-----------------------------------------------------------------------------
(***************************************************************************)
(* The specification without the stack that this one implements.           *)
(***************************************************************************)
AbstractCall(f) == [fn |-> f.fn, conn |-> f.conn, at |-> f.at, cb |-> f.cb,
                    cbfn |-> f.cbfn, arg |-> f.arg]
AbstractCalls ==
    [t \in Threads |-> [i \in DOMAIN frames[t] |-> AbstractCall(frames[t][i])]]

Scope == INSTANCE CallbackScope
             WITH ended <- Threads \ tls, calls <- AbstractCalls

\* The USERDATA stack implements CallbackScope: every callback, at every
\* nesting of calls and after any panic, gets the userdata of the innermost
\* process_new_packets call on its thread.
ImplementsCallbackScope == Scope!Spec
=============================================================================
