---------------------------- MODULE DemoExchange ----------------------------
(***************************************************************************)
(* The client and the server of src/tests exchange one request and one     *)
(* response over TLS and TCP: send_request_and_read_response (client.c)    *)
(* against handle_conn (server.c), with the callbacks and buffers of       *)
(* common.c, both driving a rustls_connection.                             *)
(*                                                                         *)
(* `peer' is the server the client has reached: the demo server, or a      *)
(* foreign one that runs the same loop but ends the stream with a          *)
(* close_notify (closes), cuts the response short before it (short), or    *)
(* sends no Content-Length (nolength).                                     *)
(*                                                                         *)
(* A step is one system call on the socket with what the program does up   *)
(* to the next one.  TCP delivers in order, accepts any part of a send     *)
(* that fits in Capacity, and hands out any part of what has arrived.      *)
(***************************************************************************)
EXTENDS TlsConn, SequencesExt

CONSTANTS ReqLen,    \* units of the request
          HdrLen,    \* units of the response's header
          BodyLen,   \* the Content-Length: one unit more follows (server.c:138)
          Capacity,  \* units TCP holds in one direction
          Peers      \* the servers the client may reach

ASSUME ExchangeAssumption ==
    /\ ReqLen \in Nat \ {0} /\ HdrLen \in Nat \ {0} /\ BodyLen \in Nat
    /\ Capacity \in Nat \ {0}
    /\ Peers \subseteq {"demo", "closes", "short", "nolength"}

VARIABLES cl,       \* the client: pc, connection, conn->data, result, ret
          sv,       \* the server: pc, connection, conn->data, state, why it stopped
          chan,     \* units on their way to each side
          open,     \* whether each side's socket is open
          reset,    \* the peer has been sent a TCP reset
          vectored, \* whether VECTORED_IO is set for each program
          peer, verdict, interrupted

vars == <<cl, sv, chan, open, reset, vectored, peer, verdict, interrupted>>

Side == {"client", "server"}
Other(s) == IF s = "client" THEN "server" ELSE "client"

Request == [i \in 1 .. ReqLen |-> <<"request", i>>]
FullResponse == [i \in 1 .. HdrLen + BodyLen + 1 |-> <<"response", i>>]
Response == IF peer = "short" THEN SubSeq(FullResponse, 1, HdrLen) ELSE FullResponse

\* What body_beginning finds at the two ends.
HasRequest(data) == Len(data) >= ReqLen
HasHeaders(data) == Len(data) >= HdrLen

Init ==
    /\ cl = [pc |-> "loop", wfd |-> FALSE, again |-> FALSE, data |-> <<>>, ret |-> 1, full |-> FALSE,
             conn |-> write(NewConn("client"), Request).conn]
    /\ sv = [pc |-> "loop", wfd |-> FALSE, data |-> <<>>, state |-> "READING_REQUEST",
             conn |-> NewConn("server"), why |-> "running"]
    /\ chan = [s \in Side |-> <<>>]
    /\ open = [s \in Side |-> TRUE]
    /\ reset = [s \in Side |-> FALSE]
    /\ vectored \in [Side -> BOOLEAN]
    /\ peer \in Peers
    /\ verdict \in {"Ok", "CertError"}
    /\ interrupted = FALSE

-----------------------------------------------------------------------------
(***************************************************************************)
(* The socket calls, as the callbacks see them.                            *)
(***************************************************************************)
Readable(s) == chan[s] # <<>> \/ ~open[Other(s)]
Writable(s) == Len(chan[Other(s)]) < Capacity \/ ~open[Other(s)]

\* The outcomes of recv: units, nothing at the end of the stream, or an errno.
Recv(s) ==
    {[err |-> "none", units |-> SubSeq(chan[s], 1, n)] : n \in 1 .. Len(chan[s])}
    \cup (IF chan[s] # <<>> THEN {}
          ELSE IF open[Other(s)] THEN {[err |-> "EAGAIN", units |-> <<>>]}
          ELSE {[err |-> "none", units |-> <<>>]})
    \cup (IF reset[s] THEN {[err |-> "ECONNRESET", units |-> <<>>]} ELSE {})

Left(s, r) == SubSeq(chan[s], Len(r.units) + 1, Len(chan[s]))
Received(s, r) == chan' = [chan EXCEPT ![s] = Left(s, r)]

\* The outcomes of write_tls (common.c): nothing to write, or what send does
\* with the bytes rustls offers.  A send to a closed socket is accepted and
\* answered by a reset, or fails.
Send(s, c) ==
    LET offered == Offered(c, vectored[s])
        space == Capacity - Len(chan[Other(s)])
    IN  IF c.tls = <<>> THEN {[err |-> "none", n |-> 0]}
        ELSE IF ~open[Other(s)] THEN {[err |-> "none", n |-> offered], [err |-> "EPIPE", n |-> 0]}
        ELSE IF space = 0 THEN {[err |-> "EAGAIN", n |-> 0]}
        ELSE {[err |-> "none", n |-> n] : n \in 1 .. Minimum(offered, space)}

Sent(s, c, r) ==
    /\ chan' = [chan EXCEPT ![Other(s)] =
                   IF open[Other(s)] THEN @ \o SubSeq(c.tls, 1, r.n) ELSE @]
    /\ reset' = [reset EXCEPT ![s] = @ \/ (r.n > 0 /\ ~open[Other(s)])]

\* close(sockfd): bytes left unread make TCP reset the connection.
Close(s, left) ==
    /\ open' = [open EXCEPT ![s] = FALSE]
    /\ reset' = [reset EXCEPT ![Other(s)] = @ \/ left # <<>>]
    /\ chan' = [chan EXCEPT ![s] = <<>>]

\* Mutant of copy_plaintext_to_buffer: any failed read is taken for the end.
copy_plaintext_takes_eof(c, data) ==
    LET end == read([c EXCEPT !.received = <<>>], 1)
    IN  [conn |-> end.conn, data |-> data \o c.received,
         res  |-> IF end.res = "PlaintextEmpty" THEN "OK" ELSE "EOF"]

\* Mutant of copy_plaintext_to_buffer: each call starts the buffer afresh.
copy_plaintext_overwrites(c, data) ==
    LET end == read([c EXCEPT !.received = <<>>], 1)
    IN  [conn |-> end.conn, data |-> IF c.received = <<>> THEN data ELSE c.received,
         res  |-> CASE end.res = "PlaintextEmpty" -> "OK"
                    [] end.res = "Ok" -> "EOF"
                    [] OTHER -> "ERROR"]

\* Read until rustls has no more plaintext, and say how that ended.
copy_plaintext_to_buffer(c, data) ==
    LET end == read([c EXCEPT !.received = <<>>], 1)
    IN  [conn |-> end.conn, data |-> data \o c.received,
         res  |-> CASE end.res = "PlaintextEmpty" -> "OK"
                    [] end.res = "Ok" -> "EOF"
                    [] OTHER -> "ERROR"]

\* Mutant of CloseCheck: TCP must already have ended.
CloseCheck_strict(r) == r.err = "none" /\ r.units = <<>>

\* read(fd, buf, 1) after the end of the plaintext: only the end of the TCP
\* stream, or nothing, is accepted.
CloseCheck(r) == r.err \in {"none", "EAGAIN"} /\ r.units = <<>>

-----------------------------------------------------------------------------
(***************************************************************************)
(* The client: send_request_and_read_response.                             *)
(***************************************************************************)
Env == <<vectored, peer, verdict, interrupted>>

ClientDone(c, data, ret, left) ==
    /\ cl' = [cl EXCEPT !.pc = "done", !.conn = c, !.data = data, !.ret = ret]
    /\ Close("client", left)

ClientSelect ==
    LET r == wants_read(cl.conn) /\ Readable("client")
        w == wants_write(cl.conn) /\ Writable("client")
        neither == ~wants_read(cl.conn) /\ ~wants_write(cl.conn)
    IN  /\ cl.pc = "loop"
        /\ r \/ w \/ neither
        /\ cl' = [cl EXCEPT !.pc = IF neither THEN "drain" ELSE IF r THEN "read" ELSE "write",
                            !.wfd = w, !.again = FALSE]
        /\ UNCHANGED <<sv, chan, open, reset, Env>>

\* Where client.c:236-265 goes after a successful do_read.
AfterRead(data) ==
    IF ~HasHeaders(data) THEN "read"
    ELSE IF peer = "nolength" THEN "fail"
    ELSE IF Len(data) >= HdrLen + BodyLen THEN "drain"
    ELSE "read"

\* Mutant of verify_server_cert: the callback's verdict is not looked at.
verify_server_cert_accepts(result) == TRUE

\* Only an Ok from the verifier accepts the server's certificate.
verify_server_cert(result) == result = "Ok"

\* do_read, and the loop around it.
ClientRead ==
    /\ cl.pc = "read"
    /\ \E r \in Recv("client") :
       \E c \in {process_new_packets(read_tls(cl.conn, r.units), verify_server_cert(verdict))} :
       \E p \in {copy_plaintext_to_buffer(c, cl.data)} :
          LET next == IF p.res = "EOF" THEN "check" ELSE AfterRead(p.data)
          IN  \/ /\ r.err = "EAGAIN"
                 /\ cl' = [cl EXCEPT !.pc = IF cl.wfd THEN "write" ELSE "loop", !.again = TRUE]
                 /\ UNCHANGED <<chan, open, reset>>
              \/ /\ r.err = "ECONNRESET"
                 /\ ClientDone(cl.conn, cl.data, 1, Left("client", r))
              \/ /\ r.err = "none" /\ c.err # "None"
                 /\ ClientDone(c, cl.data, 1, Left("client", r))
              \/ /\ r.err = "none" /\ c.err = "None"
                 /\ p.res = "ERROR" \/ next = "fail"
                 /\ ClientDone(p.conn, p.data, 1, Left("client", r))
              \/ /\ r.err = "none" /\ c.err = "None"
                 /\ p.res # "ERROR" /\ next # "fail"
                 /\ cl' = [cl EXCEPT !.pc = next, !.conn = p.conn, !.data = p.data]
                 /\ Received("client", r)
                 /\ UNCHANGED <<open, reset>>
    /\ UNCHANGED <<sv, Env>>

ClientCheck ==
    /\ cl.pc = "check"
    /\ \E r \in Recv("client") :
          \/ /\ CloseCheck(r)
             /\ cl' = [cl EXCEPT !.pc = "drain"]
             /\ UNCHANGED <<chan, open, reset>>
          \/ /\ ~CloseCheck(r)
             /\ ClientDone(cl.conn, cl.data, 1, Left("client", r))
    /\ UNCHANGED <<sv, Env>>

\* The write loop: `result' still holds what the reads left there, so it
\* goes round once after an EAGAIN, and else until rustls has no more.  Any
\* errno is fatal; `full' remembers that it was a full socket's.
ClientWrite ==
    /\ cl.pc = "write"
    /\ \E r \in Send("client", cl.conn) :
          \/ /\ r.err = "none"
             /\ cl' = [cl EXCEPT !.pc = IF cl.again \/ r.n = 0 THEN "loop" ELSE "write",
                                 !.conn = write_tls(@, r.n)]
             /\ Sent("client", cl.conn, r)
             /\ UNCHANGED open
          \/ /\ r.err # "none"
             /\ cl' = [cl EXCEPT !.pc = "done", !.full = r.err = "EAGAIN"]
             /\ Close("client", chan["client"])
    /\ UNCHANGED <<sv, Env>>

ClientDrain ==
    /\ cl.pc = "drain"
    /\ LET p == copy_plaintext_to_buffer(cl.conn, cl.data)
       IN  ClientDone(p.conn, p.data, IF p.res = "ERROR" THEN 1 ELSE 0, chan["client"])
    /\ UNCHANGED <<sv, Env>>

-----------------------------------------------------------------------------
(***************************************************************************)
(* The server: handle_conn.                                                *)
(***************************************************************************)
ServerDone(c, data, why, left) ==
    /\ sv' = [sv EXCEPT !.pc = "done", !.conn = c, !.data = data, !.why = why]
    /\ Close("server", left)

\* A timeout of select (server.c:191) comes back here with nothing changed.
ServerSelect ==
    LET r == wants_read(sv.conn) /\ Readable("server")
        w == wants_write(sv.conn) /\ Writable("server")
        neither == ~wants_read(sv.conn) /\ ~wants_write(sv.conn)
    IN  /\ sv.pc = "loop"
        /\ r \/ w \/ neither
        /\ IF neither THEN ServerDone(sv.conn, sv.data, "neither", chan["server"])
           ELSE /\ sv' = [sv EXCEPT !.pc = IF r THEN "read" ELSE "write", !.wfd = w]
                /\ UNCHANGED <<chan, open, reset>>
        /\ UNCHANGED <<cl, Env>>

\* SIGTERM while the server waits in select, which then fails with EINTR.
ServerInterrupted ==
    /\ sv.pc = "loop" /\ ~interrupted
    /\ interrupted' = TRUE
    /\ ServerDone(sv.conn, sv.data, "interrupted", chan["server"])
    /\ UNCHANGED <<cl, vectored, peer, verdict>>

\* do_read, and the loop around it.  The end of the stream is seen before
\* process_new_packets is called.
ServerRead ==
    /\ sv.pc = "read"
    /\ \E r \in Recv("server") :
       \E c \in {process_new_packets(read_tls(sv.conn, r.units), TRUE)} :
       \E p \in {copy_plaintext_to_buffer(c, sv.data)} :
              \/ /\ r.err = "EAGAIN"
                 /\ sv' = [sv EXCEPT !.pc = IF sv.wfd THEN "write" ELSE "respond"]
                 /\ UNCHANGED <<chan, open, reset>>
              \/ /\ r.err = "ECONNRESET"
                 /\ ServerDone(sv.conn, sv.data, "error", chan["server"])
              \/ /\ r.err = "none" /\ r.units = <<>>
                 /\ ServerDone(read_tls(sv.conn, <<>>), sv.data, "eof", <<>>)
              \/ /\ r.err = "none" /\ r.units # <<>> /\ c.err = "None" /\ p.res = "OK"
                 /\ sv' = [sv EXCEPT !.conn = p.conn, !.data = p.data]
                 /\ Received("server", r)
                 /\ UNCHANGED <<open, reset>>
              \/ /\ r.err = "none" /\ r.units # <<>> /\ (c.err # "None" \/ p.res # "OK")
                 /\ ServerDone(c, p.data, "error", Left("server", r))
    /\ UNCHANGED <<cl, Env>>

\* Mutant of ServerWrite: it writes until there is nothing left.
ServerWrite_loops ==
    /\ sv.pc = "write"
    /\ \E r \in Send("server", sv.conn) :
          \/ /\ r.err = "none" /\ r.n > 0
             /\ sv' = [sv EXCEPT !.conn = write_tls(@, r.n)]
             /\ Sent("server", sv.conn, r)
             /\ UNCHANGED open
          \/ /\ r.err # "none" \/ r.n = 0
             /\ ServerDone(sv.conn, sv.data, IF r.err = "none" THEN "zero" ELSE "error",
                           chan["server"])
    /\ UNCHANGED <<cl, Env>>

\* One write_tls per turn of the loop; writing nothing ends the connection.
ServerWrite ==
    /\ sv.pc = "write"
    /\ \E r \in Send("server", sv.conn) :
          \/ /\ r.err = "none" /\ r.n > 0
             /\ sv' = [sv EXCEPT !.pc = "respond", !.conn = write_tls(@, r.n)]
             /\ Sent("server", sv.conn, r)
             /\ UNCHANGED open
          \/ /\ r.err # "none" \/ r.n = 0
             /\ ServerDone(sv.conn, sv.data, IF r.err = "none" THEN "zero" ELSE "error",
                           chan["server"])
    /\ UNCHANGED <<cl, Env>>

\* send_response, once the request is complete.  A foreign server adds its
\* close_notify.
ServerRespond ==
    /\ sv.pc = "respond"
    /\ LET w == write(sv.conn, Response)
           c == IF peer = "demo" THEN w.conn ELSE send_close_notify(w.conn)
       IN  \/ /\ sv.state = "READING_REQUEST" /\ HasRequest(sv.data)
              /\ sv' = [sv EXCEPT !.pc = "loop", !.state = "SENT_RESPONSE", !.conn = c]
           \/ /\ ~(sv.state = "READING_REQUEST" /\ HasRequest(sv.data))
              /\ sv' = [sv EXCEPT !.pc = "loop"]
    /\ UNCHANGED <<cl, chan, open, reset, Env>>

\* A foreign server closes once everything is on its way.
ForeignClose ==
    /\ sv.pc = "loop" /\ peer # "demo"
    /\ sv.state = "SENT_RESPONSE" /\ ~wants_write(sv.conn)
    /\ ServerDone(sv.conn, sv.data, "closed", chan["server"])
    /\ UNCHANGED <<cl, Env>>

-----------------------------------------------------------------------------
Finished == cl.pc = "done" /\ sv.pc = "done" /\ UNCHANGED vars

Client == ClientSelect \/ ClientRead \/ ClientCheck \/ ClientWrite \/ ClientDrain
Server == ServerSelect \/ ServerRead \/ ServerWrite \/ ServerRespond \/ ForeignClose
Next == Client \/ Server \/ ServerInterrupted \/ Finished

Safety == Init /\ [][Next]_vars

\* Both programs keep running; the signal need not come.
Spec == Safety /\ WF_vars(Client) /\ WF_vars(Server)

-----------------------------------------------------------------------------
\* What each program has in conn->data is a prefix of what the other one gave
\* to rustls_connection_write, whatever TCP split or lost on the way
\* (common.c:213-247 over read_tls, write_tls and their callbacks).
DeliveredInOrder ==
    /\ IsPrefix(sv.data, Request)
    /\ IsPrefix(cl.data, Response)

\* A response that was cut off is never taken for a success: the client
\* returns 0 (client.c:292-302) only when it has the whole body, or when the
\* server ended the stream itself with a close_notify.
SuccessMeansComplete ==
    cl.pc = "done" /\ cl.ret = 0 =>
        \/ Len(cl.data) >= HdrLen + BodyLen
        \/ cl.conn.closed /\ cl.data = Response

\* The server leaves its loop because the connection ended, failed or was
\* interrupted, never because write_tls had nothing to write (server.c:218)
\* or rustls wanted neither to read nor to write (server.c:178).
ServerStopsForCause == sv.why \notin {"zero", "neither"}

\* An undisturbed request to a server that it trusts succeeds: however TCP
\* splits the bytes, the client's loop (client.c:199-288) gives up only when
\* it finds the socket full in the middle of a burst (client.c:274).
UndisturbedSucceeds ==
    cl.pc = "done" /\ verdict = "Ok" /\ ~interrupted /\ peer # "nolength" =>
        cl.ret = IF cl.full THEN 1 ELSE 0

\* A certificate that is not trusted never leads to a success, and the
\* request is not sent (client.c:116-120).
UntrustedGetsNothing ==
    verdict # "Ok" => sv.data = <<>> /\ (cl.pc = "done" => cl.ret = 1)

\* Both programs finish: neither waits in select for something the other
\* will not send (client.c:216, server.c:186).
BothFinish == <>(cl.pc = "done" /\ sv.pc = "done")
=============================================================================
