---------------------------- MODULE DemoPrograms ----------------------------
(***************************************************************************)
(* The two demo programs of src/tests from main to exit: what they         *)
(* allocate, open, free and close, through every error path; what they     *)
(* make of the text they receive; and how the server stops on SIGTERM.     *)
(* DemoExchange has the TLS exchange in between: here do_read gives any    *)
(* further part of the peer's text, the end of the stream, or an error.    *)
(*                                                                         *)
(* `own' is the program's memory and descriptors: what is live, which      *)
(* pointer variables are not NULL (free does not reset them), and a        *)
(* history `fault' of what was done to something that is not live.         *)
(***************************************************************************)
EXTENDS HttpText

CONSTANTS Responses,   \* the texts a server may answer with
          Requests,    \* the texts a client may send
          ClientRounds,\* requests the client makes: 3 in client.c:446
          ServerRounds \* connections the server is offered (a bound)

ASSUME ProgramsAssumption ==
    /\ \A t \in Responses \cup Requests : t \in Seq(STRING) /\ Len(t) < Word
    /\ ClientRounds \in Nat \ {0} /\ ServerRounds \in Nat \ {0}

VARIABLES prog,     \* the program that runs
          at,       \* where it is
          own,      \* its memory and descriptors
          rounds,   \* requests made, or connections served
          ret,      \* what main returns
          sock,     \* the client's sockfd
          text,     \* what the peer is sending, len of it received
          len,
          ended,    \* the peer has ended the stream
          before,   \* what the block of conn->data held when it was allocated
          freed,    \* what the block freed last held
          headers,  \* where body_beginning found the body to begin, 0 if it did not
          content_length,
          signal    \* where SIGTERM came, or "none"

conn == <<text, len, ended, before, headers, content_length>>
vars == <<prog, at, own, rounds, ret, sock, conn, freed, signal>>

Heap == {"builder", "config", "key", "rconn", "conndata", "data"}
Fds == {"listenfd", "connfd", "stdout"}

shutting_down == signal # "none"
Received == SubSeq(text, 1, len)
Memory == Block(Received, before)

-----------------------------------------------------------------------------
(***************************************************************************)
(* Memory and descriptors.                                                 *)
(***************************************************************************)
Fault(o, what, x) == [o EXCEPT !.fault = @ \cup {<<what, x>>}]

Alloc(o, x) ==
    LET got == [o EXCEPT !.live = @ \cup {x}, !.ptr = @ \cup {x}]
    IN  IF x \in o.live THEN Fault(got, "lost", x) ELSE got

\* The pointer is used: the object must be live.
Use(o, x) == IF x \in o.live THEN o ELSE Fault(o, "use", x)

\* free and the rustls *_free functions take NULL; the variable keeps its value.
Free(o, x) ==
    IF x \notin o.ptr THEN o
    ELSE IF x \in o.live THEN [o EXCEPT !.live = @ \ {x}]
    ELSE Fault(o, "free", x)

Null(o, x) == [o EXCEPT !.ptr = @ \ {x}]

\* close of a number that is not open fails with EBADF and changes nothing.
Close(o, x) ==
    IF x = "stdout" /\ x \in o.live THEN Fault([o EXCEPT !.live = @ \ {x}], "close", x)
    ELSE [o EXCEPT !.live = @ \ {x}]

\* A builder is consumed by build, which gives the config.
Built(o) == Alloc([Use(o, "builder") EXCEPT !.live = @ \ {"builder"}], "config")

\* rustls_connection_free pushes no userdata, so that no callback of the
\* connection runs below it.
connection_free(o) == Free(o, "rconn")

Init ==
    /\ prog \in {"client", "server"}
    /\ at = "main"
    /\ own = [live |-> {"stdout"}, ptr |-> {}, fault |-> {}]
    /\ rounds = 0 /\ ret = 1 /\ sock = "none" /\ signal = "none"
    /\ text = <<>> /\ len = 0 /\ ended = FALSE
    /\ before = <<>> /\ freed = <<>>
    /\ headers = 0 /\ content_length = 0

\* A new conndata, zeroed by calloc, for a peer that has something to send.
NewConn(texts) ==
    /\ text' \in texts
    /\ UNCHANGED <<len, ended, before, headers, content_length>>

\* copy_plaintext_to_buffer: n is the new length of the text received.  The
\* first call allocates conn->data, in fresh memory or where the last one was.
Buffered(o) == IF "data" \in o.ptr THEN Use(o, "data") ELSE Alloc(o, "data")
Copied == len .. Len(text)
Found == IF "data" \in own.ptr THEN {before} ELSE {<<>>, freed}

\* The connection is over, with n characters received.  What free leaves in the
\* buffer's block is there for a later malloc to find.
ConnOver(o, n, b) ==
    /\ freed' = IF "data" \in o.ptr THEN Block(SubSeq(text, 1, n), b) ELSE freed
    /\ text' = <<>> /\ len' = 0 /\ ended' = FALSE
    /\ before' = <<>> /\ headers' = 0 /\ content_length' = 0

-----------------------------------------------------------------------------
(***************************************************************************)
(* client.c                                                                *)
(***************************************************************************)
ClientExit(o, r) == at' = "exited" /\ ret' = r /\ own' = Free(o, "config")

\* main, up to the first request: usage, CA_FILE or NO_CHECK_CERTIFICATE.
ClientMain ==
    /\ prog = "client" /\ at = "main"
    /\ LET o == Alloc(own, "builder")
       IN  \/ at' = "exited" /\ ret' = 1 /\ UNCHANGED own
           \/ ClientExit(o, 1)
           \/ at' = "request" /\ own' = Built(o) /\ UNCHANGED ret
    /\ UNCHANGED <<prog, rounds, sock, conn, freed, signal>>

\* What make_conn returns: -1 after cleaning up, the socket, or 1 when the
\* socket could not be made nonblocking.
make_conn(o) ==
    {[own |-> o, sock |-> "none"],
     [own |-> Alloc(o, "connfd"), sock |-> "connfd"],
     [own |-> Alloc(o, "connfd"), sock |-> "stdout"]}

\* Mutant of do_request_cleanup: the buffer is forgotten.
do_request_cleanup_leaks(o, fd) ==
    LET closed == Close(connection_free(o), fd)
    IN  IF "conndata" \notin o.ptr THEN closed ELSE Free(closed, "conndata")

\* The end of do_request: the connection, the socket (which
\* send_request_and_read_response may have closed), the buffer, conn.
do_request_cleanup(o, fd) ==
    LET closed == Close(connection_free(o), fd)
    IN  IF "conndata" \notin o.ptr THEN closed
        ELSE Free(Free(Use(closed, "conndata"), "data"), "conndata")

\* Mutant of RequestOver: i <= 3.
RequestOver_once_more(o, fd, r) ==
    LET done == do_request_cleanup(o, fd)
        left == [done EXCEPT !.ptr = @ \ {"rconn", "conndata", "data"}]
    IN  /\ rounds' = rounds + 1
        /\ \/ r # 0 /\ ClientExit(left, 1)
           \/ r = 0 /\ rounds' > ClientRounds /\ ClientExit(left, 0)
           \/ r = 0 /\ rounds' <= ClientRounds
              /\ at' = "request" /\ own' = left /\ UNCHANGED ret

\* do_request's variables go out of scope, and main goes on or ends.
RequestOver(o, fd, r) ==
    LET done == do_request_cleanup(o, fd)
        left == [done EXCEPT !.ptr = @ \ {"rconn", "conndata", "data"}]
    IN  /\ rounds' = rounds + 1
        /\ \/ r # 0 /\ ClientExit(left, 1)
           \/ r = 0 /\ rounds' = ClientRounds /\ ClientExit(left, 0)
           \/ r = 0 /\ rounds' < ClientRounds
              /\ at' = "request" /\ own' = left /\ UNCHANGED ret

\* do_request, up to its call of send_request_and_read_response.
ClientRequest ==
    /\ prog = "client" /\ at = "request"
    /\ \E c \in make_conn(own) :
          LET o == Alloc(c.own, "rconn")
          IN  /\ sock' = c.sock
              /\ \/ RequestOver(c.own, c.sock, 1)
                 \/ c.sock # "none" /\ RequestOver(o, c.sock, 1)
                 \/ /\ c.sock # "none"
                    /\ at' = "reading" /\ own' = Alloc(o, "conndata")
                    /\ UNCHANGED <<rounds, ret>>
    /\ IF at' = "reading" THEN NewConn(Responses) ELSE UNCHANGED conn
    /\ UNCHANGED <<prog, freed, signal>>

\* send_request_and_read_response closes the socket before it returns.
ResponseOver(o, n, b, r) == RequestOver(Close(o, sock), sock, r) /\ ConnOver(o, n, b)

\* Mutant of Complete: the body is not counted.
Complete_headers_only(n, hdr, cl) == hdr # 0 /\ n >= hdr

\* client.c:262: the sum of two size_t wraps around.
Complete(n, hdr, cl) == hdr # 0 /\ n >= (hdr + cl) % Word

\* One do_read that did not fail, and what the loop makes of the text.
ClientRead ==
    /\ prog = "client" /\ at = "reading" /\ sock = "connfd"
    /\ \E n \in Copied, b \in Found :
          LET m == Block(SubSeq(text, 1, n), b)
              o == Buffered(Use(own, "conndata"))
              body == IF headers = 0 THEN body_beginning(m, n) ELSE 0
              value == get_first_header_value(m, body - 1)
              number == strtoul(m, value)
              bad == body # 0 /\ (value = 0 \/ ~number.ok)
          IN  \/ bad /\ ResponseOver(o, n, b, 1)
              \/ /\ ~bad
                 /\ headers' = IF body # 0 THEN body - 1 ELSE headers
                 /\ content_length' = IF body # 0 THEN number.value ELSE content_length
                 /\ at' = IF Complete(n, headers', content_length') THEN "draining" ELSE "reading"
                 /\ len' = n /\ before' = b /\ own' = o
                 /\ UNCHANGED <<rounds, ret, freed, text, ended>>
    /\ UNCHANGED <<prog, sock, signal>>

\* The peer ends the stream with a close_notify, after any part of its text.
\* Only then does rustls want neither to read nor to write (client.c:211).
ClientEof ==
    /\ prog = "client" /\ at = "reading" /\ sock = "connfd"
    /\ len' \in Copied /\ before' \in Found
    /\ ended' = TRUE /\ at' = "draining" /\ own' = Buffered(Use(own, "conndata"))
    /\ UNCHANGED <<prog, rounds, ret, sock, text, headers, content_length, freed, signal>>

\* A failed read, write or select; always so on a descriptor that is no socket.
ClientError ==
    /\ prog = "client" /\ at = "reading"
    /\ ResponseOver(Use(own, "conndata"), len, before, 1)
    /\ UNCHANGED <<prog, sock, signal>>

\* drain_plaintext, and the write to stdout.
ClientDrain ==
    /\ prog = "client" /\ at = "draining"
    /\ \E n \in Copied, r \in {0, 1} :
          (ended => n = len) /\ ResponseOver(Use(own, "data"), n, before, r)
    /\ UNCHANGED <<prog, sock, signal>>

-----------------------------------------------------------------------------
(***************************************************************************)
(* server.c                                                                *)
(***************************************************************************)
\* The end of main.
ServerExit(o, r) ==
    /\ at' = "exited" /\ ret' = r
    /\ own' = Close(connection_free(Free(Free(o, "key"), "config")), "listenfd")

\* read_file: a file that fills the buffer is refused, as feof is not yet true.
read_file(file) == file \notin {"missing", "fills"}

\* Whether certified_key_build makes a key of the two files: the last PKCS8
\* key, or the last RSA key if there is none; the chain may be empty.
certified_key_build(cert, key) ==
    /\ key.pkcs8 # "malformed"
    /\ LET private == IF key.pkcs8 = "none" THEN key.rsa ELSE key.pkcs8
       IN  private = "supported"
    /\ cert # "malformed"

\* Whether load_cert_and_key returns a key, and not NULL.
load_cert_and_key(certfile, keyfile, cert, key) ==
    read_file(certfile) /\ read_file(keyfile) /\ certified_key_build(cert, key)

File == {"missing", "fills", "fits"}
Keys == {"none", "malformed", "unsupported", "supported"}
Chain == {"malformed", "empty", "some"}

\* main, up to load_cert_and_key.  Without arguments `certified_key' is not yet
\* initialized when it is freed: any value may be there.
ServerMain ==
    /\ prog = "server" /\ at = "main"
    /\ LET o == Alloc(own, "builder")
       IN  \/ at' = "exited" /\ ret' = 1 /\ own' = o
           \/ ServerExit(o, 1)
           \/ ServerExit([o EXCEPT !.ptr = @ \cup {"key"}], 1)
           \/ at' = "load" /\ own' = o /\ UNCHANGED ret
    /\ UNCHANGED <<prog, rounds, sock, conn, freed, signal>>

\* load_cert_and_key, the builder's setters and build.
ServerLoad ==
    /\ prog = "server" /\ at = "load"
    /\ \E certfile, keyfile \in File, cert \in Chain, key \in [pkcs8 : Keys, rsa : Keys] :
          LET loaded == load_cert_and_key(certfile, keyfile, cert, key)
          IN  \/ ~loaded /\ ServerExit(own, 1)
              \/ loaded /\ at' = "listen" /\ own' = Built(Alloc(own, "key")) /\ UNCHANGED ret
    /\ UNCHANGED <<prog, rounds, sock, conn, freed, signal>>

\* socket, bind and listen: a socket that could not be made fails in bind.
ServerListen ==
    /\ prog = "server" /\ at = "listen"
    /\ \/ \E o \in {own, Alloc(own, "listenfd")} : ServerExit(o, 1)
       \/ at' = "loop" /\ own' = Alloc(own, "listenfd") /\ UNCHANGED ret
    /\ UNCHANGED <<prog, rounds, sock, conn, freed, signal>>

\* Mutant of ServerLoop: the flag is not looked at.
ServerLoop_unconditional ==
    /\ prog = "server" /\ at = "loop"
    /\ at' = "accept" /\ UNCHANGED <<own, ret>>
    /\ UNCHANGED <<prog, rounds, sock, conn, freed, signal>>

\* while(!shutting_down)
ServerLoop ==
    /\ prog = "server" /\ at = "loop"
    /\ \/ shutting_down /\ ServerExit(own, 0)
       \/ ~shutting_down /\ at' = "accept" /\ UNCHANGED <<own, ret>>
    /\ UNCHANGED <<prog, rounds, sock, conn, freed, signal>>

\* accept is called: from here on a signal makes it return.
ServerBlock ==
    /\ prog = "server" /\ at = "accept"
    /\ at' = "accepting"
    /\ UNCHANGED <<prog, own, rounds, ret, sock, conn, freed, signal>>

\* accept returns a connection, or fails.
ServerAccept ==
    /\ prog = "server" /\ at = "accepting" /\ rounds < ServerRounds
    /\ at' = "accepted"
    /\ own' \in {own, Alloc(own, "connfd")}
    /\ UNCHANGED <<prog, rounds, ret, sock, conn, freed, signal>>

\* From accept's return to handle_conn.  A calloc that fails is not noticed,
\* and writing to conndata crashes the program.
ServerAccepted ==
    /\ prog = "server" /\ at = "accepted"
    /\ LET o == Alloc(own, "rconn")
       IN  \/ shutting_down /\ ServerExit(own, 0)
           \/ ~shutting_down /\ ServerExit(own, 1)
           \/ /\ ~shutting_down /\ "connfd" \in own.live
              /\ \/ at' = "handling" /\ own' = Alloc(o, "conndata")
                 \/ at' = "crashed" /\ own' = Use(o, "conndata")
              /\ UNCHANGED ret
    /\ IF at' = "handling" THEN NewConn(Requests) ELSE UNCHANGED conn
    /\ UNCHANGED <<prog, rounds, sock, freed, signal>>

\* One do_read that did not fail, in the loop that reads until EAGAIN.
ServerRead ==
    /\ prog = "server" /\ at = "handling"
    /\ len' \in Copied /\ before' \in Found
    /\ own' = Buffered(Use(own, "conndata"))
    /\ UNCHANGED <<prog, at, rounds, ret, sock, text, ended, headers, content_length,
                   freed, signal>>

\* Mutant of handle_conn_end: the caller keeps its pointer.
handle_conn_end_keeps(o) ==
    connection_free(Free(Free(Use(Close(o, "connfd"), "conndata"), "data"), "conndata"))

\* The end of handle_conn, and what main does after it.
handle_conn_end(o) ==
    LET handled == Free(Free(Use(Close(o, "connfd"), "conndata"), "data"), "conndata")
    IN  Null(connection_free(handled), "rconn")

\* The next connection has a conndata of its own, with data NULL.
ConnectionOver(o) ==
    /\ at' = "loop" /\ rounds' = rounds + 1
    /\ own' = [handle_conn_end(o) EXCEPT !.ptr = @ \ {"conndata", "data"}]
    /\ ConnOver(o, len, before)

\* After the reads and writes of a turn: send_response, once.  It fails if it
\* has no memory, or if rustls does not take it all.
ServerRespond ==
    /\ prog = "server" /\ at = "handling"
    /\ headers = 0 /\ body_beginning(Memory, len) # 0
    /\ \/ /\ headers' = body_beginning(Memory, len) - 1
          /\ UNCHANGED <<at, own, rounds, freed, text, len, ended, before, content_length>>
       \/ ConnectionOver(Use(own, "data"))
    /\ UNCHANGED <<prog, ret, sock, signal>>

\* The end of the stream, or a failed read, write or select.
ServerEnd ==
    /\ prog = "server" /\ at = "handling"
    /\ ConnectionOver(own)
    /\ UNCHANGED <<prog, ret, sock, signal>>

-----------------------------------------------------------------------------
\* SIGTERM, once the handler is set.  It makes a blocked accept return, and a
\* select, which ends the connection; anywhere else it only sets the flag.
handle_signal ==
    /\ prog = "server" /\ ~shutting_down
    /\ at \notin {"main", "exited", "crashed"}
    /\ signal' = at
    /\ \/ at # "accepting" /\ UNCHANGED <<at, own, rounds, freed, conn>>
       \/ at = "accepting" /\ at' = "accepted" /\ UNCHANGED <<own, rounds, freed, conn>>
       \/ at = "handling" /\ ConnectionOver(own)
    /\ UNCHANGED <<prog, ret, sock>>

\* The program has ended, or waits for a client.
Idle == at \in {"exited", "crashed", "accepting"} /\ UNCHANGED vars

Client == ClientMain \/ ClientRequest \/ ClientRead \/ ClientEof \/ ClientError \/ ClientDrain
Steps == ServerLoad \/ ServerListen \/ ServerLoop \/ ServerBlock \/ ServerAccepted
Server == ServerMain \/ Steps \/ ServerAccept \/ ServerRead \/ ServerRespond \/ ServerEnd
Next == Client \/ Server \/ handle_signal \/ Idle

\* The server keeps running between its connections; no client need come, and
\* none need end its connection.
Spec == Init /\ [][Next]_vars /\ WF_vars(Steps)

-----------------------------------------------------------------------------
\* The type invariant of both programs.
TypeOK ==
    /\ prog \in {"client", "server"} /\ ret \in {0, 1}
    /\ own.live \subseteq Heap \cup Fds /\ own.ptr \subseteq Heap \cup Fds
    /\ rounds \in 0 .. IF prog = "client" THEN ClientRounds ELSE ServerRounds
    /\ sock \in {"none", "connfd", "stdout"}
    /\ text \in Responses \cup Requests \cup {<<>>} /\ len \in 0 .. Len(text)
    /\ headers \in Nat /\ content_length \in Nat
    /\ signal # "none" => prog = "server"

\* Nothing is freed twice, used after it was freed, or lost by overwriting its
\* pointer, on any path through either program (client.c:304-361,
\* server.c:245-253, 403-416), but for three slips on paths that fail: the key
\* that main frees before it is set (server.c:324, 411), the calloc that
\* is not checked (server.c:396), and the descriptor 1 that make_conn returns
\* for an error (client.c:68), which is then closed.
NoMisuse ==
    /\ own.fault \subseteq {<<"free", "key">>, <<"use", "conndata">>, <<"close", "stdout">>}
    /\ <<"free", "key">> \in own.fault => at = "exited" /\ rounds = 0
    /\ <<"use", "conndata">> \in own.fault => at = "crashed"
    /\ <<"close", "stdout">> \in own.fault => prog = "client" /\ ret = 1

\* A program that exits has freed every object it holds, unless it gave up
\* before its builder was built; and if it exits with 0 the client has also
\* closed every socket (client.c:350-361, 456, server.c:410-416).
AllReleased ==
    at = "exited" =>
        /\ own.live \cap Heap \subseteq {"builder"}
        /\ "builder" \in own.live => rounds = 0 /\ ret = 1
        /\ prog = "client" /\ ret = 0 => own.live = {"stdout"}

\* In every text, received up to any character, over any memory: the end of
\* the headers is found where it is, or not in the text; and once it is there
\* the first header of the name is the one found, with its number
\* (common.c:270-346, client.c:237-258).
ScannersAgree ==
    LET h == HeadersLen(Received)
        b == body_beginning(Memory, len)
        v == get_first_header_value(Memory, h)
    IN  /\ h = 0 => b = 0 \/ b > len + 1
        /\ h # 0 => b = h + 1 /\ v = FirstOf(Values(Received))
        /\ h # 0 /\ HasLength(Received) =>
               strtoul(Memory, v) = [ok |-> TRUE, value |-> Min({ContentLength(Received), Word - 1})]

\* What is taken for complete is complete, however the text was split over the
\* reads: in fresh memory neither program finds the end of the headers before
\* it is there (client.c:237, server.c:226); and the client writes a response
\* out only if the peer ended it, or if the body is as long as the first
\* Content-Length header said (client.c:236-265), whatever the buffer held
\* before, unless those bytes were taken for the headers' end or the length
\* said and the headers' together exceed a size_t.
TakenWhole ==
    /\ headers # 0 /\ before = <<>> => headers = HeadersLen(Received)
    /\ at = "draining" /\ ~ended /\ headers = HeadersLen(text) /\ HasLength(text) =>
           LET whole == headers + ContentLength(text) IN whole < Word => len >= whole

\* A SIGTERM ends the server wherever it comes from main's first file to the
\* end of a connection, and at the latest when the connection served is over,
\* unless it comes between the test of the flag and accept (server.c:374-381).
StopsOnSignal ==
    signal \notin {"none", "accept"} /\ at # "handling" ~> at \in {"exited", "crashed"}

\* "If headers are done (received \r\n\r\n), return a pointer to the beginning
\* of the body. Otherwise return NULL." (common.h, of body_beginning)
HeadersDone == headers # 0 => HeadersLen(Received) # 0
=============================================================================
