------------------------------ MODULE TlsConn ------------------------------
(***************************************************************************)
(* A rustls_connection as a value, and the functions of                    *)
(* src/src/connection.rs that move bytes through it.                       *)
(*                                                                         *)
(* TLS bytes are a sequence of units.  A record is its payload units       *)
(* followed by one unit with `last' TRUE (its header and tag): a record    *)
(* is complete once its last unit has arrived.  rustls keeps one chunk per *)
(* record in its outgoing buffer, so `last' also marks the ends of chunks. *)
(*                                                                         *)
(* The handshake is reduced to a client hello (ch), the server's flight    *)
(* (sf) and the client's finished message (cf); the server then sends a    *)
(* session ticket (nst).  What rustls does with the records is external    *)
(* code, modelled from how connection.rs uses it.                          *)
(***************************************************************************)
EXTENDS Integers, Sequences

CONSTANT MaxFragment   \* the most plaintext that rustls puts in one record

ASSUME FragmentAssumption == MaxFragment \in Nat \ {0}

NoLimit == -1
Minimum(a, b) == IF a < b THEN a ELSE b

Record(kind, payload) ==
    [i \in 1 .. Len(payload) + 1 |->
        [kind |-> kind,
         val  |-> IF i <= Len(payload) THEN payload[i] ELSE "tag",
         last |-> i > Len(payload)]]

\* Plaintext as data records of at most MaxFragment bytes.
Encrypt(data) ==
    LET from[i \in 1 .. Len(data) + MaxFragment] ==
            IF i > Len(data) THEN <<>>
            ELSE Record("data", SubSeq(data, i, Minimum(i + MaxFragment - 1, Len(data))))
                     \o from[i + MaxFragment]
    IN  from[1]

\* The plaintext carried by a sequence of units.
Payload(units) ==
    LET data == SelectSeq(units, LAMBDA u : u.kind = "data" /\ ~u.last)
    IN  [i \in DOMAIN data |-> data[i].val]

\* A new connection; a client's has its hello to send.
NewConn(role) ==
    [role     |-> role,
     hs       |-> "start",      \* the handshake: start, wait_cf, done
     incoming |-> <<>>,         \* units read and not yet processed
     received |-> <<>>,         \* plaintext for rustls_connection_read
     plain    |-> <<>>,         \* plaintext written before the handshake's end
     tls      |-> IF role = "client" THEN Record("ch", <<>>) ELSE <<>>,
     limit    |-> NoLimit,      \* rustls_connection_set_buffer_limit
     eof      |-> FALSE,        \* read_tls has seen the end of the TCP stream
     closed   |-> FALSE,        \* a close_notify has been processed
     err      |-> "None"]       \* the error process_new_packets has returned

may_send(c) == c.hs = "done"

\* connection.rs:270-293
wants_read(c) == /\ c.received = <<>>
                 /\ ~c.closed
                 /\ may_send(c) \/ c.tls = <<>>
wants_write(c) == c.tls # <<>>
is_handshaking(c) == c.hs # "done"

-----------------------------------------------------------------------------
(***************************************************************************)
(* Reading.                                                                *)
(***************************************************************************)

\* Mutant of read_tls: the end of the stream goes unnoticed.
read_tls_without_eof(c, units) == [c EXCEPT !.incoming = @ \o units]

\* rustls_connection_read_tls when the callback succeeds with these units.
read_tls(c, units) ==
    [c EXCEPT !.incoming = @ \o units, !.eof = @ \/ units = <<>>]

Fail(c) == [c EXCEPT !.err = "Error", !.tls = @ \o Record("fatal", <<>>)]

\* The records of each buffered write.
Records(plain) ==
    LET upto[i \in 0 .. Len(plain)] ==
            IF i = 0 THEN <<>> ELSE upto[i - 1] \o Encrypt(plain[i])
    IN  upto[Len(plain)]

\* Mutant of start_traffic: plaintext buffered so far is dropped.
start_traffic_drops(c, flight) == [c EXCEPT !.hs = "done", !.tls = @ \o flight, !.plain = <<>>]

\* Mutant of start_traffic: it is sent, and kept too.
start_traffic_keeps(c, flight) ==
    [c EXCEPT !.hs = "done", !.tls = @ \o flight \o Records(c.plain)]

\* The handshake is over: the last flight and the plaintext written so far
\* become records, whatever the limit.
start_traffic(c, flight) ==
    [c EXCEPT !.hs = "done", !.tls = @ \o flight \o Records(c.plain), !.plain = <<>>]

\* rustls processes one unit of a complete record.  `accept' says whether the
\* peer's certificate or hello is accepted.
Unit(c, u, accept) ==
    CASE c.err # "None" -> c
      [] u.kind = "data" ->
            IF may_send(c)
            THEN IF u.last THEN c ELSE [c EXCEPT !.received = Append(@, u.val)]
            ELSE Fail(c)
      [] ~u.last -> c
      [] u.kind = "ch" /\ c.role = "server" /\ c.hs = "start" ->
            IF accept THEN [c EXCEPT !.hs = "wait_cf", !.tls = @ \o Record("sf", <<"cert">>)]
            ELSE Fail(c)
      [] u.kind = "sf" /\ c.role = "client" /\ c.hs = "start" ->
            IF accept THEN start_traffic(c, Record("cf", <<>>)) ELSE Fail(c)
      [] u.kind = "cf" /\ c.role = "server" /\ c.hs = "wait_cf" ->
            start_traffic(c, Record("nst", <<>>))
      [] u.kind = "nst" /\ c.role = "client" /\ may_send(c) -> c
      [] u.kind = "close_notify" -> [c EXCEPT !.closed = TRUE]
      [] u.kind = "fatal" -> [c EXCEPT !.err = "Error"]
      [] OTHER -> Fail(c)

\* rustls_connection_process_new_packets: every complete record, in order.
\* An error stops the processing, and is returned by every later call.
process_new_packets(c, accept) ==
    LET ends == {i \in DOMAIN c.incoming : c.incoming[i].last}
        n == IF ends = {} THEN 0 ELSE CHOOSE i \in ends : \A j \in ends : j <= i
        after[i \in 0 .. n] ==
            IF i = 0 THEN [c EXCEPT !.incoming = SubSeq(@, n + 1, Len(@))]
            ELSE Unit(after[i - 1], c.incoming[i], accept)
    IN  IF c.err # "None" THEN c ELSE after[n]

\* Mutant of read: what has been read stays in the buffer.
read_keeps(c, count) ==
    LET n == Minimum(count, Len(c.received))
    IN  IF n > 0 \/ count = 0 \/ (c.closed /\ c.incoming = <<>>)
        THEN [res |-> "Ok", out |-> SubSeq(c.received, 1, n), conn |-> c]
        ELSE [res |-> IF c.eof THEN "UnexpectedEof" ELSE "PlaintextEmpty",
              out |-> <<>>, conn |-> c]

\* Mutant of read: the end of the stream is reported without looking for a
\* close_notify.
read_without_closed(c, count) ==
    LET n == Minimum(count, Len(c.received))
    IN  IF n > 0 \/ count = 0 \/ c.eof
        THEN [res |-> "Ok", out |-> SubSeq(c.received, 1, n),
              conn |-> [c EXCEPT !.received = SubSeq(@, n + 1, Len(@))]]
        ELSE [res |-> "PlaintextEmpty", out |-> <<>>, conn |-> c]

\* rustls_connection_read and _read_2 with a buffer of `count' bytes.
read(c, count) ==
    LET n == Minimum(count, Len(c.received))
    IN  IF n > 0 \/ count = 0 \/ (c.closed /\ c.incoming = <<>>)
        THEN [res |-> "Ok", out |-> SubSeq(c.received, 1, n),
              conn |-> [c EXCEPT !.received = SubSeq(@, n + 1, Len(@))]]
        ELSE [res |-> IF c.eof THEN "UnexpectedEof" ELSE "PlaintextEmpty",
              out |-> <<>>, conn |-> c]

-----------------------------------------------------------------------------
(***************************************************************************)
(* Writing.                                                                *)
(***************************************************************************)
Space(c, used, n) ==
    IF c.limit = NoLimit THEN n
    ELSE Minimum(n, IF used < c.limit THEN c.limit - used ELSE 0)

\* The bytes in the buffer of early plaintext.
Buffered(plain) ==
    LET upto[i \in 0 .. Len(plain)] == IF i = 0 THEN 0 ELSE upto[i - 1] + Len(plain[i])
    IN  upto[Len(plain)]

\* Mutant of write: the limit is not applied before the handshake's end.
write_ignores_limit(c, data) ==
    IF may_send(c)
    THEN [n |-> Len(data), conn |-> [c EXCEPT !.tls = @ \o Encrypt(data)]]
    ELSE [n |-> Len(data), conn |-> [c EXCEPT !.plain = Append(@, data)]]

\* rustls_connection_write: `n' is what it stores in *out_n.  The limit
\* applies to the plaintext taken, before the record's overhead is added.
write(c, data) ==
    LET used == IF may_send(c) THEN Len(c.tls) ELSE Buffered(c.plain)
        n == Space(c, used, Len(data))
        taken == SubSeq(data, 1, n)
    IN  [n    |-> n,
         conn |-> IF n = 0 THEN c
                  ELSE IF may_send(c) THEN [c EXCEPT !.tls = @ \o Encrypt(taken)]
                  ELSE [c EXCEPT !.plain = Append(@, taken)]]

\* What the write callback is offered: the first chunk, or all of them.
Offered(c, vectored) ==
    IF vectored THEN Len(c.tls)
    ELSE CHOOSE i \in DOMAIN c.tls :
             c.tls[i].last /\ \A j \in 1 .. i - 1 : ~c.tls[j].last

\* rustls_connection_write_tls and _vectored when the callback has written n.
write_tls(c, n) == [c EXCEPT !.tls = SubSeq(@, n + 1, Len(@))]

\* rustls_connection_send_close_notify
send_close_notify(c) == [c EXCEPT !.tls = @ \o Record("close_notify", <<>>)]

\* rustls_connection_set_buffer_limit
set_buffer_limit(c, n) == [c EXCEPT !.limit = n]
=============================================================================
