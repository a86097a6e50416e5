----------------------------- MODULE Connection -----------------------------
(***************************************************************************)
(* One rustls_connection whose application calls the functions of          *)
(* src/src/connection.rs in any order it likes, with callbacks that        *)
(* read and write any part of what they are offered, or fail.  It is in    *)
(* one of Roles; its peer sends one of the Scripts for that role and then  *)
(* closes the TCP stream.                                                  *)
(***************************************************************************)
EXTENDS TlsConn, SequencesExt

CONSTANTS Roles,     \* a subset of {"client", "server"}
          Scripts,   \* what the peer of each role may send: sequences of units
          MaxWrites, \* plaintext bytes the application offers in all
          MaxChunk,  \* the longest rustls_connection_write
          MaxRead,   \* the longest buffer for rustls_connection_read
          Limits,    \* the values for set_buffer_limit
          MaxClose   \* calls of send_close_notify

ASSUME ConnectionAssumption ==
    /\ Roles \subseteq {"client", "server"} /\ DOMAIN Scripts = Roles
    /\ MaxWrites \in Nat /\ MaxChunk \in Nat /\ MaxRead \in Nat /\ MaxClose \in Nat
    /\ Limits \subseteq Nat

VARIABLES conn,
          script,    \* what the peer sends in all
          inbound,   \* what of it has not been read from the socket
          sent,      \* every unit given to a write callback that took it
          accepted,  \* every plaintext byte rustls_connection_write took
          got,       \* every plaintext byte rustls_connection_read gave
          offered,   \* plaintext bytes offered so far
          closes,    \* calls of send_close_notify
          last       \* the last call: its result, and *out_n for a buffer of `count'

vars == <<conn, script, inbound, sent, accepted, got, offered, closes, last>>

Call(op, res, n, count) == last' = [op |-> op, res |-> res, n |-> n, count |-> count]

Init ==
    /\ \E role \in Roles : conn = NewConn(role) /\ script \in Scripts[role]
    /\ inbound = script
    /\ sent = <<>> /\ accepted = <<>> /\ got = <<>>
    /\ offered = 0 /\ closes = 0
    /\ last = [op |-> "new", res |-> "Ok", n |-> 0, count |-> 0]

\* rustls_connection_read_tls; the callback reads some bytes, or finds the end.
ReadTls ==
    /\ \E n \in 0 .. Len(inbound) :
          /\ n = 0 => inbound = <<>> /\ ~conn.eof
          /\ conn' = read_tls(conn, SubSeq(inbound, 1, n))
          /\ inbound' = SubSeq(inbound, n + 1, Len(inbound))
          /\ Call("read_tls", "Ok", n, n)
    /\ UNCHANGED <<script, sent, accepted, got, offered, closes>>

\* rustls_connection_process_new_packets
ProcessNewPackets ==
    /\ \E accept \in BOOLEAN : conn' = process_new_packets(conn, accept)
    /\ Call("process_new_packets", IF conn'.err = "None" THEN "Ok" ELSE "Error", 0, 0)
    /\ UNCHANGED <<script, inbound, sent, accepted, got, offered, closes>>

\* rustls_connection_read
Read ==
    /\ \E count \in 0 .. MaxRead :
          LET r == read(conn, count)
          IN  /\ conn' = r.conn
              /\ got' = got \o r.out
              /\ Call("read", r.res, Len(r.out), count)
    /\ UNCHANGED <<script, inbound, sent, accepted, offered, closes>>

\* rustls_connection_write of the next bytes the application has.
Write ==
    /\ \E count \in 1 .. MaxChunk :
          LET data == [i \in 1 .. count |-> Len(accepted) + i]
              w == write(conn, data)
          IN  /\ offered + count <= MaxWrites
              /\ offered' = offered + count
              /\ conn' = w.conn
              /\ accepted' = accepted \o SubSeq(data, 1, w.n)
              /\ Call("write", "Ok", w.n, count)
    /\ UNCHANGED <<script, inbound, sent, got, closes>>

\* rustls_connection_write_tls and rustls_connection_write_tls_vectored.
WriteTls ==
    /\ conn.tls # <<>>
    /\ \E vectored \in BOOLEAN : \E n \in 1 .. Offered(conn, vectored) :
          /\ conn' = write_tls(conn, n)
          /\ sent' = sent \o SubSeq(conn.tls, 1, n)
          /\ Call("write_tls", "Ok", n, n)
    /\ UNCHANGED <<script, inbound, accepted, got, offered, closes>>

\* A callback that fails, or a write_tls with nothing to write, changes nothing.
IoFails ==
    /\ \E op \in {"read_tls", "write_tls"} : Call(op, "Errno", 0, 0)
    /\ UNCHANGED <<conn, script, inbound, sent, accepted, got, offered, closes>>

\* rustls_connection_send_close_notify
SendCloseNotify ==
    /\ closes < MaxClose
    /\ closes' = closes + 1
    /\ conn' = send_close_notify(conn)
    /\ Call("send_close_notify", "Ok", 0, 0)
    /\ UNCHANGED <<script, inbound, sent, accepted, got, offered>>

\* rustls_connection_set_buffer_limit
SetBufferLimit ==
    /\ \E n \in Limits :
          /\ conn' = set_buffer_limit(conn, n)
          /\ Call("set_buffer_limit", "Ok", 0, n)
    /\ UNCHANGED <<script, inbound, sent, accepted, got, offered, closes>>

Next == ReadTls \/ ProcessNewPackets \/ Read \/ Write \/ WriteTls \/ IoFails
        \/ SendCloseNotify \/ SetBufferLimit

Spec == Init /\ [][Next]_vars

-----------------------------------------------------------------------------
Concat(plain) ==
    LET upto[i \in 0 .. Len(plain)] == IF i = 0 THEN <<>> ELSE upto[i - 1] \o plain[i]
    IN  upto[Len(plain)]

\* The type invariant of a connection.
TypeOK ==
    /\ conn.role \in Roles
    /\ conn.hs \in {"start", "wait_cf", "done"}
    /\ conn.err \in {"None", "Error"}
    /\ conn.eof \in BOOLEAN /\ conn.closed \in BOOLEAN
    /\ conn.limit \in Limits \cup {NoLimit}
    /\ conn.plain # <<>> => is_handshaking(conn)

\* Every byte rustls_connection_write has reported as written is on the wire
\* or in a buffer, exactly once and in order: short writes of the callbacks,
\* the buffer limit and the end of the handshake lose and repeat nothing
\* (connection.rs:180-241, 428-449).
WrittenIsSent ==
    accepted = Payload(sent) \o Payload(conn.tls) \o Concat(conn.plain)

\* What rustls_connection_read has given and still holds is the beginning of
\* what the peer sent, in order; and it is all of it, once all is processed
\* (connection.rs:143-167, 248-266, 464-496).
ReadInOrder ==
    /\ IsPrefix(got \o conn.received, Payload(script))
    /\ conn.closed /\ conn.incoming = <<>> => got \o conn.received = Payload(script)

\* A read with room in its buffer returns Ok with zero bytes only after a
\* close_notify and when nothing is left to give, and UnexpectedEof only when
\* the TCP stream ended without one (connection.rs:485-495): the end of the
\* data and a truncation are never mixed up.
EndIsTold ==
    last.op = "read" /\ last.count > 0 =>
        /\ last.res = "Ok" /\ last.n = 0 => conn.closed /\ got = Payload(script)
        /\ last.res = "UnexpectedEof" => conn.eof /\ inbound = <<>>
                                         /\ ~(conn.closed /\ conn.incoming = <<>>)

\* rustls_connection_write takes only what the limit set last with
\* rustls_connection_set_buffer_limit leaves room for in the buffer it fills
\* (connection.rs:295-306), even if that buffer already was above the limit.
LimitKept ==
    [][last'.op = "write" /\ conn.limit # NoLimit /\ last'.n > 0 =>
          last'.n + (IF may_send(conn) THEN Len(conn.tls) ELSE Buffered(conn.plain))
              <= conn.limit]_vars
=============================================================================
