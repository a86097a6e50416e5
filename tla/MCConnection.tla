---------------------------- MODULE MCConnection ----------------------------
(***************************************************************************)
(* Connection for TLC: what the peer sends in the runs.                    *)
(***************************************************************************)
EXTENDS Connection

Data(n) == Record("data", [i \in 1 .. n |-> <<"peer", i>>])
Hello(role) == IF role = "client" THEN Record("sf", <<"cert">>)
               ELSE Record("ch", <<>>) \o Record("cf", <<>>)

\* A stream that ends cleanly, and the same without its last record.
ClosedStream(role) == Hello(role) \o Data(2) \o Record("close_notify", <<>>)
CutStream == Hello("client") \o SubSeq(Data(2), 1, 2)
\* A record that cannot be decrypted, and data before the handshake.
BadStream == Hello("server") \o Record("bad", <<>>)
EarlyStream == Data(1)

AllRoles == {"client", "server"}
RoleScripts ==
    [role \in AllRoles |->
        IF role = "client" THEN {ClosedStream(role), CutStream}
                           ELSE {ClosedStream(role), BadStream, EarlyStream}]
SmallLimits == {0, 2}
=============================================================================
