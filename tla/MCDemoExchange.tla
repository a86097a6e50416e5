--------------------------- MODULE MCDemoExchange ---------------------------
(***************************************************************************)
(* DemoExchange for TLC.                                                   *)
(***************************************************************************)
EXTENDS DemoExchange

AllPeers == {"demo", "closes", "short", "nolength"}
=============================================================================
