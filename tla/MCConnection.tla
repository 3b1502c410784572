---------------------------- MODULE MCConnection ----------------------------
(* One connection, a client that does everything a client may do, and a      *)
(* remote-I/O coroutine of three calls.  The channels bound themselves: the  *)
(* client has one request, one break and one acknowledgement under way.      *)
EXTENDS Connection, TLC
=============================================================================
