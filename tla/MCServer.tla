------------------------------ MODULE MCServer ------------------------------
(* Two io threads, as bg_executor::instance() has, and three clients: two    *)
(* for a stopped server to accept, and one more.                             *)
EXTENDS Server, TLC

CONSTANTS c1, c2, c3
MCClients == {c1, c2, c3}
=============================================================================
