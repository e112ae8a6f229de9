--------------------------- MODULE MCHostSessions ---------------------------
(* Hosts files for HostSessions: one host twice and another once.          *)
EXTENDS HostSessions

CONSTANTS h1, h2

TwiceAndOnce == <<h1, h1, h2>>
Twice == <<h1, h1>>
=============================================================================
