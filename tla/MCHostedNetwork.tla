-------------------------- MODULE MCHostedNetwork ---------------------------
(* A small instance of HostedNetwork for TLC: a listed target, one that is *)
(* only listed for redirects, one not listed; two good addresses, a bad.   *)
EXTENDS HostedNetwork

CONSTANTS good, redirected, unlisted, public, other, private, c1
=============================================================================
