---------------------------- MODULE MCHostedRun ----------------------------
(* Small instances of HostedRun for TLC.                                   *)
EXTENDS HostedRun
=============================================================================
