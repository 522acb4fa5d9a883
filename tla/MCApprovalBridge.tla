-------------------------- MODULE MCApprovalBridge --------------------------
(* Small instances of ApprovalBridge for TLC.                              *)
EXTENDS ApprovalBridge
=============================================================================
