---------------------------- MODULE MCApprovals ----------------------------
(* Small instances of Approvals for TLC.                                   *)
EXTENDS Approvals, TLC

(* Callers of the status route may ask for any transition.                 *)
AnyMove == RunTransition

(* Callers start, complete, interrupt and cancel runs, leave waiting for   *)
(* an approval to the service, and continue no interrupted run.            *)
DaemonWaits == {<<"created", "running">>, <<"running", "completed">>,
                <<"running", "interrupted">>, <<"waiting_approval", "interrupted">>,
                <<"waiting_approval", "cancelled">>}

(* Callers only start runs: what interrupts one is the start-up.           *)
OnlyStart == {<<"created", "running">>}

Symmetry == Permutations(Approval) \cup Permutations(Grant) \cup Permutations(Run)
            \cup Permutations(Digest)
=============================================================================
