------------------------------ MODULE RunState ------------------------------
(***************************************************************************)
(* The life of a run, shared by every component that changes one.  A run   *)
(* that is not in the table yet is "absent".                               *)
(***************************************************************************)

RunStatus == {"absent", "created", "running", "waiting_approval",
              "interrupted", "completed", "failed", "cancelled"}

TerminalRunStatus == {"completed", "failed", "cancelled"}

(* The transitions a run may make. *)
RunTransition ==
  {<<"created", t>> : t \in {"running", "waiting_approval", "failed", "cancelled"}}
  \cup {<<"running", t>> : t \in {"waiting_approval", "completed", "failed",
                                  "cancelled", "interrupted"}}
  \cup {<<"waiting_approval", t>> : t \in {"running", "failed", "cancelled", "interrupted"}}
  \cup {<<"interrupted", t>> : t \in {"running", "failed", "cancelled"}}
=============================================================================
