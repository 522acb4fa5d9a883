--------------------------- MODULE AppServerHost ---------------------------
(***************************************************************************)
(* The supervisor of one App Server: the child process, what its owner     *)
(* wants it to end as, and how its end is judged.  A host is a value h and *)
(* each entry point of the supervisor an operator on it; no variables.     *)
(*                                                                         *)
(* child: "up" runs, "dying" has been told to stop (SIGKILL follows        *)
(* SIGTERM after a grace period), "exited" is gone, "closed" is gone with  *)
(* its output read to the end and the exit promise resolved.               *)
(***************************************************************************)

Outcome == {"completed", "failed", "cancelled", "interrupted"}

Host ==
  [state   : {"idle", "starting", "running", "stopping", "stopped", "failed"},
   child   : {"none", "up", "dying", "exited", "closed"},
   wanted  : Outcome \cup {"none"},     \* requestedOutcome
   faulty  : BOOLEAN,                   \* a failure has been noted
   clean   : BOOLEAN,                   \* exit code 0
   outcome : Outcome \cup {"none"}]     \* how the exit was judged

NewHost == [state |-> "idle", child |-> "none", wanted |-> "none",
            faulty |-> FALSE, clean |-> FALSE, outcome |-> "none"]

Alive(h) == h.child \in {"up", "dying"}

CanRequest(h) == h.child # "none" /\ h.state \in {"starting", "running"}

Spawned(h) == [h EXCEPT !.child = "up"]

Terminated(h) == IF h.child = "up" THEN [h EXCEPT !.child = "dying"] ELSE h

(* A broken protocol, a limit exceeded, a handler that cannot answer. *)
Faulted(h) == [Terminated(h) EXCEPT !.faulty = TRUE]

TimedOut(h) == [Faulted(h) EXCEPT !.wanted = "failed"]

(* stop throws when nothing has been spawned. *)
CanStop(h) == h.child # "none"

(* Waits for the child to end of its own accord. *)
Stopped_Bug(h, outcome) == [h EXCEPT !.state = "stopping", !.wanted = outcome]

Stopped(h, outcome) ==
  IF h.child \in {"exited", "closed"} \/ h.state \in {"stopped", "failed"} THEN h
  ELSE [Terminated(h) EXCEPT !.state = "stopping", !.wanted = outcome]

(* The catch clauses of start, startThread and cancelTurn. *)
GivenUp(h) == Stopped([h EXCEPT !.faulty = TRUE], "failed")

Gone(h, clean) == [h EXCEPT !.child = "exited", !.clean = clean]

Closed(h) ==
  LET judged == IF h.wanted # "none" THEN h.wanted
                ELSE IF h.clean /\ ~h.faulty THEN "interrupted" ELSE "failed"
  IN [h EXCEPT !.child = "closed", !.outcome = judged,
               !.state = IF judged = "failed" THEN "failed" ELSE "stopped"]
=============================================================================
