---------------------------- MODULE FileGateway ----------------------------
(***************************************************************************)
(* The gateway that deletes one protected file, its command-line client,   *)
(* and the approval tables between them.  A client (afr delete) makes a    *)
(* run, asks for the deletion and polls; a person decides; the handler of  *)
(* the decision consumes the grant and unlinks the file.                   *)
(*                                                                         *)
(* The handlers are synchronous, so the daemon serves one request at a     *)
(* time ("job"); but each of them is several transactions and system calls *)
(* long, and between any two of these other programs may edit the file,    *)
(* time passes and the daemon may die.  Requests for other files meet this *)
(* one only in the tables, which Approvals covers; here every client is    *)
(* after the same file, a Digest stands for its content (the digest of the *)
(* action binds the hash of what is to be deleted), and a gateway action,  *)
(* which names its approval uniquely, is identified with it.               *)
(***************************************************************************)
EXTENDS ApprovalStore

CONSTANTS
  NoFile,    \* the file is not there
  Secret,    \* contents that redaction would alter: no exact snapshot of them
  MaxCrash   \* bound on the deaths of the daemon

ASSUME GatewayAssumption ==
  /\ NoFile \notin Digest
  /\ Secret \subseteq Digest
  /\ MaxCrash \in Nat

VARIABLES
  db,       \* the committed content of the store
  file,     \* the content of the file
  action,   \* the status of the gateway action of each approval
  job,      \* the request the daemon is serving
  cli,      \* where the client of each run stands
  deleted,  \* history: what was unlinked on behalf of each approval
  crashes   \* history: how often the daemon has died

vars == <<db, file, action, job, cli, deleted, crashes>>

Idle == [step |-> "idle", run |-> NoRun, approval |-> NoApproval]
Job(step, r, a) == [step |-> step, run |-> r, approval |-> a]

Step == {"idle", "launch", "register", "deny", "execute", "inspect", "unlink",
         "complete", "fail"}

ActionStatus == {"absent", "waiting_approval", "executing", "completed",
                 "denied", "failed"}

(* "completed", "failed" and "cancelled" are what a client is about to     *)
(* report of its run.                                                      *)
CliState == {"absent", "starting", "requesting", "polling",
             "completed", "failed", "cancelled", "done", "dead"}

Init ==
  /\ db = EmptyStore
  /\ file \in Digest
  /\ action = [a \in Approval |-> "absent"]
  /\ job = Idle
  /\ cli = [r \in Run |-> "absent"]
  /\ deleted = [a \in Approval |-> NoFile]
  /\ crashes = 0

(* What a read of the approvals leaves behind: it expires what is due, or  *)
(* throws and leaves everything.                                           *)
Refreshed(d) == IF CanExpireDueApprovals(d) THEN ExpireDueApprovals(d) ELSE d

(* The store as it was before the expiry. *)
settled_Bug == db

settled == ExpireDueApprovals(db)

-----------------------------------------------------------------------------
(* POST /runs: create the run, then start it.                              *)

CreateCliRun(r) ==
  /\ job.step = "idle"
  /\ db.run[r] = "absent"
  /\ db' = CreateRun(db, r)
  /\ job' = Job("launch", r, NoApproval)
  /\ cli' = [cli EXCEPT ![r] = "starting"]
  /\ UNCHANGED <<file, action, deleted, crashes>>

LaunchCliRun ==
  /\ job.step = "launch"
  /\ CanTransitionRun(db, job.run, "running")
  /\ db' = TransitionRun(db, job.run, "running")
  /\ job' = Idle
  /\ cli' = [cli EXCEPT ![job.run] = "requesting"]
  /\ UNCHANGED <<file, action, deleted, crashes>>

-----------------------------------------------------------------------------
(* requestDelete                                                           *)

(* The file can be read and its snapshot restores exactly what was read.   *)
Restorable == file \in Digest \ Secret

(* The file is read and snapshotted, the policy asks, an approval of       *)
(* deleting this content is created.                                       *)
RequestDelete(r, a) ==
  /\ job.step = "idle"
  /\ cli[r] = "requesting"
  /\ db.run[r] = "running"
  /\ Restorable
  /\ CanExpireDueApprovals(db)
  /\ CanCreateApproval(settled, a, r)
  /\ db' = CreateApproval(settled, a, r, file)
  /\ job' = Job("register", r, a)
  /\ UNCHANGED <<file, action, cli, deleted, crashes>>

(* The gateway action is recorded, the snapshot linked, the answer sent.   *)
RegisterAction ==
  /\ job.step = "register"
  /\ action' = [action EXCEPT ![job.approval] = "waiting_approval"]
  /\ db' = Refreshed(db)
  /\ job' = Idle
  /\ cli' = [cli EXCEPT ![job.run] = IF CanExpireDueApprovals(db) THEN "polling" ELSE "dead"]
  /\ UNCHANGED <<file, deleted, crashes>>

(* The gateway throws and the client ends; its run stays as it is.  The    *)
(* policy may refuse any deletion, after the expiry.                       *)
RequestRefused(r) ==
  /\ job.step = "idle"
  /\ cli[r] = "requesting"
  /\ \/ (db.run[r] # "running" \/ ~Restorable) /\ db' = db
     \/ db.run[r] = "running" /\ Restorable /\ db' = Refreshed(db)
  /\ cli' = [cli EXCEPT ![r] = "dead"]
  /\ UNCHANGED <<file, action, job, deleted, crashes>>

-----------------------------------------------------------------------------
(* POST /approvals/:id/decision: the decision, then resolveApproval.       *)

Approve(a, g) ==
  /\ job.step = "idle"
  /\ db.grant[g].status = "absent"
  /\ CanExpireDueApprovals(db)
  /\ CanDecideApproval(settled, a, "approved", g)
  /\ db' = DecideApproval(settled, a, "approved", g)
  /\ job' = Job("execute", db.approval[a].run, a)
  /\ UNCHANGED <<file, action, cli, deleted, crashes>>

Deny(a) ==
  /\ job.step = "idle"
  /\ CanExpireDueApprovals(db)
  /\ CanDecideApproval(settled, a, "denied", NoGrant)
  /\ db' = DecideApproval(settled, a, "denied", NoGrant)
  /\ job' = Job("deny", db.approval[a].run, a)
  /\ UNCHANGED <<file, action, cli, deleted, crashes>>

(* The handler ends with one more read of the approval. *)
EndDecision ==
  /\ db' = Refreshed(db)
  /\ job' = Idle

(* The daemon died between the approval and the action of a request.       *)
ResolveMissing ==
  /\ job.step \in {"deny", "execute"}
  /\ action[job.approval] = "absent"
  /\ EndDecision
  /\ UNCHANGED <<file, action, cli, deleted, crashes>>

(* Only the approval row learns of the refusal. *)
ResolveDenied_Bug ==
  /\ job.step = "deny"
  /\ action[job.approval] # "absent"
  /\ EndDecision
  /\ UNCHANGED <<file, action, cli, deleted, crashes>>

ResolveDenied ==
  /\ job.step = "deny"
  /\ action[job.approval] # "absent"
  /\ action' = [action EXCEPT ![job.approval] = "denied"]
  /\ EndDecision
  /\ UNCHANGED <<file, cli, deleted, crashes>>

-----------------------------------------------------------------------------
(* execute                                                                 *)

StartExecuting ==
  /\ job.step = "execute"
  /\ action[job.approval] # "absent"
  /\ action' = [action EXCEPT ![job.approval] = "executing"]
  /\ job' = [job EXCEPT !.step = "inspect"]
  /\ UNCHANGED <<db, file, cli, deleted, crashes>>

MayConsume ==
  LET g == settled.approval[job.approval].grant IN
  /\ CanExpireDueApprovals(db)
  /\ g \in Grant
  /\ CanConsumeGrant(settled, g, job.run, file)

(* The file is read again and the grant consumed for what is there now.    *)
InspectAndConsume ==
  /\ job.step = "inspect"
  /\ file # NoFile
  /\ MayConsume
  /\ db' = ConsumeExecutionGrant(settled, settled.approval[job.approval].grant)
  /\ job' = [job EXCEPT !.step = "unlink"]
  /\ UNCHANGED <<file, action, cli, deleted, crashes>>

(* Goes on to the unlink although the grant was refused. *)
ExecutionRejected_Bug ==
  /\ job.step = "inspect"
  /\ \/ file = NoFile /\ db' = db
     \/ file # NoFile /\ ~MayConsume /\ db' = Refreshed(db)
  /\ job' = [job EXCEPT !.step = "unlink"]
  /\ UNCHANGED <<file, action, cli, deleted, crashes>>

(* The file is gone or changed, or the grant has expired meanwhile.        *)
ExecutionRejected ==
  /\ job.step = "inspect"
  /\ \/ file = NoFile /\ db' = db
     \/ file # NoFile /\ ~MayConsume /\ db' = Refreshed(db)
  /\ job' = [job EXCEPT !.step = "fail"]
  /\ UNCHANGED <<file, action, cli, deleted, crashes>>

Unlink ==
  /\ job.step = "unlink"
  /\ file # NoFile
  /\ file' = NoFile
  /\ deleted' = [deleted EXCEPT ![job.approval] = file]
  /\ job' = [job EXCEPT !.step = "complete"]
  /\ UNCHANGED <<db, action, cli, crashes>>

(* The error of the unlink is swallowed. *)
UnlinkFails_Bug ==
  /\ job.step = "unlink"
  /\ job' = [job EXCEPT !.step = "complete"]
  /\ UNCHANGED <<db, file, action, cli, deleted, crashes>>

(* Somebody was faster, or the directory does not let go of the file.      *)
UnlinkFails ==
  /\ job.step = "unlink"
  /\ job' = [job EXCEPT !.step = "fail"]
  /\ UNCHANGED <<db, file, action, cli, deleted, crashes>>

(* file.deleted, or the failure, is recorded with the status.              *)
RecordOutcome ==
  /\ job.step \in {"complete", "fail"}
  /\ action' = [action EXCEPT ![job.approval] =
                  IF job.step = "complete" THEN "completed" ELSE "failed"]
  /\ EndDecision
  /\ UNCHANGED <<file, cli, deleted, crashes>>

-----------------------------------------------------------------------------
(* The client polls its approval and reports how its run ended.            *)

RequestOf(r) == {a \in Approval : db.approval[a].run = r}

(* Does not count an expired request as answered. *)
VerdictWaits_Bug(status, outcome) ==
  CASE status \in {"pending", "approved", "expired"} -> "polling"
    [] status = "consumed" -> "completed"
    [] OTHER -> "cancelled"

(* What a client concludes from the status of its approval. *)
Verdict(status, outcome) ==
  CASE status = "pending" -> "polling"
    [] status = "approved" -> IF outcome = "failed" THEN "failed" ELSE "polling"
    [] status = "consumed" -> "completed"
    [] OTHER -> "cancelled"

CliPoll(r) ==
  /\ job.step = "idle"
  /\ cli[r] = "polling"
  /\ db' = Refreshed(db)
  /\ \E a \in RequestOf(r) :
       cli' = [cli EXCEPT ![r] = IF CanExpireDueApprovals(db)
                                 THEN Verdict(settled.approval[a].status, action[a])
                                 ELSE "dead"]
  /\ UNCHANGED <<file, action, job, deleted, crashes>>

CliReport(r) ==
  /\ job.step = "idle"
  /\ cli[r] \in {"completed", "failed", "cancelled"}
  /\ IF CanTransitionRun(db, r, cli[r])
     THEN db' = TransitionRun(db, r, cli[r]) /\ cli' = [cli EXCEPT ![r] = "done"]
     ELSE db' = db /\ cli' = [cli EXCEPT ![r] = "dead"]
  /\ UNCHANGED <<file, action, job, deleted, crashes>>

-----------------------------------------------------------------------------
(* The rest of the world                                                   *)

ListApprovals ==
  /\ job.step = "idle"
  /\ CanExpireDueApprovals(db)
  /\ db' = settled
  /\ UNCHANGED <<file, action, job, cli, deleted, crashes>>

Edit(content) ==
  /\ file' = content
  /\ UNCHANGED <<db, action, job, cli, deleted, crashes>>

Tick ==
  /\ db' = Elapse(db)
  /\ UNCHANGED <<file, action, job, cli, deleted, crashes>>

(* The daemon dies and starts again.  A client whose request is being      *)
(* served loses its connection; any other may try while nobody listens.    *)
(* No provider session belongs to these runs, so start-up changes nothing. *)
Crash(lost) ==
  /\ crashes < MaxCrash
  /\ crashes' = crashes + 1
  /\ job' = Idle
  /\ job.step \in {"launch", "register"} => job.run \in lost
  /\ cli' = [r \in Run |->
       IF r \in lost /\ cli[r] \notin {"absent", "done"} THEN "dead" ELSE cli[r]]
  /\ UNCHANGED <<db, file, action, deleted>>

HandlerStep ==
  \/ LaunchCliRun \/ RegisterAction \/ ResolveMissing \/ ResolveDenied
  \/ StartExecuting \/ InspectAndConsume \/ ExecutionRejected
  \/ Unlink \/ UnlinkFails \/ RecordOutcome

Next ==
  \/ \E r \in Run : CreateCliRun(r)
  \/ \E r \in Run, a \in Approval : RequestDelete(r, a)
  \/ \E r \in Run : RequestRefused(r)
  \/ \E a \in Approval, g \in Grant : Approve(a, g)
  \/ \E a \in Approval : Deny(a)
  \/ HandlerStep
  \/ \E r \in Run : CliPoll(r)
  \/ \E r \in Run : CliReport(r)
  \/ ListApprovals
  \/ \E content \in Digest \cup {NoFile} : Edit(content)
  \/ Tick
  \/ \E lost \in SUBSET Run : Crash(lost)

Spec == Init /\ [][Next]_vars

(* A handler once started runs on, clients poll on a timer, time passes.   *)
(* Nobody has to ask, decide, edit or crash.                               *)
Fairness ==
  /\ WF_vars(HandlerStep)
  /\ WF_vars(Tick)
  /\ \A r \in Run : WF_vars(CliPoll(r)) /\ WF_vars(CliReport(r))

FairSpec == Spec /\ Fairness

-----------------------------------------------------------------------------
(* Properties                                                              *)

TypeOK ==
  /\ db \in StoreContent
  /\ file \in Digest \cup {NoFile}
  /\ action \in [Approval -> ActionStatus]
  /\ job \in [step : Step, run : Run \cup {NoRun}, approval : Approval \cup {NoApproval}]
  /\ cli \in [Run -> CliState]
  /\ deleted \in [Approval -> Digest \cup {NoFile}]
  /\ crashes \in 0 .. MaxCrash

(* The recorded outcome of a request and what was done to the file agree:  *)
(* nothing is deleted that is recorded as waiting, denied or failed, and   *)
(* nothing is recorded as completed that was not deleted, crashes included *)
(* (a crash can leave an action executing, of which nothing is known).     *)
OutcomeMatchesFile ==
  \A a \in Approval :
    /\ action[a] = "completed" => deleted[a] # NoFile
    /\ action[a] \in {"absent", "waiting_approval", "denied", "failed"} =>
         deleted[a] = NoFile
    /\ action[a] = "executing" /\ crashes = 0 => job.approval = a

(* A client that reports a failed or cancelled run has deleted nothing.    *)
NoDeletionIsDisowned ==
  \A r \in Run : db.run[r] \in {"failed", "cancelled"} =>
    \A a \in RequestOf(r) : deleted[a] = NoFile

(* RECORDS.  Every variable keeps to its values, and what the gateway and  *)
(* its clients record of a request is what was done to the file.           *)
RecordsMatchFile == TypeOK /\ OutcomeMatchesFile /\ NoDeletionIsDisowned

(* Deleting the file is an act authorized by its approval: the consumed    *)
(* grant stands until the unlink that uses it, and lapses when that fails  *)
(* or the daemon dies first.                                               *)
stageOf == [a \in Approval |->
  CASE db.approval[a].status = "absent"   -> "new"
    [] db.approval[a].status = "pending"  -> "open"
    [] db.approval[a].status = "approved" -> "granted"
    [] db.approval[a].status = "consumed" ->
         IF deleted[a] # NoFile THEN "spent"
         ELSE IF job.step = "unlink" /\ job.approval = a THEN "granted" ELSE "closed"
    [] OTHER -> "closed"]

actsOf == [a \in Approval |-> IF deleted[a] = NoFile THEN 0 ELSE 1]

Authorized == INSTANCE Authorization WITH
  Request <- Approval, stage <- stageOf, acts <- actsOf

DeletesOnlyWithLeave == Authorized!Spec

(* The gateway uses the tables as a caller of the approval service does:   *)
(* each of its steps is a step of the service, or none.                    *)
usesOf == [g \in Grant |-> IF db.grant[g].status = "consumed" THEN 1 ELSE 0]

usedAsOf == [g \in Grant |->
  IF db.grant[g].status = "consumed"
  THEN [run |-> db.grant[g].run, digest |-> db.grant[g].digest]
  ELSE [run |-> NoRun, digest |-> NoDigest]]

Service == INSTANCE Approvals WITH
  uses <- usesOf, usedAs <- usedAsOf, OutsideMove <- RunTransition

UsesTheService == Service!Spec

(* What is unlinked is what the snapshot of the request can bring back.    *)
DeletedContentIsRestorable ==
  \A a \in Approval : deleted[a] # NoFile => deleted[a] = db.approval[a].digest

(* A run whose client reports "approved gateway deletion completed" has    *)
(* had its file deleted.                                                   *)
CompletedMeansDeleted ==
  \A r \in Run : db.run[r] = "completed" =>
    \A a \in RequestOf(r) : deleted[a] # NoFile

(* A client always comes back, decided or not, crash or not.               *)
ClientReturns ==
  \A r \in Run : cli[r] = "polling" ~> cli[r] \in {"done", "dead"}

(* A decision ends in file.deleted or in an explicit failure.              *)
DecisionHasOutcome ==
  \A a \in Approval :
    action[a] # "absent" /\ db.approval[a].status \in {"approved", "denied"}
      ~> action[a] \in {"completed", "denied", "failed"}

(* A decision ends so as long as the daemon lives: only a death leaves an  *)
(* action without an outcome.                                              *)
OutcomeUnlessKilled ==
  \A a \in Approval :
    action[a] # "absent" /\ db.approval[a].status \in {"approved", "denied"}
      ~> action[a] \in {"completed", "denied", "failed"} \/ crashes > 0
=============================================================================
