----------------------------- MODULE Approvals -----------------------------
(***************************************************************************)
(* The approval service over the store: callers ask for an action, a       *)
(* person decides, a caller spends the grant and then acts.  The daemon    *)
(* is one Node process and these handlers never await, so each runs to its *)
(* end before the next starts; what interleaves is whole handlers, and     *)
(* time.  Every handler first expires what is due.  A handler that throws  *)
(* after that keeps the expiry, which its transaction has committed, and   *)
(* changes nothing else: that is the action ListApprovals.                 *)
(***************************************************************************)
EXTENDS ApprovalStore

CONSTANT OutsideMove   \* the run transitions callers of the status route ask for

ASSUME OutsideAssumption == OutsideMove \subseteq RunTransition

VARIABLES
  db,     \* the committed content of the store
  uses,   \* history: how many callers were told to go ahead with a grant
  usedAs  \* history: the run and digest the last of them acted under

vars == <<db, uses, usedAs>>
history == <<uses, usedAs>>

NoUse == [run |-> NoRun, digest |-> NoDigest]

Init ==
  /\ db = EmptyStore
  /\ uses = [g \in Grant |-> 0]
  /\ usedAs = [g \in Grant |-> NoUse]

-----------------------------------------------------------------------------
(* Runs, as other parts of the daemon and the status route move them       *)

NewRun(r) ==
  /\ db.run[r] = "absent"
  /\ db' = CreateRun(db, r)
  /\ UNCHANGED history

PostRunStatus(r, to) ==
  /\ <<db.run[r], to>> \in OutsideMove
  /\ CanTransitionRun(db, r, to)
  /\ db' = TransitionRun(db, r, to)
  /\ UNCHANGED history

(* The daemon dies and starts again; "hosted" are the runs that had a      *)
(* provider session.  Between handlers every transaction is committed.     *)
Restart(hosted) ==
  /\ CanRecoverProviderSessions(db, hosted)
  /\ db' = RecoverProviderSessions(db, hosted)
  /\ UNCHANGED history

-----------------------------------------------------------------------------
(* Handlers.  "settled" is the store once what is due has expired.         *)

settled_Bug == db

settled == ExpireDueApprovals(db)

(* list, get, a denied evaluation, a refused decision or consumption: only *)
(* the expiry changes anything.                                            *)
ListApprovals ==
  /\ CanExpireDueApprovals(db)
  /\ db' = settled
  /\ UNCHANGED history

(* evaluate, when the policy wants a person to decide.                     *)
EvaluateAsk(r, dg, a) ==
  /\ db.run[r] # "absent"
  /\ CanExpireDueApprovals(db)
  /\ CanCreateApproval(settled, a, r)
  /\ db' = CreateApproval(settled, a, r, dg)
  /\ UNCHANGED history

(* evaluate, when the policy allows the action: a grant with no approval.  *)
EvaluateAllow(r, dg, g) ==
  /\ db.run[r] # "absent"
  /\ db.grant[g].status = "absent"
  /\ CanExpireDueApprovals(db)
  /\ db' = InsertGrant(settled, g, NoApproval, r, dg)
  /\ UNCHANGED history

Approve(a, g) ==
  /\ db.grant[g].status = "absent"
  /\ CanExpireDueApprovals(db)
  /\ CanDecideApproval(settled, a, "approved", g)
  /\ db' = DecideApproval(settled, a, "approved", g)
  /\ UNCHANGED history

Deny(a) ==
  /\ CanExpireDueApprovals(db)
  /\ CanDecideApproval(settled, a, "denied", NoGrant)
  /\ db' = DecideApproval(settled, a, "denied", NoGrant)
  /\ UNCHANGED history

(* The caller of a consumption goes on to act with run r and digest dg.    *)
Act(g, r, dg) ==
  /\ uses' = [uses EXCEPT ![g] = @ + 1]
  /\ usedAs' = [usedAs EXCEPT ![g] = [run |-> r, digest |-> dg]]

(* consume: the holder of g's signed token presents the action it is about *)
(* to perform.  The token repeats the run, digest and expiry of the grant. *)
Consume(g, r, dg) ==
  /\ db.grant[g].status # "absent"
  /\ CanExpireDueApprovals(db)
  /\ settled.grant[g].left > 0
  /\ CanConsumeGrant(settled, g, r, dg)
  /\ db' = ConsumeExecutionGrant(settled, g)
  /\ Act(g, r, dg)

(* consume of an expired token: the grant is expired, the caller refused.  *)
ConsumeTooLate(g) ==
  /\ db.grant[g].status # "absent"
  /\ CanExpireDueApprovals(db)
  /\ settled.grant[g].left = 0
  /\ db' = ExpireExecutionGrant(settled, g)
  /\ UNCHANGED history

(* consumeApproved: the daemon itself spends the grant of an approval.     *)
ConsumeApproved(a, r, dg) ==
  LET g == settled.approval[a].grant IN
  /\ CanExpireDueApprovals(db)
  /\ settled.approval[a].status = "approved"
  /\ g \in Grant
  /\ settled.grant[g].left > 0
  /\ settled.approval[a].digest = dg
  /\ CanConsumeGrant(settled, g, r, dg)
  /\ db' = ConsumeExecutionGrant(settled, g)
  /\ Act(g, r, dg)

Tick ==
  /\ db' = Elapse(db)
  /\ UNCHANGED history

-----------------------------------------------------------------------------
Next ==
  \/ \E r \in Run : NewRun(r)
  \/ \E r \in Run, to \in RunStatus : PostRunStatus(r, to)
  \/ \E hosted \in SUBSET Run : Restart(hosted)
  \/ ListApprovals
  \/ \E r \in Run, dg \in Digest, a \in Approval : EvaluateAsk(r, dg, a)
  \/ \E r \in Run, dg \in Digest, g \in Grant : EvaluateAllow(r, dg, g)
  \/ \E a \in Approval, g \in Grant : Approve(a, g)
  \/ \E a \in Approval : Deny(a)
  \/ \E g \in Grant, r \in Run, dg \in Digest : Consume(g, r, dg)
  \/ \E g \in Grant : ConsumeTooLate(g)
  \/ \E a \in Approval, r \in Run, dg \in Digest : ConsumeApproved(a, r, dg)
  \/ Tick

Spec == Init /\ [][Next]_vars

(* Time passes, and somebody keeps looking: the dashboard and a waiting    *)
(* command line read the approvals on a timer.  Nobody has to decide.      *)
Fairness == WF_vars(Tick) /\ WF_vars(ListApprovals)

FairSpec == Spec /\ Fairness

-----------------------------------------------------------------------------
(* Properties                                                              *)

TypeOK ==
  /\ db \in StoreContent
  /\ NotNull(db)
  /\ uses \in [Grant -> Nat]
  /\ usedAs \in [Grant -> [run : Run \cup {NoRun}, digest : Digest \cup {NoDigest}]]

(* Approvals and grants, two tables written by five transactions, never    *)
(* contradict each other: no approval is pending, denied or expired while  *)
(* its grant can still be spent or has been.                               *)
ApprovalsAndGrantsAgree == TablesAgree(db)

(* A grant sends at most one caller ahead, and that caller acts under the  *)
(* run and the action digest the grant was issued for.                     *)
OneUse ==
  \A g \in Grant :
    /\ uses[g] = (IF db.grant[g].status = "consumed" THEN 1 ELSE 0)
    /\ uses[g] = 1 => /\ usedAs[g].run = db.grant[g].run
                      /\ usedAs[g].digest = db.grant[g].digest

(* Every request, decision, expiry and consumption is on the audit trail   *)
(* and nothing else is, although expireExecutionGrant changes rows and     *)
(* records nothing: the expiry every handler opens with gets there first.  *)
AuditTellsTheTruth == AuditAgrees(db)

(* Deciding or expiring one approval never sets a run going while another  *)
(* of its approvals is still waiting for a decision.                       *)
NeverResumedEarly ==
  [][\A r \in Run :
       /\ db.run[r] = "waiting_approval"
       /\ db'.run[r] = "running"
       /\ db'.approval # db.approval
       => Pending(db', r) = {}]_vars

(* The step that settles the last pending approval of a waiting run, by    *)
(* decision or by expiry, also sets the run going: no run is left waiting  *)
(* for nobody.                                                             *)
LastDecisionResumes ==
  [][\A r \in Run :
       /\ db.run[r] = "waiting_approval"
       /\ Pending(db, r) # {}
       /\ Pending(db', r) = {}
       => db'.run[r] = "running"]_vars

(* When only the service itself starts and stops waiting, and nobody sets  *)
(* an interrupted run going again, a live run waits exactly while one of   *)
(* its approvals is pending.                                               *)
WaitsExactlyWhilePending ==
  \A r \in Run :
    db.run[r] \notin TerminalRunStatus \cup {"interrupted"} =>
      (db.run[r] = "waiting_approval" <=> Pending(db, r) # {})

(* The start-up after a crash of the host leaves no spendable grant behind *)
(* for the runs it marks interrupted.                                      *)
RestartRevokesGrants ==
  [][\A hosted \in SUBSET Run :
       Restart(hosted) =>
         \A g \in Grant :
           /\ db.grant[g].run \in hosted
           /\ db.run[db.grant[g].run] # db'.run[db.grant[g].run]
           => db'.grant[g].status # "active"]_vars

(* No request stays open and no grant stays spendable for ever, even when  *)
(* nobody decides and nobody comes back with the grant.                    *)
EveryRequestSettles ==
  \A a \in Approval :
    db.approval[a].status \in {"pending", "approved"} ~>
      db.approval[a].status \notin {"pending", "approved"}

(* The rows and the callers' uses, seen as the stages of a request.        *)
stageOf == [a \in Approval |->
  CASE db.approval[a].status = "absent"   -> "new"
    [] db.approval[a].status = "pending"  -> "open"
    [] db.approval[a].status = "approved" -> "granted"
    [] db.approval[a].status = "consumed" -> "spent"
    [] OTHER                              -> "closed"]

actsOf == [a \in Approval |->
  IF db.approval[a].grant \in Grant THEN uses[db.approval[a].grant] ELSE 0]

Authorized == INSTANCE Authorization WITH
  Request <- Approval, stage <- stageOf, acts <- actsOf

(* The service implements the abstract authorization.                      *)
ImplementsAuthorization == Authorized!Spec
=============================================================================
