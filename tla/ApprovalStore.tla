--------------------------- MODULE ApprovalStore ---------------------------
(***************************************************************************)
(* The tables of the local store that carry authorization: runs, approvals *)
(* and execution grants.  Their committed content is one value, a record   *)
(* d, and every SQLite transaction of the store is an operator from the    *)
(* content before to the content after.  A transaction T that may throw    *)
(* has a guard CanT; when CanT is false the code throws and SQLite rolls   *)
(* everything back, so d is left as it was.                                *)
(*                                                                         *)
(* Time.  A row keeps the time it has left ("left") instead of the moment  *)
(* it expires at: expires_at <= now is left = 0, and a tick of the clock   *)
(* lowers every positive left by one.                                      *)
(*                                                                         *)
(* A definition whose name ends in "_Bug" is the one after it with a       *)
(* mistake in it; no other definition uses it.                             *)
(***************************************************************************)
EXTENDS Naturals, RunState

CONSTANTS
  Run, Approval, Grant,   \* identifiers the store may hand out
  Digest,                 \* digests of canonical actions
  NoRun, NoApproval, NoGrant, NoDigest,   \* an empty column
  ApprovalTtl, GrantTtl   \* life of a request and of a grant, in ticks

ASSUME NullAssumption ==
  /\ NoRun \notin Run
  /\ NoApproval \notin Approval
  /\ NoGrant \notin Grant
  /\ NoDigest \notin Digest

ASSUME TtlAssumption ==
  /\ ApprovalTtl \in Nat \ {0}
  /\ GrantTtl \in Nat \ {0}

-----------------------------------------------------------------------------
(* Rows                                                                    *)

ApprovalRow ==
  [status : {"absent", "pending", "approved", "consumed", "denied", "expired"},
   run    : Run \cup {NoRun},
   digest : Digest \cup {NoDigest},
   left   : Nat,
   grant  : Grant \cup {NoGrant}]

GrantRow ==
  [status   : {"absent", "active", "consumed", "expired"},
   approval : Approval \cup {NoApproval},
   run      : Run \cup {NoRun},
   digest   : Digest \cup {NoDigest},
   left     : Nat]

(* The audit events whose idempotency key names the row they are about. *)
AuditKey ==
  [type : {"approval.requested", "approval.decided", "approval.expired"}, id : Approval]
  \cup [type : {"approval.consumed"}, id : Grant]

(* "stamped" holds the idempotency keys of the run.status_changed events   *)
(* recorded in the current millisecond, the only ones that can be met      *)
(* again: the key of a transition ends in its timestamp.                   *)
StoreContent ==
  [run      : [Run -> RunStatus],
   approval : [Approval -> ApprovalRow],
   grant    : [Grant -> GrantRow],
   audit    : SUBSET AuditKey,
   stamped  : SUBSET (Run \X RunStatus \X RunStatus)]

(* The columns a row cannot go without. *)
NotNull(d) ==
  /\ \A a \in Approval : d.approval[a].status # "absent" =>
       d.approval[a].run \in Run /\ d.approval[a].digest \in Digest
  /\ \A g \in Grant : d.grant[g].status # "absent" =>
       d.grant[g].run \in Run /\ d.grant[g].digest \in Digest

EmptyStore ==
  [run      |-> [r \in Run |-> "absent"],
   approval |-> [a \in Approval |->
                   [status |-> "absent", run |-> NoRun, digest |-> NoDigest,
                    left |-> 0, grant |-> NoGrant]],
   grant    |-> [g \in Grant |->
                   [status |-> "absent", approval |-> NoApproval, run |-> NoRun,
                    digest |-> NoDigest, left |-> 0]],
   audit    |-> {},
   stamped  |-> {}]

-----------------------------------------------------------------------------
(* Events.  appendEvents throws when the key of an event is taken by an    *)
(* event with another fingerprint; every event of these transactions has a *)
(* fresh eventId, so a taken key is always a conflict.                     *)

CanRecord(d, type, id) == [type |-> type, id |-> id] \notin d.audit

Record(d, type, id) == [d EXCEPT !.audit = @ \cup {[type |-> type, id |-> id]}]

-----------------------------------------------------------------------------
(* Runs                                                                    *)

CreateRun(d, r) == [d EXCEPT !.run[r] = "created"]

CanTransitionRun(d, r, to) ==
  /\ <<d.run[r], to>> \in RunTransition
  /\ <<r, d.run[r], to>> \notin d.stamped

TransitionRun(d, r, to) ==
  [d EXCEPT !.run[r] = to, !.stamped = @ \cup {<<r, d.run[r], to>>}]

(* The approvals of run r that still wait for a decision. *)
Pending(d, r) ==
  {a \in Approval : d.approval[a].run = r /\ d.approval[a].status = "pending"}

(* Resumes on any decision, whoever else is pending. *)
ResumesRun_Bug(d, r) == d.run[r] = "waiting_approval"

ResumesRun(d, r) == d.run[r] = "waiting_approval" /\ Pending(d, r) = {}

CanResumeRun(d, r) == ResumesRun(d, r) => CanTransitionRun(d, r, "running")

ResumeRunWithoutPendingApprovals(d, r) ==
  IF ResumesRun(d, r) THEN TransitionRun(d, r, "running") ELSE d

(* Start-up marks the runs whose provider session was active; it touches   *)
(* neither their approvals nor their grants.                               *)
Interrupted(s) ==
  CASE s = "created" -> "failed"
    [] s \in {"running", "waiting_approval"} -> "interrupted"
    [] OTHER -> s

CanRecoverProviderSessions(d, hosted) ==
  \A r \in hosted :
    Interrupted(d.run[r]) # d.run[r] => CanTransitionRun(d, r, Interrupted(d.run[r]))

RecoverProviderSessions(d, hosted) ==
  LET moved == {r \in hosted : Interrupted(d.run[r]) # d.run[r]}
  IN  [d EXCEPT
         !.run = [r \in Run |-> IF r \in moved THEN Interrupted(d.run[r]) ELSE d.run[r]],
         !.stamped = @ \cup {<<r, d.run[r], Interrupted(d.run[r])>> : r \in moved}]

-----------------------------------------------------------------------------
(* Expiry                                                                  *)

GrantOf(d, a) == d.grant[d.approval[a].grant]

(* Forgets the grants nobody came back for. *)
Due_Bug(d) ==
  {a \in Approval : d.approval[a].status = "pending" /\ d.approval[a].left = 0}

(* The rows expireDueApprovals selects. *)
Due(d) ==
  {a \in Approval :
     \/ d.approval[a].status = "pending" /\ d.approval[a].left = 0
     \/ /\ d.approval[a].status = "approved"
        /\ d.approval[a].grant \in Grant
        /\ GrantOf(d, a).status = "active"
        /\ GrantOf(d, a).left = 0}

(* Forgets the grants of the due rows. *)
MarkExpired_Bug(d) ==
  [d EXCEPT
     !.approval = [a \in Approval |->
        IF a \in Due(d) THEN [d.approval[a] EXCEPT !.status = "expired"]
                        ELSE d.approval[a]],
     !.audit = @ \cup [type : {"approval.expired"}, id : Due(d)]]

(* The due rows and their grants marked expired, with their events.        *)
MarkExpired(d) ==
  [d EXCEPT
     !.approval = [a \in Approval |->
        IF a \in Due(d) THEN [d.approval[a] EXCEPT !.status = "expired"]
                        ELSE d.approval[a]],
     !.grant = [g \in Grant |->
        IF d.grant[g].status = "active" /\ \E a \in Due(d) : d.approval[a].grant = g
        THEN [d.grant[g] EXCEPT !.status = "expired"]
        ELSE d.grant[g]],
     !.audit = @ \cup [type : {"approval.expired"}, id : Due(d)]]

(* The runs whose last pending approval expires here.  The code resumes    *)
(* run by run inside its loop; a run's last turn sees the final rows.      *)
ResumedByExpiry(d) ==
  {r \in Run : /\ \E a \in Due(d) : d.approval[a].run = r
               /\ ResumesRun(MarkExpired(d), r)}

(* One conflicting transition throws out of the loop: nothing expires.     *)
CanExpireDueApprovals(d) ==
  /\ \A a \in Due(d) : CanRecord(d, "approval.expired", a)
  /\ \A r \in ResumedByExpiry(d) : CanTransitionRun(d, r, "running")

ExpireDueApprovals(d) ==
  [MarkExpired(d) EXCEPT
     !.run = [r \in Run |-> IF r \in ResumedByExpiry(d) THEN "running" ELSE d.run[r]],
     !.stamped = @ \cup {<<r, "waiting_approval", "running">> : r \in ResumedByExpiry(d)}]

(* Writes the refusal's reason into the grant. *)
ExpireExecutionGrant_Bug(d, g) ==
  IF d.grant[g].status # "active" THEN d ELSE [d EXCEPT !.grant[g].status = "invalid"]

(* Expires one grant, and the approval it was issued for; it records no    *)
(* event and resumes no run.                                               *)
ExpireExecutionGrant(d, g) ==
  IF d.grant[g].status # "active" THEN d
  ELSE [d EXCEPT
          !.grant[g].status = "expired",
          !.approval = [a \in Approval |->
             IF a = d.grant[g].approval /\ d.approval[a].status = "approved"
             THEN [d.approval[a] EXCEPT !.status = "expired"]
             ELSE d.approval[a]]]

-----------------------------------------------------------------------------
(* Requests, decisions, grants                                             *)

CanCreateApproval(d, a, r) ==
  /\ d.approval[a].status = "absent"
  /\ CanRecord(d, "approval.requested", a)
  /\ d.run[r] \in {"running", "created"} => CanTransitionRun(d, r, "waiting_approval")

(* Stops a run only once it has started. *)
CreateApproval_Bug(d, a, r, dg) ==
  LET asked == [Record(d, "approval.requested", a) EXCEPT
                  !.approval[a] = [status |-> "pending", run |-> r, digest |-> dg,
                                   left |-> ApprovalTtl, grant |-> NoGrant]]
  IN  IF d.run[r] = "running" THEN TransitionRun(asked, r, "waiting_approval")
                              ELSE asked

(* A run that is interrupted or over gets its approval and keeps its status. *)
CreateApproval(d, a, r, dg) ==
  LET asked == [Record(d, "approval.requested", a) EXCEPT
                  !.approval[a] = [status |-> "pending", run |-> r, digest |-> dg,
                                   left |-> ApprovalTtl, grant |-> NoGrant]]
  IN  IF d.run[r] \in {"running", "created"}
      THEN TransitionRun(asked, r, "waiting_approval")
      ELSE asked

(* An active grant; a is NoApproval when the policy allows the action. *)
InsertGrant(d, g, a, r, dg) ==
  [d EXCEPT !.grant[g] = [status |-> "active", approval |-> a, run |-> r,
                          digest |-> dg, left |-> GrantTtl]]

(* The rows after a decision, before the run is resumed.  g is the grant   *)
(* inserted with an approved decision, NoGrant with a denied one.          *)
Decided(d, a, decision, g) ==
  LET ruled == [Record(d, "approval.decided", a) EXCEPT
                  !.approval[a] = [@ EXCEPT !.status = decision, !.grant = g]]
  IN  IF decision = "approved"
      THEN InsertGrant(ruled, g, a, d.approval[a].run, d.approval[a].digest)
      ELSE ruled

(* Lets a person change a no into a yes. *)
CanDecideApproval_Bug(d, a, decision, g) ==
  /\ d.approval[a].status \in {"pending", "denied"}
  /\ CanResumeRun(Decided(d, a, decision, g), d.approval[a].run)

CanDecideApproval(d, a, decision, g) ==
  /\ d.approval[a].status = "pending"
  /\ CanRecord(d, "approval.decided", a)
  /\ CanResumeRun(Decided(d, a, decision, g), d.approval[a].run)

(* Resumes the run only when the answer is yes. *)
DecideApproval_Bug(d, a, decision, g) ==
  IF decision = "approved"
  THEN ResumeRunWithoutPendingApprovals(Decided(d, a, decision, g), d.approval[a].run)
  ELSE Decided(d, a, decision, g)

DecideApproval(d, a, decision, g) ==
  ResumeRunWithoutPendingApprovals(Decided(d, a, decision, g), d.approval[a].run)

(* Takes any action of the run for the approved one. *)
CanConsumeGrant_Bug(d, g, r, dg) ==
  /\ d.grant[g].status = "active"
  /\ d.grant[g].left > 0
  /\ d.grant[g].run = r
  /\ CanRecord(d, "approval.consumed", g)

(* A grant is spent by a caller whose run and digest are the grant's.      *)
(* The status of the run is not consulted.                                 *)
CanConsumeGrant(d, g, r, dg) ==
  /\ d.grant[g].status = "active"
  /\ d.grant[g].left > 0
  /\ d.grant[g].run = r
  /\ d.grant[g].digest = dg
  /\ CanRecord(d, "approval.consumed", g)

ConsumeExecutionGrant(d, g) ==
  [Record(d, "approval.consumed", g) EXCEPT
     !.grant[g].status = "consumed",
     !.approval = [a \in Approval |->
        IF a = d.grant[g].approval /\ d.approval[a].status = "approved"
        THEN [d.approval[a] EXCEPT !.status = "consumed"]
        ELSE d.approval[a]]]

-----------------------------------------------------------------------------
(* The clock                                                               *)

Less(n) == IF n = 0 THEN 0 ELSE n - 1

Elapse(d) ==
  [d EXCEPT
     !.approval = [a \in Approval |-> [d.approval[a] EXCEPT !.left = Less(@)]],
     !.grant = [g \in Grant |-> [d.grant[g] EXCEPT !.left = Less(@)]],
     !.stamped = {}]

-----------------------------------------------------------------------------
(* What the tables promise about each other                                *)

(* A grant issued for an approval names it and is named by it, for the     *)
(* same run and action, and the two rows tell the same story: one is       *)
(* active, consumed or expired exactly when the other is approved,         *)
(* consumed or expired.  A decision to approve leaves a grant.             *)
GrantTellsItsApproval(d, g) ==
  LET a == d.grant[g].approval IN
  a \in Approval =>
    /\ d.approval[a].grant = g
    /\ d.approval[a].run = d.grant[g].run
    /\ d.approval[a].digest = d.grant[g].digest
    /\ d.grant[g].status # "absent"
    /\ d.grant[g].status = "active" <=> d.approval[a].status = "approved"
    /\ d.grant[g].status = "consumed" <=> d.approval[a].status = "consumed"
    /\ d.grant[g].status = "expired" <=> d.approval[a].status = "expired"

ApprovalHasItsGrant(d, a) ==
  LET g == d.approval[a].grant IN
  /\ d.approval[a].status \in {"approved", "consumed"} => g \in Grant
  /\ d.approval[a].status \in {"absent", "pending", "denied"} => g = NoGrant
  /\ g \in Grant => d.grant[g].approval = a

TablesAgree(d) ==
  /\ \A g \in Grant : GrantTellsItsApproval(d, g)
  /\ \A a \in Approval : ApprovalHasItsGrant(d, a)

(* The audit events say what the rows say, no more and no less: a request  *)
(* that was decided, spent or expired has exactly the events of it.        *)
Recorded(d, type, id) == ~CanRecord(d, type, id)

AuditAgrees(d) ==
  /\ \A a \in Approval :
       LET row == d.approval[a] IN
       /\ Recorded(d, "approval.requested", a) <=> row.status # "absent"
       /\ Recorded(d, "approval.decided", a) <=>
            \/ row.status \in {"approved", "denied", "consumed"}
            \/ row.status = "expired" /\ row.grant # NoGrant
       /\ Recorded(d, "approval.expired", a) <=> row.status = "expired"
  /\ \A g \in Grant :
       Recorded(d, "approval.consumed", g) <=> d.grant[g].status = "consumed"

=============================================================================
