-------------------------- MODULE ApprovalsProofs --------------------------
(***************************************************************************)
(* Proofs about the approval service, for every number of runs, approvals, *)
(* grants and digests and every life of requests and grants: first about   *)
(* its states, then about its steps (when a step sets a waiting run going, *)
(* and that every step is one the abstract authorization allows).  A       *)
(* handler is an expiry followed by one transaction, so the latter state   *)
(* what one transaction does and compose it with the expiry.               *)
(***************************************************************************)
EXTENDS Approvals, ApprovalStoreProofs

-----------------------------------------------------------------------------
(* The invariant of the service.  TypeOK is not inductive by itself: a     *)
(* decision reads the run of a pending row, so the rows must agree first.  *)

IInv ==
  /\ StoreInv(db)
  /\ uses \in [Grant -> Nat]
  /\ usedAs \in [Grant -> [run : Run \cup {NoRun}, digest : Digest \cup {NoDigest}]]
  /\ OneUse

LEMMA InitInv == Init => IInv
<1> SUFFICES ASSUME Init
             PROVE  IInv
  OBVIOUS
<1>1. StoreInv(db)
  BY EmptyInv DEF Init
<1>2. /\ uses \in [Grant -> Nat]
      /\ usedAs \in [Grant -> [run : Run \cup {NoRun}, digest : Digest \cup {NoDigest}]]
  BY DEF Init, NoUse
<1>3. \A g \in Grant : uses[g] = 0 /\ db.grant[g].status = "absent"
  BY DEF Init, EmptyStore
<1> QED
  BY <1>1, <1>2, <1>3 DEF IInv, OneUse

(* A step that sends nobody ahead keeps OneUse when no grant becomes       *)
(* consumed and no consumed grant changes its run or digest.               *)
LEMMA QuietStep ==
  ASSUME IInv, UNCHANGED history, StoreInv(db'),
         \A g \in Grant :
           /\ db'.grant[g].status = "consumed" <=> db.grant[g].status = "consumed"
           /\ db.grant[g].status = "consumed" =>
                /\ db'.grant[g].run = db.grant[g].run
                /\ db'.grant[g].digest = db.grant[g].digest
  PROVE  IInv'
BY DEF IInv, OneUse, history

(* A step that sends one caller ahead with grant g.                        *)
LEMMA ActStep ==
  ASSUME IInv, NEW g \in Grant, NEW r \in Run, NEW dg \in Digest, Act(g, r, dg),
         StoreInv(db'),
         db.grant[g].status = "active",
         db'.grant[g].status = "consumed",
         db'.grant[g].run = r,
         db'.grant[g].digest = dg,
         \A h \in Grant \ {g} :
           /\ db'.grant[h].status = "consumed" <=> db.grant[h].status = "consumed"
           /\ db'.grant[h].run = db.grant[h].run
           /\ db'.grant[h].digest = db.grant[h].digest
  PROVE  IInv'
<1>1. uses[g] = 0
  BY DEF IInv, OneUse
<1>2. /\ uses' \in [Grant -> Nat]
      /\ usedAs' \in [Grant -> [run : Run \cup {NoRun}, digest : Digest \cup {NoDigest}]]
  BY DEF IInv, Act
<1>3. /\ uses'[g] = 1
      /\ usedAs'[g].run = r
      /\ usedAs'[g].digest = dg
      /\ \A h \in Grant \ {g} : uses'[h] = uses[h] /\ usedAs'[h] = usedAs[h]
  BY <1>1 DEF IInv, Act
<1>4. OneUse'
  BY <1>3 DEF IInv, OneUse
<1> QED
  BY <1>2, <1>4 DEF IInv

LEMMA NextInv ==
  ASSUME IInv, [Next]_vars
  PROVE  IInv'
<1> DEFINE Quiet == /\ UNCHANGED history
                    /\ StoreInv(db')
                    /\ \A g \in Grant :
                         /\ db'.grant[g].status = "consumed" <=>
                              db.grant[g].status = "consumed"
                         /\ db.grant[g].status = "consumed" =>
                              /\ db'.grant[g].run = db.grant[g].run
                              /\ db'.grant[g].digest = db.grant[g].digest
<1>1. db \in StoreContent /\ StoreInv(db)
  BY DEF IInv, StoreInv
<1>2. /\ settled \in StoreContent
      /\ StoreInv(settled)
      /\ Due(settled) = {}
  BY <1>1, ExpireType, ExpireInv, NothingDue DEF settled
(* The expiry spends nothing and keeps every column.                       *)
<1>3. \A g \in Grant :
        /\ settled.grant[g].status = "consumed" <=> db.grant[g].status = "consumed"
        /\ settled.grant[g].status = "active" => db.grant[g].status = "active"
        /\ settled.grant[g].run = db.grant[g].run
        /\ settled.grant[g].digest = db.grant[g].digest
        /\ settled.grant[g].status = "absent" <=> db.grant[g].status = "absent"
  BY <1>1, ExpireRows DEF settled, KeepsColumns
<1>4. ASSUME db'.grant = db.grant, UNCHANGED history, StoreInv(db')
      PROVE  Quiet
  BY <1>4
<1>5. ASSUME NEW r \in Run, NewRun(r)
      PROVE  Quiet
  BY <1>1, <1>4, <1>5, RunsOnlyInv DEF NewRun, CreateRun, StoreContent
<1>6. ASSUME NEW r \in Run, NEW to \in RunStatus, PostRunStatus(r, to)
      PROVE  Quiet
  BY <1>1, <1>4, <1>6, RunsOnlyInv DEF PostRunStatus, TransitionRun, StoreContent
<1>7. ASSUME NEW hosted \in SUBSET Run, Restart(hosted)
      PROVE  Quiet
  BY <1>1, <1>4, <1>7, RunsOnlyInv DEF Restart, RecoverProviderSessions, StoreContent
<1>8. ASSUME ListApprovals
      PROVE  Quiet
  BY <1>2, <1>3, <1>8 DEF ListApprovals
<1>9. ASSUME NEW r \in Run, NEW dg \in Digest, NEW a \in Approval, EvaluateAsk(r, dg, a)
      PROVE  Quiet
  <2>1. StoreInv(db') /\ UNCHANGED history
    BY <1>2, <1>9, CreateApprovalInv DEF EvaluateAsk
  <2>2. db'.grant = settled.grant
    BY <1>2, <1>9 DEF EvaluateAsk, CreateApproval, TransitionRun, Record, StoreContent
  <2> QED
    BY <1>3, <2>1, <2>2
<1>10. ASSUME NEW r \in Run, NEW dg \in Digest, NEW g \in Grant, EvaluateAllow(r, dg, g)
       PROVE  Quiet
  <2>1. settled.grant[g].status = "absent"
    BY <1>3, <1>10 DEF EvaluateAllow
  <2>2. StoreInv(db') /\ UNCHANGED history
    BY <1>2, <1>10, <2>1, PolicyGrantInv DEF EvaluateAllow
  <2>3. /\ db'.grant[g].status = "active"
        /\ \A h \in Grant \ {g} : db'.grant[h] = settled.grant[h]
    BY <1>2, <1>10 DEF EvaluateAllow, InsertGrant, StoreContent
  <2> QED
    BY <1>3, <2>1, <2>2, <2>3
<1>11. ASSUME NEW a \in Approval, NEW g \in Grant, Approve(a, g)
       PROVE  Quiet
  <2>1. settled.grant[g].status = "absent"
    BY <1>3, <1>11 DEF Approve
  <2>2. settled.approval[a].run \in Run
    BY <1>2, <1>11 DEF Approve, CanDecideApproval, StoreInv, NotNull
  <2>3. StoreInv(db') /\ UNCHANGED history
    BY <1>2, <1>11, <2>1, DecideInv DEF Approve
  <2>4. RuledOn(settled, db', a, "approved", g)
    BY <1>2, <1>11, <2>2, DecideRows DEF Approve
  <2> QED
    BY <1>3, <2>1, <2>3, <2>4 DEF RuledOn
<1>12. ASSUME NEW a \in Approval, Deny(a)
       PROVE  Quiet
  <2>1. settled.approval[a].run \in Run
    BY <1>2, <1>12 DEF Deny, CanDecideApproval, StoreInv, NotNull
  <2>2. StoreInv(db') /\ UNCHANGED history
    BY <1>2, <1>12, DecideInv DEF Deny
  <2>3. RuledOn(settled, db', a, "denied", NoGrant)
    BY <1>2, <1>12, <2>1, DecideRows DEF Deny
  <2> QED
    BY <1>3, <2>2, <2>3 DEF RuledOn
<1>13. ASSUME NEW g \in Grant, ConsumeTooLate(g)
       PROVE  Quiet
  <2>1. StoreInv(db') /\ UNCHANGED history
    BY <1>2, <1>13, ExpireGrantInv DEF ConsumeTooLate
  <2>2. CASE settled.grant[g].status # "active"
    BY <1>3, <1>13, <2>1, <2>2 DEF ConsumeTooLate, ExpireExecutionGrant
  <2>3. CASE settled.grant[g].status = "active"
    <3>1. /\ KeepsColumns(settled, db')
          /\ \A h \in Grant :
               db'.grant[h].status = IF h = g THEN "expired" ELSE settled.grant[h].status
      BY <1>2, <1>13, <2>3, ExpireGrantRows DEF ConsumeTooLate
    <3> QED
      BY <1>3, <2>1, <2>3, <3>1 DEF KeepsColumns
  <2> QED
    BY <2>2, <2>3
<1>14. ASSUME Tick
       PROVE  Quiet
  <2>1. StoreInv(db') /\ UNCHANGED history
    BY <1>1, <1>14, ElapseInv DEF Tick
  <2>2. \A g \in Grant : /\ db'.grant[g].status = db.grant[g].status
                        /\ db'.grant[g].run = db.grant[g].run
                        /\ db'.grant[g].digest = db.grant[g].digest
    <3>1. ASSUME NEW g \in Grant
          PROVE  /\ db.grant[g] \in GrantRow
                 /\ db'.grant[g] = [db.grant[g] EXCEPT !.left = Less(db.grant[g].left)]
      BY <1>1, <1>14 DEF Tick, Elapse, StoreContent
    <3> QED
      BY <3>1 DEF GrantRow
  <2> QED
    BY <2>1, <2>2
<1>15. ASSUME UNCHANGED vars
       PROVE  Quiet
  BY <1>1, <1>15 DEF vars, history
(* The two steps that send a caller ahead spend the grant in the same step.*)
<1>16. ASSUME NEW g \in Grant, NEW r \in Run, NEW dg \in Digest,
              CanConsumeGrant(settled, g, r, dg),
              db' = ConsumeExecutionGrant(settled, g), Act(g, r, dg)
       PROVE  IInv'
  <2>1. /\ settled.grant[g].status = "active"
        /\ settled.grant[g].run = r
        /\ settled.grant[g].digest = dg
    BY <1>16 DEF CanConsumeGrant
  <2>2. StoreInv(db')
    BY <1>2, <1>16, <2>1, ConsumeInv
  <2>3. /\ KeepsColumns(settled, db')
        /\ \A h \in Grant :
             db'.grant[h].status = IF h = g THEN "consumed" ELSE settled.grant[h].status
    BY <1>2, <1>16, ConsumeRows
  <2>4. /\ db.grant[g].status = "active"
        /\ db'.grant[g].status = "consumed"
        /\ db'.grant[g].run = r
        /\ db'.grant[g].digest = dg
    BY <1>3, <2>1, <2>3 DEF KeepsColumns
  <2>5. \A h \in Grant \ {g} :
          /\ db'.grant[h].status = "consumed" <=> db.grant[h].status = "consumed"
          /\ db'.grant[h].run = db.grant[h].run
          /\ db'.grant[h].digest = db.grant[h].digest
    BY <1>3, <2>3 DEF KeepsColumns
  <2> QED
    BY <1>16, <2>2, <2>4, <2>5, ActStep
<1>17. ASSUME NEW g \in Grant, NEW r \in Run, NEW dg \in Digest, Consume(g, r, dg)
       PROVE  IInv'
  BY <1>16, <1>17 DEF Consume
<1>18. ASSUME NEW a \in Approval, NEW r \in Run, NEW dg \in Digest, ConsumeApproved(a, r, dg)
       PROVE  IInv'
  BY <1>16, <1>18 DEF ConsumeApproved
<1>19. Quiet => IInv'
  BY QuietStep
<1> HIDE DEF Quiet
<1> QED
  BY <1>5, <1>6, <1>7, <1>8, <1>9, <1>10, <1>11, <1>12, <1>13, <1>14, <1>15,
     <1>17, <1>18, <1>19
  DEF Next

LEMMA Invariance == Spec => []IInv
BY InitInv, NextInv, PTL DEF Spec

(* Every reachable state is well typed: the rows have the statuses and     *)
(* columns the schema allows, and none lacks a run or a digest.            *)
THEOREM TypeCorrect == Spec => []TypeOK
<1>1. IInv => TypeOK
  BY DEF IInv, StoreInv, TypeOK
<1> QED
  BY <1>1, Invariance, PTL

(* Approvals and grants never contradict each other, whatever the          *)
(* interleaving of requests, decisions, expiries and consumptions.         *)
THEOREM TablesStayInAgreement == Spec => []ApprovalsAndGrantsAgree
<1>1. IInv => ApprovalsAndGrantsAgree
  BY DEF IInv, StoreInv, ApprovalsAndGrantsAgree
<1> QED
  BY <1>1, Invariance, PTL

(* No grant ever sends two callers ahead, nor one under another run or     *)
(* action than it was issued for.                                          *)
THEOREM GrantsAreUsedOnce == Spec => []OneUse
<1>1. IInv => OneUse
  BY DEF IInv
<1> QED
  BY <1>1, Invariance, PTL

(* The audit trail holds the event of every request, decision, expiry and  *)
(* consumption, and no event of one that did not happen.                   *)
THEOREM AuditIsComplete == Spec => []AuditTellsTheTruth
<1>1. IInv => AuditTellsTheTruth
  BY DEF IInv, StoreInv, AuditTellsTheTruth
<1> QED
  BY <1>1, Invariance, PTL

-----------------------------------------------------------------------------
(* Waiting and resuming                                                    *)

(* What a transaction from d to e does to the runs that wait or go.        *)
Resumes(d, e) ==
  \A r \in Run :
    /\ d.run[r] = "waiting_approval" /\ e.run[r] = "running" => Pending(e, r) = {}
    /\ /\ d.run[r] = "waiting_approval"
       /\ Pending(d, r) # {}
       /\ Pending(e, r) = {}
       => e.run[r] = "running"

Goes(d, e) ==
  \A r \in Run : d.run[r] = "running" =>
    /\ e.run[r] = "running" => Pending(e, r) \subseteq Pending(d, r)
    /\ e.run[r] # "running" => Pending(e, r) # {}

LEMMA SamePending ==
  ASSUME NEW d, NEW e, e.run = d.run, \A r \in Run : Pending(e, r) = Pending(d, r)
  PROVE  Resumes(d, e) /\ Goes(d, e)
BY DEF Resumes, Goes

(* Rows that keep their runs, none of which starts or stops being pending. *)
LEMMA PendingRows ==
  ASSUME NEW d, NEW e,
         \A a \in Approval :
           /\ e.approval[a].run = d.approval[a].run
           /\ e.approval[a].status = "pending" <=> d.approval[a].status = "pending"
  PROVE  \A r \in Run : Pending(e, r) = Pending(d, r)
BY DEF Pending

(* An expiry resumes the runs whose last pending approval it expires, and  *)
(* leaves every other run alone.                                           *)
LEMMA ExpiryResumes ==
  ASSUME NEW d \in StoreContent
  PROVE  LET e == ExpireDueApprovals(d) IN
         /\ Resumes(d, e)
         /\ \A r \in Run : d.run[r] = "waiting_approval" =>
              e.run[r] \in {"waiting_approval", "running"}
<1> DEFINE m == MarkExpired(d)
           e == ExpireDueApprovals(d)
<1>1. /\ \A r \in Run :
           e.run[r] = IF r \in ResumedByExpiry(d) THEN "running" ELSE d.run[r]
      /\ e.approval = m.approval
  BY MarkExpiredType DEF ExpireDueApprovals, StoreContent
<1>2. m.run = d.run
  BY DEF MarkExpired, StoreContent
<1>3. /\ \A a \in Approval : m.approval[a].run = d.approval[a].run
      /\ \A a \in Approval :
           m.approval[a].status = IF a \in Due(d) THEN "expired" ELSE d.approval[a].status
  BY ExpireRows, <1>1 DEF KeepsColumns
<1> HIDE DEF m, e
<1>4. \A r \in Run : Pending(e, r) = Pending(m, r)
  BY <1>1 DEF Pending
<1>5. ASSUME NEW r \in Run, r \in ResumedByExpiry(d)
      PROVE  d.run[r] = "waiting_approval" /\ Pending(e, r) = {}
  BY <1>2, <1>4, <1>5 DEF ResumedByExpiry, ResumesRun, m
<1>6. ASSUME NEW r \in Run, d.run[r] = "waiting_approval",
             Pending(d, r) # {}, Pending(e, r) = {}
      PROVE  r \in ResumedByExpiry(d)
  <2>1. PICK a \in Approval : d.approval[a].run = r /\ d.approval[a].status = "pending"
    BY <1>6 DEF Pending
  <2>2. a \in Due(d)
    BY <1>3, <1>4, <1>6, <2>1 DEF Pending
  <2>3. ResumesRun(m, r)
    BY <1>2, <1>4, <1>6 DEF ResumesRun
  <2> QED
    BY <2>1, <2>2, <2>3 DEF ResumedByExpiry, m
<1> QED
  BY <1>1, <1>5, <1>6 DEF Resumes, e

(* A handler: an expiry from d to s, then a transaction from s to e.       *)
LEMMA HandlerResumes ==
  ASSUME NEW d \in StoreContent, NEW e,
         Resumes(ExpireDueApprovals(d), e), Goes(ExpireDueApprovals(d), e)
  PROVE  Resumes(d, e)
<1> DEFINE s == ExpireDueApprovals(d)
<1>1. /\ Resumes(d, s)
      /\ \A r \in Run : d.run[r] = "waiting_approval" =>
           s.run[r] \in {"waiting_approval", "running"}
  BY ExpiryResumes
<1>2. Resumes(s, e) /\ Goes(s, e)
  OBVIOUS
<1> HIDE DEF s
<1> SUFFICES ASSUME NEW r \in Run, d.run[r] = "waiting_approval"
             PROVE  /\ e.run[r] = "running" => Pending(e, r) = {}
                    /\ Pending(d, r) # {} /\ Pending(e, r) = {} => e.run[r] = "running"
  BY DEF Resumes
<1>3. CASE s.run[r] = "waiting_approval"
  <2>1. Pending(d, r) # {} => Pending(s, r) # {}
    BY <1>1, <1>3 DEF Resumes
  <2> QED
    BY <1>2, <1>3, <2>1 DEF Resumes
<1>4. CASE s.run[r] = "running"
  <2>1. Pending(s, r) = {}
    BY <1>1, <1>4 DEF Resumes
  <2> QED
    BY <1>2, <1>4, <2>1 DEF Goes
<1> QED
  BY <1>1, <1>3, <1>4

LEMMA CreateApprovalResumes ==
  ASSUME NEW d \in StoreContent, NEW a \in Approval, NEW r \in Run, NEW dg \in Digest,
         d.approval[a].status = "absent"
  PROVE  LET e == CreateApproval(d, a, r, dg) IN Resumes(d, e) /\ Goes(d, e)
<1> DEFINE e == CreateApproval(d, a, r, dg)
<1>1. /\ e.approval[a].status = "pending" /\ e.approval[a].run = r
      /\ \A b \in Approval \ {a} : e.approval[b] = d.approval[b]
  <2>1. /\ e.approval[a] = [status |-> "pending", run |-> r, digest |-> dg,
                            left |-> ApprovalTtl, grant |-> NoGrant]
        /\ \A b \in Approval \ {a} : e.approval[b] = d.approval[b]
    BY CreateApprovalRows
  <2> HIDE DEF e
  <2> QED
    BY <2>1
<1>2. \A q \in Run :
        e.run[q] = IF q = r /\ d.run[r] \in {"running", "created"}
                   THEN "waiting_approval" ELSE d.run[q]
  BY DEF CreateApproval, Record, TransitionRun, StoreContent
<1> HIDE DEF e
<1>3. Pending(e, r) # {} /\ Pending(d, r) \subseteq Pending(e, r)
  BY <1>1 DEF Pending
<1>4. \A q \in Run \ {r} : Pending(e, q) = Pending(d, q)
  BY <1>1 DEF Pending
<1>5. Resumes(d, e)
  BY <1>2, <1>3, <1>4 DEF Resumes
<1>6. Goes(d, e)
  BY <1>2, <1>3, <1>4 DEF Goes
<1> QED
  BY <1>5, <1>6 DEF e

LEMMA DecideResumes ==
  ASSUME NEW d \in StoreContent, NEW a \in Approval, NEW g \in Grant \cup {NoGrant},
         NEW decision \in {"approved", "denied"}, decision = "approved" => g \in Grant,
         d.approval[a].run \in Run, d.approval[a].status = "pending"
  PROVE  LET e == DecideApproval(d, a, decision, g) IN Resumes(d, e) /\ Goes(d, e)
<1> DEFINE m == Decided(d, a, decision, g)
           e == DecideApproval(d, a, decision, g)
           r == d.approval[a].run
<1>1. m \in StoreContent
  BY DecidedType
<1>2. m.run = d.run
  BY DEF Decided, InsertGrant, Record, StoreContent
<1>3. /\ e.approval = m.approval
      /\ \A q \in Run : e.run[q] = IF q = r /\ ResumesRun(m, r) THEN "running" ELSE m.run[q]
  BY <1>1 DEF DecideApproval, ResumeRunWithoutPendingApprovals, TransitionRun, StoreContent
<1>4. RuledOn(d, e, a, decision, g)
  BY DecideRows
<1> HIDE DEF m, e
<1>5. \A q \in Run : Pending(m, q) = Pending(e, q)
  BY <1>3 DEF Pending
<1>6. /\ \A q \in Run : Pending(e, q) \subseteq Pending(d, q)
      /\ \A q \in Run \ {r} : Pending(e, q) = Pending(d, q)
  BY <1>4 DEF Pending, RuledOn
<1>7. ResumesRun(m, r) <=> d.run[r] = "waiting_approval" /\ Pending(e, r) = {}
  BY <1>2, <1>5 DEF ResumesRun
<1>8. Resumes(d, e)
  BY <1>2, <1>3, <1>6, <1>7 DEF Resumes
<1>9. Goes(d, e)
  BY <1>2, <1>3, <1>6, <1>7 DEF Goes
<1> QED
  BY <1>8, <1>9 DEF e

LEMMA ConsumeResumes ==
  ASSUME NEW d \in StoreContent, NEW g \in Grant
  PROVE  LET e == ConsumeExecutionGrant(d, g) IN Resumes(d, e) /\ Goes(d, e)
<1> DEFINE e == ConsumeExecutionGrant(d, g)
<1>1. e.run = d.run
  BY DEF ConsumeExecutionGrant, Record, StoreContent
<1>2. \A a \in Approval :
        /\ e.approval[a].run = d.approval[a].run
        /\ e.approval[a].status = "pending" <=> d.approval[a].status = "pending"
  BY ConsumeRows DEF KeepsColumns
<1> HIDE DEF e
<1>3. \A r \in Run : Pending(e, r) = Pending(d, r)
  BY <1>2, PendingRows
<1>4. Resumes(d, e) /\ Goes(d, e)
  BY <1>1, <1>3, SamePending
<1> QED
  BY <1>4 DEF e

LEMMA ExpireGrantResumes ==
  ASSUME NEW d \in StoreContent, NEW g \in Grant
  PROVE  LET e == ExpireExecutionGrant(d, g) IN Resumes(d, e) /\ Goes(d, e)
<1> DEFINE e == ExpireExecutionGrant(d, g)
<1>1. CASE d.grant[g].status # "active"
  BY <1>1, SamePending DEF ExpireExecutionGrant
<1>2. CASE d.grant[g].status = "active"
  <2>1. e.run = d.run
    BY DEF ExpireExecutionGrant, StoreContent
  <2>2. \A a \in Approval :
          /\ e.approval[a].run = d.approval[a].run
          /\ e.approval[a].status = "pending" <=> d.approval[a].status = "pending"
    BY <1>2, ExpireGrantRows DEF KeepsColumns
  <2> HIDE DEF e
  <2>3. \A r \in Run : Pending(e, r) = Pending(d, r)
    BY <2>2, PendingRows
  <2>4. Resumes(d, e) /\ Goes(d, e)
    BY <2>1, <2>3, SamePending
  <2> QED
    BY <2>4 DEF e
<1> QED
  BY <1>1, <1>2
-----------------------------------------------------------------------------
(* The handlers that only move runs leave every approval as it is.         *)
LEMMA NextResumes ==
  ASSUME IInv, [Next]_vars
  PROVE  \/ db'.approval = db.approval
         \/ Resumes(db, db')
         \/ db'.run = db.run /\ \A r \in Run : Pending(db', r) = Pending(db, r)
<1>1. /\ db \in StoreContent
      /\ settled \in StoreContent
      /\ StoreInv(settled)
  BY ExpireType, ExpireInv DEF IInv, StoreInv, settled
<1>2. ASSUME Resumes(settled, db'), Goes(settled, db')
      PROVE  Resumes(db, db')
  BY <1>1, <1>2, HandlerResumes DEF settled
<1>3. ASSUME NEW r \in Run, NewRun(r)
      PROVE  db'.approval = db.approval
  BY <1>1, <1>3 DEF NewRun, CreateRun, StoreContent
<1>4. ASSUME NEW r \in Run, NEW to \in RunStatus, PostRunStatus(r, to)
      PROVE  db'.approval = db.approval
  BY <1>1, <1>4 DEF PostRunStatus, TransitionRun, StoreContent
<1>5. ASSUME NEW hosted \in SUBSET Run, Restart(hosted)
      PROVE  db'.approval = db.approval
  BY <1>1, <1>5 DEF Restart, RecoverProviderSessions, StoreContent
<1>6. ASSUME ListApprovals
      PROVE  Resumes(db, db')
  BY <1>1, <1>6, ExpiryResumes DEF ListApprovals, settled
<1>7. ASSUME NEW r \in Run, NEW dg \in Digest, NEW a \in Approval, EvaluateAsk(r, dg, a)
      PROVE  Resumes(db, db')
  BY <1>1, <1>2, <1>7, CreateApprovalResumes DEF EvaluateAsk, CanCreateApproval
<1>8. ASSUME NEW r \in Run, NEW dg \in Digest, NEW g \in Grant, EvaluateAllow(r, dg, g)
      PROVE  Resumes(db, db')
  <2>1. db'.run = settled.run /\ db'.approval = settled.approval
    BY <1>1, <1>8 DEF EvaluateAllow, InsertGrant, StoreContent
  <2>2. \A q \in Run : Pending(db', q) = Pending(settled, q)
    BY <2>1 DEF Pending
  <2> QED
    BY <1>2, <2>1, <2>2, SamePending
<1>9. ASSUME NEW a \in Approval, NEW g \in Grant \cup {NoGrant},
             NEW decision \in {"approved", "denied"}, decision = "approved" => g \in Grant,
             CanDecideApproval(settled, a, decision, g),
             db' = DecideApproval(settled, a, decision, g)
      PROVE  Resumes(db, db')
  <2>1. settled.approval[a].run \in Run /\ settled.approval[a].status = "pending"
    BY <1>1, <1>9 DEF CanDecideApproval, StoreInv, NotNull
  <2> QED
    BY <1>1, <1>2, <1>9, <2>1, DecideResumes
<1>10. ASSUME NEW a \in Approval, NEW g \in Grant, Approve(a, g)
       PROVE  Resumes(db, db')
  BY <1>9, <1>10 DEF Approve
<1>11. ASSUME NEW a \in Approval, Deny(a)
       PROVE  Resumes(db, db')
  BY <1>9, <1>11 DEF Deny
<1>12. ASSUME NEW g \in Grant, NEW r \in Run, NEW dg \in Digest, Consume(g, r, dg)
       PROVE  Resumes(db, db')
  BY <1>1, <1>2, <1>12, ConsumeResumes DEF Consume
<1>13. ASSUME NEW g \in Grant, ConsumeTooLate(g)
       PROVE  Resumes(db, db')
  BY <1>1, <1>2, <1>13, ExpireGrantResumes DEF ConsumeTooLate
<1>14. ASSUME NEW a \in Approval, NEW r \in Run, NEW dg \in Digest, ConsumeApproved(a, r, dg)
       PROVE  Resumes(db, db')
  BY <1>1, <1>2, <1>14, ConsumeResumes DEF ConsumeApproved
<1>15. ASSUME Tick
       PROVE  db'.run = db.run /\ \A r \in Run : Pending(db', r) = Pending(db, r)
  <2>1. /\ db'.run = db.run
        /\ \A a \in Approval :
             /\ db.approval[a] \in ApprovalRow
             /\ db'.approval[a] = [db.approval[a] EXCEPT !.left = Less(db.approval[a].left)]
    BY <1>1, <1>15 DEF Tick, Elapse, StoreContent
  <2>2. ASSUME NEW a \in Approval
        PROVE  /\ db'.approval[a].run = db.approval[a].run
               /\ db'.approval[a].status = db.approval[a].status
    BY <2>1 DEF ApprovalRow
  <2> QED
    BY <2>1, <2>2, PendingRows
<1>16. ASSUME UNCHANGED vars
       PROVE  db'.approval = db.approval
  BY <1>16 DEF vars
<1> QED
  BY <1>3, <1>4, <1>5, <1>6, <1>7, <1>8, <1>10, <1>11, <1>12, <1>13, <1>14, <1>15, <1>16
  DEF Next

(* Whatever is decided or expires, a waiting run that still has a pending  *)
(* approval is not set going by it.                                        *)
THEOREM NoRunResumesEarly == Spec => NeverResumedEarly
<1>1. ASSUME IInv, [Next]_vars
      PROVE  \A r \in Run :
               /\ db.run[r] = "waiting_approval"
               /\ db'.run[r] = "running"
               /\ db'.approval # db.approval
               => Pending(db', r) = {}
  BY <1>1, NextResumes DEF Resumes
<1> QED
  BY <1>1, Invariance, PTL DEF Spec, NeverResumedEarly

(* The decision or expiry that settles the last pending approval of a      *)
(* waiting run sets the run going in the same step.                        *)
THEOREM NoRunIsLeftWaiting == Spec => LastDecisionResumes
<1>1. ASSUME IInv, [Next]_vars
      PROVE  \A r \in Run :
               /\ db.run[r] = "waiting_approval"
               /\ Pending(db, r) # {}
               /\ Pending(db', r) = {}
               => db'.run[r] = "running"
  <2>1. db'.approval = db.approval => \A r \in Run : Pending(db', r) = Pending(db, r)
    BY DEF Pending
  <2> QED
    BY <1>1, <2>1, NextResumes DEF Resumes
<1> QED
  BY <1>1, Invariance, PTL DEF Spec, LastDecisionResumes

-----------------------------------------------------------------------------
(* Runs wait exactly while somebody is to decide                           *)

(* Nobody but the service makes a run wait or sets a waiting one going,    *)
(* and nobody sets an interrupted run going again.  (Continuing a hosted   *)
(* run does, and leaves it running while an approval is pending that its   *)
(* former session asked for.)                                              *)
WaitingIsLeftToTheService ==
  OutsideMove \cap {<<"created", "waiting_approval">>, <<"running", "waiting_approval">>,
                    <<"waiting_approval", "running">>, <<"interrupted", "running">>} = {}

Live(d, r) == d.run[r] \notin TerminalRunStatus \cup {"interrupted"}

Waits(d) ==
  \A r \in Run : Live(d, r) => (d.run[r] = "waiting_approval" <=> Pending(d, r) # {})

LEMMA SameWaits ==
  ASSUME NEW d, NEW e, Waits(d), e.run = d.run, \A r \in Run : Pending(e, r) = Pending(d, r)
  PROVE  Waits(e)
BY DEF Waits, Live

(* Runs that are moved without a word about approvals: to an end, to an    *)
(* interruption, or on among the statuses that do not wait.                *)
LEMMA MovedWaits ==
  ASSUME NEW d, NEW e, Waits(d), e.approval = d.approval,
         \A r \in Run :
           \/ e.run[r] = d.run[r]
           \/ ~Live(e, r)
           \/ Live(d, r) /\ d.run[r] # "waiting_approval" /\ e.run[r] # "waiting_approval"
  PROVE  Waits(e)
<1>1. \A r \in Run : Pending(e, r) = Pending(d, r)
  BY DEF Pending
<1> QED
  BY <1>1 DEF Waits, Live

LEMMA ExpiryWaits ==
  ASSUME NEW d \in StoreContent, Waits(d)
  PROVE  Waits(ExpireDueApprovals(d))
<1> DEFINE m == MarkExpired(d)
           e == ExpireDueApprovals(d)
<1>1. /\ \A r \in Run :
           e.run[r] = IF r \in ResumedByExpiry(d) THEN "running" ELSE d.run[r]
      /\ e.approval = m.approval
  BY MarkExpiredType DEF ExpireDueApprovals, StoreContent
<1>2. m.run = d.run
  BY DEF MarkExpired, StoreContent
<1>3. \A a \in Approval :
        /\ m.approval[a].run = d.approval[a].run
        /\ m.approval[a].status = "pending" => d.approval[a].status = "pending"
  BY ExpireRows, <1>1 DEF KeepsColumns
<1>4. Resumes(d, e)
  BY ExpiryResumes
<1> HIDE DEF m, e
<1>5. \A r \in Run : Pending(e, r) = Pending(m, r) /\ Pending(e, r) \subseteq Pending(d, r)
  BY <1>1, <1>3 DEF Pending
<1>6. ASSUME NEW r \in Run, Live(e, r)
      PROVE  e.run[r] = "waiting_approval" <=> Pending(e, r) # {}
  <2>1. CASE r \in ResumedByExpiry(d)
    BY <1>1, <1>5, <2>1 DEF ResumedByExpiry, ResumesRun, m
  <2>2. CASE r \notin ResumedByExpiry(d)
    <3>1. e.run[r] = d.run[r] /\ Live(d, r)
      BY <1>1, <1>6, <2>2 DEF Live
    <3>2. d.run[r] = "waiting_approval" <=> Pending(d, r) # {}
      BY <3>1 DEF Waits
    <3> QED
      BY <1>4, <1>5, <3>1, <3>2 DEF Resumes
  <2> QED
    BY <2>1, <2>2
<1>7. Waits(e)
  BY <1>6 DEF Waits
<1> QED
  BY <1>7 DEF e

LEMMA CreateApprovalWaits ==
  ASSUME NEW d \in StoreContent, NEW a \in Approval, NEW r \in Run, NEW dg \in Digest,
         d.approval[a].status = "absent", d.run[r] # "absent", Waits(d)
  PROVE  Waits(CreateApproval(d, a, r, dg))
<1> DEFINE e == CreateApproval(d, a, r, dg)
<1>1. /\ e.approval[a].status = "pending" /\ e.approval[a].run = r
      /\ \A b \in Approval \ {a} : e.approval[b] = d.approval[b]
  <2>1. /\ e.approval[a] = [status |-> "pending", run |-> r, digest |-> dg,
                            left |-> ApprovalTtl, grant |-> NoGrant]
        /\ \A b \in Approval \ {a} : e.approval[b] = d.approval[b]
    BY CreateApprovalRows
  <2> HIDE DEF e
  <2> QED
    BY <2>1
<1>2. \A q \in Run :
        e.run[q] = IF q = r /\ d.run[r] \in {"running", "created"}
                   THEN "waiting_approval" ELSE d.run[q]
  BY DEF CreateApproval, Record, TransitionRun, StoreContent
<1>3. d.run[r] \in RunStatus
  BY DEF StoreContent
<1> HIDE DEF e
<1>4. Pending(e, r) # {}
  BY <1>1 DEF Pending
<1>5. \A q \in Run \ {r} : Pending(e, q) = Pending(d, q)
  BY <1>1 DEF Pending
<1>6. Live(e, r) => e.run[r] = "waiting_approval"
  BY <1>2, <1>3 DEF Live, RunStatus, TerminalRunStatus
<1>7. Waits(e)
  BY <1>2, <1>4, <1>5, <1>6 DEF Waits, Live
<1> QED
  BY <1>7 DEF e

LEMMA DecideWaits ==
  ASSUME NEW d \in StoreContent, NEW a \in Approval, NEW g \in Grant \cup {NoGrant},
         NEW decision \in {"approved", "denied"}, decision = "approved" => g \in Grant,
         d.approval[a].run \in Run, d.approval[a].status = "pending", Waits(d)
  PROVE  Waits(DecideApproval(d, a, decision, g))
<1> DEFINE m == Decided(d, a, decision, g)
           e == DecideApproval(d, a, decision, g)
           r == d.approval[a].run
<1>1. m \in StoreContent
  BY DecidedType
<1>2. m.run = d.run
  BY DEF Decided, InsertGrant, Record, StoreContent
<1>3. /\ e.approval = m.approval
      /\ \A q \in Run : e.run[q] = IF q = r /\ ResumesRun(m, r) THEN "running" ELSE m.run[q]
  BY <1>1 DEF DecideApproval, ResumeRunWithoutPendingApprovals, TransitionRun, StoreContent
<1>4. RuledOn(d, e, a, decision, g)
  BY DecideRows
<1>5. Resumes(d, e)
  BY DecideResumes
<1> HIDE DEF m, e
<1>6. \A q \in Run : Pending(m, q) = Pending(e, q)
  BY <1>3 DEF Pending
<1>7. \A q \in Run : Pending(e, q) \subseteq Pending(d, q)
  BY <1>4 DEF Pending, RuledOn
<1>8. ASSUME NEW q \in Run, Live(e, q)
      PROVE  e.run[q] = "waiting_approval" <=> Pending(e, q) # {}
  <2>1. CASE q = r /\ ResumesRun(m, r)
    BY <1>3, <1>6, <2>1 DEF ResumesRun
  <2>2. CASE ~(q = r /\ ResumesRun(m, r))
    <3>1. e.run[q] = d.run[q] /\ Live(d, q)
      BY <1>2, <1>3, <1>8, <2>2 DEF Live
    <3>2. d.run[q] = "waiting_approval" <=> Pending(d, q) # {}
      BY <3>1 DEF Waits
    <3> QED
      BY <1>5, <1>7, <3>1, <3>2 DEF Resumes
  <2> QED
    BY <2>1, <2>2
<1>9. Waits(e)
  BY <1>8 DEF Waits
<1> QED
  BY <1>9 DEF e

LEMMA ConsumeWaits ==
  ASSUME NEW d \in StoreContent, NEW g \in Grant, Waits(d)
  PROVE  Waits(ConsumeExecutionGrant(d, g)) /\ Waits(ExpireExecutionGrant(d, g))
<1> DEFINE e == ConsumeExecutionGrant(d, g)
           f == ExpireExecutionGrant(d, g)
<1>1. Waits(e)
  <2>1. e.run = d.run
    BY DEF ConsumeExecutionGrant, Record, StoreContent
  <2>2. \A a \in Approval :
          /\ e.approval[a].run = d.approval[a].run
          /\ e.approval[a].status = "pending" <=> d.approval[a].status = "pending"
    BY ConsumeRows DEF KeepsColumns
  <2> HIDE DEF e
  <2> QED
    BY <2>1, <2>2, PendingRows, SameWaits
<1>2. Waits(f)
  <2>1. CASE d.grant[g].status # "active"
    BY <2>1 DEF ExpireExecutionGrant
  <2>2. CASE d.grant[g].status = "active"
    <3>1. f.run = d.run
      BY DEF ExpireExecutionGrant, StoreContent
    <3>2. \A a \in Approval :
            /\ f.approval[a].run = d.approval[a].run
            /\ f.approval[a].status = "pending" <=> d.approval[a].status = "pending"
      BY <2>2, ExpireGrantRows DEF KeepsColumns
    <3> HIDE DEF f
    <3> QED
      BY <3>1, <3>2, PendingRows, SameWaits
  <2> QED
    BY <2>1, <2>2
<1> QED
  BY <1>1, <1>2

LEMMA NextWaits ==
  ASSUME WaitingIsLeftToTheService, IInv, Waits(db), [Next]_vars
  PROVE  Waits(db')
<1>1. /\ db \in StoreContent
      /\ settled \in StoreContent
      /\ StoreInv(settled)
      /\ Waits(settled)
  BY ExpireType, ExpireInv, ExpiryWaits DEF IInv, StoreInv, settled
<1>2. \A r \in Run : db.run[r] \in RunStatus
  BY <1>1 DEF StoreContent
<1>3. ASSUME NEW r \in Run, NewRun(r)
      PROVE  Waits(db')
  <2>1. /\ db'.approval = db.approval /\ db.run[r] = "absent"
        /\ \A q \in Run : db'.run[q] = IF q = r THEN "created" ELSE db.run[q]
    BY <1>1, <1>3 DEF NewRun, CreateRun, StoreContent
  <2> QED
    BY <2>1, MovedWaits DEF Live, TerminalRunStatus
<1>4. ASSUME NEW r \in Run, NEW to \in RunStatus, PostRunStatus(r, to)
      PROVE  Waits(db')
  <2>1. /\ db'.approval = db.approval
        /\ \A q \in Run : db'.run[q] = IF q = r THEN to ELSE db.run[q]
    BY <1>1, <1>4 DEF PostRunStatus, TransitionRun, StoreContent
  <2>2. <<db.run[r], to>> \in OutsideMove /\ <<db.run[r], to>> \in RunTransition
    BY <1>4 DEF PostRunStatus, CanTransitionRun
  <2>3. <<db.run[r], to>> \notin {<<"created", "waiting_approval">>, <<"running", "waiting_approval">>,
                                   <<"waiting_approval", "running">>, <<"interrupted", "running">>}
    BY <2>2 DEF WaitingIsLeftToTheService
  <2>4. \/ to \in TerminalRunStatus \cup {"interrupted"}
        \/ db.run[r] = "created" /\ to = "running"
    BY <2>2, <2>3 DEF RunTransition, TerminalRunStatus
  <2>5. \A q \in Run :
          \/ db'.run[q] = db.run[q]
          \/ ~Live(db', q)
          \/ Live(db, q) /\ db.run[q] # "waiting_approval" /\ db'.run[q] # "waiting_approval"
    BY <2>1, <2>4 DEF Live, TerminalRunStatus
  <2> QED
    BY <2>1, <2>5, MovedWaits
<1>5. ASSUME NEW hosted \in SUBSET Run, Restart(hosted)
      PROVE  Waits(db')
  <2>1. /\ db'.approval = db.approval
        /\ \A q \in Run : db'.run[q] \in {db.run[q], Interrupted(db.run[q])}
    BY <1>1, <1>5 DEF Restart, RecoverProviderSessions, StoreContent
  <2>2. \A q \in Run : db'.run[q] = db.run[q] \/ ~Live(db', q)
    BY <2>1 DEF Live, Interrupted, TerminalRunStatus
  <2> QED
    BY <2>1, <2>2, MovedWaits
<1>6. ASSUME ListApprovals
      PROVE  Waits(db')
  BY <1>1, <1>6 DEF ListApprovals
<1>7. ASSUME NEW r \in Run, NEW dg \in Digest, NEW a \in Approval, EvaluateAsk(r, dg, a)
      PROVE  Waits(db')
  <2>1. settled.run[r] # "absent"
    <3>1. db.run[r] # "absent"
      BY <1>7 DEF EvaluateAsk
    <3>2. settled.run[r] \in {db.run[r], "running"}
      BY <1>1, MarkExpiredType DEF settled, ExpireDueApprovals, StoreContent
    <3> QED
      BY <3>1, <3>2
  <2>2. settled.approval[a].status = "absent" /\ db' = CreateApproval(settled, a, r, dg)
    BY <1>7 DEF EvaluateAsk, CanCreateApproval
  <2> QED
    BY <1>1, <2>1, <2>2, CreateApprovalWaits
<1>8. ASSUME NEW r \in Run, NEW dg \in Digest, NEW g \in Grant, EvaluateAllow(r, dg, g)
      PROVE  Waits(db')
  <2>1. db'.run = settled.run /\ db'.approval = settled.approval
    BY <1>1, <1>8 DEF EvaluateAllow, InsertGrant, StoreContent
  <2>2. \A q \in Run : Pending(db', q) = Pending(settled, q)
    BY <2>1 DEF Pending
  <2> QED
    BY <1>1, <2>1, <2>2, SameWaits
<1>9. ASSUME NEW a \in Approval, NEW g \in Grant \cup {NoGrant},
             NEW decision \in {"approved", "denied"}, decision = "approved" => g \in Grant,
             CanDecideApproval(settled, a, decision, g),
             db' = DecideApproval(settled, a, decision, g)
      PROVE  Waits(db')
  <2>1. settled.approval[a].run \in Run /\ settled.approval[a].status = "pending"
    BY <1>1, <1>9 DEF CanDecideApproval, StoreInv, NotNull
  <2> QED
    BY <1>1, <1>9, <2>1, DecideWaits
<1>10. ASSUME NEW a \in Approval, NEW g \in Grant, Approve(a, g)
       PROVE  Waits(db')
  BY <1>9, <1>10 DEF Approve
<1>11. ASSUME NEW a \in Approval, Deny(a)
       PROVE  Waits(db')
  BY <1>9, <1>11 DEF Deny
<1>12. ASSUME NEW g \in Grant, NEW r \in Run, NEW dg \in Digest, Consume(g, r, dg)
       PROVE  Waits(db')
  BY <1>1, <1>12, ConsumeWaits DEF Consume
<1>13. ASSUME NEW g \in Grant, ConsumeTooLate(g)
       PROVE  Waits(db')
  BY <1>1, <1>13, ConsumeWaits DEF ConsumeTooLate
<1>14. ASSUME NEW a \in Approval, NEW r \in Run, NEW dg \in Digest, ConsumeApproved(a, r, dg)
       PROVE  Waits(db')
  BY <1>1, <1>14, ConsumeWaits DEF ConsumeApproved
<1>15. ASSUME Tick
       PROVE  Waits(db')
  <2>1. /\ db'.run = db.run
        /\ \A a \in Approval :
             /\ db.approval[a] \in ApprovalRow
             /\ db'.approval[a] = [db.approval[a] EXCEPT !.left = Less(db.approval[a].left)]
    BY <1>1, <1>15 DEF Tick, Elapse, StoreContent
  <2>2. ASSUME NEW a \in Approval
        PROVE  /\ db'.approval[a].run = db.approval[a].run
               /\ db'.approval[a].status = db.approval[a].status
    BY <2>1 DEF ApprovalRow
  <2> QED
    BY <2>1, <2>2, PendingRows, SameWaits
<1>16. ASSUME UNCHANGED vars
       PROVE  Waits(db')
  BY <1>16 DEF vars
<1> QED
  BY <1>3, <1>4, <1>5, <1>6, <1>7, <1>8, <1>10, <1>11, <1>12, <1>13, <1>14, <1>15, <1>16
  DEF Next

(* As long as waiting is left to the service and no interrupted run is     *)
(* continued, a live run waits exactly while one of its approvals is       *)
(* pending.                                                                *)
THEOREM RunsWaitWhilePending ==
  ASSUME WaitingIsLeftToTheService
  PROVE  Spec => []WaitsExactlyWhilePending
<1>1. Init => Waits(db)
  <2> SUFFICES ASSUME Init PROVE Waits(db)
    OBVIOUS
  <2>1. /\ \A r \in Run : db.run[r] = "absent"
        /\ \A a \in Approval : db.approval[a].status = "absent"
    BY DEF Init, EmptyStore
  <2>2. \A r \in Run : Pending(db, r) = {}
    BY <2>1 DEF Pending
  <2> QED
    BY <2>1, <2>2 DEF Waits
<1>2. IInv /\ Waits(db) /\ [Next]_vars => Waits(db)'
  BY NextWaits
<1>3. Waits(db) => WaitsExactlyWhilePending
  BY DEF Waits, Live, WaitsExactlyWhilePending
<1> QED
  BY <1>1, <1>2, <1>3, Invariance, PTL DEF Spec

-----------------------------------------------------------------------------
(* The abstract authorization                                              *)

LEMMA NextMoves ==
  ASSUME IInv, [Next]_vars
  PROVE  Moves(db, db')
<1>1. /\ db \in StoreContent
      /\ settled \in StoreContent
      /\ StoreInv(settled)
  BY ExpireType, ExpireInv DEF IInv, StoreInv, settled
<1>2. ASSUME Moves(settled, db')
      PROVE  Moves(db, db')
  BY <1>1, <1>2, HandlerMoves DEF settled
<1>3. ASSUME db'.approval = db.approval
      PROVE  Moves(db, db')
  BY <1>3 DEF Moves
<1>4. ASSUME db'.approval = settled.approval
      PROVE  Moves(db, db')
  BY <1>2, <1>4 DEF Moves
<1>5. ASSUME NEW r \in Run, NewRun(r)
      PROVE  Moves(db, db')
  BY <1>1, <1>3, <1>5 DEF NewRun, CreateRun, StoreContent
<1>6. ASSUME NEW r \in Run, NEW to \in RunStatus, PostRunStatus(r, to)
      PROVE  Moves(db, db')
  BY <1>1, <1>3, <1>6 DEF PostRunStatus, TransitionRun, StoreContent
<1>7. ASSUME NEW hosted \in SUBSET Run, Restart(hosted)
      PROVE  Moves(db, db')
  BY <1>1, <1>3, <1>7 DEF Restart, RecoverProviderSessions, StoreContent
<1>8. ASSUME ListApprovals
      PROVE  Moves(db, db')
  BY <1>4, <1>8 DEF ListApprovals
<1>9. ASSUME NEW r \in Run, NEW dg \in Digest, NEW a \in Approval, EvaluateAsk(r, dg, a)
      PROVE  Moves(db, db')
  <2>1. settled.approval[a].status = "absent" /\ db' = CreateApproval(settled, a, r, dg)
    BY <1>9 DEF EvaluateAsk, CanCreateApproval
  <2>2. Moves(settled, db')
    BY <1>1, <2>1, CreateApprovalMoves
  <2> QED
    BY <1>2, <2>2
<1>10. ASSUME NEW r \in Run, NEW dg \in Digest, NEW g \in Grant, EvaluateAllow(r, dg, g)
       PROVE  Moves(db, db')
  BY <1>1, <1>4, <1>10 DEF EvaluateAllow, InsertGrant, StoreContent
<1>11. ASSUME NEW a \in Approval, NEW g \in Grant \cup {NoGrant},
              NEW decision \in {"approved", "denied"}, decision = "approved" => g \in Grant,
              CanDecideApproval(settled, a, decision, g),
              db' = DecideApproval(settled, a, decision, g)
       PROVE  Moves(db, db')
  <2>1. settled.approval[a].status = "pending"
    BY <1>11 DEF CanDecideApproval
  <2>2. Moves(settled, db')
    BY <1>1, <1>11, <2>1, DecideMoves
  <2> QED
    BY <1>2, <2>2
<1>12. ASSUME NEW a \in Approval, NEW g \in Grant, Approve(a, g)
       PROVE  Moves(db, db')
  BY <1>11, <1>12 DEF Approve
<1>13. ASSUME NEW a \in Approval, Deny(a)
       PROVE  Moves(db, db')
  BY <1>11, <1>13 DEF Deny
<1>14. ASSUME NEW g \in Grant, db' = ConsumeExecutionGrant(settled, g)
       PROVE  Moves(db, db')
  BY <1>1, <1>2, <1>14, ConsumeMoves
<1>15. ASSUME NEW g \in Grant, ConsumeTooLate(g)
       PROVE  Moves(db, db')
  BY <1>1, <1>2, <1>15, ExpireGrantMoves DEF ConsumeTooLate
<1>16. ASSUME Tick
       PROVE  Moves(db, db')
  BY <1>1, <1>16, ElapseMoves DEF Tick
<1>17. ASSUME UNCHANGED vars
       PROVE  Moves(db, db')
  BY <1>3, <1>17 DEF vars
<1> QED
  BY <1>5, <1>6, <1>7, <1>8, <1>9, <1>10, <1>12, <1>13, <1>14, <1>15, <1>16, <1>17
  DEF Next, Consume, ConsumeApproved

(* Who acted under an approval can be read off its row.                    *)
LEMMA ActsFollowStatus ==
  ASSUME NEW d, NEW used, TablesAgree(d), NEW a \in Approval,
         \A g \in Grant : used[g] = (IF d.grant[g].status = "consumed" THEN 1 ELSE 0)
  PROVE  (IF d.approval[a].grant \in Grant THEN used[d.approval[a].grant] ELSE 0) =
           (IF d.approval[a].status = "consumed" THEN 1 ELSE 0)
<1>1. ApprovalHasItsGrant(d, a) /\ \A g \in Grant : GrantTellsItsApproval(d, g)
  BY DEF TablesAgree
<1> QED
  BY <1>1 DEF ApprovalHasItsGrant, GrantTellsItsApproval

(* The approval service implements the abstract authorization: a request   *)
(* is ruled on once, acted upon at most once and only while it stands      *)
(* granted, and nothing happens to it afterwards.                          *)
THEOREM ServiceIsAuthorization == Spec => ImplementsAuthorization
<1>1. Init => Authorized!Init
  <2> SUFFICES ASSUME Init
               PROVE  Authorized!Init
    OBVIOUS
  <2>1. \A a \in Approval : /\ db.approval[a].status = "absent"
                            /\ db.approval[a].grant = NoGrant
    BY DEF Init, EmptyStore
  <2>2. stageOf = [a \in Approval |-> "new"]
    BY <2>1 DEF stageOf
  <2>3. actsOf = [a \in Approval |-> 0]
    BY <2>1, NullAssumption DEF actsOf
  <2> QED
    BY <2>2, <2>3 DEF Authorized!Init
<1>2. ASSUME IInv, IInv', [Next]_vars
      PROVE  [Authorized!Next]_<<stageOf, actsOf>>
  <2> DEFINE before(a) == db.approval[a].status
             after(a) == db'.approval[a].status
  <2>1. \A a \in Approval : before(a) # after(a) => <<before(a), after(a)>> \in RowMove
    BY <1>2, NextMoves DEF Moves
  <2>2. \A a \in Approval : actsOf[a] = IF before(a) = "consumed" THEN 1 ELSE 0
    BY <1>2, ActsFollowStatus DEF actsOf, IInv, StoreInv, OneUse
  <2>3. \A a \in Approval : actsOf'[a] = IF after(a) = "consumed" THEN 1 ELSE 0
    BY <1>2, ActsFollowStatus DEF actsOf, IInv, StoreInv, OneUse
  <2>4. stageOf' \in [Approval -> Authorized!Stage]
    BY DEF stageOf, Authorized!Stage
  <2>5. ASSUME NEW a \in Approval, stageOf'[a] # stageOf[a]
        PROVE  <<stageOf[a], stageOf'[a]>> \in Authorized!Move
    BY <2>1, <2>5 DEF stageOf, RowMove, Authorized!Move
  <2>6. ASSUME NEW a \in Approval
        PROVE  actsOf'[a] = IF stageOf[a] = "granted" /\ stageOf'[a] = "spent"
                            THEN actsOf[a] + 1 ELSE actsOf[a]
    BY <2>1, <2>2, <2>3 DEF stageOf, RowMove
  <2>7. actsOf' = [a \in Approval |->
                     IF stageOf[a] = "granted" /\ stageOf'[a] = "spent"
                     THEN actsOf[a] + 1 ELSE actsOf[a]]
    BY <2>6 DEF actsOf
  <2> QED
    BY <2>4, <2>5, <2>7 DEF Authorized!Next
<1> QED
  BY <1>1, <1>2, Invariance, PTL DEF Spec, ImplementsAuthorization, Authorized!Spec
=============================================================================
