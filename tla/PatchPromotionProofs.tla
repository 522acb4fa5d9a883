------------------------ MODULE PatchPromotionProofs ------------------------
(***************************************************************************)
(* Proofs about the promotion of patches, for every number of paths, every *)
(* state of the entries, every number of approvals and grants, every       *)
(* lifetime and every number of edits and deaths of the daemon.            *)
(*                                                                         *)
(* The handler of a decision is many steps long and other programs write   *)
(* between them.  What it may count on at each step is what it has checked *)
(* or done itself: the row of the promotion, the grant it has spent, the   *)
(* entries it holds as applied, and the source at every path that nobody   *)
(* has touched since it looked.                                            *)
(***************************************************************************)
EXTENDS PatchPromotion, ApprovalStoreProofs, WellFoundedInduction

-----------------------------------------------------------------------------
(* The requests being made, the decisions being carried out, by what they  *)
(* have done so far.                                                       *)
Asking   == {"capture", "evaluate", "register"}
Ruling   == {"resolve", "deny"}
Spending == {"consume", "start", "fail_waiting"}
Writing  == {"apply", "verify", "complete"}
Undoing  == {"rollback", "fail_applying"}

(* Steps at which the handler relies on the inspection of the source.      *)
Inspected == {"consume", "start", "record", "rollback"} \cup Writing

IsRuledOn(a) == db.approval[a].status \notin {"absent", "pending"}

(* The request being served and the row of the promotion.                  *)
JobHolds ==
  /\ job.step = "idle" => job = Idle
  /\ job.step \in Asking => promo.status = "absent"
  /\ job.step \in Asking \cup Ruling \cup Spending => job.applied = {}
  /\ job.step \in Ruling => job.approval \in Approval /\ IsRuledOn(job.approval)
  /\ job.step \in Ruling /\ Mine => promo.status = "waiting_approval"
  /\ job.step = "register" => job.approval \in Approval
  /\ job.step \in Spending =>
       Mine /\ promo.status = "waiting_approval" /\ IsRuledOn(promo.approval)
  /\ job.step = "start" => db.approval[promo.approval].status = "consumed"
  /\ job.step \in Writing => promo.status = "applying"
  /\ job.step = "record" => promo.status = "completed"
  /\ job.step \in Undoing => promo.status \in {"applying", "completed"}

(* The row of the promotion, its approval and what was written.            *)
PromoHolds ==
  /\ promo.status = "absent" => promo.approval = NoApproval
  /\ promo.status # "absent" =>
       promo.approval \in Approval /\ db.approval[promo.approval].status # "absent"
  /\ promo.status \notin {"absent", "waiting_approval"} => IsRuledOn(promo.approval)
  /\ promo.status \in {"applying", "completed"} =>
       db.approval[promo.approval].status = "consumed"
  /\ \A p \in Path : wrote[p] # "none" =>
       /\ promo.status \in {"applying", "completed", "failed"}
       /\ db.approval[promo.approval].status = "consumed"
       /\ p \in plan.selected
  /\ promo.status = "failed" /\ promo.error # "rollback_failed" =>
       \A p \in Path : wrote[p] # "after"
  /\ promo.status = "completed" /\ undo = "none" /\ job.step # "rollback" /\ ~killed =>
       \A p \in plan.selected : wrote[p] = "after"

(* What was written, what remains to be undone, and the source.            *)
WriteHolds ==
  /\ job.applied \subseteq plan.selected
  /\ job.step \in Writing \cup {"record"} =>
       \A p \in Path : wrote[p] = IF p \in job.applied THEN "after" ELSE "none"
  /\ job.step \in {"verify", "complete", "record"} => job.applied = plan.selected
  /\ job.step = "rollback" => \A p \in Path : wrote[p] = "after" => p \in job.applied
  /\ job.step = "fail_applying" =>
       /\ job.error # "none"
       /\ job.error = "apply_failed" => \A p \in Path : wrote[p] # "after"
  /\ job.step \in Inspected =>
       \A p \in plan.selected \ raced :
         source[p] = IF p \in job.applied THEN plan.after[p] ELSE plan.before[p]

PromoRow ==
  [status : PromoStatus, approval : Approval \cup {NoApproval},
   error : {"none", "denied", "expired", "failed", "apply_failed", "rollback_failed"}]

JobState ==
  [step : Step, approval : Approval \cup {NoApproval}, applied : SUBSET Path,
   error : {"none", "apply_failed", "rollback_failed"}]

Values ==
  /\ StoreInv(db)
  /\ finalized \in Tree /\ source \in Tree /\ worktree \in Tree
  /\ plan \in Plan
  /\ promo \in PromoRow
  /\ job \in JobState
  /\ edits \in 0 .. MaxEdit
  /\ wrote \in [Path -> {"none", "before", "after"}]
  /\ raced \in SUBSET Path
  /\ undo \in {"none", "done", "failed"}
  /\ crashes \in 0 .. MaxCrash
  /\ killed \in BOOLEAN

PInv == Values /\ JobHolds /\ PromoHolds /\ WriteHolds

-----------------------------------------------------------------------------
(* The store: what was ruled on, or spent, stays so.                       *)

DbGoes == StoreInv(db') /\ Moves(db, db')

LEMMA RowsGoOn ==
  ASSUME NEW d, NEW e, Moves(d, e), NEW a \in Approval
  PROVE  /\ d.approval[a].status # "absent" => e.approval[a].status # "absent"
         /\ d.approval[a].status \notin {"absent", "pending"} =>
              e.approval[a].status \notin {"absent", "pending"}
         /\ d.approval[a].status = "consumed" => e.approval[a].status = "consumed"
BY DEF Moves, RowMove

LEMMA Settles ==
  ASSUME PInv
  PROVE  /\ StoreInv(settled) /\ settled \in StoreContent
         /\ Moves(db, settled)
         /\ \A e : Moves(settled, e) => Moves(db, e)
         /\ StoreInv(Refreshed(db)) /\ Moves(db, Refreshed(db))
<1>1. StoreInv(db) /\ db \in StoreContent
  BY DEF PInv, Values, StoreInv
<1>2. StoreInv(settled) /\ settled \in StoreContent
  BY <1>1, ExpireInv DEF settled, StoreInv
<1>3. Moves(db, settled)
  BY <1>1, ExpireMoves DEF settled
<1>4. \A e : Moves(settled, e) => Moves(db, e)
  BY <1>1, HandlerMoves DEF settled
<1>5. StoreInv(Refreshed(db)) /\ Moves(db, Refreshed(db))
  BY <1>1, <1>2, <1>3, SameMoves DEF Refreshed, settled
<1> QED BY <1>2, <1>3, <1>4, <1>5

-----------------------------------------------------------------------------
(* What the store does to the invariant: nothing.                          *)

LEMMA StoreMoves ==
  ASSUME PInv, DbGoes,
         UNCHANGED <<trees, plan, promo, job, wrote, raced, undo, killed>>,
         crashes' \in 0 .. MaxCrash
  PROVE  PInv'
<1>1. Values'
  BY DEF PInv, Values, DbGoes, trees
<1>2. JobHolds'
  <2>1. /\ promo.status # "absent" => promo.approval \in Approval
        /\ job.step \in Spending => promo.status = "waiting_approval"
        /\ job.step \in Ruling => job.approval \in Approval
        /\ "start" \in Spending
    BY DEF PInv, PromoHolds, JobHolds, Spending
  <2> QED BY <2>1, RowsGoOn DEF PInv, JobHolds, DbGoes, Mine, IsRuledOn
<1>3. PromoHolds'
  <2>1. promo.status # "absent" => promo.approval \in Approval
    BY DEF PInv, PromoHolds
  <2>2. \A p \in Path : wrote[p] # "none" => promo.status # "absent"
    BY DEF PInv, PromoHolds
  <2> QED BY <2>1, <2>2, RowsGoOn DEF PInv, PromoHolds, DbGoes, IsRuledOn
<1>4. WriteHolds'
  BY DEF PInv, WriteHolds, trees
<1> QED BY <1>1, <1>2, <1>3, <1>4 DEF PInv

LEMMA PromotionStarts == Init => PInv
<1> SUFFICES ASSUME Init
             PROVE  PInv
  OBVIOUS
<1>1. StoreInv(db)
  <2>1. EmptyStore \in StoreContent /\ StoreInv(EmptyStore)
    BY EmptyInv DEF StoreInv
  <2>2. /\ db \in StoreContent /\ db.approval = EmptyStore.approval
        /\ db.grant = EmptyStore.grant /\ db.audit = EmptyStore.audit
    BY <2>1, PromotionAssumption DEF Init, StoreContent, RunStatus
  <2> QED BY <2>1, <2>2, SameRows
<1>2. Values
  <2>1. finalized \in Tree /\ source \in Tree /\ worktree \in Tree /\ plan \in Plan
    BY PromotionAssumption DEF Init, Plan
  <2>2. promo \in PromoRow /\ job \in JobState
    BY DEF Init, PromoRow, PromoStatus, JobState, Step, Idle
  <2>3. edits \in 0 .. MaxEdit /\ crashes \in 0 .. MaxCrash
    BY PromotionAssumption DEF Init
  <2>4. /\ wrote \in [Path -> {"none", "before", "after"}] /\ raced \in SUBSET Path
        /\ undo \in {"none", "done", "failed"} /\ killed \in BOOLEAN
    BY DEF Init
  <2> QED BY <1>1, <2>1, <2>2, <2>3, <2>4 DEF Values
<1>3. JobHolds /\ PromoHolds /\ WriteHolds
  BY DEF Init, JobHolds, PromoHolds, WriteHolds, Idle, Asking, Ruling, Spending, Writing,
         Undoing, Inspected
<1> QED BY <1>2, <1>3 DEF PInv

-----------------------------------------------------------------------------
(* POST /runs/:runId/promotions: nothing is written while there is no      *)
(* promotion yet.                                                          *)

LEMMA Goes ==
  ASSUME PInv, NEW s \in Step, Goto(s)
  PROVE  /\ job' \in JobState /\ job'.step = s
         /\ job'.approval = job.approval /\ job'.applied = job.applied
         /\ job'.error = job.error
BY DEF PInv, Values, JobState, Goto

LEMMA IdleJob ==
  /\ Idle \in JobState /\ Idle.step = "idle" /\ Idle.applied = {}
BY DEF Idle, JobState, Step

LEMMA Asked ==
  ASSUME PInv, DbGoes, promo.status = "absent",
         UNCHANGED <<trees, promo, history>>, plan' \in Plan,
         job' \in JobState, job'.step \in Asking \cup {"idle"}, job'.applied = {},
         job'.step = "idle" => job' = Idle,
         job'.step = "register" => job'.approval \in Approval
  PROVE  PInv'
<1>1. Values'
  BY DEF PInv, Values, DbGoes, trees, history
<1>2. \A q \in Path : wrote[q] = "none"
  BY DEF PInv, Values, PromoHolds
<1>3. JobHolds'
  BY DEF JobHolds, Asking, Ruling, Spending, Writing, Undoing
<1>4. PromoHolds'
  BY <1>2 DEF PInv, PromoHolds, history
<1>5. WriteHolds'
  BY DEF WriteHolds, Asking, Writing, Inspected
<1> QED BY <1>1, <1>3, <1>4, <1>5 DEF PInv

LEMMA RequestKeeps ==
  ASSUME PInv, NEW selected \in SUBSET Path, Request(selected)
  PROVE  PInv'
<1>1. /\ job = Idle /\ promo.status = "absent" /\ Goto("capture") /\ "capture" \in Step
      /\ UNCHANGED <<db, trees, promo, history>>
  BY DEF Request, PInv, JobHolds, Step
<1>2. plan' \in Plan
  BY DEF Request, PInv, Values, Plan
<1>3. DbGoes
  BY <1>1, SameMoves DEF DbGoes, PInv, Values
<1> QED BY <1>1, <1>2, <1>3, Goes, IdleJob, Asked DEF Asking

LEMMA AskingKeeps ==
  ASSUME PInv, Capture \/ CaptureFails \/ \E a \in Approval : Evaluate(a)
  PROVE  PInv'
<1>1. /\ promo.status = "absent" /\ job.applied = {}
      /\ UNCHANGED <<trees, promo, history>> /\ {"evaluate", "register"} \subseteq Step
  BY DEF Capture, CaptureFails, Evaluate, PInv, JobHolds, Asking, Step
<1>2. CASE Capture
  <2>1. Picked(source) \in Tree /\ Picked(worktree) \in Tree
    BY DEF Picked, PInv, Values, Tree
  <2>2. plan' \in Plan
    BY <1>2, <2>1 DEF Capture, PInv, Values, Plan
  <2>3. Goto("evaluate") /\ DbGoes
    BY <1>2, SameMoves DEF Capture, DbGoes, PInv, Values
  <2> QED BY <1>1, <2>2, <2>3, Goes, Asked DEF Asking
<1>3. CASE CaptureFails
  <2>1. job' = Idle /\ plan' \in Plan /\ DbGoes
    BY <1>3, SameMoves DEF CaptureFails, DbGoes, PInv, Values
  <2> QED BY <1>1, <2>1, IdleJob, Asked
<1>4. ASSUME NEW a \in Approval, Evaluate(a)
      PROVE  PInv'
  <2>1. /\ settled.approval[a].status = "absent" /\ CanCreateApproval(settled, a, TheRun)
        /\ db' = CreateApproval(settled, a, TheRun, a)
        /\ TheRun \in Run /\ a \in Digest
    BY <1>4, PromotionAssumption DEF Evaluate, CanCreateApproval
  <2>2. DbGoes
    BY <2>1, Settles, CreateApprovalInv, CreateApprovalMoves DEF DbGoes
  <2>3. job' = [job EXCEPT !.step = "register", !.approval = a] /\ plan' = plan
    BY <1>4 DEF Evaluate
  <2>4. /\ job' \in JobState /\ job'.step = "register" /\ job'.approval = a
        /\ job'.applied = {} /\ plan' \in Plan
    BY <1>1, <2>3 DEF PInv, Values, JobState
  <2> QED BY <1>1, <2>2, <2>4, Asked DEF Asking
<1> QED BY <1>2, <1>3, <1>4

(* The promotion waits, with nothing written.                              *)
LEMMA RegisterKeeps ==
  ASSUME PInv, Register
  PROVE  PInv'
<1>1. /\ job.approval \in Approval /\ promo.status = "absent"
      /\ db.approval[job.approval].status = "pending"
      /\ promo' = [status |-> "waiting_approval", approval |-> job.approval, error |-> "none"]
      /\ job' = Idle /\ db' = Refreshed(db)
      /\ UNCHANGED <<trees, plan, history>>
  BY DEF Register, PInv, JobHolds, Asking
<1>2. \A q \in Path : wrote[q] = "none"
  BY <1>1 DEF PInv, Values, PromoHolds
<1>3. /\ promo' \in PromoRow /\ promo'.status = "waiting_approval"
      /\ promo'.approval = job.approval
  BY <1>1 DEF PromoRow, PromoStatus
<1>4. DbGoes
  BY <1>1, Settles DEF DbGoes
<1>5. Values'
  BY <1>1, <1>3, <1>4, IdleJob DEF PInv, Values, DbGoes, trees, history
<1>6. db'.approval[promo'.approval].status # "absent"
  BY <1>1, <1>3, <1>4, RowsGoOn DEF DbGoes
<1>7. JobHolds' /\ WriteHolds'
  BY <1>1, IdleJob DEF JobHolds, WriteHolds, Asking, Ruling, Spending, Writing, Undoing, Inspected
<1>8. PromoHolds'
  BY <1>1, <1>2, <1>3, <1>6 DEF PromoHolds, history
<1> QED BY <1>5, <1>7, <1>8 DEF PInv

-----------------------------------------------------------------------------
(* POST /approvals/:approvalId/decision: the decision, and its end.        *)

LEMMA DecisionKeeps ==
  ASSUME PInv, NEW a \in Approval, NEW g \in Grant \cup {NoGrant},
         NEW decision \in {"approved", "denied"}, decision = "approved" => g \in Grant,
         decision = "approved" => settled.grant[g].status = "absent",
         decision = "denied" => g = NoGrant,
         job.step = "idle",
         CanDecideApproval(settled, a, decision, g),
         db' = DecideApproval(settled, a, decision, g),
         NEW s \in Ruling, job' = [Idle EXCEPT !.step = s, !.approval = a],
         UNCHANGED <<trees, plan, promo, history>>
  PROVE  PInv'
<1>1. settled.approval[a].status = "pending"
  BY DEF CanDecideApproval
<1>2. DbGoes
  <2>1. StoreInv(db') /\ Moves(settled, db')
    BY <1>1, Settles, DecideInv, DecideMoves
  <2> QED BY <2>1, Settles DEF DbGoes
<1>3. db.approval[a].status = "pending"
  BY <1>1, ExpireRows DEF PInv, Values, StoreInv, settled
<1>4. db'.approval[a].status \notin {"absent", "pending"}
  <2>1. db'.approval[a].status # "pending"
    BY <1>1, Settles, ForwardDecide
  <2> QED BY <1>2, <1>3, <2>1, RowsGoOn DEF DbGoes
<1>5. promo.approval = a => promo.status = "waiting_approval"
  BY <1>3, NullAssumption DEF PInv, PromoHolds, IsRuledOn
<1>6. job' \in JobState /\ job'.step = s /\ job'.approval = a /\ job'.applied = {}
  BY DEF Idle, JobState, Step, Ruling
<1>7. Values'
  BY <1>2, <1>6 DEF PInv, Values, DbGoes, trees, history
<1>8. JobHolds'
  BY <1>4, <1>5, <1>6
  DEF JobHolds, Asking, Ruling, Spending, Writing, Undoing, IsRuledOn, Mine
<1>9. PromoHolds'
  <2>1. promo.status # "absent" => promo.approval \in Approval
    BY DEF PInv, PromoHolds
  <2>2. \A p \in Path : wrote[p] # "none" => promo.status # "absent"
    BY DEF PInv, PromoHolds
  <2> QED BY <1>2, <2>1, <2>2, RowsGoOn DEF PInv, PromoHolds, DbGoes, IsRuledOn, history
<1>10. WriteHolds'
  BY <1>6 DEF WriteHolds, Ruling, Writing, Inspected
<1> QED BY <1>7, <1>8, <1>9, <1>10 DEF PInv

LEMMA PersonKeeps ==
  ASSUME PInv,
         \/ \E a \in Approval, g \in Grant : Approve(a, g)
         \/ \E a \in Approval : Deny(a)
  PROVE  PInv'
<1>1. ASSUME NEW a \in Approval, NEW g \in Grant, Approve(a, g)
      PROVE  PInv'
  <2>1. settled.grant[g].status = "absent"
    BY <1>1, ExpireRows DEF Approve, FreshGrant, settled, PInv, Values, StoreInv
  <2>2. /\ job.step = "idle" /\ CanDecideApproval(settled, a, "approved", g)
        /\ db' = DecideApproval(settled, a, "approved", g)
        /\ job' = [Idle EXCEPT !.step = "resolve", !.approval = a]
        /\ UNCHANGED <<trees, plan, promo, history>> /\ "resolve" \in Ruling
    BY <1>1 DEF Approve, Ruling
  <2> QED BY <2>1, <2>2, DecisionKeeps
<1>2. ASSUME NEW a \in Approval, Deny(a)
      PROVE  PInv'
  <2>1. /\ job.step = "idle" /\ CanDecideApproval(settled, a, "denied", NoGrant)
        /\ db' = DecideApproval(settled, a, "denied", NoGrant)
        /\ job' = [Idle EXCEPT !.step = "deny", !.approval = a]
        /\ UNCHANGED <<trees, plan, promo, history>> /\ "deny" \in Ruling
    BY <1>2 DEF Deny, Ruling
  <2> QED BY <2>1, DecisionKeeps
<1> QED BY <1>1, <1>2

(* The handler is over: nothing is left to undo, or a rollback has failed. *)
LEMMA HandlerEnds ==
  ASSUME PInv, DbGoes, UNCHANGED <<trees, plan, promo, history>>,
         job.step # "rollback",
         job' = Idle \/ Goto("end")
  PROVE  PInv'
<1>1. /\ job' \in JobState /\ job'.step \in {"idle", "end"}
      /\ job'.applied \subseteq plan.selected
      /\ job'.step = "idle" => job' = Idle
  <2>1. CASE job' = Idle
    BY <2>1, IdleJob
  <2>2. CASE Goto("end")
    <3>1. "end" \in Step
      BY DEF Step
    <3> QED BY <2>2, <3>1, Goes DEF PInv, WriteHolds
  <2> QED BY <2>1, <2>2
<1>2. Values'
  BY <1>1 DEF PInv, Values, DbGoes, trees, history
<1>3. JobHolds'
  BY <1>1 DEF JobHolds, Asking, Ruling, Spending, Writing, Undoing
<1>4. PromoHolds'
  <2>1. promo.status # "absent" => promo.approval \in Approval
    BY DEF PInv, PromoHolds
  <2>2. \A p \in Path : wrote[p] # "none" => promo.status # "absent"
    BY DEF PInv, PromoHolds
  <2> QED BY <2>1, <2>2, RowsGoOn DEF PInv, PromoHolds, DbGoes, IsRuledOn, history
<1>5. WriteHolds'
  BY <1>1 DEF WriteHolds, Writing, Inspected
<1> QED BY <1>2, <1>3, <1>4, <1>5 DEF PInv

LEMMA EndsKeep ==
  ASSUME PInv, ResolveMissing \/ RecordFiles \/ FailApplyingAborted \/ EndDecision
  PROVE  PInv'
<1>1. DbGoes
  BY Settles, SameMoves
  DEF DbGoes, ResolveMissing, RecordFiles, FailApplyingAborted, EndDecision, PInv, Values
<1>2. /\ UNCHANGED <<trees, plan, promo, history>> /\ job.step # "rollback"
      /\ job' = Idle \/ Goto("end")
  BY DEF ResolveMissing, RecordFiles, FailApplyingAborted, EndDecision
<1> QED BY <1>1, <1>2, HandlerEnds

-----------------------------------------------------------------------------
(* The promotion's row moves.                                              *)

LEMMA MovesRow ==
  ASSUME PInv, NEW to \in PromoStatus, NEW error,
         error \in {"none", "denied", "expired", "failed", "apply_failed", "rollback_failed"},
         Transition(to, error)
  PROVE  /\ promo' \in PromoRow /\ promo'.status = to /\ promo'.error = error
         /\ promo'.approval = promo.approval
BY DEF PInv, Values, PromoRow, Transition

(* A promotion that waits ends unapplied: it is denied, fails before the   *)
(* first write, or its approval expires.                                   *)
LEMMA EndsUnapplied ==
  ASSUME PInv, DbGoes, promo.status = "waiting_approval",
         NEW to \in {"denied", "failed"}, NEW error \in {"denied", "expired", "failed"},
         Transition(to, error),
         db'.approval[promo.approval].status \notin {"absent", "pending"},
         job.applied = {},
         Goto("end") \/ job' = Idle,
         UNCHANGED <<trees, plan, history>>
  PROVE  PInv'
<1>1. /\ promo' \in PromoRow /\ promo'.status = to /\ promo'.error = error
      /\ promo'.approval = promo.approval
  BY MovesRow DEF PromoStatus
<1>2. /\ job' \in JobState /\ job'.step \in {"idle", "end"} /\ job'.applied = {}
      /\ job'.step = "idle" => job' = Idle
  <2>1. "end" \in Step
    BY DEF Step
  <2> QED BY <2>1, IdleJob, Goes
<1>3. \A q \in Path : wrote[q] = "none"
  BY DEF PInv, Values, PromoHolds
<1>4. Values'
  BY <1>1, <1>2 DEF PInv, Values, DbGoes, trees, history
<1>5. JobHolds'
  BY <1>2 DEF JobHolds, Asking, Ruling, Spending, Writing, Undoing
<1>6. PromoHolds'
  BY <1>1, <1>3 DEF PInv, PromoHolds, IsRuledOn, history
<1>7. WriteHolds'
  BY <1>2 DEF WriteHolds, Writing, Inspected
<1> QED BY <1>4, <1>5, <1>6, <1>7 DEF PInv

LEMMA UnappliedKeeps ==
  ASSUME PInv, ResolveDenied \/ FailWaiting \/ Reconcile
  PROVE  PInv'
<1>1. ASSUME ResolveDenied \/ FailWaiting
      PROVE  PInv'
  <2>1. /\ promo.status = "waiting_approval" /\ IsRuledOn(promo.approval)
        /\ job.applied = {} /\ Goto("end") /\ UNCHANGED <<db, trees, plan, history>>
    BY <1>1 DEF ResolveDenied, FailWaiting, PInv, JobHolds, Ruling, Spending, Mine
  <2>2. Transition("denied", "denied") \/ Transition("failed", "failed")
    BY <1>1 DEF ResolveDenied, FailWaiting
  <2>3. DbGoes
    BY <2>1, SameMoves DEF DbGoes, PInv, Values
  <2>4. db'.approval[promo.approval].status \notin {"absent", "pending"}
    BY <2>1 DEF IsRuledOn
  <2> QED BY <2>1, <2>2, <2>3, <2>4, EndsUnapplied
<1>2. ASSUME Reconcile
      PROVE  PInv'
  <2>1. /\ promo.status = "waiting_approval" /\ job = Idle /\ db' = settled
        /\ UNCHANGED <<trees, plan, job, history>>
    BY <1>2 DEF Reconcile, PInv, JobHolds
  <2>2. DbGoes
    BY <2>1, Settles DEF DbGoes
  <2>3. CASE settled.approval[promo.approval].status = "expired"
    <3>1. Transition("failed", "expired")
      BY <1>2, <2>3 DEF Reconcile
    <3>2. db'.approval[promo.approval].status \notin {"absent", "pending"}
      BY <2>1, <2>3
    <3> QED BY <2>1, <2>2, <3>1, <3>2, IdleJob, EndsUnapplied
  <2>4. CASE settled.approval[promo.approval].status # "expired"
    <3>1. promo' = promo
      BY <1>2, <2>4 DEF Reconcile
    <3>2. UNCHANGED <<trees, plan, promo, job, wrote, raced, undo, killed>>
      BY <2>1, <3>1 DEF history
    <3>3. crashes' \in 0 .. MaxCrash
      BY <2>1 DEF history, PInv, Values
    <3> QED BY <2>2, <3>2, <3>3, StoreMoves
  <2> QED BY <2>3, <2>4
<1> QED BY <1>1, <1>2

-----------------------------------------------------------------------------
(* execute: the inspection and the grant.                                  *)

LEMMA InspectKeeps ==
  ASSUME PInv, Inspect
  PROVE  PInv'
<1>1. /\ promo.status = "waiting_approval" /\ Mine /\ IsRuledOn(promo.approval)
      /\ job.applied = {} /\ raced' = {} /\ Goto("consume")
      /\ Picked(source) = plan.before
      /\ UNCHANGED <<db, trees, plan, promo, wrote, undo, crashes, killed>>
  BY DEF Inspect, AsPlanned, PInv, JobHolds, Ruling, Mine
<1>2. /\ job' \in JobState /\ job'.step = "consume" /\ job'.applied = {}
      /\ job'.approval = job.approval
  <2>1. "consume" \in Step
    BY DEF Step
  <2> QED BY <1>1, <2>1, Goes
<1>3. \A p \in plan.selected : source[p] = plan.before[p]
  BY <1>1 DEF Picked, PInv, Values, Plan
<1>4. Values'
  BY <1>1, <1>2 DEF PInv, Values, trees
<1>5. JobHolds'
  BY <1>1, <1>2 DEF JobHolds, Asking, Ruling, Spending, Writing, Undoing, IsRuledOn, Mine
<1>6. PromoHolds'
  BY <1>1 DEF PInv, PromoHolds, IsRuledOn
<1>7. WriteHolds'
  BY <1>1, <1>2, <1>3 DEF WriteHolds, Writing, Inspected, trees
<1> QED BY <1>4, <1>5, <1>6, <1>7 DEF PInv

(* On to a step of a promotion that still waits, with nothing written.     *)
LEMMA SpendingGoes ==
  ASSUME PInv, DbGoes, promo.status = "waiting_approval", Mine, IsRuledOn(promo.approval),
         job.applied = {}, NEW s \in {"start", "fail_waiting"}, Goto(s),
         s = "start" =>
           /\ job.step = "consume"
           /\ db'.approval[promo.approval].status = "consumed",
         UNCHANGED <<trees, plan, promo, history>>
  PROVE  PInv'
<1>1. /\ job' \in JobState /\ job'.step = s /\ job'.applied = {}
      /\ job'.approval = job.approval
  <2>1. s \in Step
    BY DEF Step
  <2> QED BY <2>1, Goes
<1>2. promo.approval \in Approval
  BY DEF PInv, PromoHolds
<1>3. Values'
  BY <1>1 DEF PInv, Values, DbGoes, trees, history
<1>4. db'.approval[promo.approval].status \notin {"absent", "pending"}
  BY <1>2, RowsGoOn DEF DbGoes, IsRuledOn
<1>5. JobHolds'
  BY <1>1, <1>4 DEF JobHolds, Asking, Ruling, Spending, Writing, Undoing, IsRuledOn, Mine
<1>6. PromoHolds'
  <2>1. \A q \in Path : wrote[q] = "none"
    BY DEF PInv, Values, PromoHolds
  <2> QED BY <1>2, <1>4, <2>1 DEF PromoHolds, history
<1>7. WriteHolds'
  BY <1>1 DEF PInv, WriteHolds, Writing, Inspected, trees, history
<1> QED BY <1>3, <1>5, <1>6, <1>7 DEF PInv

LEMMA SpendingKeeps ==
  ASSUME PInv, InspectFails \/ Consume \/ ConsumeFails
  PROVE  PInv'
<1>1. /\ promo.status = "waiting_approval" /\ Mine /\ IsRuledOn(promo.approval)
      /\ job.applied = {} /\ UNCHANGED <<trees, plan, promo, history>>
  BY DEF InspectFails, Consume, ConsumeFails, PInv, JobHolds, Ruling, Spending, Mine
<1>2. CASE InspectFails \/ ConsumeFails
  <2>1. DbGoes /\ Goto("fail_waiting")
    BY <1>2, Settles, SameMoves DEF InspectFails, ConsumeFails, DbGoes, PInv, Values
  <2> QED BY <1>1, <2>1, SpendingGoes
<1>3. CASE Consume
  <2> DEFINE a == promo.approval
             g == settled.approval[a].grant
  <2>1. /\ job.step = "consume" /\ Goto("start") /\ g \in Grant
        /\ settled.grant[g].status = "active"
        /\ db' = ConsumeExecutionGrant(settled, g)
        /\ a \in Approval
    BY <1>1, <1>3 DEF Consume, MayConsume, CanConsumeGrant, Mine, PInv, PromoHolds
  <2>2. StoreInv(db') /\ Moves(settled, db')
    BY <2>1, Settles, ConsumeInv, ConsumeMoves
  <2>3. DbGoes
    BY <2>2, Settles DEF DbGoes
  <2>4. settled.grant[g].approval = a /\ settled.approval[a].status = "approved"
    <3>1. settled.grant[g].approval = a
      BY <2>1, Settles DEF StoreInv, TablesAgree, ApprovalHasItsGrant
    <3>2. GrantTellsItsApproval(settled, g)
      BY <2>1, Settles DEF StoreInv, TablesAgree
    <3> QED BY <2>1, <3>1, <3>2 DEF GrantTellsItsApproval
  <2>5. db'.approval[a].status = "consumed"
    BY <2>1, <2>4, Settles, ConsumeRows
  <2> QED BY <1>1, <2>1, <2>3, <2>5, SpendingGoes
<1> QED BY <1>2, <1>3

-----------------------------------------------------------------------------
(* execute: the entries, written and taken back.                           *)

StaysSame == UNCHANGED <<db, trees, plan, history>>

LEMMA StayValues ==
  ASSUME PInv, StaysSame, promo' \in PromoRow, job' \in JobState
  PROVE  Values'
BY DEF StaysSame, PInv, Values, trees, history

(* Applying begins with nothing written.                                   *)
LEMMA StartKeeps ==
  ASSUME PInv, StartApplying
  PROVE  PInv'
<1>1. /\ promo.status = "waiting_approval" /\ Mine /\ IsRuledOn(promo.approval)
      /\ db.approval[promo.approval].status = "consumed"
      /\ job.step = "start" /\ job.applied = {} /\ Goto("apply")
      /\ Transition("applying", "none") /\ StaysSame
  BY DEF StartApplying, PInv, JobHolds, Spending, StaysSame
<1>2. /\ promo' \in PromoRow /\ promo'.status = "applying"
      /\ promo'.approval = promo.approval /\ promo.approval \in Approval
  BY <1>1, MovesRow DEF PromoStatus, PInv, PromoHolds
<1>3. /\ job' \in JobState /\ job'.step = "apply" /\ job'.applied = {}
      /\ job'.approval = job.approval
  <2>1. "apply" \in Step
    BY DEF Step
  <2> QED BY <1>1, <2>1, Goes
<1>4. \A q \in Path : wrote[q] = "none"
  BY <1>1 DEF PInv, Values, PromoHolds
<1>5. Values'
  BY <1>1, <1>2, <1>3, StayValues
<1>6. JobHolds'
  BY <1>2, <1>3 DEF JobHolds, Asking, Ruling, Spending, Writing, Undoing
<1>7. PromoHolds'
  BY <1>1, <1>2, <1>4 DEF PromoHolds, IsRuledOn, StaysSame, history
<1>8. WriteHolds'
  BY <1>1, <1>3, <1>4 DEF PInv, WriteHolds, Writing, Inspected, StaysSame, trees, history
<1> QED BY <1>5, <1>6, <1>7, <1>8 DEF PInv

(* Every set of paths has a first and a last one.                          *)
LEMMA LeastNumber ==
  ASSUME NEW S, S \subseteq Nat, S # {}
  PROVE  \E p \in S : \A q \in S : p <= q
<1> DEFINE R == {ss \in Nat \X Nat : ss[1] < ss[2]}
<1>1. IsWellFoundedOn(R, Nat)
  BY NatLessThanWellFounded DEF OpToRel
<1>2. PICK p \in S : \A q \in S : <<q, p>> \notin R
  <2> HIDE DEF R
  <2> QED BY <1>1, WFMin
<1>3. ASSUME NEW q \in S
      PROVE  p <= q
  <2>1. q \in Nat /\ p \in Nat /\ <<q, p>> \in Nat \X Nat
    OBVIOUS
  <2>2. ~(<<q, p>>[1] < <<q, p>>[2])
    BY <1>2, <2>1
  <2> QED BY <2>1, <2>2
<1> QED BY <1>3

LEMMA FirstOf ==
  ASSUME NEW S \in SUBSET Path, S # {}
  PROVE  First(S) \in S
<1>1. S \subseteq Nat
  BY PromotionAssumption DEF Path
<1>2. \E p \in S : \A q \in S : p <= q
  BY <1>1, LeastNumber
<1> QED BY <1>2 DEF First

LEMMA LastOf ==
  ASSUME NEW S \in SUBSET Path, S # {}
  PROVE  Last(S) \in S
<1> DEFINE T == {N - q : q \in S}
<1>1. S \subseteq Nat /\ \A q \in S : q <= N
  BY PromotionAssumption DEF Path
<1>2. T \subseteq Nat /\ T # {}
  <2>1. N \in Nat
    BY PromotionAssumption
  <2>2. \A q \in S : N - q \in Nat
    BY <1>1, <2>1
  <2>3. T \subseteq Nat
    BY <2>2
  <2>4. PICK q \in S : TRUE
    OBVIOUS
  <2>5. N - q \in T
    BY <2>4
  <2> HIDE DEF T
  <2> QED BY <2>3, <2>5
<1>3. PICK t \in T : \A u \in T : t <= u
  <2> HIDE DEF T
  <2> QED BY <1>2, LeastNumber
<1>4. PICK p \in S : t = N - p
  OBVIOUS
<1>5. \A q \in S : N - p <= N - q
  BY <1>3, <1>4
<1>6. ASSUME NEW q \in S
      PROVE  q <= p
  <2>1. N \in Nat /\ p \in Nat /\ q \in Nat
    BY <1>1, PromotionAssumption
  <2> HIDE DEF T
  <2> QED BY <1>5, <2>1
<1> QED BY <1>6 DEF Last

LEMMA ApplyKeeps ==
  ASSUME PInv, ApplyEntry
  PROVE  PInv'
<1> DEFINE p == First(plan.selected \ job.applied)
<1>1. plan.selected \in SUBSET Path /\ plan.after \in Tree /\ plan.before \in Tree
  BY DEF PInv, Values, Plan
<1>2. p \in plan.selected /\ p \in Path /\ p \notin job.applied
  <2>1. plan.selected \ job.applied # {}
    BY DEF ApplyEntry, PInv, WriteHolds
  <2> QED BY <1>1, <2>1, FirstOf
<1>3. /\ job.step = "apply" /\ promo.status = "applying"
      /\ source' = [source EXCEPT ![p] = plan.after[p]]
      /\ wrote' = [wrote EXCEPT ![p] = "after"]
      /\ job' = [job EXCEPT !.applied = @ \cup {p}]
      /\ UNCHANGED <<db, finalized, worktree, edits, plan, promo, raced, undo, crashes, killed>>
  BY DEF ApplyEntry, PInv, JobHolds, Writing
<1> HIDE DEF p
<1>4. /\ job' \in JobState /\ job'.step = "apply" /\ job'.approval = job.approval
      /\ job'.applied = job.applied \cup {p}
  BY <1>2, <1>3 DEF PInv, Values, JobState
<1>5. source' \in Tree /\ wrote' \in [Path -> {"none", "before", "after"}]
  BY <1>1, <1>2, <1>3 DEF PInv, Values, Tree
<1>6. Values'
  BY <1>3, <1>4, <1>5 DEF PInv, Values
<1>7. JobHolds'
  BY <1>3, <1>4 DEF PInv, JobHolds, Asking, Ruling, Spending, Writing, Undoing
<1>8. PromoHolds'
  <2>1. \A q \in Path : wrote'[q] # "none" => q \in plan.selected
    BY <1>2, <1>3 DEF PInv, PromoHolds, Values
  <2> QED BY <1>3, <1>4, <2>1 DEF PInv, PromoHolds, IsRuledOn
<1>9. WriteHolds'
  <2>1. \A q \in Path : wrote'[q] = IF q \in job'.applied THEN "after" ELSE "none"
    BY <1>2, <1>3, <1>4 DEF PInv, WriteHolds, Values, Writing
  <2>2. \A q \in plan.selected \ raced :
          source'[q] = IF q \in job'.applied THEN plan.after[q] ELSE plan.before[q]
    BY <1>1, <1>2, <1>3, <1>4 DEF PInv, WriteHolds, Values, Inspected, Writing, Tree
  <2> QED BY <1>2, <1>3, <1>4, <2>1, <2>2 DEF PInv, WriteHolds, Writing, Inspected
<1> QED BY <1>6, <1>7, <1>8, <1>9 DEF PInv

(* On, with everything written.                                            *)
LEMMA AppliedKeeps ==
  ASSUME PInv, AllApplied \/ Verify
  PROVE  PInv'
<1>1. PICK s \in {"verify", "complete"} :
        /\ Goto(s) /\ StaysSame /\ promo' = promo
        /\ job.step \in Writing /\ promo.status = "applying" /\ job.applied = plan.selected
  BY DEF AllApplied, Verify, PInv, JobHolds, WriteHolds, Writing, StaysSame
<1>2. /\ job' \in JobState /\ job'.step = s /\ job'.applied = job.applied
      /\ job'.approval = job.approval
  <2>1. s \in Step
    BY DEF Step
  <2> QED BY <1>1, <2>1, Goes
<1>3. Values'
  BY <1>1, <1>2, StayValues DEF PInv, Values
<1>4. JobHolds'
  BY <1>1, <1>2 DEF JobHolds, Asking, Ruling, Spending, Writing, Undoing
<1>5. PromoHolds'
  BY <1>1 DEF PInv, PromoHolds, IsRuledOn, StaysSame, history
<1>6. WriteHolds'
  BY <1>1, <1>2 DEF PInv, WriteHolds, Writing, Inspected, StaysSame, trees, history
<1> QED BY <1>3, <1>4, <1>5, <1>6 DEF PInv

LEMMA CompleteKeeps ==
  ASSUME PInv, Complete
  PROVE  PInv'
<1>1. /\ promo.status = "applying" /\ job.step = "complete" /\ job.applied = plan.selected
      /\ Transition("completed", "none") /\ Goto("record") /\ StaysSame
      /\ \A q \in Path : wrote[q] = IF q \in job.applied THEN "after" ELSE "none"
  BY DEF Complete, PInv, JobHolds, WriteHolds, Writing, StaysSame
<1>2. /\ promo' \in PromoRow /\ promo'.status = "completed"
      /\ promo'.approval = promo.approval
  BY <1>1, MovesRow DEF PromoStatus
<1>3. /\ job' \in JobState /\ job'.step = "record" /\ job'.applied = job.applied
  <2>1. "record" \in Step
    BY DEF Step
  <2> QED BY <1>1, <2>1, Goes
<1>4. Values'
  BY <1>1, <1>2, <1>3, StayValues
<1>5. JobHolds'
  BY <1>2, <1>3 DEF JobHolds, Asking, Ruling, Spending, Writing, Undoing
<1>6. PromoHolds'
  BY <1>1, <1>2 DEF PInv, PromoHolds, Values, Plan, IsRuledOn, StaysSame, history
<1>7. WriteHolds'
  BY <1>1, <1>3 DEF PInv, WriteHolds, Writing, Inspected, StaysSame, trees, history
<1> QED BY <1>4, <1>5, <1>6, <1>7 DEF PInv

(* An error in the middle: what is applied is to be rolled back.           *)
LEMMA RollbackBegins ==
  ASSUME PInv, job.step \in Writing \cup {"record"}, Goto("rollback"),
         StaysSame, promo' = promo
  PROVE  PInv'
<1>1. /\ job' \in JobState /\ job'.step = "rollback" /\ job'.applied = job.applied
  <2>1. "rollback" \in Step
    BY DEF Step
  <2> QED BY <2>1, Goes
<1>2. Values'
  BY <1>1, StayValues DEF PInv, Values
<1>3. JobHolds'
  BY <1>1 DEF PInv, JobHolds, Asking, Ruling, Spending, Writing, Undoing
<1>4. PromoHolds'
  BY <1>1 DEF PInv, PromoHolds, IsRuledOn, StaysSame, history
<1>5. WriteHolds'
  BY <1>1 DEF PInv, WriteHolds, Writing, Inspected, StaysSame, trees, history
<1> QED BY <1>2, <1>3, <1>4, <1>5 DEF PInv

LEMMA ThrowKeeps ==
  ASSUME PInv, Throw \/ VerifyFails
  PROVE  PInv'
<1>1. StaysSame /\ promo' = promo /\ DbGoes
  BY SameMoves DEF Throw, VerifyFails, StaysSame, DbGoes, PInv, Values
<1>2. CASE job.step \in Writing \cup {"record"}
  BY <1>1, <1>2, RollbackBegins DEF Throw, VerifyFails, Writing
<1>3. CASE job.step \in {"resolve", "consume", "start"}
  <2>1. Goto("fail_waiting") /\ Mine
    BY <1>3 DEF Throw, VerifyFails
  <2>2. promo.status = "waiting_approval" /\ IsRuledOn(promo.approval) /\ job.applied = {}
    BY <1>3, <2>1 DEF PInv, JobHolds, Ruling, Spending, Mine
  <2> QED BY <1>1, <2>1, <2>2, SpendingGoes DEF StaysSame
<1> QED BY <1>2, <1>3 DEF Throw, VerifyFails, Writing

LEMMA RollBackKeeps ==
  ASSUME PInv, RollBackEntry
  PROVE  PInv'
<1> DEFINE p == Last(job.applied)
<1>1. plan.selected \in SUBSET Path /\ plan.after \in Tree /\ plan.before \in Tree
  BY DEF PInv, Values, Plan
<1>2. p \in plan.selected /\ p \in Path /\ p \in job.applied
  <2>1. job.applied # {} /\ job.applied \in SUBSET Path /\ job.applied \subseteq plan.selected
    BY <1>1 DEF RollBackEntry, PInv, WriteHolds
  <2> QED BY <1>1, <2>1, LastOf
<1>3. /\ job.step = "rollback" /\ promo.status \in {"applying", "completed"}
      /\ source' = [source EXCEPT ![p] = plan.before[p]]
      /\ wrote' = [wrote EXCEPT ![p] = "before"]
      /\ job' = [job EXCEPT !.applied = @ \ {p}]
      /\ UNCHANGED <<db, finalized, worktree, edits, plan, promo, raced, undo, crashes, killed>>
  BY DEF RollBackEntry, PInv, JobHolds, Undoing
<1> HIDE DEF p
<1>4. /\ job' \in JobState /\ job'.step = "rollback" /\ job'.applied = job.applied \ {p}
  BY <1>2, <1>3 DEF PInv, Values, JobState
<1>5. source' \in Tree /\ wrote' \in [Path -> {"none", "before", "after"}]
  BY <1>1, <1>2, <1>3 DEF PInv, Values, Tree
<1>6. Values'
  BY <1>3, <1>4, <1>5 DEF PInv, Values
<1>7. JobHolds'
  BY <1>3, <1>4 DEF JobHolds, Asking, Ruling, Spending, Writing, Undoing
<1>8. PromoHolds'
  <2>1. \A q \in Path : wrote'[q] # "none" => q \in plan.selected
    BY <1>2, <1>3 DEF PInv, PromoHolds, Values
  <2> QED BY <1>3, <1>4, <2>1 DEF PInv, PromoHolds, IsRuledOn
<1>9. WriteHolds'
  <2>1. \A q \in Path : wrote'[q] = "after" => q \in job'.applied
    BY <1>2, <1>3, <1>4 DEF PInv, WriteHolds, Values
  <2>2. \A q \in plan.selected \ raced :
          source'[q] = IF q \in job'.applied THEN plan.after[q] ELSE plan.before[q]
    BY <1>1, <1>2, <1>3, <1>4 DEF PInv, WriteHolds, Values, Inspected, Tree
  <2> QED BY <1>2, <1>3, <1>4, <2>1, <2>2 DEF PInv, WriteHolds, Writing, Inspected
<1> QED BY <1>6, <1>7, <1>8, <1>9 DEF PInv

(* The rollback ends, whole or not, and the job says which.                *)
LEMMA RolledBackKeeps ==
  ASSUME PInv, RolledBack \/ RollBackFails
  PROVE  PInv'
<1>1. PICK error \in {"apply_failed", "rollback_failed"} :
        /\ job.step = "rollback" /\ promo.status \in {"applying", "completed"}
        /\ undo' \in {"done", "failed"}
        /\ job' = [job EXCEPT !.step = "fail_applying", !.error = error]
        /\ error = "apply_failed" => job.applied = {}
        /\ UNCHANGED <<db, trees, plan, promo, wrote, raced, crashes, killed>>
  BY DEF RolledBack, RollBackFails, PInv, JobHolds, Undoing
<1>2. /\ job' \in JobState /\ job'.step = "fail_applying" /\ job'.error = error
      /\ job'.applied = job.applied
  BY <1>1 DEF PInv, Values, JobState, Step
<1>3. Values'
  BY <1>1, <1>2 DEF PInv, Values, trees
<1>4. JobHolds'
  BY <1>1, <1>2 DEF JobHolds, Asking, Ruling, Spending, Writing, Undoing
<1>5. PromoHolds'
  BY <1>1, <1>2 DEF PInv, PromoHolds, IsRuledOn
<1>6. WriteHolds'
  BY <1>1, <1>2 DEF PInv, WriteHolds, Writing, Inspected
<1> QED BY <1>3, <1>4, <1>5, <1>6 DEF PInv

LEMMA FailApplyingKeeps ==
  ASSUME PInv, FailApplying
  PROVE  PInv'
<1>1. /\ job.step = "fail_applying" /\ promo.status = "applying"
      /\ Transition("failed", job.error) /\ Goto("end") /\ StaysSame
      /\ job.error \in {"apply_failed", "rollback_failed"}
      /\ job.error = "apply_failed" => \A q \in Path : wrote[q] # "after"
  BY DEF FailApplying, CanTransition, PromoTransition, PInv, Values, JobState, JobHolds,
         WriteHolds, Undoing, StaysSame
<1>2. /\ promo' \in PromoRow /\ promo'.status = "failed" /\ promo'.error = job.error
      /\ promo'.approval = promo.approval
  BY <1>1, MovesRow DEF PromoStatus
<1>3. /\ job' \in JobState /\ job'.step = "end" /\ job'.applied = job.applied
  <2>1. "end" \in Step
    BY DEF Step
  <2> QED BY <1>1, <2>1, Goes
<1>4. Values'
  BY <1>1, <1>2, <1>3, StayValues
<1>5. JobHolds'
  BY <1>3 DEF JobHolds, Asking, Ruling, Spending, Writing, Undoing
<1>6. PromoHolds'
  BY <1>1, <1>2 DEF PInv, PromoHolds, IsRuledOn, StaysSame, history
<1>7. WriteHolds'
  BY <1>1, <1>3 DEF PInv, WriteHolds, Writing, Inspected, StaysSame
<1> QED BY <1>4, <1>5, <1>6, <1>7 DEF PInv

-----------------------------------------------------------------------------
(* The rest of the world                                                   *)

(* An edit shows at no path that has not been raced.                       *)
LEMMA EditKeeps ==
  ASSUME PInv, NEW p \in Path, NEW entry \in Entry \cup {NoFile},
         EditSource(p, entry) \/ EditWorktree(p, entry)
  PROVE  PInv'
<1>1. edits \in 0 .. MaxEdit /\ edits' = edits + 1 /\ edits < MaxEdit
  BY DEF EditSource, EditWorktree, PInv, Values
<1>2. edits' \in 0 .. MaxEdit
  BY <1>1, PromotionAssumption
<1>3. CASE EditSource(p, entry)
  <2>1. /\ source' = [source EXCEPT ![p] = entry] /\ raced' = raced \cup {p}
        /\ UNCHANGED <<db, finalized, worktree, plan, promo, job, wrote, undo, crashes, killed>>
    BY <1>3 DEF EditSource
  <2>2. source' \in Tree
    BY <2>1 DEF PInv, Values, Tree
  <2>3. Values'
    BY <1>2, <2>1, <2>2 DEF PInv, Values
  <2>4. JobHolds' /\ PromoHolds'
    BY <2>1 DEF PInv, JobHolds, PromoHolds, IsRuledOn, Mine
  <2>5. \A q \in Path \ raced' : source'[q] = source[q] /\ q \notin raced
    BY <2>1 DEF PInv, Values, Tree
  <2>6. plan.selected \subseteq Path
    BY DEF PInv, Values, Plan
  <2>7. WriteHolds'
    BY <2>1, <2>5, <2>6 DEF PInv, WriteHolds
  <2> QED BY <2>3, <2>4, <2>7 DEF PInv
<1>4. CASE EditWorktree(p, entry)
  <2>1. /\ worktree' = [worktree EXCEPT ![p] = entry]
        /\ UNCHANGED <<db, finalized, source, plan, promo, job, wrote, raced, undo, crashes, killed>>
    BY <1>4 DEF EditWorktree, history
  <2>2. worktree' \in Tree
    BY <2>1 DEF PInv, Values, Tree
  <2>3. Values'
    BY <1>2, <2>1, <2>2 DEF PInv, Values
  <2>4. JobHolds' /\ PromoHolds' /\ WriteHolds'
    BY <2>1 DEF PInv, JobHolds, PromoHolds, WriteHolds, IsRuledOn, Mine
  <2> QED BY <2>3, <2>4 DEF PInv
<1> QED BY <1>3, <1>4

(* The handler is gone, and what it held as applied with it.               *)
LEMMA CrashKeeps ==
  ASSUME PInv, Crash
  PROVE  PInv'
<1>1. /\ job' = Idle /\ killed' = (killed \/ job.step # "idle")
      /\ UNCHANGED <<db, trees, plan, promo, wrote, raced, undo>>
  BY DEF Crash
<1>2. crashes' \in 0 .. MaxCrash
  <2>1. crashes \in 0 .. MaxCrash /\ crashes < MaxCrash /\ crashes' = crashes + 1
    BY DEF Crash, PInv, Values
  <2> QED BY <2>1, PromotionAssumption
<1>3. Values'
  BY <1>1, <1>2, IdleJob DEF PInv, Values, trees
<1>4. JobHolds' /\ WriteHolds'
  BY <1>1, IdleJob DEF JobHolds, WriteHolds, Asking, Ruling, Spending, Writing, Undoing, Inspected
<1>5. PromoHolds'
  BY <1>1, IdleJob DEF PInv, PromoHolds, IsRuledOn
<1> QED BY <1>3, <1>4, <1>5 DEF PInv

LEMMA TimeKeeps ==
  ASSUME PInv, Tick \/ ListApprovals \/ UNCHANGED vars
  PROVE  PInv'
<1>1. StoreInv(db) /\ db \in StoreContent
  BY DEF PInv, Values, StoreInv
<1>2. DbGoes
  BY <1>1, Settles, SameMoves, ElapseInv, ElapseMoves DEF DbGoes, Tick, ListApprovals, vars
<1>3. UNCHANGED <<trees, plan, promo, job, wrote, raced, undo, killed, crashes>>
  BY DEF Tick, ListApprovals, vars, history, trees
<1>4. crashes' \in 0 .. MaxCrash
  BY <1>3 DEF PInv, Values
<1> QED BY <1>2, <1>3, <1>4, StoreMoves

LEMMA PromotionKeeps ==
  ASSUME PInv, [Next]_vars
  PROVE  PInv'
<1>1. ASSUME HandlerStep
      PROVE  PInv'
  BY <1>1, AskingKeeps, RegisterKeeps, EndsKeep, UnappliedKeeps, InspectKeeps, SpendingKeeps,
     StartKeeps, ApplyKeeps, AppliedKeeps, CompleteKeeps, ThrowKeeps, RollBackKeeps,
     RolledBackKeeps, FailApplyingKeeps DEF HandlerStep
<1> QED
  BY <1>1, RequestKeeps, PersonKeeps, UnappliedKeeps, TimeKeeps, EditKeeps, CrashKeeps
  DEF Next

LEMMA PromotionInvariance == Spec => []PInv
BY PromotionStarts, PromotionKeeps, PTL DEF Spec

(* The status of a promotion nobody works on tells what the daemon did to  *)
(* the source, unless it died at it: a failed one has taken back what it   *)
(* wrote or says it could not, a waiting or denied one has written nothing.*)
THEOREM OutcomesTellTheSource == Spec => []OutcomeTellsTheSource
<1>1. PInv => TypeOK
  BY DEF PInv, Values, StoreInv, TypeOK, PromoRow, JobState
<1>2. PInv => OutcomeTellsTheSource
  <2> SUFFICES ASSUME PInv
               PROVE  OutcomeTellsTheSource
    OBVIOUS
  <2>1. TypeOK
    BY <1>1
  <2>2. AtRest /\ promo.status = "completed" /\ undo = "none" =>
          \A p \in plan.selected : wrote[p] = "after"
    BY DEF AtRest, PInv, PromoHolds
  <2>3. promo.status = "failed" /\ promo.error # "rollback_failed" =>
          \A p \in Path : wrote[p] # "after"
    BY DEF PInv, PromoHolds
  <2>4. promo.status \in {"absent", "waiting_approval", "denied"} =>
          \A p \in Path : wrote[p] = "none"
    BY DEF PInv, PromoHolds
  <2> QED BY <2>1, <2>2, <2>3, <2>4 DEF OutcomeTellsTheSource
<1> QED BY <1>2, PromotionInvariance, PTL

(* No source file is written before the grant of this promotion's approval *)
(* is spent, not even to roll back, and nothing but what was selected.     *)
THEOREM WritesHaveLeave == Spec => []WrittenOnlyWithLeave
<1>1. PInv => WrittenOnlyWithLeave
  BY DEF PInv, PromoHolds, WrittenOnlyWithLeave
<1> QED BY <1>1, PromotionInvariance, PTL

(* The daemon replaces only the states of the plan: what others had made   *)
(* of the source before it looked is never lost to a promotion.            *)
THEOREM DriftIsKept == Spec => DriftIsNeverOverwritten
<1> DEFINE Kept == edits' = edits =>
             \A p \in Path : source'[p] # source[p] =>
               p \in raced \/ source[p] \in {plan.before[p], plan.after[p]}
<1>1. ASSUME PInv, [Next]_vars
      PROVE  Kept
  <2> SUFFICES ASSUME edits' = edits, NEW p \in Path, source'[p] # source[p], p \notin raced
               PROVE  source[p] \in {plan.before[p], plan.after[p]}
    OBVIOUS
  <2>1. plan.selected \in SUBSET Path /\ source \in Tree /\ edits \in Nat
    BY <1>1, PromotionAssumption DEF PInv, Values, Plan
  <2>2. ApplyEntry \/ RollBackEntry
    <3>1. ASSUME HandlerStep
          PROVE  ApplyEntry \/ RollBackEntry \/ UNCHANGED trees
      BY <3>1
      DEF HandlerStep, Capture, CaptureFails, Evaluate, Register, ResolveMissing, ResolveDenied,
          Inspect, InspectFails, Consume, ConsumeFails, StartApplying, AllApplied, Verify,
          VerifyFails, Complete, RecordFiles, Throw, RolledBack, RollBackFails, FailWaiting,
          FailApplying, FailApplyingAborted, EndDecision
    <3>2. ASSUME \/ \E selected \in SUBSET Path : Request(selected)
                 \/ \E a \in Approval, g \in Grant : Approve(a, g)
                 \/ \E a \in Approval : Deny(a)
                 \/ Reconcile \/ ListApprovals \/ Tick \/ Crash \/ UNCHANGED vars
          PROVE  UNCHANGED trees
      BY <3>2 DEF Request, Approve, Deny, Reconcile, ListApprovals, Tick, Crash, vars, trees
    <3>3. ASSUME NEW r \in Path, NEW entry, EditSource(r, entry) \/ EditWorktree(r, entry)
          PROVE  edits' = edits + 1
      BY <3>3 DEF EditSource, EditWorktree
    <3>4. source' # source /\ edits' # edits + 1
      BY <2>1
    <3> QED BY <1>1, <3>1, <3>2, <3>3, <3>4 DEF Next, trees
  <2>3. job.step \in Inspected /\ p \in plan.selected
    <3>1. CASE ApplyEntry
      <4> DEFINE q == First(plan.selected \ job.applied)
      <4>1. plan.selected \ job.applied # {}
        BY <1>1, <3>1 DEF ApplyEntry, PInv, WriteHolds
      <4>2. q \in plan.selected
        BY <2>1, <4>1, FirstOf
      <4>3. job.step = "apply" /\ p = q
        <5>1. source' = [source EXCEPT ![q] = plan.after[q]] /\ job.step = "apply"
          BY <3>1 DEF ApplyEntry
        <5> HIDE DEF q
        <5> QED BY <2>1, <5>1 DEF Tree
      <4> QED BY <4>2, <4>3 DEF Inspected, Writing
    <3>2. CASE RollBackEntry
      <4> DEFINE q == Last(job.applied)
      <4>1. job.applied # {} /\ job.applied \in SUBSET Path /\ job.applied \subseteq plan.selected
        BY <1>1, <2>1, <3>2 DEF RollBackEntry, PInv, WriteHolds
      <4>2. q \in plan.selected
        BY <4>1, LastOf
      <4>3. job.step = "rollback" /\ p = q
        <5>1. source' = [source EXCEPT ![q] = plan.before[q]] /\ job.step = "rollback"
          BY <3>2 DEF RollBackEntry
        <5> HIDE DEF q
        <5> QED BY <2>1, <5>1 DEF Tree
      <4> QED BY <4>2, <4>3 DEF Inspected
    <3> QED BY <2>2, <3>1, <3>2
  <2> QED BY <1>1, <2>3 DEF PInv, WriteHolds
<1>2. Spec => [][Kept]_vars
  BY <1>1, PromotionInvariance, PTL DEF Spec
<1> QED BY <1>2 DEF DriftIsNeverOverwritten
=============================================================================
