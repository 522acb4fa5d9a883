--------------------------- MODULE PatchPromotion ---------------------------
(***************************************************************************)
(* The promotion of what a hosted run changed in its worktree to the       *)
(* source: a plan is made of both trees, a person rules on it, and the     *)
(* handler of the decision writes the source file by file.                 *)
(*                                                                         *)
(* The handlers are synchronous ("job" is the one being served), but each  *)
(* is several transactions and system calls long: between any two of them  *)
(* other programs may edit either tree, time passes and the daemon may die.*)
(*                                                                         *)
(* A tree maps each path to the state of the entry there (kind, mode and   *)
(* content in one) or NoFile; directories are not modelled.  Paths are     *)
(* numbered in their sorted order.  A plan carries the time of its making, *)
(* so no two requests share a digest: it is identified with the approval.  *)
(***************************************************************************)
EXTENDS ApprovalStore

CONSTANTS
  TheRun,     \* the run, which is over
  N,          \* number of paths
  Entry,      \* states of an entry
  NoFile,     \* no entry
  Base,       \* both trees at the checkpoint
  MaxEdit,    \* bound on the edits of other programs
  MaxCrash    \* bound on the deaths of the daemon

Path == 1 .. N
Tree == [Path -> Entry \cup {NoFile}]

ASSUME PromotionAssumption ==
  /\ Run = {TheRun}
  /\ Digest = Approval
  /\ N \in Nat \ {0}
  /\ NoFile \notin Entry
  /\ Base \in Tree
  /\ MaxEdit \in Nat /\ MaxCrash \in Nat

VARIABLES
  db,         \* approvals and grants
  finalized,  \* the worktree when its diff was made
  source,     \* the source tree
  worktree,   \* the worktree
  plan,       \* the plan of the latest request
  promo,      \* the row of the promotion
  job,        \* the request being served
  edits,      \* how often other programs have written
  wrote,      \* history: what the daemon last wrote to each source path
  raced,      \* history: source paths others edited since the inspection
  undo,       \* history: whether the writes were rolled back
  crashes,    \* history: how often the daemon has died
  killed      \* history: it died at work

trees   == <<finalized, source, worktree, edits>>
history == <<wrote, raced, undo, crashes, killed>>
vars    == <<db, trees, plan, promo, job, history>>

PromoStatus == {"absent", "waiting_approval", "applying", "completed", "denied", "failed"}

PromoTransition ==
  {<<"waiting_approval", t>> : t \in {"applying", "denied", "failed"}}
  \cup {<<"applying", t>> : t \in {"completed", "failed"}}

Plan == [selected : SUBSET Path, sourceBefore : Tree, worktreeBefore : Tree,
         before : Tree, after : Tree]

Step == {"idle", "capture", "evaluate", "register", "resolve", "deny", "consume",
         "start", "apply", "verify", "complete", "record", "rollback",
         "fail_waiting", "fail_applying", "end"}

(* "applied" are the entries written; a handler rolls back what it holds.  *)
Idle == [step |-> "idle", approval |-> NoApproval, applied |-> {}, error |-> "none"]

Init ==
  /\ db = [EmptyStore EXCEPT !.run[TheRun] = "completed"]
  /\ finalized \in Tree \ {Base}
  /\ source = Base
  /\ worktree = finalized
  /\ plan = [selected |-> {}, sourceBefore |-> Base, worktreeBefore |-> Base,
             before |-> Base, after |-> Base]
  /\ promo = [status |-> "absent", approval |-> NoApproval, error |-> "none"]
  /\ job = Idle
  /\ edits = 0
  /\ wrote = [p \in Path |-> "none"]
  /\ raced = {}
  /\ undo = "none"
  /\ crashes = 0
  /\ killed = FALSE

settled == ExpireDueApprovals(db)

(* New rows have fresh ids, and it does not matter which. *)
FreshApproval(a) ==
  /\ db.approval[a].status = "absent"
  /\ a = CHOOSE b \in Approval : db.approval[b].status = "absent"

FreshGrant(g) ==
  /\ db.grant[g].status = "absent"
  /\ g = CHOOSE h \in Grant : db.grant[h].status = "absent"

(* What a read of the approvals leaves behind. *)
Refreshed(d) == IF CanExpireDueApprovals(d) THEN ExpireDueApprovals(d) ELSE d

Changed(tree) == {p \in Path : tree[p] # Base[p]}

Goto(step) == job' = [job EXCEPT !.step = step]

-----------------------------------------------------------------------------
(* POST /runs/:runId/promotions                                            *)

(* The source is the checkpoint's; the worktree differs from it in the     *)
(* paths it differed in when it was finalized, and they may be selected.   *)
Request(selected) ==
  /\ job.step = "idle"
  /\ promo.status = "absent"
  /\ selected # {}
  /\ selected \subseteq Changed(finalized)
  /\ source = Base
  /\ Changed(worktree) = Changed(finalized)
  /\ plan' = [plan EXCEPT !.selected = selected,
                          !.sourceBefore = source, !.worktreeBefore = worktree]
  /\ Goto("capture")
  /\ UNCHANGED <<db, trees, promo, history>>

Picked(tree) == [p \in Path |-> IF p \in plan.selected THEN tree[p] ELSE NoFile]

(* The two states of each selected entry are stored. *)
Capture ==
  /\ job.step = "capture"
  /\ plan' = [plan EXCEPT !.before = Picked(source), !.after = Picked(worktree)]
  /\ Goto("evaluate")
  /\ UNCHANGED <<db, trees, promo, history>>

(* An entry is no file, or cannot be stored exactly. *)
CaptureFails ==
  /\ job.step = "capture"
  /\ job' = Idle
  /\ UNCHANGED <<db, trees, plan, promo, history>>

(* The policy always asks. *)
Evaluate(a) ==
  /\ job.step = "evaluate"
  /\ FreshApproval(a)
  /\ CanExpireDueApprovals(db)
  /\ CanCreateApproval(settled, a, TheRun)
  /\ db' = CreateApproval(settled, a, TheRun, a)
  /\ job' = [job EXCEPT !.step = "register", !.approval = a]
  /\ UNCHANGED <<trees, plan, promo, history>>

(* createPatchPromotion, and the approval read again for the answer. *)
Register ==
  /\ job.step = "register"
  /\ db.approval[job.approval].status = "pending"
  /\ promo' = [status |-> "waiting_approval", approval |-> job.approval, error |-> "none"]
  /\ db' = Refreshed(db)
  /\ job' = Idle
  /\ UNCHANGED <<trees, plan, history>>

-----------------------------------------------------------------------------
(* POST /approvals/:approvalId/decision                                    *)

Approve(a, g) ==
  /\ job.step = "idle"
  /\ FreshGrant(g)
  /\ CanExpireDueApprovals(db)
  /\ CanDecideApproval(settled, a, "approved", g)
  /\ db' = DecideApproval(settled, a, "approved", g)
  /\ job' = [Idle EXCEPT !.step = "resolve", !.approval = a]
  /\ UNCHANGED <<trees, plan, promo, history>>

Deny(a) ==
  /\ job.step = "idle"
  /\ CanExpireDueApprovals(db)
  /\ CanDecideApproval(settled, a, "denied", NoGrant)
  /\ db' = DecideApproval(settled, a, "denied", NoGrant)
  /\ job' = [Idle EXCEPT !.step = "deny", !.approval = a]
  /\ UNCHANGED <<trees, plan, promo, history>>

Mine == promo.approval = job.approval

(* The trigger refuses what is no transition of a promotion. *)
CanTransition(to) == <<promo.status, to>> \in PromoTransition
Transition(to, error) == promo' = [promo EXCEPT !.status = to, !.error = error]

(* The daemon died between the approval and the promotion of a request.    *)
ResolveMissing ==
  /\ job.step \in {"resolve", "deny"}
  /\ ~Mine
  /\ Goto("end")
  /\ UNCHANGED <<db, trees, plan, promo, history>>

ResolveDenied ==
  /\ job.step = "deny"
  /\ Mine
  /\ CanTransition("denied")
  /\ Transition("denied", "denied")
  /\ Goto("end")
  /\ UNCHANGED <<db, trees, plan, history>>

-----------------------------------------------------------------------------
(* execute                                                                 *)

(* Looks at the worktree only. *)
AsPlanned_Bug ==
  /\ worktree = plan.worktreeBefore
  /\ Picked(worktree) = plan.after

(* Both trees are, whole and entry by entry, what the plan says. *)
AsPlanned ==
  /\ source = plan.sourceBefore
  /\ worktree = plan.worktreeBefore
  /\ Picked(source) = plan.before
  /\ Picked(worktree) = plan.after

Inspect ==
  /\ job.step = "resolve"
  /\ Mine
  /\ AsPlanned
  /\ raced' = {}
  /\ Goto("consume")
  /\ UNCHANGED <<db, trees, plan, promo, wrote, undo, crashes, killed>>

InspectFails ==
  /\ job.step = "resolve"
  /\ Mine
  /\ ~AsPlanned
  /\ Goto("fail_waiting")
  /\ UNCHANGED <<db, trees, plan, promo, history>>

MayConsume ==
  LET g == settled.approval[job.approval].grant IN
  /\ CanExpireDueApprovals(db)
  /\ g \in Grant
  /\ CanConsumeGrant(settled, g, TheRun, promo.approval)

Consume ==
  /\ job.step = "consume"
  /\ MayConsume
  /\ db' = ConsumeExecutionGrant(settled, settled.approval[job.approval].grant)
  /\ Goto("start")
  /\ UNCHANGED <<trees, plan, promo, history>>

(* Takes a spent or expired grant for a used one. *)
ConsumeFails_Bug ==
  /\ job.step = "consume"
  /\ ~MayConsume
  /\ db' = Refreshed(db)
  /\ Goto("start")
  /\ UNCHANGED <<trees, plan, promo, history>>

ConsumeFails ==
  /\ job.step = "consume"
  /\ ~MayConsume
  /\ db' = Refreshed(db)
  /\ Goto("fail_waiting")
  /\ UNCHANGED <<trees, plan, promo, history>>

StartApplying ==
  /\ job.step = "start"
  /\ CanTransition("applying")
  /\ Transition("applying", "none")
  /\ Goto("apply")
  /\ UNCHANGED <<db, trees, plan, history>>

First(s) == CHOOSE p \in s : \A q \in s : p <= q
Last(s)  == CHOOSE p \in s : \A q \in s : q <= p

(* Each entry is put in place by one rename or unlink, in order. *)
ApplyEntry ==
  /\ job.step = "apply"
  /\ job.applied # plan.selected
  /\ LET p == First(plan.selected \ job.applied) IN
       /\ source' = [source EXCEPT ![p] = plan.after[p]]
       /\ wrote' = [wrote EXCEPT ![p] = "after"]
       /\ job' = [job EXCEPT !.applied = @ \cup {p}]
  /\ UNCHANGED <<db, finalized, worktree, edits, plan, promo, raced, undo, crashes, killed>>

AllApplied ==
  /\ job.step = "apply"
  /\ job.applied = plan.selected
  /\ Goto("verify")
  /\ UNCHANGED <<db, trees, plan, promo, history>>

(* What was written is still there. *)
Verify ==
  /\ job.step = "verify"
  /\ Picked(source) = plan.after
  /\ Goto("complete")
  /\ UNCHANGED <<db, trees, plan, promo, history>>

VerifyFails ==
  /\ job.step = "verify"
  /\ Picked(source) # plan.after
  /\ Goto("rollback")
  /\ UNCHANGED <<db, trees, plan, promo, history>>

Complete ==
  /\ job.step = "complete"
  /\ CanTransition("completed")
  /\ Transition("completed", "none")
  /\ Goto("record")
  /\ UNCHANGED <<db, trees, plan, history>>

(* The file events and the evidence. *)
RecordFiles ==
  /\ job.step = "record"
  /\ Goto("end")
  /\ UNCHANGED <<db, trees, plan, promo, history>>

(* A read, a write or a transaction throws: what follows "applying" is     *)
(* rolled back, the record of a completed promotion included.              *)
Throw ==
  /\ job.step \in {"resolve", "consume", "start", "apply", "verify", "complete", "record"}
  /\ Mine
  /\ Goto(IF job.step \in {"resolve", "consume", "start"} THEN "fail_waiting" ELSE "rollback")
  /\ UNCHANGED <<db, trees, plan, promo, history>>

RollBackEntry ==
  /\ job.step = "rollback"
  /\ job.applied # {}
  /\ LET p == Last(job.applied) IN
       /\ source' = [source EXCEPT ![p] = plan.before[p]]
       /\ wrote' = [wrote EXCEPT ![p] = "before"]
       /\ job' = [job EXCEPT !.applied = @ \ {p}]
  /\ UNCHANGED <<db, finalized, worktree, edits, plan, promo, raced, undo, crashes, killed>>

RolledBack ==
  /\ job.step = "rollback"
  /\ job.applied = {}
  /\ undo' = "done"
  /\ job' = [job EXCEPT !.step = "fail_applying", !.error = "apply_failed"]
  /\ UNCHANGED <<db, trees, plan, promo, wrote, raced, crashes, killed>>

(* Reports the first error only. *)
RollBackFails_Bug ==
  /\ job.step = "rollback"
  /\ undo' = "failed"
  /\ job' = [job EXCEPT !.step = "fail_applying", !.error = "apply_failed"]
  /\ UNCHANGED <<db, trees, plan, promo, wrote, raced, crashes, killed>>

RollBackFails ==
  /\ job.step = "rollback"
  /\ undo' = "failed"
  /\ job' = [job EXCEPT !.step = "fail_applying", !.error = "rollback_failed"]
  /\ UNCHANGED <<db, trees, plan, promo, wrote, raced, crashes, killed>>

FailWaiting ==
  /\ job.step = "fail_waiting"
  /\ CanTransition("failed")
  /\ Transition("failed", "failed")
  /\ Goto("end")
  /\ UNCHANGED <<db, trees, plan, history>>

FailApplying ==
  /\ job.step = "fail_applying"
  /\ CanTransition("failed")
  /\ Transition("failed", job.error)
  /\ Goto("end")
  /\ UNCHANGED <<db, trees, plan, history>>

(* The promotion is completed: the trigger throws out of the handler. *)
FailApplyingAborted ==
  /\ job.step = "fail_applying"
  /\ ~CanTransition("failed")
  /\ job' = Idle
  /\ UNCHANGED <<db, trees, plan, promo, history>>

(* The handler ends with one more read of the approval. *)
EndDecision ==
  /\ job.step = "end"
  /\ db' = Refreshed(db)
  /\ job' = Idle
  /\ UNCHANGED <<trees, plan, promo, history>>

-----------------------------------------------------------------------------
(* The rest of the world                                                   *)

(* Looks at the approval as the last reader left it. *)
Reconcile_Bug ==
  /\ job.step = "idle"
  /\ promo.status = "waiting_approval"
  /\ IF db.approval[promo.approval].status = "expired"
     THEN Transition("failed", "expired") ELSE UNCHANGED promo
  /\ UNCHANGED <<db, trees, plan, job, history>>

(* A promotion is read: one whose approval has expired fails. *)
Reconcile ==
  /\ job.step = "idle"
  /\ promo.status = "waiting_approval"
  /\ CanExpireDueApprovals(db)
  /\ db' = settled
  /\ IF settled.approval[promo.approval].status = "expired"
     THEN Transition("failed", "expired") ELSE UNCHANGED promo
  /\ UNCHANGED <<trees, plan, job, history>>

ListApprovals ==
  /\ job.step = "idle"
  /\ CanExpireDueApprovals(db)
  /\ db' = settled
  /\ UNCHANGED <<trees, plan, promo, job, history>>

EditSource(p, entry) ==
  /\ edits < MaxEdit
  /\ source' = [source EXCEPT ![p] = entry]
  /\ edits' = edits + 1
  /\ raced' = raced \cup {p}
  /\ UNCHANGED <<db, finalized, worktree, plan, promo, job, wrote, undo, crashes, killed>>

EditWorktree(p, entry) ==
  /\ edits < MaxEdit
  /\ worktree' = [worktree EXCEPT ![p] = entry]
  /\ edits' = edits + 1
  /\ UNCHANGED <<db, finalized, source, plan, promo, job, history>>

Tick ==
  /\ db' = Elapse(db)
  /\ UNCHANGED <<trees, plan, promo, job, history>>

(* Start-up looks at no promotion. *)
Crash ==
  /\ crashes < MaxCrash
  /\ crashes' = crashes + 1
  /\ killed' = (killed \/ job.step # "idle")
  /\ job' = Idle
  /\ UNCHANGED <<db, trees, plan, promo, wrote, raced, undo>>

HandlerStep ==
  \/ Capture \/ CaptureFails \/ (\E a \in Approval : Evaluate(a)) \/ Register
  \/ ResolveMissing \/ ResolveDenied \/ Inspect \/ InspectFails
  \/ Consume \/ ConsumeFails \/ StartApplying \/ ApplyEntry \/ AllApplied
  \/ Verify \/ VerifyFails \/ Complete \/ RecordFiles \/ Throw
  \/ RollBackEntry \/ RolledBack \/ RollBackFails
  \/ FailWaiting \/ FailApplying \/ FailApplyingAborted \/ EndDecision

Next ==
  \/ \E selected \in SUBSET Path : Request(selected)
  \/ \E a \in Approval, g \in Grant : Approve(a, g)
  \/ \E a \in Approval : Deny(a)
  \/ HandlerStep
  \/ Reconcile
  \/ ListApprovals
  \/ \E p \in Path, entry \in Entry \cup {NoFile} : EditSource(p, entry)
  \/ \E p \in Path, entry \in Entry \cup {NoFile} : EditWorktree(p, entry)
  \/ Tick
  \/ Crash

Spec == Init /\ [][Next]_vars

(* A handler once started runs on, time passes, and somebody keeps looking *)
(* at the promotion.  Nobody has to ask, decide, edit or crash.            *)
Fairness == WF_vars(HandlerStep) /\ WF_vars(Tick) /\ WF_vars(Reconcile)

FairSpec == Spec /\ Fairness

-----------------------------------------------------------------------------
(* Properties                                                              *)

TypeOK ==
  /\ db \in StoreContent
  /\ finalized \in Tree /\ source \in Tree /\ worktree \in Tree
  /\ plan \in Plan
  /\ promo \in [status : PromoStatus, approval : Approval \cup {NoApproval},
                error : {"none", "denied", "expired", "failed", "apply_failed",
                         "rollback_failed"}]
  /\ job \in [step : Step, approval : Approval \cup {NoApproval},
              applied : SUBSET Path, error : {"none", "apply_failed", "rollback_failed"}]
  /\ edits \in 0 .. MaxEdit
  /\ wrote \in [Path -> {"none", "before", "after"}]
  /\ raced \in SUBSET Path
  /\ undo \in {"none", "done", "failed"}
  /\ crashes \in 0 .. MaxCrash
  /\ killed \in BOOLEAN

(* Every variable keeps to its values (TypeOK), and                        *)
(* the status of a promotion that nobody works on tells what the daemon    *)
(* did to the source, unless it died at it: a failed promotion has taken   *)
(* back what it wrote or says it could not, a waiting or denied one has    *)
(* written nothing, a completed one everything, or nothing if the record   *)
(* of it failed.                                                           *)
AtRest == job.step = "idle" /\ ~killed

OutcomeTellsTheSource ==
  /\ TypeOK
  /\ AtRest =>
       /\ promo.status = "completed" /\ undo = "none" =>
            \A p \in plan.selected : wrote[p] = "after"
       /\ promo.status = "failed" /\ promo.error # "rollback_failed" =>
            \A p \in Path : wrote[p] # "after"
       /\ promo.status \in {"absent", "waiting_approval", "denied"} =>
            \A p \in Path : wrote[p] = "none"

(* No source file is written, not even to roll back, before the grant of   *)
(* this promotion's approval is spent, and nothing but what was selected.  *)
WrittenOnlyWithLeave ==
  \A p \in Path : wrote[p] # "none" =>
    /\ promo.approval \in Approval
    /\ db.approval[promo.approval].status = "consumed"
    /\ p \in plan.selected

(* The daemon replaces only the states of the plan: an edit made before it *)
(* inspected the source is never lost to a promotion.                      *)
DriftIsNeverOverwritten ==
  [][edits' = edits =>
       \A p \in Path : source'[p] # source[p] =>
         p \in raced \/ source[p] \in {plan.before[p], plan.after[p]}]_vars

(* Every promotion ends, whatever is decided or not, unless the daemon     *)
(* died while it carried out a decision.                                   *)
Abandoned ==
  /\ killed
  /\ \/ promo.status = "applying"
     \/ promo.approval \in Approval /\ db.approval[promo.approval].status \in {"denied", "consumed"}

PromotionSettles ==
  promo.status # "absent" ~> promo.status \in {"completed", "denied", "failed"} \/ Abandoned

(* A completed promotion is in the source. *)
CompletedIsApplied ==
  promo.status = "completed" /\ AtRest => \A p \in plan.selected : wrote[p] = "after"

(* What is applied is the diff that was made when the worktree was         *)
(* finalized, the one a person reviews.                                    *)
AppliesTheReviewedDiff ==
  promo.status = "completed" => \A p \in plan.selected : plan.after[p] = finalized[p]
=============================================================================
