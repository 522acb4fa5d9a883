--------------------------- MODULE ApprovalBridge ---------------------------
(***************************************************************************)
(* The bridge between a hosted provider and the approval service.  The     *)
(* provider, a child process, asks by JSON-RPC whether it may act; the     *)
(* bridge evaluates the request, records it, waits for a person when the   *)
(* policy says so, and answers accept only with a grant it has consumed.   *)
(*                                                                         *)
(* A handler holds the event loop ("busy") from one await to the next, and *)
(* its only await is the pause between two polls.  While one holds it,     *)
(* time passes and the daemon may die, between any two transactions; in    *)
(* its pauses people decide, other holders of a token spend it, other      *)
(* requests are handled, and the provider exits, which raises the abort    *)
(* signal of its requests.                                                 *)
(***************************************************************************)
EXTENDS ApprovalStore, FiniteSets

CONSTANTS
  Rpc,       \* ids of the provider's requests
  NoRpc,     \* nobody
  Outsider,  \* the holder of a token who is not the bridge
  PollTtl,   \* how long a request waits for a person, in ticks
  MaxCrash   \* bound on the deaths of the daemon

ASSUME BridgeAssumption ==
  /\ NoRpc \notin Rpc
  /\ Outsider \notin Rpc \cup {NoRpc}
  /\ PollTtl \in Nat
  /\ MaxCrash \in Nat

VARIABLES
  db,       \* the committed content of the store
  row,      \* status and grant of the provider_action_requests
  call,     \* where the handler of each request stands, and what it knows
  busy,     \* the request whose handler holds the event loop
  host,     \* the provider process of each run
  spender,  \* history: who consumed each grant
  crashes   \* history: how often the daemon has died

vars == <<db, row, call, busy, host, spender, crashes>>

RowStatus == {"absent", "evaluating", "waiting_approval",
              "accepted", "declined", "rejected", "expired"}

UnfinishedStatus == {"evaluating", "waiting_approval"}

(* Steps that end the handler with an answer, and the status they record.  *)
Answer == [accept |-> "accepted", decline |-> "declined",
           reject |-> "rejected", expire |-> "expired"]

(* A handler that "threw" has answered with an error and recorded nothing; *)
(* one that is "lost" died with the daemon.                                *)
Step == {"none", "persist", "poll", "deny", "consume", "answered", "threw", "lost"}
        \cup DOMAIN Answer

Running == Step \ {"none", "answered", "threw", "lost"}

NoCall == [step |-> "none", run |-> NoRun, approval |-> NoApproval, grant |-> NoGrant,
           digest |-> NoDigest, left |-> 0, after |-> "reject"]

Init ==
  /\ db = EmptyStore
  /\ row = [q \in Rpc |-> [status |-> "absent", grant |-> NoGrant]]
  /\ call = [q \in Rpc |-> NoCall]
  /\ busy = NoRpc
  /\ host = [r \in Run |-> "none"]
  /\ spender = [g \in Grant |-> NoRpc]
  /\ crashes = 0

settled == ExpireDueApprovals(db)

(* What becomes of a request the policy denies: those whose dialect cannot *)
(* say decline are rejected.  The policy never asks about one of those.    *)
Refusal == {"decline", "reject"}

(* New rows have fresh ids, and it does not matter which.                  *)
FreshApproval(a) ==
  /\ db.approval[a].status = "absent"
  /\ a = CHOOSE b \in Approval : db.approval[b].status = "absent"

FreshGrant(g) ==
  /\ db.grant[g].status = "absent"
  /\ g = CHOOSE h \in Grant : db.grant[h].status = "absent"

(* What a handler that opens with an expiry leaves behind when it throws.  *)
Refreshed(d) == IF CanExpireDueApprovals(d) THEN ExpireDueApprovals(d) ELSE d

-----------------------------------------------------------------------------
(* The handler goes on at step s, or pauses, or is over.                   *)

Proceed(q, s) ==
  /\ call' = [call EXCEPT ![q].step = s, ![q].left = 0]
  /\ busy' = q

Pause(q) ==
  /\ call' = call
  /\ busy' = NoRpc

Throw(q) ==
  /\ call' = [call EXCEPT ![q].step = "threw", ![q].left = 0]
  /\ busy' = NoRpc

-----------------------------------------------------------------------------
(* handle: a request comes in and is evaluated.                            *)

MayReceive(q, r) ==
  /\ busy = NoRpc
  /\ host[r] = "up"
  /\ call[q].step = "none"

Evaluated(q, r, dg, a, g) ==
  /\ call' = [call EXCEPT ![q] =
       [NoCall EXCEPT !.step = "persist", !.run = r, !.digest = dg,
                      !.approval = a, !.grant = g]]
  /\ busy' = q
  /\ UNCHANGED <<row, host, spender, crashes>>

ReceiveAsk(q, r, dg, a) ==
  /\ MayReceive(q, r)
  /\ FreshApproval(a)
  /\ CanExpireDueApprovals(db)
  /\ CanCreateApproval(settled, a, r)
  /\ db' = CreateApproval(settled, a, r, dg)
  /\ Evaluated(q, r, dg, a, NoGrant)

ReceiveAllow(q, r, dg, g) ==
  /\ MayReceive(q, r)
  /\ FreshGrant(g)
  /\ CanExpireDueApprovals(db)
  /\ db' = InsertGrant(settled, g, NoApproval, r, dg)
  /\ Evaluated(q, r, dg, NoApproval, g)

ReceiveDenied(q, r, dg) ==
  /\ MayReceive(q, r)
  /\ CanExpireDueApprovals(db)
  /\ db' = settled
  /\ Evaluated(q, r, dg, NoApproval, NoGrant)

(* The shape of the request is wrong, or its method unknown.               *)
ReceiveMalformed(q, r) ==
  /\ MayReceive(q, r)
  /\ row' = [row EXCEPT ![q].status = "rejected"]
  /\ call' = [call EXCEPT ![q] = [NoCall EXCEPT !.step = "answered", !.run = r]]
  /\ UNCHANGED <<db, busy, host, spender, crashes>>

(* evaluate throws: the run's move to waiting meets an event of the same   *)
(* millisecond.                                                            *)
ReceiveThrows(q, r) ==
  /\ MayReceive(q, r)
  /\ CanExpireDueApprovals(db)
  /\ settled.run[r] \in {"running", "created"}
  /\ ~CanTransitionRun(settled, r, "waiting_approval")
  /\ db' = settled
  /\ call' = [call EXCEPT ![q] = [NoCall EXCEPT !.step = "threw", !.run = r]]
  /\ UNCHANGED <<row, busy, host, spender, crashes>>

(* createProviderActionRequest, and the branches after it.  A request the  *)
(* policy denies is refused.  One the provider offers no one-time accept   *)
(* for is denied on the spot, its approval or its grant with it.           *)
Persist(q) ==
  LET c == call[q]
      next == IF c.approval \in Approval
              THEN {[c EXCEPT !.step = "poll", !.left = PollTtl],
                    [c EXCEPT !.step = "deny", !.after = "decline"]}
              ELSE IF c.grant \in Grant
              THEN {[c EXCEPT !.step = "consume"],
                    [c EXCEPT !.step = "deny", !.after = "decline"]}
              ELSE {[c EXCEPT !.step = s] : s \in Refusal}
  IN /\ c.step = "persist"
     /\ row' = [row EXCEPT ![q].status =
                  IF c.approval \in Approval THEN "waiting_approval" ELSE "evaluating"]
     /\ \E n \in next : call' = [call EXCEPT ![q] = n]
     /\ UNCHANGED <<db, busy, host, spender, crashes>>

-----------------------------------------------------------------------------
(* waitForHumanDecision: one turn of the loop.                             *)

(* An approval somebody else has spent is still approved. *)
Turn_Bug(status) ==
  CASE status = "pending"                  -> "poll"
    [] status \in {"approved", "consumed"} -> "accept"
    [] status = "denied"                   -> "decline"
    [] OTHER                               -> "expire"

(* What the status of the approval means while the loop goes on.           *)
Turn(status) ==
  CASE status = "pending"  -> "poll"
    [] status = "approved" -> "consume"
    [] status = "denied"   -> "decline"
    [] status = "consumed" -> "reject"
    [] OTHER               -> "expire"

MayPoll(q) == call[q].step = "poll" /\ busy \in {q, NoRpc}

Late(q) == call[q].left = 0
Aborted(q) == host[call[q].run] # "up"

Poll(q) ==
  /\ MayPoll(q)
  /\ ~Late(q) /\ ~Aborted(q)
  /\ CanExpireDueApprovals(db)
  /\ db' = settled
  /\ LET s == Turn(settled.approval[call[q].approval].status) IN
     IF s = "poll" THEN Pause(q) ELSE Proceed(q, s)
  /\ UNCHANGED <<row, host, spender, crashes>>

(* Leaves the approval to whoever decides it later. *)
StopWaiting_Bug(q) ==
  /\ MayPoll(q)
  /\ Late(q) \/ Aborted(q)
  /\ CanExpireDueApprovals(db)
  /\ db' = settled
  /\ Proceed(q, IF Late(q) THEN "expire" ELSE "reject")
  /\ UNCHANGED <<row, host, spender, crashes>>

(* The deadline has passed, or else the host has stopped: an approval that *)
(* is still pending is denied, one that is not is left as it is.           *)
StopWaiting(q) ==
  LET over == IF Late(q) THEN "expire" ELSE "reject" IN
  /\ MayPoll(q)
  /\ Late(q) \/ Aborted(q)
  /\ CanExpireDueApprovals(db)
  /\ db' = settled
  /\ busy' = q
  /\ call' = [call EXCEPT ![q] =
       IF settled.approval[@.approval].status = "pending"
       THEN [@ EXCEPT !.step = "deny", !.after = over, !.left = 0]
       ELSE [@ EXCEPT !.step = over, !.left = 0]]
  /\ UNCHANGED <<row, host, spender, crashes>>

-----------------------------------------------------------------------------
(* The bridge denies a request itself.                                     *)

MayDeny(q) ==
  /\ CanExpireDueApprovals(db)
  /\ CanDecideApproval(settled, call[q].approval, "denied", NoGrant)

DenyApproval(q) ==
  /\ call[q].step = "deny"
  /\ call[q].approval \in Approval
  /\ IF MayDeny(q)
     THEN /\ db' = DecideApproval(settled, call[q].approval, "denied", NoGrant)
          /\ Proceed(q, call[q].after)
     ELSE db' = Refreshed(db) /\ Throw(q)
  /\ UNCHANGED <<row, host, spender, crashes>>

(* The store is called directly here: nothing else expires first.          *)
DropGrant(q) ==
  /\ call[q].step = "deny"
  /\ call[q].grant \in Grant
  /\ db' = ExpireExecutionGrant(db, call[q].grant)
  /\ Proceed(q, call[q].after)
  /\ UNCHANGED <<row, host, spender, crashes>>

-----------------------------------------------------------------------------
(* consume, of a grant the policy gave, and consumeApproved                *)

GrantFor(q) ==
  IF call[q].approval \in Approval THEN settled.approval[call[q].approval].grant
                                   ELSE call[q].grant

MayConsume(q) ==
  /\ CanExpireDueApprovals(db)
  /\ call[q].approval \in Approval =>
       settled.approval[call[q].approval].status = "approved"
  /\ GrantFor(q) \in Grant
  /\ CanConsumeGrant(settled, GrantFor(q), call[q].run, call[q].digest)

ConsumeGrant(q) ==
  /\ call[q].step = "consume"
  /\ MayConsume(q)
  /\ db' = ConsumeExecutionGrant(settled, GrantFor(q))
  /\ spender' = [spender EXCEPT ![GrantFor(q)] = q]
  /\ Proceed(q, "accept")
  /\ UNCHANGED <<row, host, crashes>>

(* Tries again until it succeeds. *)
ConsumeRefused_Bug(q) ==
  /\ call[q].step = "consume"
  /\ ~MayConsume(q)
  /\ db' = Refreshed(db)
  /\ UNCHANGED <<row, call, busy, host, spender, crashes>>

(* The grant has expired since the status was read, or the expiry meets an *)
(* event of the same millisecond.                                          *)
ConsumeRefused(q) ==
  /\ call[q].step = "consume"
  /\ ~MayConsume(q)
  /\ db' = IF CanExpireDueApprovals(db) /\ GrantFor(q) \in Grant
           THEN ExpireExecutionGrant(settled, GrantFor(q)) ELSE Refreshed(db)
  /\ Throw(q)
  /\ UNCHANGED <<row, host, spender, crashes>>

-----------------------------------------------------------------------------
(* accept, decline, reject, expire: resolveProviderActionRequest           *)

(* The grant that an accepted request must come with.                      *)
BoundAndConsumed(q, g) ==
  /\ g \in Grant
  /\ db.grant[g].run = call[q].run
  /\ db.grant[g].digest = call[q].digest
  /\ db.grant[g].approval = call[q].approval
  /\ db.grant[g].status = "consumed"

HeldGrant(q) ==
  IF call[q].approval \in Approval THEN db.approval[call[q].approval].grant
                                   ELSE call[q].grant

Resolve(q) ==
  LET s == call[q].step
      g == IF s = "accept" THEN HeldGrant(q) ELSE NoGrant
  IN /\ s \in DOMAIN Answer
     /\ row[q].status \in UnfinishedStatus
     /\ s = "accept" => BoundAndConsumed(q, g)
     /\ row' = [row EXCEPT ![q] = [status |-> Answer[s], grant |-> g]]
     /\ call' = [call EXCEPT ![q].step = "answered"]
     /\ busy' = NoRpc
     /\ UNCHANGED <<db, host, spender, crashes>>

-----------------------------------------------------------------------------
(* The rest of the daemon, and of the world                                *)

StartHost(r) ==
  /\ busy = NoRpc
  /\ db.run[r] = "absent"
  /\ db' = TransitionRun(CreateRun(db, r), r, "running")
  /\ host' = [host EXCEPT ![r] = "up"]
  /\ UNCHANGED <<row, call, busy, spender, crashes>>

(* A run interrupted by a restart goes on with a new process.              *)
ResumeHost(r) ==
  /\ busy = NoRpc
  /\ host[r] = "gone"
  /\ db.run[r] = "interrupted"
  /\ CanTransitionRun(db, r, "running")
  /\ db' = TransitionRun(db, r, "running")
  /\ host' = [host EXCEPT ![r] = "up"]
  /\ UNCHANGED <<row, call, busy, spender, crashes>>

(* The process has exited, by itself or stopped: its requests are aborted. *)
HostExits(r) ==
  /\ busy = NoRpc
  /\ host[r] = "up"
  /\ host' = [host EXCEPT ![r] = "gone"]
  /\ UNCHANGED <<db, row, call, busy, spender, crashes>>

(* The hosted run manager writes the final status of the run.  A failed    *)
(* run stands for a cancelled or completed one: none goes on.              *)
EndRun(r) ==
  /\ busy = NoRpc
  /\ host[r] = "gone"
  /\ CanTransitionRun(db, r, "failed")
  /\ db' = TransitionRun(db, r, "failed")
  /\ UNCHANGED <<row, call, busy, host, spender, crashes>>

Others == UNCHANGED <<row, call, busy, host, crashes>>

ListApprovals ==
  /\ busy = NoRpc
  /\ CanExpireDueApprovals(db)
  /\ db' = settled
  /\ UNCHANGED spender
  /\ Others

Approve(a, g) ==
  /\ busy = NoRpc
  /\ FreshGrant(g)
  /\ CanExpireDueApprovals(db)
  /\ CanDecideApproval(settled, a, "approved", g)
  /\ db' = DecideApproval(settled, a, "approved", g)
  /\ UNCHANGED spender
  /\ Others

Deny(a) ==
  /\ busy = NoRpc
  /\ CanExpireDueApprovals(db)
  /\ CanDecideApproval(settled, a, "denied", NoGrant)
  /\ db' = DecideApproval(settled, a, "denied", NoGrant)
  /\ UNCHANGED spender
  /\ Others

(* Who decided has the token of the grant, and may spend it elsewhere.     *)
ConsumeOutside(g) ==
  /\ busy = NoRpc
  /\ db.grant[g].approval \in Approval
  /\ CanExpireDueApprovals(db)
  /\ CanConsumeGrant(settled, g, settled.grant[g].run, settled.grant[g].digest)
  /\ db' = ConsumeExecutionGrant(settled, g)
  /\ spender' = [spender EXCEPT ![g] = Outsider]
  /\ Others

Tick ==
  /\ db' = Elapse(db)
  /\ call' = [q \in Rpc |-> [call[q] EXCEPT !.left = Less(@)]]
  /\ UNCHANGED <<row, busy, host, spender, crashes>>

(* Start-up leaves the requests for the approvals' readers to find. *)
Recovered_Bug(status) == status

(* recoverProviderActionRequests *)
Recovered(status) == IF status \in UnfinishedStatus THEN "rejected" ELSE status

(* The daemon dies and starts again: unfinished requests are rejected, the *)
(* sessions that had not ended interrupted.  Approvals and grants stay.    *)
Restart(hosted) ==
  /\ crashes < MaxCrash
  /\ {r \in Run : host[r] = "up"} \subseteq hosted
  /\ hosted \subseteq {r \in Run : host[r] # "none"}
  /\ CanRecoverProviderSessions(db, hosted)
  /\ db' = RecoverProviderSessions(db, hosted)
  /\ row' = [q \in Rpc |-> [row[q] EXCEPT !.status = Recovered(@)]]
  /\ call' = [q \in Rpc |->
                IF call[q].step \in Running
                THEN [call[q] EXCEPT !.step = "lost", !.left = 0] ELSE call[q]]
  /\ busy' = NoRpc
  /\ host' = [r \in Run |-> IF host[r] = "up" THEN "gone" ELSE host[r]]
  /\ crashes' = crashes + 1
  /\ UNCHANGED spender

-----------------------------------------------------------------------------
HandlerStep(q) ==
  \/ Persist(q) \/ Poll(q) \/ StopWaiting(q)
  \/ DenyApproval(q) \/ DropGrant(q)
  \/ ConsumeGrant(q) \/ ConsumeRefused(q) \/ Resolve(q)

Receive(q, r) ==
  \/ \E dg \in Digest, a \in Approval : ReceiveAsk(q, r, dg, a)
  \/ \E dg \in Digest, g \in Grant : ReceiveAllow(q, r, dg, g)
  \/ \E dg \in Digest : ReceiveDenied(q, r, dg)
  \/ ReceiveMalformed(q, r)
  \/ ReceiveThrows(q, r)

Next ==
  \/ \E q \in Rpc, r \in Run : Receive(q, r)
  \/ \E q \in Rpc : HandlerStep(q)
  \/ \E r \in Run : StartHost(r) \/ ResumeHost(r) \/ HostExits(r) \/ EndRun(r)
  \/ ListApprovals
  \/ \E a \in Approval, g \in Grant : Approve(a, g)
  \/ \E a \in Approval : Deny(a)
  \/ \E g \in Grant : ConsumeOutside(g)
  \/ Tick
  \/ \E hosted \in SUBSET Run : Restart(hosted)

Spec == Init /\ [][Next]_vars

(* A handler goes on and the loop polls on a timer; time passes.  Nobody   *)
(* has to ask, decide, spend a token, exit or crash.                       *)
Fairness == WF_vars(Tick) /\ \A q \in Rpc : WF_vars(HandlerStep(q))

FairSpec == Spec /\ Fairness

-----------------------------------------------------------------------------
(* Properties                                                              *)

TypeOK ==
  /\ db \in StoreContent
  /\ row \in [Rpc -> [status : RowStatus, grant : Grant \cup {NoGrant}]]
  /\ call \in [Rpc -> [step : Step, run : Run \cup {NoRun},
                       approval : Approval \cup {NoApproval},
                       grant : Grant \cup {NoGrant},
                       digest : Digest \cup {NoDigest},
                       left : 0 .. PollTtl, after : DOMAIN Answer]]
  /\ busy \in Rpc \cup {NoRpc}
  /\ host \in [Run -> {"none", "up", "gone"}]
  /\ spender \in [Grant -> Rpc \cup {NoRpc, Outsider}]
  /\ crashes \in 0 .. MaxCrash

(* An accepted request has spent a grant of its own, issued for its run,   *)
(* its action and its approval: not one that another request or the holder *)
(* of a token had spent before it.                                         *)
AcceptSpendsItsGrant ==
  \A q \in Rpc : row[q].status = "accepted" =>
    LET g == row[q].grant IN
    /\ g \in Grant
    /\ spender[g] = q
    /\ db.grant[g].status = "consumed"
    /\ db.grant[g].run = call[q].run
    /\ db.grant[g].digest = call[q].digest
    /\ db.grant[g].approval = call[q].approval

(* A row that waits has a handler that waits, or one that threw; a daemon  *)
(* that starts again leaves none waiting for an answer nobody will give.   *)
UnfinishedRowsHaveAHandler ==
  \A q \in Rpc : row[q].status \in UnfinishedStatus =>
    call[q].step \in Running \cup {"threw"}

(* Once a request is answered nobody is asked to decide it any more.       *)
NoOrphanApproval ==
  \A q \in Rpc :
    call[q].step = "answered" /\ call[q].approval \in Approval =>
      db.approval[call[q].approval].status # "pending"

(* ANSWERS.  Every variable keeps to its values, an accepted request has   *)
(* spent a grant of its own, and an answered one asks nobody any more.     *)
AnswersMatchApprovals == TypeOK /\ AcceptSpendsItsGrant /\ NoOrphanApproval

(* Telling the provider to go ahead is an act authorized by the approval   *)
(* of the request: the consumed grant stands for it until the answer, and  *)
(* lapses when the daemon dies first or somebody else has consumed it.     *)
ownerOf(a) == {q \in Rpc : call[q].approval = a}

stageOf == [a \in Approval |->
  CASE db.approval[a].status = "absent"   -> "new"
    [] db.approval[a].status = "pending"  -> "open"
    [] db.approval[a].status = "approved" -> "granted"
    [] db.approval[a].status = "consumed" ->
         IF \E q \in ownerOf(a) : row[q].status = "accepted" THEN "spent"
         ELSE IF \E q \in ownerOf(a) : call[q].step = "accept" THEN "granted"
         ELSE "closed"
    [] OTHER -> "closed"]

actsOf == [a \in Approval |->
  Cardinality({q \in ownerOf(a) : row[q].status = "accepted"})]

Authorized == INSTANCE Authorization WITH
  Request <- Approval, stage <- stageOf, acts <- actsOf

AcceptsOnlyWithLeave == Authorized!Spec

(* Every request is answered, decided or not, unless the daemon dies.      *)
EveryRequestAnswered ==
  \A q \in Rpc : call[q].step \in Running ~> call[q].step \notin Running
=============================================================================
