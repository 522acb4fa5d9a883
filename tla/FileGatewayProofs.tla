------------------------- MODULE FileGatewayProofs --------------------------
(***************************************************************************)
(* Proofs about the file gateway, for every number of runs, approvals,     *)
(* grants and contents, every lifetime and every number of deaths of the   *)
(* daemon.                                                                 *)
(*                                                                         *)
(* The invariant says what the handler at work may count on (JobHolds),    *)
(* what the records of one request amount to (RequestHolds) and what one   *)
(* run and its client amount to (RunHolds).  The hard part is that a       *)
(* client which has concluded "failed" or "cancelled" is never overtaken   *)
(* by a deletion: it concludes so only from a request that no handler may  *)
(* execute any more, and it has no second one.                             *)
(***************************************************************************)
EXTENDS FileGateway, ApprovalStoreProofs

-----------------------------------------------------------------------------
(* The invariant                                                           *)

JobState == [step : Step, run : Run \cup {NoRun}, approval : Approval \cup {NoApproval}]

Values ==
  /\ file \in Digest \cup {NoFile}
  /\ action \in [Approval -> ActionStatus]
  /\ job \in JobState
  /\ cli \in [Run -> CliState]
  /\ deleted \in [Approval -> Digest \cup {NoFile}]
  /\ crashes \in 0 .. MaxCrash

Ruled == {"approved", "consumed", "denied", "expired"}
Executing == {"inspect", "unlink", "complete", "fail"}
Deciding == {"deny", "execute"} \cup Executing
Deleting == {"execute", "inspect", "unlink"}
BeforeRequest == {"absent", "starting", "requesting"}
GaveUp == {"failed", "cancelled"}

(* What the handler at work may count on.                                  *)
JobHolds ==
  /\ job.step \in {"idle", "launch"} => job.approval = NoApproval
  /\ job.step = "launch" => job.run \in Run /\ cli[job.run] = "starting"
  /\ job.step = "register" =>
       /\ job.run \in Run
       /\ job.approval \in Approval
       /\ cli[job.run] = "requesting"
       /\ db.approval[job.approval].run = job.run
       /\ db.approval[job.approval].status = "pending"
  /\ job.step \in Deciding =>
       /\ job.approval \in Approval
       /\ db.approval[job.approval].status \in Ruled
       /\ deleted[job.approval] # NoFile <=> job.step = "complete"
  /\ job.step \in Executing => action[job.approval] = "executing"
  /\ job.step = "unlink" => db.approval[job.approval].status = "consumed"

(* What the records of a request amount to.                                *)
RequestHolds(a) ==
  /\ db.approval[a].status = "absent" => db.approval[a].run = NoRun
  /\ deleted[a] # NoFile => db.approval[a].status = "consumed"
  /\ action[a] = "completed" => deleted[a] # NoFile
  /\ action[a] \in {"absent", "waiting_approval", "denied", "failed"} => deleted[a] = NoFile
  /\ action[a] = "executing" /\ crashes = 0 => job.approval = a /\ job.step \in Executing

(* Nothing has been deleted for a, and nothing will be.                    *)
NeverDeletes(a) ==
  /\ deleted[a] = NoFile
  /\ db.approval[a].status \in Ruled
  /\ job.approval = a => job.step \notin Deleting

(* What a run and its client amount to: no request before the client has   *)
(* sent one, one at most, and none that may still be executed once the     *)
(* client or the run has given up.                                         *)
RunHolds(r) ==
  /\ db.run[r] = "absent" => cli[r] = "absent"
  /\ cli[r] \in BeforeRequest =>
       \A a \in RequestOf(r) : job.step = "register" /\ job.approval = a
  /\ \A a, b \in RequestOf(r) : a = b
  /\ cli[r] \in GaveUp \/ db.run[r] \in GaveUp => \A a \in RequestOf(r) : NeverDeletes(a)

GInv ==
  /\ StoreInv(db)
  /\ Values
  /\ JobHolds
  /\ \A a \in Approval : RequestHolds(a)
  /\ \A r \in Run : RunHolds(r)

-----------------------------------------------------------------------------
(* What the transactions of this gateway do to the rows and the runs.      *)

(* Statuses move forward, and no row changes the run it is about.          *)
Rows(d, e) ==
  /\ Moves(d, e)
  /\ \A a \in Approval : e.approval[a].run = d.approval[a].run

Serves(d, e) == StoreInv(e) /\ Rows(d, e) /\ NoRunEnds(d, e)

LEMMA SameServes ==
  ASSUME NEW d, StoreInv(d)
  PROVE  Serves(d, d)
BY SameMoves DEF Serves, Rows, NoRunEnds

LEMMA ExpireServes ==
  ASSUME NEW d, StoreInv(d)
  PROVE  Serves(d, ExpireDueApprovals(d))
<1>1. d \in StoreContent
  BY DEF StoreInv
<1>2. \A a \in Approval : ExpireDueApprovals(d).approval[a].run = d.approval[a].run
  BY <1>1, ExpireRows DEF KeepsColumns
<1> QED
  BY <1>1, <1>2, ExpireInv, ExpireMoves, ExpireEndsNoRun DEF Serves, Rows

LEMMA RefreshedServes ==
  ASSUME NEW d, StoreInv(d)
  PROVE  Serves(d, Refreshed(d))
BY SameServes, ExpireServes DEF Refreshed

(* A handler: an expiry, then one transaction.                             *)
LEMMA HandlerServes ==
  ASSUME NEW d, StoreInv(d), NEW e, Serves(ExpireDueApprovals(d), e)
  PROVE  Serves(d, e)
<1> DEFINE s == ExpireDueApprovals(d)
<1>1. Serves(d, s) /\ Serves(s, e)
  BY ExpireServes
<1>2. Moves(d, e)
  BY HandlerMoves DEF Serves, Rows, StoreInv
<1> HIDE DEF s
<1> QED
  BY <1>1, <1>2, NoRunEndsChain DEF Serves, Rows

LEMMA DecideServes ==
  ASSUME NEW d, StoreInv(d), NEW a \in Approval, NEW g \in Grant \cup {NoGrant},
         NEW decision \in {"approved", "denied"},
         decision = "approved" => g \in Grant /\ d.grant[g].status = "absent",
         decision = "denied" => g = NoGrant,
         CanDecideApproval(d, a, decision, g)
  PROVE  /\ Serves(d, DecideApproval(d, a, decision, g))
         /\ DecideApproval(d, a, decision, g).approval[a].status = decision
<1> DEFINE e == DecideApproval(d, a, decision, g)
<1>1. /\ d \in StoreContent
      /\ d.approval[a].status = "pending"
      /\ d.approval[a].run \in Run
  BY DEF CanDecideApproval, StoreInv, NotNull
<1>2. RuledOn(d, e, a, decision, g)
  BY <1>1, DecideRows
<1>3. StoreInv(e) /\ Moves(d, e) /\ NoRunEnds(d, e)
  BY <1>1, DecideInv, DecideMoves, DecideEndsNoRun
<1> HIDE DEF e
<1>4. Serves(d, e) /\ e.approval[a].status = decision
  BY <1>2, <1>3 DEF Serves, Rows, RuledOn
<1> QED
  BY <1>4 DEF e

LEMMA ConsumeServes ==
  ASSUME NEW d, StoreInv(d), NEW g \in Grant, d.grant[g].status = "active"
  PROVE  Serves(d, ConsumeExecutionGrant(d, g))
<1>1. d \in StoreContent
  BY DEF StoreInv
<1>2. \A a \in Approval : ConsumeExecutionGrant(d, g).approval[a].run = d.approval[a].run
  BY <1>1, ConsumeRows DEF KeepsColumns
<1> QED
  BY <1>1, <1>2, ConsumeInv, ConsumeMoves, OthersEndNoRun DEF Serves, Rows

LEMMA ElapseServes ==
  ASSUME NEW d, StoreInv(d)
  PROVE  /\ Serves(d, Elapse(d))
         /\ \A a \in Approval : Elapse(d).approval[a].status = d.approval[a].status
<1> DEFINE e == Elapse(d)
<1>1. d \in StoreContent /\ StoreInv(e) /\ Moves(d, e) /\ NoRunEnds(d, e)
  BY ElapseInv, ElapseMoves, OthersEndNoRun DEF StoreInv
<1>2. \A a \in Approval :
        /\ d.approval[a] \in ApprovalRow
        /\ e.approval[a] = [d.approval[a] EXCEPT !.left = Less(d.approval[a].left)]
  BY <1>1 DEF Elapse, StoreContent
<1> HIDE DEF e
<1>3. \A a \in Approval : /\ e.approval[a].run = d.approval[a].run
                          /\ e.approval[a].status = d.approval[a].status
  BY <1>2 DEF ApprovalRow
<1>4. /\ Serves(d, e)
      /\ \A a \in Approval : e.approval[a].status = d.approval[a].status
  BY <1>1, <1>3 DEF Serves, Rows
<1> QED
  BY <1>4 DEF e

LEMMA Settled ==
  ASSUME GInv
  PROVE  /\ db \in StoreContent /\ settled \in StoreContent
         /\ StoreInv(settled)
         /\ Serves(db, db) /\ Serves(db, settled) /\ Serves(db, Refreshed(db))
BY SameServes, ExpireServes, RefreshedServes DEF GInv, settled, Serves, StoreInv

-----------------------------------------------------------------------------
(* A request nobody touches, and a run whose client and requests nobody    *)
(* touches, stay as they are when the rows move on.                        *)

LEMMA RequestKeeps ==
  ASSUME GInv, Rows(db, db'), NEW a \in Approval,
         deleted'[a] = deleted[a], action'[a] = action[a],
         crashes' = 0 => /\ crashes = 0
                         /\ job.approval = a /\ job.step \in Executing =>
                              job'.approval = a /\ job'.step \in Executing
  PROVE  RequestHolds(a)'
<1>1. RequestHolds(a) /\ db'.approval[a].run = db.approval[a].run
  BY DEF GInv, Rows
<1>2. /\ db'.approval[a].status = "absent" => db.approval[a].status = "absent"
      /\ db.approval[a].status = "consumed" => db'.approval[a].status = "consumed"
  BY DEF Rows, Moves, RowMove
<1> QED
  BY <1>1, <1>2 DEF RequestHolds

LEMMA NeverKeeps ==
  ASSUME Rows(db, db'), NEW a \in Approval, NeverDeletes(a),
         deleted'[a] # deleted[a] => job.approval = a /\ job.step = "unlink",
         job'.approval = a /\ job'.step \in Deleting =>
           \/ job.approval = a /\ job.step \in Deleting
           \/ db.approval[a].status = "pending"
  PROVE  NeverDeletes(a)'
<1>1. db'.approval[a].status \in Ruled
  BY DEF NeverDeletes, Ruled, Rows, Moves, RowMove
<1> QED
  BY <1>1 DEF NeverDeletes, Deleting, Ruled

(* The handler at work deletes nothing but on its own behalf, and takes on *)
(* no request that has been ruled on.                                      *)
Careful ==
  \A a \in Approval :
    /\ deleted'[a] # deleted[a] => job.approval = a /\ job.step = "unlink"
    /\ job'.approval = a /\ job'.step \in Deleting =>
         \/ job.approval = a /\ job.step \in Deleting
         \/ db.approval[a].status = "pending"

LEMMA RunKeeps ==
  ASSUME GInv, Rows(db, db'), Careful, NEW r \in Run,
         db'.run[r] = "absent" => cli'[r] = "absent",
         cli'[r] \in BeforeRequest =>
           /\ cli[r] \in BeforeRequest
           /\ job.step = "register" /\ job.run = r => job' = job,
         cli'[r] \in GaveUp \/ db'.run[r] \in GaveUp =>
           \/ cli[r] \in GaveUp \/ db.run[r] \in GaveUp
           \/ \A a \in RequestOf(r) : NeverDeletes(a)'
  PROVE  RunHolds(r)'
<1>1. RequestOf(r)' = RequestOf(r)
  BY DEF RequestOf, Rows
<1>2. RunHolds(r)
  BY DEF GInv
<1>3. ASSUME cli'[r] \in BeforeRequest, NEW a \in RequestOf(r)
      PROVE  job'.step = "register" /\ job'.approval = a
  <2>1. job.step = "register" /\ job.approval = a
    BY <1>2, <1>3 DEF RunHolds
  <2>2. job.run = r
    BY <1>3, <2>1 DEF GInv, JobHolds, RequestOf
  <2> QED
    BY <1>3, <2>1, <2>2
<1>4. ASSUME cli'[r] \in GaveUp \/ db'.run[r] \in GaveUp, NEW a \in RequestOf(r)
      PROVE  NeverDeletes(a)'
  <2>1. a \in Approval /\ (NeverDeletes(a) \/ NeverDeletes(a)')
    BY <1>2, <1>4 DEF RunHolds, RequestOf
  <2> QED
    BY <2>1, NeverKeeps DEF Careful
<1>5. \A a, b \in RequestOf(r) : a = b
  BY <1>2 DEF RunHolds
<1> QED
  BY <1>1, <1>3, <1>4, <1>5 DEF RunHolds

(* A step that leaves the clients alone, and no run created or ended.      *)
LEMMA RunsKeep ==
  ASSUME GInv, Rows(db, db'), NoRunEnds(db, db'), Careful, cli' = cli,
         job.step = "register" => job' = job
  PROVE  \A r \in Run : RunHolds(r)'
<1> SUFFICES ASSUME NEW r \in Run
             PROVE  RunHolds(r)'
  OBVIOUS
<1>1. db'.run[r] = "absent" => cli'[r] = "absent"
  BY DEF NoRunEnds, GInv, RunHolds
<1>2. db'.run[r] \in GaveUp => db.run[r] \in GaveUp
  BY DEF NoRunEnds, GaveUp, TerminalRunStatus
<1> QED
  BY <1>1, <1>2, RunKeeps

-----------------------------------------------------------------------------
(* The steps                                                               *)

LEMMA GatewayStarts == Init => GInv
<1> SUFFICES ASSUME Init
             PROVE  GInv
  OBVIOUS
<1>1. StoreInv(db)
  BY EmptyInv DEF Init
<1>2. /\ \A r \in Run : db.run[r] = "absent"
      /\ \A a \in Approval : db.approval[a].status = "absent" /\ db.approval[a].run = NoRun
  BY DEF Init, EmptyStore
<1>3. job.step = "idle" /\ job.approval = NoApproval /\ job \in JobState
  BY DEF Init, Idle, JobState, Step
<1>4. Values
  BY <1>3, GatewayAssumption DEF Init, Values, ActionStatus, CliState
<1>5. JobHolds
  BY <1>3 DEF JobHolds, Deciding, Executing
<1>6. ASSUME NEW a \in Approval PROVE RequestHolds(a)
  BY <1>2 DEF Init, RequestHolds
<1>7. ASSUME NEW r \in Run PROVE RunHolds(r)
  BY <1>2, NullAssumption DEF Init, RunHolds, RequestOf, GaveUp
<1> QED
  BY <1>1, <1>4, <1>5, <1>6, <1>7 DEF GInv

(* The jobs a step can leave behind.                                       *)
LEMMA Jobs ==
  /\ Idle \in JobState /\ Idle.step = "idle" /\ Idle.approval = NoApproval
  /\ \A s \in Step, r \in Run \cup {NoRun}, a \in Approval \cup {NoApproval} :
       LET j == Job(s, r, a)
       IN  j \in JobState /\ j.step = s /\ j.run = r /\ j.approval = a
  /\ \A s \in Step, j \in JobState :
       LET k == [j EXCEPT !.step = s]
       IN  k \in JobState /\ k.step = s /\ k.run = j.run /\ k.approval = j.approval
<1>1. Idle \in JobState /\ Idle.step = "idle" /\ Idle.approval = NoApproval
  BY DEF Idle, JobState, Step
<1>2. ASSUME NEW s \in Step, NEW r \in Run \cup {NoRun}, NEW a \in Approval \cup {NoApproval}
      PROVE  LET j == Job(s, r, a)
             IN  j \in JobState /\ j.step = s /\ j.run = r /\ j.approval = a
  BY DEF Job, JobState
<1>3. ASSUME NEW s \in Step, NEW j \in JobState
      PROVE  LET k == [j EXCEPT !.step = s]
             IN  k \in JobState /\ k.step = s /\ k.run = j.run /\ k.approval = j.approval
  BY DEF JobState
<1> QED
  BY <1>1, <1>2, <1>3

(* Back to idle, or on to a job of its own, with nothing recorded.         *)
LEMMA CreateCliRunKeeps ==
  ASSUME GInv, NEW r \in Run, CreateCliRun(r)
  PROVE  GInv'
<1>1. /\ job.step = "idle" /\ job.approval = NoApproval
      /\ db.run[r] = "absent"
      /\ db' = CreateRun(db, r)
      /\ cli' = [cli EXCEPT ![r] = "starting"]
      /\ UNCHANGED <<file, action, deleted, crashes>>
  BY DEF CreateCliRun, GInv, JobHolds
<1>2. /\ job' \in JobState /\ job'.step = "launch" /\ job'.run = r
      /\ job'.approval = NoApproval
  <2>1. job' = Job("launch", r, NoApproval)
    BY DEF CreateCliRun
  <2> QED
    BY <2>1, Jobs DEF Step
<1>3. StoreInv(db')
  BY <1>1, RunsOnlyInv DEF GInv
<1>4. /\ db'.approval = db.approval
      /\ \A q \in Run : db'.run[q] = IF q = r THEN "created" ELSE db.run[q]
  BY <1>1 DEF GInv, StoreInv, StoreContent, CreateRun
<1>5. Rows(db, db')
  BY <1>4, SameMoves DEF Rows
<1>6. cli \in [Run -> CliState] /\ cli[r] = "absent"
  BY <1>1 DEF GInv, Values, RunHolds
<1>7. Values'
  BY <1>1, <1>2, <1>6 DEF GInv, Values, CliState
<1>8. JobHolds'
  BY <1>1, <1>2, <1>6 DEF JobHolds, Deciding, Executing
<1>9. ASSUME NEW a \in Approval PROVE RequestHolds(a)'
  BY <1>1, <1>5, RequestKeeps DEF Executing
<1>10. Careful
  BY <1>1, <1>2, NullAssumption DEF Careful
<1>11. ASSUME NEW q \in Run PROVE RunHolds(q)'
  <2>1. /\ db'.run[q] = "absent" => cli'[q] = "absent"
        /\ cli'[q] \in BeforeRequest => cli[q] \in BeforeRequest
        /\ cli'[q] \in GaveUp \/ db'.run[q] \in GaveUp =>
             cli[q] \in GaveUp \/ db.run[q] \in GaveUp
    BY <1>1, <1>4, <1>6 DEF GInv, RunHolds, BeforeRequest, GaveUp
  <2> QED
    BY <1>1, <1>5, <1>10, <2>1, RunKeeps
<1> QED
  BY <1>3, <1>7, <1>8, <1>9, <1>11 DEF GInv

LEMMA LaunchCliRunKeeps ==
  ASSUME GInv, LaunchCliRun
  PROVE  GInv'
<1> DEFINE r == job.run
<1>1. /\ job.step = "launch" /\ job.approval = NoApproval
      /\ r \in Run /\ cli[r] = "starting"
      /\ db' = TransitionRun(db, r, "running")
      /\ cli' = [cli EXCEPT ![r] = "requesting"]
      /\ UNCHANGED <<file, action, deleted, crashes>>
  BY DEF LaunchCliRun, GInv, JobHolds
<1>2. job' \in JobState /\ job'.step = "idle" /\ job'.approval = NoApproval
  BY Jobs DEF LaunchCliRun
<1> HIDE DEF r
<1>3. StoreInv(db')
  BY <1>1, RunsOnlyInv DEF GInv, RunStatus
<1>4. /\ db'.approval = db.approval
      /\ \A q \in Run : db'.run[q] = IF q = r THEN "running" ELSE db.run[q]
  BY <1>1 DEF GInv, StoreInv, StoreContent, TransitionRun
<1>5. Rows(db, db')
  BY <1>4, SameMoves DEF Rows
<1>6. cli \in [Run -> CliState]
  BY DEF GInv, Values
<1>7. Values'
  BY <1>1, <1>2, <1>6 DEF GInv, Values, CliState
<1>8. JobHolds'
  BY <1>2 DEF JobHolds, Deciding, Executing
<1>9. ASSUME NEW a \in Approval PROVE RequestHolds(a)'
  BY <1>1, <1>5, RequestKeeps DEF Executing
<1>10. Careful
  BY <1>1, <1>2, NullAssumption DEF Careful
<1>11. ASSUME NEW q \in Run PROVE RunHolds(q)'
  <2>1. /\ db'.run[q] = "absent" => cli'[q] = "absent"
        /\ cli'[q] \in BeforeRequest => cli[q] \in BeforeRequest
        /\ cli'[q] \in GaveUp \/ db'.run[q] \in GaveUp =>
             cli[q] \in GaveUp \/ db.run[q] \in GaveUp
    BY <1>1, <1>4, <1>6 DEF GInv, RunHolds, BeforeRequest, GaveUp
  <2> QED
    BY <1>1, <1>5, <1>10, <2>1, RunKeeps
<1> QED
  BY <1>3, <1>7, <1>8, <1>9, <1>11 DEF GInv

(* The one request of a run is made: its run is running and its client has *)
(* made none before.                                                       *)
LEMMA RequestDeleteKeeps ==
  ASSUME GInv, NEW r \in Run, NEW a \in Approval, RequestDelete(r, a)
  PROVE  GInv'
<1>1. /\ job.step = "idle" /\ job.approval = NoApproval
      /\ cli[r] = "requesting"
      /\ db.run[r] = "running"
      /\ file \in Digest
      /\ CanCreateApproval(settled, a, r)
      /\ settled.approval[a].status = "absent"
      /\ db' = CreateApproval(settled, a, r, file)
      /\ UNCHANGED <<file, action, cli, deleted, crashes>>
  BY DEF RequestDelete, Restorable, CanCreateApproval, GInv, JobHolds
<1>2. /\ job' \in JobState /\ job'.step = "register" /\ job'.run = r /\ job'.approval = a
  <2>1. job' = Job("register", r, a)
    BY DEF RequestDelete
  <2> QED
    BY <2>1, Jobs DEF Step
<1>3. settled \in StoreContent /\ StoreInv(settled) /\ Serves(db, settled)
  BY Settled
<1>4. StoreInv(db') /\ Moves(settled, db') /\ NoRunEnds(settled, db')
  BY <1>1, <1>3, CreateApprovalInv, CreateApprovalMoves, CreateApprovalEndsNoRun
<1>5. Moves(db, db') /\ NoRunEnds(db, db')
  <2>1. Moves(db, db')
    BY <1>3, <1>4, HandlerMoves DEF settled, GInv, StoreInv
  <2> QED
    BY <1>3, <1>4, <2>1, NoRunEndsChain DEF Serves
<1>6. /\ db'.approval[a].status = "pending" /\ db'.approval[a].run = r
      /\ \A b \in Approval \ {a} : db'.approval[b].run = db.approval[b].run
      /\ db.approval[a].status = "absent"
  <2>1. /\ db'.approval[a] = [status |-> "pending", run |-> r, digest |-> file,
                              left |-> ApprovalTtl, grant |-> NoGrant]
        /\ \A b \in Approval \ {a} : db'.approval[b] = settled.approval[b]
    BY <1>1, <1>3, CreateApprovalRows
  <2>2. db'.approval[a].status = "pending" /\ db'.approval[a].run = r
    BY <2>1
  <2> QED
    BY <1>1, <1>3, <2>1, <2>2 DEF Serves, Rows, Moves, RowMove
<1>7. Values'
  BY <1>1, <1>2 DEF GInv, Values
<1>8. JobHolds'
  BY <1>1, <1>2, <1>6 DEF JobHolds, Deciding, Executing
<1>9. ASSUME NEW b \in Approval PROVE RequestHolds(b)'
  <2>1. RequestHolds(b)
    BY DEF GInv
  <2>2. /\ db'.approval[b].status = "absent" =>
             db.approval[b].status = "absent" /\ db'.approval[b].run = db.approval[b].run
        /\ db.approval[b].status = "consumed" => db'.approval[b].status = "consumed"
    BY <1>5, <1>6 DEF Moves, RowMove
  <2> QED
    BY <1>1, <2>1, <2>2 DEF RequestHolds, Executing
<1>10. RequestOf(r) = {} /\ RequestOf(r)' = {a}
  <2>1. RequestOf(r) = {}
    BY <1>1 DEF GInv, RunHolds, BeforeRequest
  <2> QED
    BY <1>6, <2>1 DEF RequestOf
<1>11. ASSUME NEW q \in Run, q # r PROVE RequestOf(q)' = RequestOf(q)
  <2>1. db.approval[a].run # q
    BY <1>6, NullAssumption DEF GInv, RequestHolds
  <2> QED
    BY <1>6, <1>11, <2>1 DEF RequestOf
<1>12. ASSUME NEW q \in Run PROVE RunHolds(q)'
  <2>1. /\ db'.run[q] = "absent" => cli'[q] = "absent"
        /\ db'.run[q] \in GaveUp => db.run[q] \in GaveUp
    BY <1>1, <1>5 DEF NoRunEnds, GInv, RunHolds, GaveUp, TerminalRunStatus
  <2>2. CASE q = r
    BY <1>1, <1>2, <1>10, <2>1, <2>2 DEF RunHolds, GaveUp
  <2>3. CASE q # r
    <3>1. RunHolds(q)
      BY DEF GInv
    <3>2. \A b \in RequestOf(q) : NeverDeletes(b) => NeverDeletes(b)'
      <4>1. ASSUME NEW b \in RequestOf(q), NeverDeletes(b)
            PROVE  NeverDeletes(b)'
        <5>1. b \in Approval /\ db'.approval[b].status \in Ruled
          BY <1>5, <4>1 DEF RequestOf, NeverDeletes, Ruled, Moves, RowMove
        <5> QED
          BY <1>1, <1>2, <4>1, <5>1 DEF NeverDeletes, Deleting
      <4> QED
        BY <4>1
    <3> QED
      BY <1>1, <1>11, <2>1, <2>3, <3>1, <3>2 DEF RunHolds
  <2> QED
    BY <2>2, <2>3
<1> QED
  BY <1>4, <1>7, <1>8, <1>9, <1>12 DEF GInv

LEMMA RegisterActionKeeps ==
  ASSUME GInv, RegisterAction
  PROVE  GInv'
<1> DEFINE a == job.approval
           r == job.run
           c == IF CanExpireDueApprovals(db) THEN "polling" ELSE "dead"
<1>1. /\ job.step = "register" /\ a \in Approval /\ r \in Run
      /\ action' = [action EXCEPT ![a] = "waiting_approval"]
      /\ db' = Refreshed(db)
      /\ cli' = [cli EXCEPT ![r] = c] /\ c \in {"polling", "dead"}
      /\ UNCHANGED <<file, deleted, crashes>>
      /\ db.approval[a].status = "pending"
  BY DEF RegisterAction, GInv, JobHolds
<1>2. job' \in JobState /\ job'.step = "idle" /\ job'.approval = NoApproval
  BY Jobs DEF RegisterAction
<1>3. Serves(db, db')
  BY <1>1, Settled
<1>4. \A b \in Approval : job.approval = b <=> a = b
  OBVIOUS
<1>5. \A q \in Run : job.run = q <=> r = q
  OBVIOUS
<1> HIDE DEF a, r, c
<1>6. /\ action \in [Approval -> ActionStatus]
      /\ cli \in [Run -> CliState]
  BY DEF GInv, Values
<1>7. Values'
  BY <1>1, <1>2, <1>6 DEF GInv, Values, ActionStatus, CliState
<1>8. JobHolds'
  BY <1>2 DEF JobHolds, Deciding, Executing
<1>9. ASSUME NEW b \in Approval PROVE RequestHolds(b)'
  <2>1. CASE b = a
    <3>1. deleted[b] = NoFile
      BY <1>1, <2>1 DEF GInv, RequestHolds
    <3>2. action'[b] = "waiting_approval" /\ deleted'[b] = NoFile
      BY <1>1, <1>6, <2>1, <3>1
    <3>3. db'.approval[b].status # "absent"
      BY <1>1, <1>3, <2>1 DEF Serves, Rows, Moves, RowMove
    <3> QED
      BY <3>2, <3>3 DEF RequestHolds
  <2>2. CASE b # a
    <3>1. action'[b] = action[b] /\ deleted'[b] = deleted[b] /\ crashes' = crashes
      BY <1>1, <1>6, <2>2
    <3>2. Rows(db, db')
      BY <1>3 DEF Serves
    <3> QED
      BY <1>4, <2>2, <3>1, <3>2, RequestKeeps
  <2> QED
    BY <2>1, <2>2
<1>10. Careful
  BY <1>1, <1>2, NullAssumption DEF Careful
<1>11. ASSUME NEW q \in Run PROVE RunHolds(q)'
  <2>1. /\ cli'[q] \in BeforeRequest => cli[q] \in BeforeRequest /\ job.run # q
        /\ cli'[q] \in GaveUp => cli[q] \in GaveUp
    BY <1>1, <1>5, <1>6 DEF BeforeRequest, GaveUp
  <2>2. /\ db'.run[q] = "absent" => db.run[q] = "absent"
        /\ db'.run[q] \in GaveUp => db.run[q] \in GaveUp
    BY <1>3 DEF Serves, NoRunEnds, GaveUp, TerminalRunStatus
  <2>3. db'.run[q] = "absent" => cli'[q] = "absent"
    <3>1. cli[r] = "requesting"
      BY <1>1 DEF GInv, JobHolds, r
    <3> QED
      BY <1>1, <1>6, <2>2, <3>1 DEF GInv, RunHolds
  <2> QED
    BY <1>3, <1>10, <2>1, <2>2, <2>3, RunKeeps DEF Serves
<1> QED
  BY <1>3, <1>7, <1>8, <1>9, <1>11 DEF GInv, Serves

(* A step of the daemon or of the world that leaves the clients alone.     *)
LEMMA ClientsAside ==
  ASSUME GInv, Serves(db, db'), UNCHANGED <<cli, crashes>>,
         file' \in Digest \cup {NoFile},
         action' \in [Approval -> ActionStatus],
         job' \in JobState,
         deleted' \in [Approval -> Digest \cup {NoFile}],
         JobHolds', Careful,
         job.step = "register" => job' = job,
         \A a \in Approval : RequestHolds(a)'
  PROVE  GInv'
<1>1. Rows(db, db') /\ NoRunEnds(db, db') /\ StoreInv(db')
  BY DEF Serves
<1>2. \A r \in Run : RunHolds(r)'
  BY <1>1, RunsKeep
<1>3. Values'
  BY DEF GInv, Values
<1> QED
  BY <1>1, <1>2, <1>3 DEF GInv

(* One that records and deletes nothing either.                            *)
LEMMA JobMovesOn ==
  ASSUME GInv, Serves(db, db'), UNCHANGED <<cli, crashes, action, deleted>>,
         file' \in Digest \cup {NoFile},
         job' \in JobState, JobHolds', Careful,
         job.step = "register" => job' = job,
         job.step \in Executing => job'.approval = job.approval /\ job'.step \in Executing
  PROVE  GInv'
<1>1. Rows(db, db')
  BY DEF Serves
<1>2. ASSUME NEW a \in Approval PROVE RequestHolds(a)'
  BY <1>1, RequestKeeps
<1>3. /\ action' \in [Approval -> ActionStatus]
      /\ deleted' \in [Approval -> Digest \cup {NoFile}]
  BY DEF GInv, Values
<1> QED
  BY <1>2, <1>3, ClientsAside

LEMMA DecisionKeeps ==
  ASSUME GInv, NEW a \in Approval, NEW g \in Grant \cup {NoGrant},
         NEW decision \in {"approved", "denied"}, NEW step \in {"execute", "deny"},
         decision = "approved" => g \in Grant /\ db.grant[g].status = "absent",
         decision = "denied" => g = NoGrant,
         job.step = "idle",
         CanDecideApproval(settled, a, decision, g),
         db' = DecideApproval(settled, a, decision, g),
         job' = Job(step, db.approval[a].run, a),
         UNCHANGED <<file, action, cli, deleted, crashes>>
  PROVE  GInv'
<1>1. /\ StoreInv(db) /\ db \in StoreContent
      /\ StoreInv(settled) /\ settled \in StoreContent /\ Serves(db, settled)
  BY Settled DEF GInv
<1>2. decision = "approved" => g \in Grant /\ settled.grant[g].status = "absent"
  BY <1>1, ExpireRows DEF settled
<1>3. Serves(settled, db') /\ db'.approval[a].status = decision
  BY <1>1, <1>2, DecideServes
<1>4. Serves(db, db')
  BY <1>1, <1>3, HandlerServes DEF settled
<1>5. /\ settled.approval[a].status = "pending"
      /\ db.approval[a].status = "pending"
      /\ db.approval[a].run \in Run
  <2>1. settled.approval[a].status = "pending"
    BY DEF CanDecideApproval
  <2>2. db.approval[a].status \in {"pending", "absent"} /\ db.approval[a].status = "pending"
    BY <1>1, <2>1, ExpireRows DEF settled
  <2> QED
    BY <1>1, <2>1, <2>2 DEF StoreInv, NotNull
<1>6. job' \in JobState /\ job'.step = step /\ job'.approval = a
  BY <1>5, Jobs DEF Step
<1>7. deleted[a] = NoFile
  BY <1>5 DEF GInv, RequestHolds
<1>8. JobHolds'
  BY <1>3, <1>6, <1>7 DEF JobHolds, Deciding, Executing, Ruled
<1>9. Careful
  BY <1>5, <1>6 DEF Careful
<1>10. file' \in Digest \cup {NoFile}
  BY DEF GInv, Values
<1> QED
  BY <1>4, <1>6, <1>8, <1>9, <1>10, JobMovesOn DEF Executing

LEMMA ApproveDenyKeep ==
  ASSUME GInv
  PROVE  /\ \A a \in Approval, g \in Grant : Approve(a, g) => GInv'
         /\ \A a \in Approval : Deny(a) => GInv'
<1>1. ASSUME NEW a \in Approval, NEW g \in Grant, Approve(a, g)
      PROVE  GInv'
  BY <1>1, DecisionKeeps DEF Approve
<1>2. ASSUME NEW a \in Approval, Deny(a)
      PROVE  GInv'
  BY <1>2, DecisionKeeps DEF Deny
<1> QED
  BY <1>1, <1>2

(* The handler of a decision is done, having recorded an outcome at most.  *)
LEMMA DecisionEnds ==
  ASSUME GInv, job.step \in Deciding, EndDecision,
         UNCHANGED <<file, cli, deleted, crashes>>,
         action' \in [Approval -> ActionStatus],
         \A a \in Approval : a # job.approval => action'[a] = action[a],
         action'[job.approval] = "completed" => deleted[job.approval] # NoFile,
         action'[job.approval] \in {"absent", "waiting_approval", "denied", "failed"} =>
           deleted[job.approval] = NoFile,
         action'[job.approval] # "executing"
  PROVE  GInv'
<1>1. /\ job' \in JobState /\ job'.step = "idle" /\ job'.approval = NoApproval
      /\ Serves(db, db')
  BY Jobs, Settled DEF EndDecision
<1>2. JobHolds' /\ Careful
  BY <1>1, NullAssumption DEF JobHolds, Deciding, Executing, Careful
<1>3. ASSUME NEW a \in Approval PROVE RequestHolds(a)'
  <2>1. CASE a = job.approval
    <3>1. RequestHolds(a)
      BY DEF GInv
    <3>2. /\ db'.approval[a].status = "absent" =>
               db.approval[a].status = "absent" /\ db'.approval[a].run = db.approval[a].run
          /\ db.approval[a].status = "consumed" => db'.approval[a].status = "consumed"
      BY <1>1 DEF Serves, Rows, Moves, RowMove
    <3> QED
      BY <2>1, <3>1, <3>2 DEF RequestHolds
  <2>2. CASE a # job.approval
    BY <1>1, <2>2, RequestKeeps DEF Serves
  <2> QED
    BY <2>1, <2>2
<1>4. /\ file' \in Digest \cup {NoFile}
      /\ deleted' \in [Approval -> Digest \cup {NoFile}]
  BY DEF GInv, Values
<1>5. job.step # "register"
  BY DEF Deciding, Executing
<1> QED
  BY <1>1, <1>2, <1>3, <1>4, <1>5, ClientsAside

LEMMA OutcomesKeep ==
  ASSUME GInv, ResolveMissing \/ ResolveDenied \/ RecordOutcome
  PROVE  GInv'
<1>1. /\ job.step \in Deciding /\ job.approval \in Approval
      /\ deleted[job.approval] # NoFile <=> job.step = "complete"
      /\ action \in [Approval -> ActionStatus]
  BY DEF ResolveMissing, ResolveDenied, RecordOutcome, Deciding, Executing, GInv, JobHolds,
         Values
<1>2. CASE ResolveMissing
  <2>1. /\ EndDecision /\ UNCHANGED <<file, cli, deleted, crashes>>
        /\ action' = action /\ action[job.approval] = "absent"
        /\ deleted[job.approval] = NoFile
    BY <1>1, <1>2 DEF ResolveMissing
  <2> QED
    BY <1>1, <2>1, DecisionEnds
<1>3. CASE ResolveDenied
  <2>1. /\ EndDecision /\ UNCHANGED <<file, cli, deleted, crashes>>
        /\ action' = [action EXCEPT ![job.approval] = "denied"]
        /\ deleted[job.approval] = NoFile
    BY <1>1, <1>3 DEF ResolveDenied
  <2>2. /\ action' \in [Approval -> ActionStatus] /\ action'[job.approval] = "denied"
        /\ \A a \in Approval : a # job.approval => action'[a] = action[a]
    BY <1>1, <2>1 DEF ActionStatus
  <2> QED
    BY <1>1, <2>1, <2>2, DecisionEnds
<1>4. CASE RecordOutcome
  <2> DEFINE o == IF job.step = "complete" THEN "completed" ELSE "failed"
  <2>1. /\ EndDecision /\ UNCHANGED <<file, cli, deleted, crashes>>
        /\ action' = [action EXCEPT ![job.approval] = o]
        /\ o \in {"completed", "failed"} /\ (o = "completed" <=> job.step = "complete")
    BY <1>4 DEF RecordOutcome
  <2> HIDE DEF o
  <2>2. /\ action' \in [Approval -> ActionStatus] /\ action'[job.approval] = o
        /\ \A a \in Approval : a # job.approval => action'[a] = action[a]
    BY <1>1, <2>1 DEF ActionStatus
  <2> QED
    BY <1>1, <2>1, <2>2, DecisionEnds
<1> QED
  BY <1>2, <1>3, <1>4

LEMMA StartExecutingKeeps ==
  ASSUME GInv, StartExecuting
  PROVE  GInv'
<1>1. /\ job.step = "execute" /\ job.approval \in Approval
      /\ action' = [action EXCEPT ![job.approval] = "executing"]
      /\ job \in JobState
      /\ job' = [job EXCEPT !.step = "inspect"]
      /\ UNCHANGED <<db, file, cli, deleted, crashes>>
      /\ action \in [Approval -> ActionStatus]
      /\ deleted[job.approval] = NoFile
      /\ db.approval[job.approval].status \in Ruled
  BY DEF StartExecuting, GInv, JobHolds, Values, Deciding
<1>2. /\ job' \in JobState /\ job'.step = "inspect" /\ job'.approval = job.approval
  BY <1>1, Jobs DEF Step
<1>3. Serves(db, db')
  BY <1>1, Settled
<1>4. /\ action' \in [Approval -> ActionStatus] /\ action'[job.approval] = "executing"
      /\ \A a \in Approval : a # job.approval => action'[a] = action[a]
  BY <1>1 DEF ActionStatus
<1>5. JobHolds'
  BY <1>1, <1>2, <1>4 DEF JobHolds, Deciding, Executing
<1>6. Careful
  BY <1>1, <1>2 DEF Careful, Deleting
<1>7. ASSUME NEW a \in Approval PROVE RequestHolds(a)'
  <2>1. CASE a = job.approval
    <3>1. RequestHolds(a)
      BY DEF GInv
    <3> QED
      BY <1>1, <1>2, <1>4, <2>1, <3>1 DEF RequestHolds, Executing
  <2>2. CASE a # job.approval
    BY <1>1, <1>3, <1>4, <2>2, RequestKeeps DEF Serves
  <2> QED
    BY <2>1, <2>2
<1>8. /\ file' \in Digest \cup {NoFile} /\ deleted' \in [Approval -> Digest \cup {NoFile}]
  BY <1>1 DEF GInv, Values
<1> QED
  BY <1>1, <1>2, <1>3, <1>4, <1>5, <1>6, <1>7, <1>8, ClientsAside

(* The grant consumed is the one of the approval being executed.           *)
LEMMA ConsumesItsGrant ==
  ASSUME GInv, job.approval \in Approval, MayConsume
  PROVE  LET g == settled.approval[job.approval].grant IN
         /\ g \in Grant
         /\ settled.grant[g].status = "active"
         /\ settled.grant[g].approval = job.approval
         /\ settled.grant[g].left > 0
         /\ settled.grant[g].run = job.run
         /\ settled.approval[job.approval].status = "approved"
         /\ settled.approval[job.approval].digest = file
         /\ job.run \in Run
<1> DEFINE g == settled.approval[job.approval].grant
<1>1. /\ g \in Grant /\ CanConsumeGrant(settled, g, job.run, file)
      /\ StoreInv(settled)
  BY Settled DEF MayConsume
<1>2. /\ settled.grant[g].status = "active" /\ settled.grant[g].left > 0
      /\ settled.grant[g].run = job.run /\ settled.grant[g].digest = file
  BY <1>1 DEF CanConsumeGrant
<1>3. settled.grant[g].approval = job.approval
  BY <1>1 DEF StoreInv, TablesAgree, ApprovalHasItsGrant
<1>4. GrantTellsItsApproval(settled, g)
  BY <1>1 DEF StoreInv, TablesAgree
<1>5. job.run \in Run
  BY <1>1, <1>2 DEF StoreInv, NotNull
<1> QED
  BY <1>1, <1>2, <1>3, <1>4, <1>5 DEF GrantTellsItsApproval

LEMMA InspectAndConsumeKeeps ==
  ASSUME GInv, InspectAndConsume
  PROVE  GInv' /\ db'.approval[job.approval].status = "consumed"
<1> DEFINE g == settled.approval[job.approval].grant
<1>1. /\ job.step = "inspect" /\ job.approval \in Approval /\ job \in JobState
      /\ MayConsume
      /\ db' = ConsumeExecutionGrant(settled, g)
      /\ job' = [job EXCEPT !.step = "unlink"]
      /\ UNCHANGED <<file, action, cli, deleted, crashes>>
      /\ deleted[job.approval] = NoFile
      /\ action[job.approval] = "executing"
  BY DEF InspectAndConsume, GInv, JobHolds, Values, Deciding, Executing
<1>2. /\ g \in Grant
      /\ settled.grant[g].status = "active"
      /\ settled.grant[g].approval = job.approval
      /\ settled.approval[job.approval].status = "approved"
  BY <1>1, ConsumesItsGrant
<1>3. /\ job' \in JobState /\ job'.step = "unlink" /\ job'.approval = job.approval
  BY <1>1, Jobs DEF Step
<1>4. /\ StoreInv(db) /\ StoreInv(settled) /\ settled \in StoreContent
  BY Settled DEF GInv
<1> HIDE DEF g
<1>5. Serves(db, db')
  <2>1. Serves(settled, db')
    BY <1>1, <1>2, <1>4, ConsumeServes
  <2> QED
    BY <1>4, <2>1, HandlerServes DEF settled
<1>6. db'.approval[job.approval].status = "consumed"
  BY <1>1, <1>2, <1>4, ConsumeRows
<1>7. JobHolds'
  BY <1>1, <1>3, <1>6 DEF JobHolds, Deciding, Executing, Ruled
<1>8. Careful
  BY <1>1, <1>3 DEF Careful, Deleting
<1>9. file' \in Digest \cup {NoFile}
  BY <1>1 DEF GInv, Values
<1>10. GInv'
  BY <1>1, <1>3, <1>5, <1>7, <1>8, <1>9, JobMovesOn DEF Executing
<1> QED
  BY <1>6, <1>10

LEMMA FailuresKeep ==
  ASSUME GInv, ExecutionRejected \/ UnlinkFails
  PROVE  GInv'
<1>1. /\ job.step \in {"inspect", "unlink"} /\ job.approval \in Approval /\ job \in JobState
      /\ job' = [job EXCEPT !.step = "fail"]
      /\ db' \in {db, Refreshed(db)}
      /\ UNCHANGED <<file, action, cli, deleted, crashes>>
      /\ deleted[job.approval] = NoFile
      /\ action[job.approval] = "executing"
      /\ db.approval[job.approval].status \in Ruled
  BY DEF ExecutionRejected, UnlinkFails, GInv, JobHolds, Values, Deciding, Executing
<1>2. /\ job' \in JobState /\ job'.step = "fail" /\ job'.approval = job.approval
  BY <1>1, Jobs DEF Step
<1>3. Serves(db, db')
  BY <1>1, Settled
<1>4. db'.approval[job.approval].status \in Ruled
  BY <1>1, <1>3 DEF Serves, Rows, Moves, RowMove, Ruled
<1>5. JobHolds'
  BY <1>1, <1>2, <1>4 DEF JobHolds, Deciding, Executing
<1>6. Careful
  BY <1>1, <1>2 DEF Careful, Deleting
<1>7. file' \in Digest \cup {NoFile}
  BY <1>1 DEF GInv, Values
<1> QED
  BY <1>1, <1>2, <1>3, <1>5, <1>6, <1>7, JobMovesOn DEF Executing

LEMMA UnlinkKeeps ==
  ASSUME GInv, Unlink
  PROVE  GInv'
<1>1. /\ job.step = "unlink" /\ job.approval \in Approval /\ job \in JobState
      /\ file \in Digest /\ file # NoFile
      /\ file' = NoFile
      /\ deleted' = [deleted EXCEPT ![job.approval] = file]
      /\ job' = [job EXCEPT !.step = "complete"]
      /\ UNCHANGED <<db, action, cli, crashes>>
      /\ db.approval[job.approval].status = "consumed"
      /\ action[job.approval] = "executing"
      /\ deleted \in [Approval -> Digest \cup {NoFile}]
      /\ action \in [Approval -> ActionStatus]
  BY DEF Unlink, GInv, JobHolds, Values, Deciding, Executing
<1>2. /\ job' \in JobState /\ job'.step = "complete" /\ job'.approval = job.approval
  BY <1>1, Jobs DEF Step
<1>3. Serves(db, db')
  BY <1>1, Settled
<1>4. /\ deleted' \in [Approval -> Digest \cup {NoFile}]
      /\ deleted'[job.approval] # NoFile
      /\ \A a \in Approval : a # job.approval => deleted'[a] = deleted[a]
  BY <1>1
<1>5. JobHolds'
  BY <1>1, <1>2, <1>4 DEF JobHolds, Deciding, Executing, Ruled
<1>6. Careful
  BY <1>1, <1>2, <1>4 DEF Careful, Deleting
<1>7. ASSUME NEW a \in Approval PROVE RequestHolds(a)'
  <2>1. CASE a = job.approval
    BY <1>1, <1>2, <1>4, <2>1 DEF RequestHolds, Executing
  <2>2. CASE a # job.approval
    BY <1>1, <1>3, <1>4, <2>2, RequestKeeps DEF Serves
  <2> QED
    BY <2>1, <2>2
<1> QED
  BY <1>1, <1>2, <1>3, <1>4, <1>5, <1>6, <1>7, ClientsAside

(* Time passes, somebody reads the approvals, somebody edits the file.     *)
LEMMA WorldKeeps ==
  ASSUME GInv, ListApprovals \/ Tick \/ \E content \in Digest \cup {NoFile} : Edit(content)
  PROVE  GInv'
<1>1. /\ UNCHANGED <<action, job, cli, deleted, crashes>>
      /\ file' \in Digest \cup {NoFile}
      /\ job \in JobState
  BY DEF ListApprovals, Tick, Edit, GInv, Values
<1>2. /\ Serves(db, db')
      /\ job.step # "idle" => \A a \in Approval :
           db'.approval[a].status = db.approval[a].status
  <2>1. CASE ListApprovals
    BY <2>1, Settled DEF ListApprovals
  <2>2. CASE Tick
    BY <2>2, ElapseServes DEF Tick, GInv
  <2>3. CASE \E content \in Digest \cup {NoFile} : Edit(content)
    BY <2>3, Settled DEF Edit
  <2> QED
    BY <2>1, <2>2, <2>3
<1>3. JobHolds'
  <2>1. JobHolds
    BY DEF GInv
  <2>2. \A a \in Approval : db'.approval[a].run = db.approval[a].run
    BY <1>2 DEF Serves, Rows
  <2> QED
    BY <1>1, <1>2, <2>1, <2>2 DEF JobHolds, Deciding, Executing
<1>4. Careful
  BY <1>1 DEF Careful
<1> QED
  BY <1>1, <1>2, <1>3, <1>4, JobMovesOn

-----------------------------------------------------------------------------
(* The client's own steps.                                                 *)

LEMMA ClientMoves ==
  ASSUME GInv, NEW r \in Run, NEW c \in CliState,
         StoreInv(db'), Rows(db, db'),
         job.step = "idle", UNCHANGED <<file, action, job, deleted, crashes>>,
         cli' = [cli EXCEPT ![r] = c], cli[r] # "absent",
         c \notin BeforeRequest,
         \A q \in Run : db'.run[q] = "absent" => db.run[q] = "absent",
         \A q \in Run \ {r} : db'.run[q] \in GaveUp => db.run[q] \in GaveUp,
         c \in GaveUp \/ db'.run[r] \in GaveUp =>
           \/ cli[r] \in GaveUp \/ db.run[r] \in GaveUp
           \/ \A a \in RequestOf(r) : NeverDeletes(a)'
  PROVE  GInv'
<1>1. cli \in [Run -> CliState]
  BY DEF GInv, Values
<1>2. Values'
  BY <1>1 DEF GInv, Values
<1>3. JobHolds'
  BY DEF GInv, JobHolds, Deciding, Executing
<1>4. ASSUME NEW a \in Approval PROVE RequestHolds(a)'
  BY RequestKeeps
<1>5. Careful
  BY DEF Careful
<1>6. ASSUME NEW q \in Run PROVE RunHolds(q)'
  <2>1. db'.run[q] = "absent" => cli'[q] = "absent"
    <3>1. db.run[q] = "absent" => cli[q] = "absent"
      BY DEF GInv, RunHolds
    <3> QED
      BY <1>1, <3>1
  <2>2. cli'[q] \in BeforeRequest => cli[q] \in BeforeRequest
    BY <1>1
  <2>3. cli'[q] \in GaveUp \/ db'.run[q] \in GaveUp =>
          \/ cli[q] \in GaveUp \/ db.run[q] \in GaveUp
          \/ \A a \in RequestOf(q) : NeverDeletes(a)'
    BY <1>1
  <2> QED
    BY <1>5, <2>1, <2>2, <2>3, RunKeeps
<1> QED
  BY <1>2, <1>3, <1>4, <1>6 DEF GInv

LEMMA RequestRefusedKeeps ==
  ASSUME GInv, NEW r \in Run, RequestRefused(r)
  PROVE  GInv'
<1>1. /\ db' \in {db, Refreshed(db)}
      /\ job.step = "idle" /\ cli[r] = "requesting"
      /\ cli' = [cli EXCEPT ![r] = "dead"]
      /\ UNCHANGED <<file, action, job, deleted, crashes>>
  BY DEF RequestRefused
<1>2. Serves(db, db')
  BY <1>1, Settled
<1>3. \A q \in Run : /\ db'.run[q] = "absent" => db.run[q] = "absent"
                     /\ db'.run[q] \in GaveUp => db.run[q] \in GaveUp
  BY <1>2 DEF Serves, NoRunEnds, GaveUp, TerminalRunStatus
<1>4. "dead" \in CliState /\ "dead" \notin BeforeRequest /\ "dead" \notin GaveUp
  BY DEF CliState, BeforeRequest, GaveUp
<1> QED
  BY <1>1, <1>2, <1>3, <1>4, ClientMoves DEF Serves

(* A client gives up only on a request that is denied, expired or has      *)
(* failed: nothing was deleted for it, and no handler is at work.          *)
LEMMA CliPollKeeps ==
  ASSUME GInv, NEW r \in Run, CliPoll(r)
  PROVE  GInv'
<1>1. PICK a \in RequestOf(r) :
        cli' = [cli EXCEPT ![r] = IF CanExpireDueApprovals(db)
                                  THEN Verdict(settled.approval[a].status, action[a])
                                  ELSE "dead"]
  BY DEF CliPoll
<1> DEFINE c == IF CanExpireDueApprovals(db)
                THEN Verdict(settled.approval[a].status, action[a]) ELSE "dead"
<1>2. /\ job.step = "idle" /\ cli[r] = "polling"
      /\ db' = Refreshed(db)
      /\ cli' = [cli EXCEPT ![r] = c]
      /\ UNCHANGED <<file, action, job, deleted, crashes>>
  BY <1>1 DEF CliPoll
<1>3. Serves(db, db') /\ Serves(db, settled)
  BY <1>2, Settled
<1>4. \A q \in Run : /\ db'.run[q] = "absent" => db.run[q] = "absent"
                     /\ db'.run[q] \in GaveUp => db.run[q] \in GaveUp
  BY <1>3 DEF Serves, NoRunEnds, GaveUp, TerminalRunStatus
<1>5. c \in {"polling", "completed", "failed", "cancelled", "dead"}
  BY DEF Verdict
<1>6. a \in Approval /\ db.approval[a].run = r
  BY DEF RequestOf
<1>7. c \in GaveUp => NeverDeletes(a)'
  <2>1. SUFFICES ASSUME c \in GaveUp
                 PROVE  NeverDeletes(a)'
    OBVIOUS
  <2>2. /\ settled.approval[a].status \notin {"pending", "consumed"}
        /\ db' = settled
    BY <1>2, <2>1 DEF Verdict, GaveUp, Refreshed, settled
  <2>3. RequestHolds(a) /\ job.approval = NoApproval
    BY <1>2, <1>6 DEF GInv, JobHolds
  <2>4. db.approval[a].status # "absent"
    BY <1>6, <2>3, NullAssumption DEF RequestHolds
  <2>5. /\ db.approval[a].status # "consumed"
        /\ settled.approval[a].status # "absent"
    BY <1>3, <1>6, <2>2, <2>4 DEF Serves, Rows, Moves, RowMove
  <2>6. settled.approval[a].status \in {"absent", "pending", "approved", "consumed", "denied",
                                       "expired"}
    <3>1. settled.approval[a] \in ApprovalRow
      BY <1>6, Settled DEF StoreContent
    <3> QED
      BY <3>1 DEF ApprovalRow
  <2>7. deleted[a] = NoFile
    BY <2>3, <2>5 DEF RequestHolds
  <2> QED
    BY <1>2, <1>6, <2>2, <2>3, <2>5, <2>6, <2>7, NullAssumption DEF NeverDeletes, Ruled
<1>8. \A b \in RequestOf(r) : b = a
  BY DEF GInv, RunHolds
<1>9. c \in CliState /\ c \notin BeforeRequest
  BY <1>5 DEF CliState, BeforeRequest
<1> HIDE DEF c
<1>10. db'.run[r] \in GaveUp => db.run[r] \in GaveUp
  BY <1>4
<1>11. StoreInv(db') /\ Rows(db, db')
  BY <1>3 DEF Serves
<1> QED
  BY <1>2, <1>4, <1>7, <1>8, <1>9, <1>10, <1>11, ClientMoves

(* A run is ended by its client only, the way the client concluded.        *)
LEMMA CliReportKeeps ==
  ASSUME GInv, NEW r \in Run, CliReport(r)
  PROVE  GInv'
<1>1. /\ job.step = "idle" /\ cli[r] \in {"completed", "failed", "cancelled"}
      /\ UNCHANGED <<file, action, job, deleted, crashes>>
      /\ StoreInv(db) /\ db \in StoreContent
  BY DEF CliReport, GInv, StoreInv
<1>2. PICK c \in {"done", "dead"} :
        /\ cli' = [cli EXCEPT ![r] = c]
        /\ db' = db \/ db' = TransitionRun(db, r, cli[r])
  BY DEF CliReport
<1>3. StoreInv(db') /\ db'.approval = db.approval
  <2>1. cli[r] \in RunStatus
    BY <1>1 DEF RunStatus
  <2>2. StoreInv(TransitionRun(db, r, cli[r]))
    BY <1>1, <2>1, RunsOnlyInv
  <2>3. TransitionRun(db, r, cli[r]).approval = db.approval
    BY <1>1 DEF TransitionRun, StoreContent
  <2> QED
    BY <1>1, <1>2, <2>2, <2>3
<1>4. \A q \in Run : db'.run[q] \in {db.run[q]} \cup (IF q = r THEN {cli[r]} ELSE {})
  BY <1>1, <1>2 DEF TransitionRun, StoreContent
<1>5. Rows(db, db')
  BY <1>3, SameMoves DEF Rows
<1>6. c \in CliState /\ c \notin BeforeRequest /\ c \notin GaveUp /\ cli[r] # "absent"
  BY <1>1 DEF CliState, BeforeRequest, GaveUp
<1>7. \A q \in Run : db'.run[q] = "absent" => db.run[q] = "absent"
  BY <1>1, <1>4
<1>8. \A q \in Run \ {r} : db'.run[q] \in GaveUp => db.run[q] \in GaveUp
  BY <1>4
<1>9. db'.run[r] \in GaveUp => cli[r] \in GaveUp \/ db.run[r] \in GaveUp
  BY <1>4
<1> QED
  BY <1>1, <1>2, <1>3, <1>5, <1>6, <1>7, <1>8, <1>9, ClientMoves

-----------------------------------------------------------------------------
(* The daemon dies.                                                        *)

LEMMA CrashKeeps ==
  ASSUME GInv, NEW lost \in SUBSET Run, Crash(lost)
  PROVE  GInv'
<1>1. /\ crashes < MaxCrash /\ crashes' = crashes + 1
      /\ job.step \in {"launch", "register"} => job.run \in lost
      /\ UNCHANGED <<db, file, action, deleted>>
  BY DEF Crash
<1>2. job' \in JobState /\ job'.step = "idle" /\ job'.approval = NoApproval
  BY Jobs DEF Crash
<1>3. \A r \in Run :
        cli'[r] = IF r \in lost /\ cli[r] \notin {"absent", "done"} THEN "dead" ELSE cli[r]
  BY DEF Crash
<1>4. cli \in [Run -> CliState] /\ cli' \in [Run -> CliState]
  BY DEF Crash, GInv, Values, CliState
<1>5. crashes' \in 0 .. MaxCrash /\ crashes' # 0
  <2>1. crashes \in 0 .. MaxCrash
    BY DEF GInv, Values
  <2> QED
    BY <1>1, <2>1, GatewayAssumption
<1>6. StoreInv(db') /\ Rows(db, db')
  BY <1>1, SameMoves DEF GInv, Rows
<1>7. Values'
  BY <1>1, <1>2, <1>4, <1>5 DEF GInv, Values
<1>8. JobHolds' /\ Careful
  BY <1>1, <1>2, NullAssumption DEF JobHolds, Deciding, Executing, Careful
<1>9. ASSUME NEW a \in Approval PROVE RequestHolds(a)'
  BY <1>1, <1>5, <1>6, RequestKeeps
<1>10. ASSUME NEW r \in Run PROVE RunHolds(r)'
  <2>1. db'.run[r] = "absent" => cli'[r] = "absent"
    BY <1>1, <1>3 DEF GInv, RunHolds
  <2>2. cli'[r] \in BeforeRequest => cli[r] \in BeforeRequest
    BY <1>3 DEF BeforeRequest
  <2>3. cli'[r] \in BeforeRequest /\ job.step = "register" => job.run # r
    BY <1>1, <1>3 DEF BeforeRequest, GInv, JobHolds
  <2>4. cli'[r] \in GaveUp \/ db'.run[r] \in GaveUp => cli[r] \in GaveUp \/ db.run[r] \in GaveUp
    BY <1>1, <1>3 DEF GaveUp
  <2> QED
    BY <1>6, <1>8, <2>1, <2>2, <2>3, <2>4, RunKeeps
<1> QED
  BY <1>6, <1>7, <1>8, <1>9, <1>10 DEF GInv

-----------------------------------------------------------------------------
LEMMA GatewayKeeps ==
  ASSUME GInv, [Next]_vars
  PROVE  GInv'
<1>1. CASE UNCHANGED vars
  BY <1>1 DEF vars, GInv, Values, JobHolds, RequestHolds, RunHolds, RequestOf, NeverDeletes
<1>2. CASE Next
  BY <1>2, CreateCliRunKeeps, LaunchCliRunKeeps, RequestDeleteKeeps, RegisterActionKeeps,
     RequestRefusedKeeps, ApproveDenyKeep, OutcomesKeep, StartExecutingKeeps,
     InspectAndConsumeKeeps, FailuresKeep, UnlinkKeeps, WorldKeeps, CliPollKeeps,
     CliReportKeeps, CrashKeeps
  DEF Next, HandlerStep
<1> QED
  BY <1>1, <1>2

LEMMA GatewayInvariance == Spec => []GInv
BY GatewayStarts, GatewayKeeps, PTL DEF Spec

(* What is recorded of a request is what was done to the file: nothing is  *)
(* deleted that stands as waiting, denied or failed, nothing stands as     *)
(* completed that was not deleted, and no client reports a failed or       *)
(* cancelled run whose file is gone, whatever edits, deaths and polls come *)
(* in between.                                                             *)
THEOREM RecordsTellTheFile == Spec => []RecordsMatchFile
<1>1. GInv => TypeOK
  BY DEF GInv, Values, JobState, StoreInv, TypeOK
<1>2. GInv => OutcomeMatchesFile
  BY DEF GInv, RequestHolds, OutcomeMatchesFile
<1>3. GInv => NoDeletionIsDisowned
  BY DEF GInv, RunHolds, NeverDeletes, RequestOf, GaveUp, NoDeletionIsDisowned
<1>4. GInv => RecordsMatchFile
  BY <1>1, <1>2, <1>3 DEF RecordsMatchFile
<1> QED
  BY <1>4, GatewayInvariance, PTL

-----------------------------------------------------------------------------
(* The abstract authorization                                              *)

(* The grant consumed for an unlink under way still stands.                *)
UnlinkUnderWay(a) == job.step = "unlink" /\ job.approval = a

(* A step that deletes nothing and starts an unlink only with an approval  *)
(* that was granted: every request moves as its row does.                  *)
LEMMA RowsAuthorize ==
  ASSUME GInv, GInv', Moves(db, db'), deleted' = deleted,
         \A a \in Approval : UnlinkUnderWay(a)' =>
           UnlinkUnderWay(a) \/ db.approval[a].status = "approved"
  PROVE  [Authorized!Next]_<<stageOf, actsOf>>
<1>1. actsOf' = actsOf
  BY DEF actsOf
<1>2. stageOf' \in [Approval -> Authorized!Stage]
  BY DEF stageOf, Authorized!Stage
<1>3. ASSUME NEW a \in Approval
      PROVE  /\ stageOf'[a] # stageOf[a] => <<stageOf[a], stageOf'[a]>> \in Authorized!Move
             /\ ~ (stageOf[a] = "granted" /\ stageOf'[a] = "spent")
  <2> DEFINE b == db.approval[a].status
             e == db'.approval[a].status
  <2>1. /\ b # e => <<b, e>> \in RowMove
        /\ deleted[a] # NoFile => b = "consumed" /\ ~UnlinkUnderWay(a)
        /\ deleted'[a] = deleted[a]
        /\ UnlinkUnderWay(a)' => UnlinkUnderWay(a) \/ b = "approved"
    BY DEF Moves, GInv, RequestHolds, JobHolds, Deciding, Executing, UnlinkUnderWay
  <2>2. /\ stageOf[a] = CASE b = "absent" -> "new"
                           [] b = "pending" -> "open"
                           [] b = "approved" -> "granted"
                           [] b = "consumed" ->
                                IF deleted[a] # NoFile THEN "spent"
                                ELSE IF UnlinkUnderWay(a) THEN "granted" ELSE "closed"
                           [] OTHER -> "closed"
        /\ stageOf'[a] = CASE e = "absent" -> "new"
                            [] e = "pending" -> "open"
                            [] e = "approved" -> "granted"
                            [] e = "consumed" ->
                                 IF deleted'[a] # NoFile THEN "spent"
                                 ELSE IF UnlinkUnderWay(a)' THEN "granted" ELSE "closed"
                            [] OTHER -> "closed"
    BY DEF stageOf, UnlinkUnderWay
  <2> HIDE DEF b, e
  <2>3. CASE b = e
    BY <2>1, <2>2, <2>3 DEF Authorized!Move
  <2>4. CASE b # e
    BY <2>1, <2>2, <2>4 DEF RowMove, Authorized!Move
  <2> QED
    BY <2>3, <2>4
<1>4. actsOf' = [a \in Approval |-> IF stageOf[a] = "granted" /\ stageOf'[a] = "spent"
                                    THEN actsOf[a] + 1 ELSE actsOf[a]]
  BY <1>1, <1>3 DEF actsOf
<1> QED
  BY <1>2, <1>3, <1>4 DEF Authorized!Next

(* The unlink is the act: it spends what the consumed grant left standing. *)
LEMMA UnlinkAuthorizes ==
  ASSUME GInv, GInv', Unlink
  PROVE  [Authorized!Next]_<<stageOf, actsOf>>
<1> DEFINE a == job.approval
<1>1. /\ a \in Approval /\ UnlinkUnderWay(a) /\ file # NoFile
      /\ deleted' = [deleted EXCEPT ![a] = file]
      /\ deleted \in [Approval -> Digest \cup {NoFile}]
      /\ deleted[a] = NoFile
      /\ db' = db
      /\ db.approval[a].status = "consumed"
      /\ job'.step = "complete"
  BY DEF Unlink, GInv, Values, JobState, JobHolds, Deciding, Executing, UnlinkUnderWay
<1>2. \A b \in Approval : UnlinkUnderWay(b) <=> b = a
  BY <1>1 DEF UnlinkUnderWay
<1>3. \A b \in Approval : ~UnlinkUnderWay(b)'
  BY <1>1 DEF UnlinkUnderWay
<1> HIDE DEF a
<1>4. stageOf[a] = "granted" /\ stageOf'[a] = "spent"
  BY <1>1, <1>3 DEF stageOf, UnlinkUnderWay
<1>5. \A b \in Approval \ {a} : stageOf'[b] = stageOf[b]
  BY <1>1, <1>2, <1>3 DEF stageOf, UnlinkUnderWay
<1>6. stageOf' \in [Approval -> Authorized!Stage]
  BY DEF stageOf, Authorized!Stage
<1>7. \A b \in Approval : actsOf'[b] = IF b = a THEN actsOf[b] + 1 ELSE actsOf[b]
  BY <1>1 DEF actsOf
<1>8. actsOf' = [b \in Approval |-> IF stageOf[b] = "granted" /\ stageOf'[b] = "spent"
                                    THEN actsOf[b] + 1 ELSE actsOf[b]]
  BY <1>4, <1>5, <1>7 DEF actsOf
<1>9. \A b \in Approval : stageOf'[b] # stageOf[b] =>
                            <<stageOf[b], stageOf'[b]>> \in Authorized!Move
  BY <1>4, <1>5 DEF Authorized!Move
<1> QED
  BY <1>6, <1>8, <1>9 DEF Authorized!Next

(* Every step moves the rows forward.                                      *)
LEMMA NextMoves ==
  ASSUME GInv, [Next]_vars
  PROVE  Moves(db, db')
<1>1. /\ StoreInv(db) /\ db \in StoreContent
      /\ StoreInv(settled) /\ settled \in StoreContent
      /\ \A e \in {db, settled, Refreshed(db)} : Moves(db, e)
  BY Settled DEF GInv, Serves, Rows
<1>2. ASSUME Moves(settled, db')
      PROVE  Moves(db, db')
  BY <1>1, <1>2, HandlerMoves DEF settled
<1>3. ASSUME NEW a \in Approval, NEW g \in Grant \cup {NoGrant},
             NEW decision \in {"approved", "denied"}, decision = "approved" => g \in Grant,
             CanDecideApproval(settled, a, decision, g),
             db' = DecideApproval(settled, a, decision, g)
      PROVE  Moves(db, db')
  BY <1>1, <1>2, <1>3, DecideMoves DEF CanDecideApproval
<1>4. CASE \E r \in Run : CreateCliRun(r)
  <2>1. db'.approval = db.approval
    BY <1>1, <1>4 DEF CreateCliRun, CreateRun, StoreContent
  <2> QED
    BY <2>1, SameMoves
<1>5. CASE LaunchCliRun \/ \E r \in Run : CliReport(r)
  <2>1. db'.approval = db.approval
    BY <1>1, <1>5 DEF LaunchCliRun, CliReport, TransitionRun, StoreContent
  <2> QED
    BY <2>1, SameMoves
<1>6. CASE \E r \in Run, a \in Approval : RequestDelete(r, a)
  <2>1. PICK r \in Run, a \in Approval : RequestDelete(r, a)
    BY <1>6
  <2>2. /\ file \in Digest /\ settled.approval[a].status = "absent"
        /\ db' = CreateApproval(settled, a, r, file)
    BY <2>1 DEF RequestDelete, Restorable, CanCreateApproval
  <2> QED
    BY <1>1, <1>2, <2>2, CreateApprovalMoves
<1>7. CASE \E a \in Approval, g \in Grant : Approve(a, g)
  BY <1>3, <1>7 DEF Approve
<1>8. CASE \E a \in Approval : Deny(a)
  BY <1>3, <1>8 DEF Deny
<1>9. CASE InspectAndConsume
  BY <1>1, <1>2, <1>9, ConsumeMoves DEF InspectAndConsume, MayConsume
<1>10. CASE Tick
  BY <1>1, <1>10, ElapseMoves DEF Tick
<1>11. CASE db' \in {db, settled, Refreshed(db)}
  BY <1>1, <1>11
<1> QED
  BY <1>4, <1>5, <1>6, <1>7, <1>8, <1>9, <1>10, <1>11
  DEF Next, HandlerStep, vars, RegisterAction, RequestRefused, ResolveMissing, ResolveDenied,
      EndDecision, StartExecuting, ExecutionRejected, Unlink, UnlinkFails, RecordOutcome,
      CliPoll, ListApprovals, Edit, Crash

(* Whatever leads to an unlink, an approval stood granted before it.       *)
LEMMA NextStartsUnlink ==
  ASSUME GInv, [Next]_vars, NEW a \in Approval, UnlinkUnderWay(a)'
  PROVE  UnlinkUnderWay(a) \/ db.approval[a].status = "approved"
<1>1. CASE job' = job
  BY <1>1 DEF UnlinkUnderWay
<1>2. CASE InspectAndConsume
  <2>1. job.approval = a /\ a \in Approval /\ MayConsume
    BY <1>2, Jobs DEF InspectAndConsume, UnlinkUnderWay, GInv, Values, Step
  <2>2. settled.approval[a].status = "approved"
    BY <2>1, ConsumesItsGrant
  <2>3. db.approval[a].status = "approved"
    BY <2>2, ExpireRows DEF GInv, StoreInv, settled
  <2> QED
    BY <2>3
<1>3. CASE job'.step # "unlink"
  BY <1>3 DEF UnlinkUnderWay
<1>4. \/ job' = job \/ InspectAndConsume \/ job'.step # "unlink"
  <2>1. CASE StartExecuting \/ ExecutionRejected \/ Unlink \/ UnlinkFails
    <3>1. PICK s \in {"inspect", "fail", "complete"} : job' = [job EXCEPT !.step = s]
      BY <2>1 DEF StartExecuting, ExecutionRejected, Unlink, UnlinkFails
    <3>2. job'.step = s
      BY <3>1 DEF GInv, Values, JobState
    <3> QED
      BY <3>2
  <2>2. CASE \E s \in {"launch", "register", "execute", "deny"} : \E r, b : job' = Job(s, r, b)
    BY <2>2 DEF Job
  <2>3. CASE job' = Idle
    BY <2>3 DEF Idle
  <2>4. CASE \/ \E r \in Run : CreateCliRun(r)
             \/ \E r \in Run, b \in Approval : RequestDelete(r, b)
             \/ \E b \in Approval, g \in Grant : Approve(b, g)
             \/ \E b \in Approval : Deny(b)
    BY <2>2, <2>4 DEF CreateCliRun, RequestDelete, Approve, Deny
  <2> QED
    BY <2>1, <2>3, <2>4
    DEF Next, HandlerStep, vars, LaunchCliRun, RegisterAction, RequestRefused, ResolveMissing,
        ResolveDenied, EndDecision, RecordOutcome, CliPoll, CliReport, ListApprovals, Edit,
        Tick, Crash
<1> QED
  BY <1>1, <1>2, <1>3, <1>4

(* The gateway implements the abstract authorization, the unlink being the *)
(* act: the file is deleted once per request at most, by leave of a person *)
(* that stood when it was, and a failed unlink or a death of the daemon    *)
(* before it ends the leave.                                               *)
THEOREM DeletionIsAuthorized == Spec => DeletesOnlyWithLeave
<1>1. Init => Authorized!Init
  <2> SUFFICES ASSUME Init
               PROVE  Authorized!Init
    OBVIOUS
  <2>1. \A a \in Approval : db.approval[a].status = "absent" /\ deleted[a] = NoFile
    BY DEF Init, EmptyStore
  <2> QED
    BY <2>1 DEF stageOf, actsOf, Authorized!Init
<1>2. ASSUME GInv, GInv', [Next]_vars
      PROVE  [Authorized!Next]_<<stageOf, actsOf>>
  <2>1. CASE Unlink
    BY <1>2, <2>1, UnlinkAuthorizes
  <2>2. CASE ~Unlink
    <3>1. deleted' = deleted
      BY <1>2, <2>2
      DEF Next, HandlerStep, vars, CreateCliRun, LaunchCliRun, RequestDelete, RegisterAction,
          RequestRefused, Approve, Deny, ResolveMissing, ResolveDenied, StartExecuting,
          InspectAndConsume, ExecutionRejected, UnlinkFails, RecordOutcome, CliPoll,
          CliReport, ListApprovals, Edit, Tick, Crash
    <3> QED
      BY <1>2, <3>1, NextMoves, NextStartsUnlink, RowsAuthorize
  <2> QED
    BY <2>1, <2>2
<1> QED
  BY <1>1, <1>2, GatewayInvariance, PTL DEF Spec, DeletesOnlyWithLeave, Authorized!Spec

-----------------------------------------------------------------------------
(* The gateway as a caller of the approval service                         *)

(* The service's transactions are those of this store.                     *)
LEMMA SameExpiry ==
  ASSUME NEW d
  PROVE  /\ Service!ExpireDueApprovals(d) = ExpireDueApprovals(d)
         /\ Service!CanExpireDueApprovals(d) <=> CanExpireDueApprovals(d)
<1>1. Service!ExpireDueApprovals(d) = ExpireDueApprovals(d)
  BY DEF Service!ExpireDueApprovals, ExpireDueApprovals,
    Service!MarkExpired, MarkExpired, Service!Due, Due, Service!GrantOf, GrantOf,
    Service!ResumedByExpiry, ResumedByExpiry, Service!ResumesRun, ResumesRun,
    Service!Pending, Pending
<1>2. Service!CanExpireDueApprovals(d) <=> CanExpireDueApprovals(d)
  BY DEF Service!CanExpireDueApprovals, CanExpireDueApprovals,
    Service!MarkExpired, MarkExpired, Service!Due, Due, Service!GrantOf, GrantOf,
    Service!ResumedByExpiry, ResumedByExpiry, Service!ResumesRun, ResumesRun,
    Service!Pending, Pending,
    Service!CanRecord, CanRecord, Service!CanTransitionRun, CanTransitionRun,
    Service!RunTransition, RunTransition
<1> QED
  BY <1>1, <1>2

LEMMA SameRuns ==
  ASSUME NEW d, NEW r, NEW to
  PROVE  /\ Service!CreateRun(d, r) = CreateRun(d, r)
         /\ Service!CanTransitionRun(d, r, to) <=> CanTransitionRun(d, r, to)
         /\ Service!TransitionRun(d, r, to) = TransitionRun(d, r, to)
<1>1. Service!CreateRun(d, r) = CreateRun(d, r)
  BY DEF Service!CreateRun, CreateRun
<1>2. Service!CanTransitionRun(d, r, to) <=> CanTransitionRun(d, r, to)
  BY DEF Service!CanTransitionRun, CanTransitionRun, Service!RunTransition, RunTransition
<1>3. Service!TransitionRun(d, r, to) = TransitionRun(d, r, to)
  BY DEF Service!TransitionRun, TransitionRun
<1> QED
  BY <1>1, <1>2, <1>3

LEMMA SameRequests ==
  ASSUME NEW d, NEW a, NEW r, NEW dg
  PROVE  /\ Service!CanCreateApproval(d, a, r) <=> CanCreateApproval(d, a, r)
         /\ Service!CreateApproval(d, a, r, dg) = CreateApproval(d, a, r, dg)
<1>1. Service!CanCreateApproval(d, a, r) <=> CanCreateApproval(d, a, r)
  BY DEF Service!CanCreateApproval, CanCreateApproval, Service!CanRecord, CanRecord,
    Service!CanTransitionRun, CanTransitionRun, Service!RunTransition, RunTransition
<1>2. Service!CreateApproval(d, a, r, dg) = CreateApproval(d, a, r, dg)
  BY DEF Service!CreateApproval, CreateApproval, Service!Record, Record,
    Service!TransitionRun, TransitionRun
<1> QED
  BY <1>1, <1>2

LEMMA SameDecisions ==
  ASSUME NEW d, NEW a, NEW decision, NEW g
  PROVE  /\ Service!CanDecideApproval(d, a, decision, g) <=> CanDecideApproval(d, a, decision, g)
         /\ Service!DecideApproval(d, a, decision, g) = DecideApproval(d, a, decision, g)
<1>1. Service!CanDecideApproval(d, a, decision, g) <=> CanDecideApproval(d, a, decision, g)
  BY DEF Service!CanDecideApproval, CanDecideApproval, Service!CanRecord, CanRecord,
    Service!CanResumeRun, CanResumeRun, Service!Decided, Decided, Service!Record, Record,
    Service!InsertGrant, InsertGrant, Service!ResumesRun, ResumesRun, Service!Pending, Pending,
    Service!CanTransitionRun, CanTransitionRun, Service!RunTransition, RunTransition
<1>2. Service!DecideApproval(d, a, decision, g) = DecideApproval(d, a, decision, g)
  BY DEF Service!DecideApproval, DecideApproval, Service!Decided, Decided,
    Service!Record, Record, Service!InsertGrant, InsertGrant,
    Service!ResumeRunWithoutPendingApprovals, ResumeRunWithoutPendingApprovals,
    Service!ResumesRun, ResumesRun, Service!Pending, Pending,
    Service!TransitionRun, TransitionRun
<1> QED
  BY <1>1, <1>2

LEMMA SameUse ==
  ASSUME NEW d, NEW g, NEW r, NEW dg
  PROVE  /\ Service!CanConsumeGrant(d, g, r, dg) <=> CanConsumeGrant(d, g, r, dg)
         /\ Service!ConsumeExecutionGrant(d, g) = ConsumeExecutionGrant(d, g)
         /\ Service!Elapse(d) = Elapse(d)
<1>1. Service!CanConsumeGrant(d, g, r, dg) <=> CanConsumeGrant(d, g, r, dg)
  BY DEF Service!CanConsumeGrant, CanConsumeGrant, Service!CanRecord, CanRecord
<1>2. Service!ConsumeExecutionGrant(d, g) = ConsumeExecutionGrant(d, g)
  BY DEF Service!ConsumeExecutionGrant, ConsumeExecutionGrant, Service!Record, Record
<1>3. Service!Elapse(d) = Elapse(d)
  BY DEF Service!Elapse, Elapse, Service!Less, Less
<1> QED
  BY <1>1, <1>2, <1>3

(* No grant is spent, and those that are stay what they were.              *)
SameSpent(d, e) ==
  \A g \in Grant :
    /\ e.grant[g].status = "consumed" <=> d.grant[g].status = "consumed"
    /\ d.grant[g].status = "consumed" =>
         e.grant[g].run = d.grant[g].run /\ e.grant[g].digest = d.grant[g].digest

LEMMA HistoryStays ==
  ASSUME SameSpent(db, db')
  PROVE  UNCHANGED <<usesOf, usedAsOf>>
<1>1. ASSUME NEW g \in Grant
      PROVE  /\ usesOf'[g] = usesOf[g]
             /\ usedAsOf'[g] = usedAsOf[g]
  BY DEF SameSpent, usesOf, usedAsOf
<1>2. usesOf' = usesOf
  BY <1>1 DEF usesOf
<1>3. usedAsOf' = usedAsOf
  BY <1>1 DEF usedAsOf
<1> QED
  BY <1>2, <1>3

LEMMA SpentChain ==
  ASSUME NEW d, NEW e, NEW f, SameSpent(d, e), SameSpent(e, f)
  PROVE  SameSpent(d, f)
BY DEF SameSpent

LEMMA SpentSame ==
  ASSUME NEW d, NEW e, e.grant = d.grant
  PROVE  SameSpent(d, e)
BY DEF SameSpent

LEMMA SpentExpire ==
  ASSUME NEW d \in StoreContent
  PROVE  SameSpent(d, ExpireDueApprovals(d))
BY ExpireRows DEF SameSpent, KeepsColumns

LEMMA SpentDecide ==
  ASSUME NEW d, StoreInv(d), NEW a \in Approval, NEW g \in Grant \cup {NoGrant},
         NEW decision \in {"approved", "denied"},
         decision = "approved" => g \in Grant /\ d.grant[g].status = "absent",
         d.approval[a].status = "pending"
  PROVE  SameSpent(d, DecideApproval(d, a, decision, g))
<1>1. RuledOn(d, DecideApproval(d, a, decision, g), a, decision, g)
  BY DecideRows DEF StoreInv, NotNull
<1> QED
  BY <1>1 DEF RuledOn, SameSpent

LEMMA SpentElapse ==
  ASSUME NEW d \in StoreContent
  PROVE  SameSpent(d, Elapse(d))
<1> DEFINE e == Elapse(d)
<1>1. \A g \in Grant : /\ d.grant[g] \in GrantRow
                        /\ e.grant[g] = [d.grant[g] EXCEPT !.left = Less(d.grant[g].left)]
  BY DEF Elapse, StoreContent
<1> HIDE DEF e
<1>2. SameSpent(d, e)
  BY <1>1 DEF GrantRow, SameSpent
<1> QED
  BY <1>2 DEF e

LEMMA SpentRuns ==
  ASSUME NEW d \in StoreContent, NEW r \in Run, NEW to
  PROVE  SameSpent(d, CreateRun(d, r)) /\ SameSpent(d, TransitionRun(d, r, to))
<1>1. CreateRun(d, r).grant = d.grant /\ TransitionRun(d, r, to).grant = d.grant
  BY DEF CreateRun, TransitionRun, StoreContent
<1> QED
  BY <1>1, SpentSame

(* What a handler of the service leaves alone.                             *)
LEMMA Quiet ==
  ASSUME SameSpent(db, db')
  PROVE  UNCHANGED Service!history
BY HistoryStays DEF Service!history

LEMMA ServiceSettles ==
  /\ Service!settled = settled
  /\ Service!CanExpireDueApprovals(db) <=> CanExpireDueApprovals(db)
BY SameExpiry DEF Service!settled, settled

(* Reading the approvals is a step of the service, or none.                *)
LEMMA ReadIsService ==
  ASSUME GInv, db' \in {db, Refreshed(db)} \/ (CanExpireDueApprovals(db) /\ db' = settled)
  PROVE  [Service!Next]_<<db, usesOf, usedAsOf>>
<1>1. CASE db' = db
  BY <1>1, SpentSame, HistoryStays
<1>2. CASE CanExpireDueApprovals(db) /\ db' = settled
  <2>1. SameSpent(db, db')
    BY <1>2, SpentExpire DEF settled, GInv, StoreInv
  <2>2. Service!ListApprovals
    BY <1>2, <2>1, ServiceSettles, Quiet DEF Service!ListApprovals
  <2> QED
    BY <2>2 DEF Service!Next
<1> QED
  BY <1>1, <1>2 DEF Refreshed, settled

LEMMA RunStepsAreService ==
  ASSUME GInv, (\E r \in Run : CreateCliRun(r) \/ CliReport(r)) \/ LaunchCliRun
  PROVE  [Service!Next]_<<db, usesOf, usedAsOf>>
<1>1. db \in StoreContent
  BY DEF GInv, StoreInv
<1>2. CASE \E r \in Run : CreateCliRun(r)
  <2>1. PICK r \in Run : db.run[r] = "absent" /\ db' = CreateRun(db, r)
    BY <1>2 DEF CreateCliRun
  <2>2. SameSpent(db, db')
    BY <1>1, <2>1, SpentRuns
  <2>3. Service!NewRun(r)
    BY <2>1, <2>2, Quiet, SameRuns DEF Service!NewRun
  <2> QED
    BY <2>3 DEF Service!Next
<1>3. ASSUME NEW r \in Run, NEW to \in RunStatus,
             CanTransitionRun(db, r, to), db' = TransitionRun(db, r, to)
      PROVE  Service!Next
  <2>1. SameSpent(db, db')
    BY <1>1, <1>3, SpentRuns
  <2>2. <<db.run[r], to>> \in RunTransition
    BY <1>3 DEF CanTransitionRun
  <2>3. Service!PostRunStatus(r, to)
    BY <1>3, <2>1, <2>2, Quiet, SameRuns DEF Service!PostRunStatus
  <2>4. to \in Service!RunStatus
    BY DEF Service!RunStatus, RunStatus
  <2> QED
    BY <2>3, <2>4 DEF Service!Next
<1>4. CASE LaunchCliRun
  <2>1. job.run \in Run /\ "running" \in RunStatus
    BY <1>4 DEF LaunchCliRun, GInv, JobHolds, RunStatus
  <2> QED
    BY <1>3, <1>4, <2>1 DEF LaunchCliRun
<1>5. CASE \E r \in Run : CliReport(r)
  <2>1. PICK r \in Run : CliReport(r)
    BY <1>5
  <2>2. cli[r] \in RunStatus
    BY <2>1 DEF CliReport, RunStatus
  <2>3. CASE CanTransitionRun(db, r, cli[r])
    <3>1. db' = TransitionRun(db, r, cli[r])
      BY <2>1, <2>3 DEF CliReport
    <3> QED
      BY <1>3, <2>2, <2>3, <3>1
  <2>4. CASE ~CanTransitionRun(db, r, cli[r])
    <3>1. db' = db
      BY <2>1, <2>4 DEF CliReport
    <3> QED
      BY <3>1, ReadIsService
  <2> QED
    BY <2>3, <2>4
<1> QED
  BY <1>2, <1>4, <1>5

LEMMA RequestIsService ==
  ASSUME GInv, NEW r \in Run, NEW a \in Approval, RequestDelete(r, a)
  PROVE  Service!Next
<1>1. /\ file \in Digest /\ db.run[r] # "absent"
      /\ CanExpireDueApprovals(db)
      /\ CanCreateApproval(settled, a, r)
      /\ db' = CreateApproval(settled, a, r, file)
  BY DEF RequestDelete, Restorable
<1>2. db \in StoreContent /\ settled \in StoreContent
  BY Settled
<1>3. SameSpent(db, db')
  <2>1. SameSpent(db, settled)
    BY <1>2, SpentExpire DEF settled
  <2>2. db'.grant = settled.grant
    <3>1. CreateApproval(settled, a, r, file).grant = settled.grant
      BY <1>2 DEF CreateApproval, TransitionRun, Record, StoreContent
    <3> QED
      BY <1>1, <3>1
  <2>3. SameSpent(settled, db')
    BY <2>2, SpentSame
  <2> QED
    BY <2>1, <2>3, SpentChain
<1>4. Service!EvaluateAsk(r, file, a)
  BY <1>1, <1>3, Quiet, ServiceSettles, SameRequests DEF Service!EvaluateAsk
<1> QED
  BY <1>1, <1>4 DEF Service!Next

LEMMA DecisionIsService ==
  ASSUME GInv
  PROVE  /\ \A a \in Approval, g \in Grant : Approve(a, g) => Service!Next
         /\ \A a \in Approval : Deny(a) => Service!Next
<1>1. /\ db \in StoreContent /\ settled \in StoreContent /\ StoreInv(settled)
      /\ SameSpent(db, settled)
  BY Settled, SpentExpire DEF settled
<1>2. ASSUME NEW a \in Approval, NEW g \in Grant \cup {NoGrant},
             NEW decision \in {"approved", "denied"},
             decision = "approved" => g \in Grant /\ db.grant[g].status = "absent",
             CanDecideApproval(settled, a, decision, g),
             db' = DecideApproval(settled, a, decision, g)
      PROVE  SameSpent(db, db')
  <2>1. decision = "approved" => g \in Grant /\ settled.grant[g].status = "absent"
    BY <1>1, <1>2, ExpireRows DEF settled
  <2>2. settled.approval[a].status = "pending"
    BY <1>2 DEF CanDecideApproval
  <2>3. SameSpent(settled, db')
    BY <1>1, <1>2, <2>1, <2>2, SpentDecide
  <2> QED
    BY <1>1, <2>3, SpentChain
<1>3. ASSUME NEW a \in Approval, NEW g \in Grant, Approve(a, g)
      PROVE  Service!Next
  <2>1. SameSpent(db, db')
    BY <1>2, <1>3 DEF Approve
  <2>2. Service!Approve(a, g)
    BY <1>3, <2>1, Quiet, ServiceSettles, SameDecisions DEF Approve, Service!Approve
  <2> QED
    BY <2>2 DEF Service!Next
<1>4. ASSUME NEW a \in Approval, Deny(a)
      PROVE  Service!Next
  <2>1. SameSpent(db, db')
    BY <1>2, <1>4 DEF Deny
  <2>2. Service!Deny(a)
    BY <1>4, <2>1, Quiet, ServiceSettles, SameDecisions DEF Deny, Service!Deny
  <2> QED
    BY <2>2 DEF Service!Next
<1> QED
  BY <1>3, <1>4

(* The grant is consumed for the run, the approval and the content that    *)
(* the service would demand, although the gateway checks less.             *)
LEMMA ConsumptionIsService ==
  ASSUME GInv, InspectAndConsume
  PROVE  Service!Next
<1> DEFINE a == job.approval
           r == job.run
           g == settled.approval[a].grant
<1>1. /\ a \in Approval /\ file \in Digest /\ MayConsume
      /\ CanExpireDueApprovals(db)
      /\ CanConsumeGrant(settled, g, r, file)
      /\ db' = ConsumeExecutionGrant(settled, g)
  BY DEF InspectAndConsume, MayConsume, GInv, JobHolds, Values, Deciding, Executing
<1>2. /\ g \in Grant
      /\ settled.grant[g].status = "active"
      /\ settled.grant[g].left > 0
      /\ settled.grant[g].run = r
      /\ settled.approval[a].status = "approved"
      /\ settled.approval[a].digest = file
      /\ r \in Run
  BY <1>1, ConsumesItsGrant
<1>3. settled.grant[g].digest = file
  BY <1>1 DEF CanConsumeGrant
<1>4. /\ db \in StoreContent /\ settled \in StoreContent /\ SameSpent(db, settled)
  BY Settled, SpentExpire DEF settled
<1>5. g = settled.approval[a].grant
  OBVIOUS
<1> HIDE DEF a, r, g
<1>6. /\ KeepsColumns(settled, db')
      /\ \A h \in Grant :
           db'.grant[h].status = IF h = g THEN "consumed" ELSE settled.grant[h].status
  BY <1>1, <1>2, <1>4, ConsumeRows
<1>7. db.grant[g].status # "consumed"
  BY <1>2, <1>4 DEF SameSpent
<1>8. usesOf' = [usesOf EXCEPT ![g] = @ + 1]
  <2>1. \A h \in Grant : usesOf'[h] = IF h = g THEN usesOf[h] + 1 ELSE usesOf[h]
    BY <1>4, <1>6, <1>7 DEF usesOf, SameSpent
  <2> QED
    BY <1>2, <2>1 DEF usesOf
<1>9. usedAsOf' = [usedAsOf EXCEPT ![g] = [run |-> r, digest |-> file]]
  <2>1. /\ db'.grant[g].run = r /\ db'.grant[g].digest = file
        /\ db'.grant[g].status = "consumed"
    BY <1>2, <1>3, <1>6 DEF KeepsColumns
  <2>2. usedAsOf'[g] = [run |-> r, digest |-> file]
    BY <1>2, <2>1 DEF usedAsOf
  <2>3. \A h \in Grant \ {g} : usedAsOf'[h] = usedAsOf[h]
    BY <1>4, <1>6 DEF usedAsOf, SameSpent, KeepsColumns
  <2> QED
    BY <1>2, <2>2, <2>3 DEF usedAsOf
<1>10. Service!ConsumeApproved(a, r, file)
  BY <1>1, <1>2, <1>5, <1>8, <1>9, ServiceSettles, SameUse
  DEF Service!ConsumeApproved, Service!Act
<1> QED
  BY <1>1, <1>2, <1>10 DEF Service!Next

(* Every step of the gateway, its clients and the daemon's deaths is, for  *)
(* the tables, a step of a caller of the approval service: what is proved  *)
(* of the service holds of this store too.                                 *)
THEOREM GatewayUsesTheService == Spec => UsesTheService
<1>1. Init => Service!Init
  <2> SUFFICES ASSUME Init
               PROVE  Service!Init
    OBVIOUS
  <2>1. \A g \in Grant : db.grant[g].status = "absent"
    BY DEF Init, EmptyStore
  <2>2. usesOf = [g \in Grant |-> 0] /\ usedAsOf = [g \in Grant |-> Service!NoUse]
    BY <2>1 DEF usesOf, usedAsOf, Service!NoUse
  <2>3. db = Service!EmptyStore
    BY DEF Init, EmptyStore, Service!EmptyStore
  <2> QED
    BY <2>2, <2>3 DEF Service!Init
<1>2. ASSUME GInv, [Next]_vars
      PROVE  [Service!Next]_<<db, usesOf, usedAsOf>>
  <2>1. CASE (\E r \in Run : CreateCliRun(r) \/ CliReport(r)) \/ LaunchCliRun
    BY <1>2, <2>1, RunStepsAreService
  <2>2. CASE \E r \in Run, a \in Approval : RequestDelete(r, a)
    BY <1>2, <2>2, RequestIsService
  <2>3. CASE (\E a \in Approval, g \in Grant : Approve(a, g)) \/ (\E a \in Approval : Deny(a))
    BY <1>2, <2>3, DecisionIsService
  <2>4. CASE InspectAndConsume
    BY <1>2, <2>4, ConsumptionIsService
  <2>5. CASE Tick
    <3>1. db' = Elapse(db) /\ SameSpent(db, db')
      BY <1>2, <2>5, SpentElapse DEF Tick, GInv, StoreInv
    <3>2. Service!Tick
      BY <3>1, Quiet, SameUse DEF Service!Tick
    <3> QED
      BY <3>2 DEF Service!Next
  <2>6. CASE db' \in {db, Refreshed(db)} \/ (CanExpireDueApprovals(db) /\ db' = settled)
    BY <1>2, <2>6, ReadIsService
  <2> QED
    BY <1>2, <2>1, <2>2, <2>3, <2>4, <2>5, <2>6
    DEF Next, HandlerStep, vars, RegisterAction, RequestRefused, ResolveMissing, ResolveDenied,
        EndDecision, StartExecuting, ExecutionRejected, Unlink, UnlinkFails, RecordOutcome,
        CliPoll, ListApprovals, Edit, Crash
<1> QED
  BY <1>1, <1>2, GatewayInvariance, PTL DEF Spec, UsesTheService, Service!Spec, Service!vars
=============================================================================
