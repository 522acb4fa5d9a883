-------------------------- MODULE HostedRunProofs ---------------------------
(***************************************************************************)
(* Proofs about the hosted run manager, for every number of provider       *)
(* sessions and of deaths of the daemon.                                   *)
(*                                                                         *)
(* The invariant says what the stretch at work may count on, at the        *)
(* beginning (StartHolds) and at the end (EndHolds) of a run, what the     *)
(* daemon is doing meanwhile (DaemonHolds), how the rows agree (RowsHold), *)
(* whose they are (OwnerHolds), how sessions are numbered (Numbered) and   *)
(* which turns are alive (TurnsHold).  The hard part is the coroutine that *)
(* wakes late: whoever awaits an exit awaits that of the context the       *)
(* manager holds, or the run is over and nothing is left to wind up.       *)
(***************************************************************************)
EXTENDS HostedRun, FiniteSetTheorems, TLAPS

-----------------------------------------------------------------------------
(* The invariant                                                           *)

UnderWay == OpenSession \ {"created"}
Going == {"running", "waiting_approval"}
Opening == {"prepare", "restore", "issue"}
Starting == Opening \cup {"activate", "set_running", "launch"}
Winding == {"finalize", "end_session", "end_run"}
Reclaiming == {"discard", "abandon", "remove"}

Over == run \in TerminalRunStatus
AtRest == workspace \notin {"preparing", "ready", "active"}

(* The worktree has been dealt with, for good.                             *)
Finalized ==
  \/ job.step \in {"end_session", "end_run"} /\ job.verdict # "interrupted"
  \/ job.step = "finalize" /\ job.verdict = "failed"

Owner(s) == active = s \/ (active = NoSession /\ Over)

(* Sessions are numbered without a gap, and there is room for those that   *)
(* are about to be created.                                                *)
Numbered ==
  /\ Issued = 1 .. Latest
  /\ Latest + resuming + (IF job.step \in Opening THEN 1 ELSE 0) <= MaxSession
  /\ run = "absent" => Latest = 0 /\ resuming = 0

(* What the daemon is doing while a stretch is at work, and what it holds. *)
DaemonHolds ==
  /\ job.step \in Starting => daemon = "up"
  /\ job.step \in Winding => ~replaced /\ daemon \in {"up", "closing"}
  /\ job.step \in Reclaiming <=> daemon = "recovering"
  /\ daemon = "off" => job.step = "free"
  /\ replaced => job.step \in {"launch", "free"}
  /\ daemon \in {"off", "recovering"} => resuming = 0 /\ ~replaced
  /\ daemon \in {"closed", "off", "recovering"} =>
       active = NoSession /\ \A s \in Session : awaits[s] = {}
  /\ \A s \in Session : "shutdown" \in awaits[s] => daemon = "closing"
  /\ daemon = "closing" /\ active # NoSession /\ run \in Going =>
       "shutdown" \in awaits[active] \/ job.step \in Winding

(* What start and continue may count on, stretch by stretch.               *)
StartHolds ==
  /\ job.step \in {"prepare", "restore", "activate"} => run = "created"
  /\ job.step \in {"prepare", "restore"} => resuming = 0
  /\ job.step = "issue" => run = "created" \/ (run # "absent" /\ workspace # "ready")
  /\ job.step \in {"activate", "set_running", "launch"} =>
       job.s \in Session /\ session[job.s] = "created"
  /\ job.step = "launch" => run = "running" /\ active = job.s
  /\ \/ active # NoSession \/ resuming > 0 \/ job.step \in {"set_running", "launch"}
     \/ job.step = "issue" /\ workspace # "ready"
     => workspace = "active" \/ Over \/ Finalized

(* What the stretch that ends a run, or gives its worktree up, may count   *)
(* on.                                                                     *)
EndHolds ==
  /\ job.step \in Winding => job.s \in Session /\ job.verdict \in Outcome /\ Owner(job.s)
  /\ job.step = "finalize" => job.verdict # "interrupted"
  /\ job.step \in Winding /\ job.verdict = "interrupted" => daemon = "closing"
  /\ job.step \in {"end_session", "end_run"} /\ job.verdict # "interrupted" => AtRest
  /\ job.step \in {"end_session", "end_run"} /\ job.verdict = "completed" /\ ~Over =>
       workspace = "finalized"
  /\ job.step = "end_run" => session[job.s] \notin OpenSession
  /\ job.step = "end_run" /\ job.verdict = "completed" /\ run = "running" =>
       session[job.s] = "completed"
  /\ job.step = "discard" => workspace \in {"preparing", "ready"}
  /\ job.step \in {"abandon", "remove"} => workspace = "failed"

(* How the rows of run, worktree and sessions agree.                       *)
RowsHold ==
  /\ workspace = "preparing" => job.step \in {"restore", "discard"} \/ daemon = "off"
  /\ Over => AtRest
  /\ CompletedRunIsKept
  /\ \A s \in Session : session[s] \in UnderWay => run \in Going
  /\ run \in Going /\ active = NoSession => crashes > 0

(* Who holds what is under way, and who waits for it.                      *)
OwnerHolds ==
  /\ ~replaced /\ daemon # "off" => \A s \in Session : session[s] \in UnderWay => active = s
  /\ ~replaced => \A s \in Session : awaits[s] # {} => Owner(s)
  /\ active # NoSession => run \in Going \/ (run = "interrupted" /\ daemon = "closing")
  /\ active # NoSession /\ run \in Going =>
       \/ session[active] \in OpenSession \/ job.step = "end_run"
       \/ job.step \in Winding /\ job.verdict = "failed"

(* The answer to turn/start is looked at only while its turn is alive, or  *)
(* when it makes no difference any more.                                   *)
TurnsHold ==
  /\ job.step = "launch" => ~ctx[job.s].turn
  /\ \A s \in Session :
       /\ call[s] = "egress" => ~ctx[s].turn
       /\ active = s /\ Alive(host[s]) /\ ~ctx[s].finalizing =>
            /\ ctx[s].turn => live[s]
            /\ call[s] = "answered" /\ TurnIsMine(s) => live[s]

Held ==
  /\ Numbered /\ DaemonHolds /\ StartHolds
  /\ EndHolds /\ RowsHold /\ OwnerHolds

HInv == TypeOK /\ Held /\ TurnsHold

-----------------------------------------------------------------------------
(* Numbers, transitions and values                                         *)

(* Nobody is no session.                                                   *)
LEMMA NobodyIsNoSession == NoSession \notin Session
BY HostedAssumption DEF NoSession, Session

(* The number of sessions issued is a number, and 1 .. n has n members.    *)
LEMMA LatestIsNumber ==
  /\ Latest \in Nat
  /\ \A n \in Nat : Cardinality(1 .. n) = n
<1>1. IsFiniteSet(Session)
  BY HostedAssumption, FS_Interval DEF Session
<1>2. IsFiniteSet(Issued)
  BY <1>1, FS_Subset DEF Issued
<1>3. Latest \in Nat
  BY <1>2, FS_CardinalityType DEF Latest
<1>4. \A n \in Nat : Cardinality(1 .. n) = n
  BY FS_Interval
<1> QED
  BY <1>3, <1>4

(* A session that changes its status stays a session issued.               *)
LEMMA SameIssued ==
  ASSUME \A s \in Session : session'[s] = "absent" <=> session[s] = "absent"
  PROVE  Issued' = Issued /\ Latest' = Latest
<1>1. Issued' = Issued
  BY DEF Issued, Session
<1> QED
  BY <1>1 DEF Latest

(* A run that is over stays as it is, and only a running one completes.    *)
LEMMA RunMoves ==
  ASSUME NEW from, NEW to, <<from, to>> \in RunTransition
  PROVE  /\ from \notin TerminalRunStatus
         /\ from \in {"created", "running", "waiting_approval", "interrupted"}
         /\ to = "running" => from \in {"created", "waiting_approval", "interrupted"}
         /\ to = "completed" => from = "running"
BY DEF RunTransition, TerminalRunStatus

(* Any run under way or interrupted may fail.                              *)
LEMMA AnyRunMayFail ==
  ASSUME NEW from \in {"created", "running", "waiting_approval", "interrupted"}
  PROVE  <<from, "failed">> \in RunTransition
BY DEF RunTransition

(* Every operation of the supervisor gives a host.                         *)
LEMMA HostValues ==
  ASSUME NEW h \in Host
  PROVE  /\ Spawned(h) \in Host /\ Terminated(h) \in Host /\ Faulted(h) \in Host
         /\ TimedOut(h) \in Host /\ GivenUp(h) \in Host /\ Closed(h) \in Host
         /\ \A o \in Outcome : Stopped(h, o) \in Host
         /\ \A b \in BOOLEAN : Gone(h, b) \in Host
         /\ \A t \in {"starting", "running", "failed"} : [h EXCEPT !.state = t] \in Host
<1>1. \A g \in Host : Terminated(g) \in Host
  BY DEF Terminated, Host
<1>2. \A g \in Host : Faulted(g) \in Host
  BY <1>1 DEF Faulted, Host
<1>3. TimedOut(h) \in Host
  BY <1>2 DEF TimedOut, Host, Outcome
<1>4. \A g \in Host, o \in Outcome : Stopped(g, o) \in Host
  BY <1>1 DEF Stopped, Host
<1>5. GivenUp(h) \in Host
  <2>1. [h EXCEPT !.faulty = TRUE] \in Host /\ "failed" \in Outcome
    BY DEF Host, Outcome
  <2> QED
    BY <1>4, <2>1 DEF GivenUp
<1>6. Closed(h) \in Host
  BY DEF Closed, Host, Outcome
<1>7. \A b \in BOOLEAN : Gone(h, b) \in Host
  BY DEF Gone, Host
<1>8. \A t \in {"starting", "running", "failed"} : [h EXCEPT !.state = t] \in Host
  BY DEF Host
<1>9. Spawned(h) \in Host
  BY DEF Spawned, Host
<1> QED
  BY <1>1, <1>2, <1>3, <1>4, <1>5, <1>6, <1>7, <1>8, <1>9

(* Nothing but spawning brings a child to life.                            *)
LEMMA OnlySpawnedLive ==
  ASSUME NEW h \in Host
  PROVE  /\ Alive(Faulted(h)) => Alive(h)
         /\ Alive(TimedOut(h)) => Alive(h)
         /\ Alive(GivenUp(h)) => Alive(h)
         /\ ~Alive(Closed(h))
         /\ \A o \in Outcome : Alive(Stopped(h, o)) => Alive(h)
         /\ \A b \in BOOLEAN : ~Alive(Gone(h, b))
         /\ \A t \in {"starting", "running", "failed"} :
              Alive([h EXCEPT !.state = t]) => Alive(h)
<1>1. \A g \in Host : Alive(Terminated(g)) => Alive(g)
  BY DEF Terminated, Alive, Host
<1>2. \A g \in Host : Alive(Faulted(g)) => Alive(g)
  BY <1>1 DEF Faulted, Terminated, Alive, Host
<1>3. Alive(TimedOut(h)) => Alive(h)
  BY <1>2 DEF TimedOut, Faulted, Terminated, Alive, Host
<1>4. \A g \in Host, o \in Outcome : Alive(Stopped(g, o)) => Alive(g)
  BY <1>1 DEF Stopped, Terminated, Alive, Host
<1>5. Alive(GivenUp(h)) => Alive(h)
  <2>1. [h EXCEPT !.faulty = TRUE] \in Host /\ "failed" \in Outcome
    BY DEF Host, Outcome
  <2>2. Alive([h EXCEPT !.faulty = TRUE]) => Alive(h)
    BY DEF Alive, Host
  <2> QED
    BY <1>4, <2>1, <2>2 DEF GivenUp
<1>6. ~Alive(Closed(h))
  BY DEF Closed, Host, Alive
<1>7. \A b \in BOOLEAN : ~Alive(Gone(h, b))
  BY DEF Gone, Host, Alive
<1>8. \A t \in {"starting", "running", "failed"} : Alive([h EXCEPT !.state = t]) => Alive(h)
  BY DEF Host, Alive
<1> QED
  BY <1>2, <1>3, <1>4, <1>5, <1>6, <1>7, <1>8

-----------------------------------------------------------------------------
(* Values                                                                  *)

(* A context that is changed in one respect, or is wound up, is a context. *)
LEMMA ContextValues ==
  ASSUME NEW c \in Context
  PROVE  /\ Ending(c) \in Context /\ NoContext \in Context /\ NewContext \in Context
         /\ \A b \in BOOLEAN : [c EXCEPT !.turn = b] \in Context
         /\ \A b \in BOOLEAN : [c EXCEPT !.finalizing = b] \in Context
         /\ [c EXCEPT !.thread = TRUE] \in Context
         /\ [c EXCEPT !.thread = TRUE, !.state = "running"] \in Context
         /\ [c EXCEPT !.state = "running", !.turn = FALSE] \in Context
         /\ [c EXCEPT !.state = "idle"] \in Context
BY DEF Context, Ending, NoContext, NewContext

(* The records of stretches.                                               *)
JobState == [step : JobStep, s : Session \cup {NoSession}, verdict : Outcome \cup {"none"}]

LEMMA JobValues ==
  /\ NoJob \in JobState /\ NoJob.step = "free"
  /\ \A step \in JobStep, s \in Session \cup {NoSession} :
       /\ Job(step, s) \in JobState
       /\ Job(step, s).step = step /\ Job(step, s).s = s /\ Job(step, s).verdict = "none"
<1>1. NoJob \in JobState /\ NoJob.step = "free"
  BY DEF JobState, NoJob, JobStep, Outcome
<1>2. \A step \in JobStep, s \in Session \cup {NoSession} :
        /\ Job(step, s) \in JobState
        /\ Job(step, s).step = step /\ Job(step, s).s = s /\ Job(step, s).verdict = "none"
  BY DEF JobState, Job, NoJob, Outcome
<1> QED
  BY <1>1, <1>2

LEMMA WindUpValues ==
  ASSUME NEW s \in Session, NEW v \in Outcome
  PROVE  /\ WindUp(s, v) \in JobState
         /\ WindUp(s, v).step = IF v = "interrupted" THEN "end_session" ELSE "finalize"
         /\ WindUp(s, v).s = s /\ WindUp(s, v).verdict = v
BY DEF JobState, WindUp, JobStep

LEMMA NextJobValues ==
  ASSUME NEW j \in JobState, NEW step \in JobStep
  PROVE  /\ [j EXCEPT !.step = step] \in JobState
         /\ [j EXCEPT !.step = step].step = step
         /\ [j EXCEPT !.step = step].s = j.s
         /\ [j EXCEPT !.step = step].verdict = j.verdict
         /\ \A v \in Outcome :
              /\ [j EXCEPT !.step = step, !.verdict = v] \in JobState
              /\ [j EXCEPT !.step = step, !.verdict = v].step = step
              /\ [j EXCEPT !.step = step, !.verdict = v].s = j.s
              /\ [j EXCEPT !.step = step, !.verdict = v].verdict = v
BY DEF JobState

(* Whoever awaits the exit has a verdict.                                  *)
LEMMA Verdicts ==
  ASSUME NEW w \in Waiter \ {"interrupt"}, NEW o
  PROVE  Verdict(w, o) \in Outcome /\ (Verdict(w, o) = "interrupted" <=> w = "shutdown")
BY DEF Verdict, Waiter, Outcome

(* The record of the stretch that is at work after the next step.          *)
LEMMA NextJob ==
  ASSUME TypeOK, Held, JobRuns
  PROVE  job' \in JobState
<1>0. job \in JobState /\ "failed" \in Outcome
  BY DEF TypeOK, JobState, Outcome
<1>1. CASE PrepareWorkspace \/ RestoreWorktree
  BY <1>1, JobValues DEF PrepareWorkspace, RestoreWorktree, JobStep
<1>2. CASE CreateProviderSession
  <2>1. Latest + 1 \in Session
    <3>1. Latest + resuming + 1 <= MaxSession
      BY <1>2 DEF CreateProviderSession, Held, Numbered, Opening
    <3>2. resuming \in Nat /\ Latest \in Nat
      BY LatestIsNumber DEF TypeOK
    <3> QED
      BY <3>1, <3>2, HostedAssumption DEF Session
  <2> QED
    BY <1>2, <2>1, JobValues DEF CreateProviderSession, JobStep
<1>3. CASE ActivateWorkspace
  BY <1>0, <1>3, NextJobValues DEF ActivateWorkspace, JobStep
<1>4. CASE SetRunning
  <2>1. job' = NoJob \/ job' = [job EXCEPT !.step = "launch"]
    BY <1>4 DEF SetRunning
  <2>2. "launch" \in JobStep
    BY DEF JobStep
  <2>3. [job EXCEPT !.step = "launch"] \in JobState /\ NoJob \in JobState
    BY <1>0, <2>2, JobValues, NextJobValues, Zenon
  <2> QED
    BY <2>1, <2>3
<1>5. CASE Launch
  BY <1>5, JobValues DEF Launch
<1>6. CASE FinalizeWorkspace
  <2>1. \/ job' = [job EXCEPT !.step = "end_session"]
        \/ job' = [job EXCEPT !.step = "end_session", !.verdict = "failed"]
    BY <1>6 DEF FinalizeWorkspace, FinalVerdict
  <2>2. "end_session" \in JobStep
    BY DEF JobStep
  <2>3. /\ [job EXCEPT !.step = "end_session"] \in JobState
        /\ [job EXCEPT !.step = "end_session", !.verdict = "failed"] \in JobState
    BY <1>0, <2>2, NextJobValues, Zenon
  <2> QED
    BY <2>1, <2>3
<1>7. CASE EndSession
  BY <1>0, <1>7, NextJobValues DEF EndSession, JobStep
<1>8. CASE EndRun
  <2>1. job.s \in Session
    BY <1>8 DEF EndRun, Held, EndHolds, Winding
  <2> QED
    BY <1>0, <1>8, <2>1, JobValues, WindUpValues DEF EndRun
<1>9. CASE DiscardWorkspace \/ AbandonRun \/ RemoveWorktree
  BY <1>9, JobValues DEF DiscardWorkspace, AbandonRun, RemoveWorktree, JobStep
<1> QED
  BY <1>1, <1>2, <1>3, <1>4, <1>5, <1>6, <1>7, <1>8, <1>9 DEF JobRuns

(* Each stretch leaves every variable its values.                          *)
LEMMA JobTypes ==
  ASSUME TypeOK, Held, JobRuns
  PROVE  TypeOK'
<1>0. job' \in JobState
  BY NextJob
<1>1. CASE PrepareWorkspace \/ RestoreWorktree \/ ActivateWorkspace
  BY <1>0, <1>1
  DEF PrepareWorkspace, RestoreWorktree, ActivateWorkspace,
      TypeOK, JobState, WorkspaceStatus, memory, provider
<1>2. CASE DiscardWorkspace \/ RemoveWorktree
  BY <1>0, <1>2
  DEF DiscardWorkspace, RemoveWorktree, TypeOK, JobState, WorkspaceStatus, memory, provider
<1>3. CASE CreateProviderSession
  <2>1. session' \in [Session -> SessionStatus]
    BY <1>3 DEF CreateProviderSession, TypeOK, SessionStatus
  <2> QED
    BY <1>0, <1>3, <2>1 DEF CreateProviderSession, TypeOK, JobState, memory, provider
<1>4. CASE SetRunning
  <2>1. job.s \in Session /\ NewContext \in Context
    BY <1>4 DEF SetRunning, Held, StartHolds, Context, NewContext, NoContext
  <2>2. /\ run' \in RunStatus /\ replaced' \in BOOLEAN
        /\ active' \in Session \cup {NoSession} /\ ctx' \in [Session -> Context]
    BY <1>4, <2>1 DEF SetRunning, TypeOK, RunStatus
  <2> QED
    BY <1>0, <1>4, <2>2 DEF SetRunning, TypeOK, JobState, provider
<1>5. CASE Launch
  <2>1. job.s \in Session
    BY <1>5 DEF Launch, Held, StartHolds
  <2>2. [host[job.s] EXCEPT !.state = "starting"] \in Host
    BY <2>1, HostValues DEF TypeOK
  <2>3. host' = [host EXCEPT ![job.s] = [host[job.s] EXCEPT !.state = "starting"]]
    BY <1>5, <2>1 DEF Launch, TypeOK
  <2>4. /\ host' \in [Session -> Host] /\ session' \in [Session -> SessionStatus]
        /\ call' \in [Session -> Stage]
    BY <1>5, <2>1, <2>2, <2>3 DEF Launch, TypeOK, SessionStatus, Stage
  <2> QED
    BY <1>0, <1>5, <2>4 DEF Launch, TypeOK, JobState
<1>6. CASE FinalizeWorkspace
  BY <1>0, <1>6 DEF FinalizeWorkspace, TypeOK, JobState, WorkspaceStatus, memory, provider
<1>7. CASE EndSession
  <2>1. job.s \in Session /\ job.verdict \in SessionStatus
    BY <1>7 DEF EndSession, Held, EndHolds, Winding, Outcome, SessionStatus
  <2>2. session' \in [Session -> SessionStatus]
    BY <1>7, <2>1 DEF EndSession, TypeOK
  <2> QED
    BY <1>0, <1>7, <2>2 DEF EndSession, TypeOK, JobState, memory, provider
<1>8. CASE EndRun
  <2>1. job.verdict \in RunStatus
    BY <1>8 DEF EndRun, Held, EndHolds, Winding, Outcome, RunStatus
  <2>2. run' \in RunStatus /\ active' \in Session \cup {NoSession}
    BY <1>8, <2>1 DEF EndRun, TypeOK
  <2> QED
    BY <1>0, <1>8, <2>2 DEF EndRun, TypeOK, JobState, provider
<1>9. CASE AbandonRun
  BY <1>0, <1>9 DEF AbandonRun, TypeOK, JobState, RunStatus, memory, provider
<1> QED
  BY <1>1, <1>2, <1>3, <1>4, <1>5, <1>6, <1>7, <1>8, <1>9 DEF JobRuns

(* Fail, whichever way it goes, gives contexts, hosts and a stretch.       *)
LEMMA FailTypes ==
  ASSUME TypeOK, NEW s \in Session, NEW c \in Context, Fail(s, c)
  PROVE  /\ ctx' \in [Session -> Context] /\ host' \in [Session -> Host]
         /\ awaits' \in [Session -> SUBSET Waiter] /\ job' \in JobState
<1>1. Ending(c) \in Context /\ "failed" \in Outcome /\ "fail" \in Waiter
  BY ContextValues DEF Outcome, Waiter
<1>2. /\ Stopped(host[s], "failed") \in Host
      /\ WindUp(s, "failed") \in JobState /\ job \in JobState
  BY <1>1, HostValues, WindUpValues DEF TypeOK, JobState
<1>3. ctx' \in [Session -> Context]
  BY <1>1 DEF Fail, TypeOK
<1>4. host' \in [Session -> Host]
  BY <1>2 DEF Fail, TypeOK
<1>5. awaits' \in [Session -> SUBSET Waiter]
  BY <1>1 DEF Fail, TypeOK
<1>6. job' \in JobState
  BY <1>2 DEF Fail
<1> QED
  BY <1>3, <1>4, <1>5, <1>6

(* Each step of launch leaves every variable its values.                   *)
LEMMA LaunchTypes ==
  ASSUME TypeOK, NEW s \in Session, LaunchGoesOn(s)
  PROVE  TypeOK'
<1>0. /\ host[s] \in Host /\ ctx[s] \in Context
      /\ {"handshake", "rejected", "thread", "sunk", "turn", "answered", "over"} \subseteq Stage
  BY DEF TypeOK, Stage
<1>1. CASE EgressUp(s) \/ EgressFails(s) \/ HandshakeDone(s) \/ HostGivesUp(s)
  <2>1. \A t \in {"starting", "running", "failed"} : [host[s] EXCEPT !.state = t] \in Host
    BY <1>0, HostValues
  <2>2. Spawned(host[s]) \in Host /\ GivenUp(host[s]) \in Host
    BY <1>0, HostValues
  <2>3. host' \in [Session -> Host]
    BY <1>1, <2>1, <2>2 DEF EgressUp, EgressFails, HandshakeDone, HostGivesUp, TypeOK
  <2>4. call' \in [Session -> Stage]
    BY <1>1, <1>0 DEF EgressUp, EgressFails, HandshakeDone, HostGivesUp, TypeOK
  <2> QED
    BY <1>1, <2>3, <2>4 DEF EgressUp, EgressFails, HandshakeDone, HostGivesUp, TypeOK, rows
<1>2. CASE ThreadStarts(s) \/ ThreadTooLate(s)
  <2>1. /\ [ctx[s] EXCEPT !.thread = TRUE] \in Context
        /\ [ctx[s] EXCEPT !.thread = TRUE, !.state = "running"] \in Context
    BY <1>0, ContextValues
  <2>2. call' \in [Session -> Stage]
    BY <1>0, <1>2 DEF ThreadStarts, ThreadTooLate, TypeOK
  <2>3. session' \in [Session -> SessionStatus]
    BY <1>2 DEF ThreadStarts, ThreadTooLate, TypeOK, SessionStatus, rows
  <2>4. known' \in [Session -> BOOLEAN]
    BY <1>2 DEF ThreadStarts, ThreadTooLate, TypeOK, rows
  <2>5. ctx' \in [Session -> Context]
    BY <1>2, <2>1 DEF ThreadStarts, ThreadTooLate, TypeOK
  <2> QED
    BY <1>2, <2>2, <2>3, <2>4, <2>5 DEF ThreadStarts, ThreadTooLate, TypeOK, rows, provider
<1>3. CASE RequestRefused(s) \/ TurnAnswered(s)
  <2>1. call' \in [Session -> Stage]
    BY <1>0, <1>3 DEF RequestRefused, TurnAnswered, TypeOK
  <2>2. live' \in [Session -> BOOLEAN]
    BY <1>3 DEF RequestRefused, TurnAnswered, TypeOK, provider
  <2> QED
    BY <1>3, <2>1, <2>2 DEF RequestRefused, TurnAnswered, TypeOK, rows, provider
<1>4. CASE TurnBegins(s)
  <2>1. call' \in [Session -> Stage]
    BY <1>0, <1>4 DEF TurnBegins, TypeOK
  <2>2. (ctx[s].turn \/ TurnIsMine(s)) \in BOOLEAN
    BY DEF TurnIsMine
  <2>3. [ctx[s] EXCEPT !.turn = @ \/ TurnIsMine(s)] \in Context
    BY <1>0, <2>2 DEF Context
  <2>4. ctx' \in [Session -> Context]
    BY <1>4, <2>3 DEF TurnBegins, TypeOK
  <2> QED
    BY <1>4, <2>1, <2>4 DEF TurnBegins, TypeOK, rows, provider
<1>5. CASE LaunchRejected(s)
  <2>1. call' \in [Session -> Stage]
    BY <1>0, <1>5 DEF LaunchRejected, TypeOK
  <2>2. /\ ctx' \in [Session -> Context] /\ host' \in [Session -> Host]
        /\ awaits' \in [Session -> SUBSET Waiter] /\ job' \in JobState
    BY <1>0, <1>5, FailTypes DEF LaunchRejected
  <2> QED
    BY <1>5, <2>1, <2>2 DEF LaunchRejected, TypeOK, JobState, rows
<1> QED
  BY <1>1, <1>2, <1>3, <1>4, <1>5 DEF LaunchGoesOn

(* Each stop, each exit and each judgement leaves every variable its       *)
(* values.                                                                 *)
LEMMA EndTypes ==
  ASSUME TypeOK, NEW s \in Session, Ends(s)
  PROVE  TypeOK'
<1>0. /\ host[s] \in Host /\ ctx[s] \in Context /\ {"cancelled", "failed"} \subseteq Outcome
      /\ "cancel" \in Waiter /\ "rejected" \in Stage /\ job \in JobState
  BY DEF TypeOK, Waiter, Outcome, Stage, JobState
<1>1. ASSUME NEW good \in BOOLEAN, InterruptReturns(s, good)
      PROVE  TypeOK'
  <2>1. host' \in [Session -> Host]
    BY <1>0, <1>1, HostValues DEF InterruptReturns, TypeOK
  <2>2. awaits' \in [Session -> SUBSET Waiter]
    BY <1>0, <1>1 DEF InterruptReturns, TypeOK
  <2> QED
    BY <1>1, <2>1, <2>2 DEF InterruptReturns, TypeOK, rows
<1>2. ASSUME NEW waiter \in Waiter \ {"interrupt"}, StopReturns(s, waiter)
      PROVE  TypeOK'
  <2>1. WindUp(s, Verdict(waiter, host[s].outcome)) \in JobState /\ NoJob \in JobState
    BY Verdicts, WindUpValues, JobValues
  <2>2. job' \in JobState
    BY <1>2, <2>1 DEF StopReturns
  <2>3. awaits' \in [Session -> SUBSET Waiter]
    BY <1>2 DEF StopReturns, TypeOK
  <2> QED
    BY <1>2, <2>2, <2>3 DEF StopReturns, TypeOK, JobState, rows, provider
<1>3. CASE ExitJudged(s)
  <2>1. Closed(host[s]) \in Host /\ Ending(ctx[s]) \in Context /\ WindUp(s, "failed") \in JobState
    BY <1>0, HostValues, ContextValues, WindUpValues
  <2>2. host' \in [Session -> Host] /\ ctx' \in [Session -> Context] /\ job' \in JobState
    BY <1>0, <1>3, <2>1 DEF ExitJudged, TypeOK
  <2>3. /\ awaits' \in [Session -> SUBSET Waiter] /\ call' \in [Session -> Stage]
        /\ live' \in [Session -> BOOLEAN]
    BY <1>0, <1>3 DEF ExitJudged, TypeOK
  <2> QED
    BY <1>3, <2>2, <2>3 DEF ExitJudged, TypeOK, JobState, rows
<1> QED
  BY <1>1, <1>2, <1>3 DEF Ends

(* What the outside world asks for leaves every variable its values.       *)
LEMMA OutsideTypes ==
  ASSUME TypeOK, Held, NEW s \in Session,
         \/ ContinueIdle(s) \/ Cancel(s) \/ Finish(s) \/ ProviderFaults(s) \/ HostTimesOut(s)
         \/ \E b \in BOOLEAN : TurnCompleted(s, b) \/ ChildExits(s, b)
  PROVE  TypeOK'
<1>0. /\ host[s] \in Host /\ ctx[s] \in Context /\ job \in JobState
      /\ {"completed", "cancelled", "failed"} \subseteq Outcome
      /\ {"interrupt", "cancel", "finish"} \subseteq Waiter /\ {"turn", "rejected"} \subseteq Stage
  BY DEF TypeOK, Waiter, Outcome, Stage, JobState
<1>1. CASE ContinueIdle(s)
  <2>1. [ctx[s] EXCEPT !.state = "running", !.turn = FALSE] \in Context
    BY <1>0, ContextValues
  <2>2. ctx' \in [Session -> Context]
    BY <1>1, <2>1 DEF ContinueIdle, TypeOK
  <2>3. call' \in [Session -> Stage]
    BY <1>0, <1>1 DEF ContinueIdle, TypeOK
  <2> QED
    BY <1>1, <2>2, <2>3 DEF ContinueIdle, TypeOK, rows, provider
<1>2. CASE Cancel(s)
  <2>1. /\ Stopped(host[s], "cancelled") \in Host /\ Ending(ctx[s]) \in Context
        /\ WindUp(s, "failed") \in JobState
    BY <1>0, HostValues, ContextValues, WindUpValues
  <2>2. host' \in [Session -> Host] /\ ctx' \in [Session -> Context] /\ job' \in JobState
    BY <1>0, <1>2, <2>1 DEF Cancel, TypeOK
  <2>3. awaits' \in [Session -> SUBSET Waiter]
    BY <1>0, <1>2 DEF Cancel, TypeOK
  <2>4. session' \in [Session -> SessionStatus]
    BY <1>2 DEF Cancel, SessionStops, TypeOK, SessionStatus
  <2> QED
    BY <1>2, <2>2, <2>3, <2>4 DEF Cancel, TypeOK, JobState
<1>3. CASE Finish(s)
  <2>1. Stopped(host[s], "completed") \in Host /\ Ending(ctx[s]) \in Context
    BY <1>0, HostValues, ContextValues
  <2>2. host' \in [Session -> Host] /\ ctx' \in [Session -> Context]
    BY <1>3, <2>1 DEF Finish, TypeOK
  <2>3. awaits' \in [Session -> SUBSET Waiter]
    BY <1>0, <1>3 DEF Finish, TypeOK
  <2>4. session' \in [Session -> SessionStatus]
    BY <1>3 DEF Finish, SessionStops, TypeOK, SessionStatus
  <2> QED
    BY <1>3, <2>2, <2>3, <2>4 DEF Finish, TypeOK
<1>4. CASE ProviderFaults(s) \/ HostTimesOut(s) \/ \E b \in BOOLEAN : ChildExits(s, b)
  <2>1. /\ Faulted(host[s]) \in Host /\ TimedOut(host[s]) \in Host
        /\ \A b \in BOOLEAN : Gone(host[s], b) \in Host
    BY <1>0, HostValues
  <2>2. host' \in [Session -> Host]
    BY <1>4, <2>1 DEF ProviderFaults, HostTimesOut, ChildExits, TypeOK
  <2> QED
    BY <1>4, <2>2 DEF ProviderFaults, HostTimesOut, ChildExits, TypeOK, rows, memory
<1>5. ASSUME NEW good \in BOOLEAN, TurnCompleted(s, good)
      PROVE  TypeOK'
  <2> DEFINE c == [ctx[s] EXCEPT !.turn = FALSE]
  <2>1. c \in Context /\ [c EXCEPT !.state = "idle"] \in Context
    BY <1>0, ContextValues
  <2> HIDE DEF c
  <2>2. \/ UNCHANGED <<ctx, host, awaits, job>>
        \/ ctx' = [ctx EXCEPT ![s] = [c EXCEPT !.state = "idle"]] /\ UNCHANGED <<host, awaits, job>>
        \/ Fail(s, c)
    BY <1>5 DEF TurnCompleted, c
  <2>3. /\ ctx' \in [Session -> Context] /\ host' \in [Session -> Host]
        /\ awaits' \in [Session -> SUBSET Waiter] /\ job' \in JobState
    BY <1>0, <2>1, <2>2, FailTypes DEF TypeOK
  <2>4. live' \in [Session -> BOOLEAN]
    BY <1>5 DEF TurnCompleted, TypeOK
  <2>5. UNCHANGED <<rows, active, call, resuming, daemon, crashes, replaced>>
    BY <1>5 DEF TurnCompleted
  <2> QED
    BY <2>3, <2>4, <2>5 DEF TypeOK, JobState, rows
<1> QED
  BY <1>1, <1>2, <1>3, <1>4, <1>5

(* What comes over the whole manager leaves every variable its values.     *)
LEMMA RunTypes ==
  ASSUME TypeOK, Held,
         \/ NotFollowed \/ Start \/ ContinueInterrupted \/ PreflightReturns
         \/ Shutdown \/ ShutdownEnds \/ Crash \/ ProcessEnds \/ RecoverProviderSessions
         \/ ApprovalMovesRun
  PROVE  TypeOK'
<1>0. /\ NoJob \in JobState /\ Job("prepare", NoSession) \in JobState
      /\ Job("issue", NoSession) \in JobState /\ Job("discard", NoSession) \in JobState
  BY JobValues DEF JobStep
<1>1. CASE NotFollowed
  BY <1>1 DEF NotFollowed, vars, rows, memory, provider, TypeOK
<1>2. CASE Start \/ ApprovalMovesRun
  <2>1. job' \in JobState /\ run' \in RunStatus
    BY <1>0, <1>2 DEF Start, ApprovalMovesRun, TypeOK, JobState, RunStatus
  <2> QED
    BY <1>2, <2>1 DEF Start, ApprovalMovesRun, TypeOK, JobState, memory, provider
<1>3. CASE ContinueInterrupted \/ PreflightReturns
  <2>1. job' \in JobState
    BY <1>0, <1>3 DEF ContinueInterrupted, PreflightReturns, TypeOK, JobState
  <2>2. resuming' \in 0 .. MaxSession
    BY <1>3, LatestIsNumber, HostedAssumption DEF ContinueInterrupted, PreflightReturns, TypeOK
  <2> QED
    BY <1>3, <2>1, <2>2 DEF ContinueInterrupted, PreflightReturns, TypeOK, JobState, rows, provider
<1>4. CASE Shutdown
  <2>1. UNCHANGED <<rows, active, call, resuming, live, crashes, replaced>> /\ daemon' = "closing"
    BY <1>4 DEF Shutdown
  <2>2. /\ ctx' \in [Session -> Context] /\ host' \in [Session -> Host]
        /\ awaits' \in [Session -> SUBSET Waiter] /\ job' \in JobState
    <3>1. CASE active = NoSession
      BY <1>4, <3>1 DEF Shutdown, TypeOK, JobState
    <3>2. CASE active # NoSession
      <4>1. active \in Session /\ "shutdown" \in Waiter /\ {"cancelled", "interrupted"} \subseteq Outcome
        BY <3>2 DEF TypeOK, Waiter, Outcome
      <4>2. /\ [ctx[active] EXCEPT !.finalizing = TRUE] \in Context
            /\ Stopped(host[active], "cancelled") \in Host
            /\ WindUp(active, "interrupted") \in JobState /\ job \in JobState
        BY <4>1, ContextValues, HostValues, WindUpValues DEF TypeOK, JobState
      <4>3. ctx' \in [Session -> Context]
        BY <1>4, <3>2, <4>1, <4>2 DEF Shutdown, TypeOK
      <4>4. host' \in [Session -> Host]
        BY <1>4, <3>2, <4>1, <4>2 DEF Shutdown, TypeOK
      <4>5. awaits' \in [Session -> SUBSET Waiter]
        BY <1>4, <3>2, <4>1 DEF Shutdown, TypeOK
      <4>6. job' \in JobState
        BY <1>4, <3>2, <4>2 DEF Shutdown
      <4> QED
        BY <4>3, <4>4, <4>5, <4>6
    <3> QED
      BY <3>1, <3>2
  <2> QED
    BY <2>1, <2>2 DEF TypeOK, JobState, rows
<1>5. CASE ShutdownEnds
  BY <1>5 DEF ShutdownEnds, TypeOK, rows, provider
<1>6. CASE Crash \/ ProcessEnds
  <2>1. NoContext \in Context /\ NewHost \in Host /\ "none" \in Stage
    BY DEF NoContext, Context, NewHost, Host, Stage
  <2>2. crashes' \in 0 .. MaxCrash
    BY <1>6, HostedAssumption DEF Crash, ProcessEnds, TypeOK
  <2>3. Forgotten /\ UNCHANGED rows
    BY <1>6 DEF Crash, ProcessEnds
  <2>4. resuming' \in 0 .. MaxSession
    BY <2>3, HostedAssumption DEF Forgotten
  <2> QED
    BY <1>0, <2>1, <2>2, <2>3, <2>4 DEF Forgotten, TypeOK, JobState, rows
<1>7. CASE RecoverProviderSessions
  <2>1. run' \in RunStatus
    BY <1>7 DEF RecoverProviderSessions, InterruptedBy, TypeOK, RunStatus
  <2>2. session' \in [Session -> SessionStatus]
    BY <1>7 DEF RecoverProviderSessions, TypeOK, SessionStatus
  <2>3. job' \in JobState /\ daemon' \in {"up", "recovering"}
    BY <1>0, <1>7 DEF RecoverProviderSessions
  <2> QED
    BY <1>7, <2>1, <2>2, <2>3 DEF RecoverProviderSessions, TypeOK, JobState, memory, provider
<1> QED
  BY <1>1, <1>2, <1>3, <1>4, <1>5, <1>6, <1>7

-----------------------------------------------------------------------------
(* What leaves rows and stretches alone, and what begins to wind up        *)

(* A step that touches nothing but contexts, hosts, calls and turns.       *)
LEMMA AsideHolds ==
  ASSUME Held, UNCHANGED <<rows, active, awaits, resuming, job, daemon, crashes, replaced>>
  PROVE  Held'
<1>1. UNCHANGED <<run, workspace, session, active, awaits, resuming, job, daemon, crashes, replaced>>
  BY DEF rows
<1>2. Issued' = Issued /\ Latest' = Latest
  BY <1>1, SameIssued
<1>3. Over' = Over /\ AtRest' = AtRest /\ Finalized' = Finalized /\ CompletedRunIsKept' = CompletedRunIsKept
  BY <1>1 DEF Over, AtRest, Finalized, CompletedRunIsKept
<1>4. \A s \in Session : Owner(s)' = Owner(s)
  BY <1>1, <1>3 DEF Owner
<1>5. Numbered'
  BY <1>1, <1>2 DEF Held, Numbered
<1>6. DaemonHolds'
  BY <1>1 DEF Held, DaemonHolds
<1>7. StartHolds'
  BY <1>1, <1>3 DEF Held, StartHolds
<1>8. EndHolds'
  BY <1>1, <1>3, <1>4 DEF Held, EndHolds
<1>9. RowsHold'
  BY <1>1, <1>3 DEF Held, RowsHold
<1>10. OwnerHolds'
  BY <1>1, <1>4 DEF Held, OwnerHolds
<1> QED
  BY <1>5, <1>6, <1>7, <1>8, <1>9, <1>10 DEF Held

(* A coroutine that comes to wait for the exit of a session's host, ceases *)
(* to, or begins to wind the run up, when the session has an owner.        *)
LEMMA StopHolds ==
  ASSUME TypeOK, Held, Free, daemon # "closed", NEW s \in Session, Owner(s),
         UNCHANGED <<run, workspace, active, resuming, daemon, crashes, replaced>>,
         SessionStops(s) \/ session' = session,
         NEW w, awaits' = [awaits EXCEPT ![s] = w],
         "shutdown" \in w => "shutdown" \in awaits[s],
         "shutdown" \in awaits[s] => "shutdown" \in w \/ job'.step \in Winding,
         \/ job' \in {job, NoJob}
         \/ \E v \in Outcome : job' = WindUp(s, v) /\ (v = "interrupted" => daemon = "closing")
  PROVE  Held'
<1>1. \A t \in Session : \/ session'[t] = session[t]
                         \/ session[t] = "running" /\ session'[t] = "stopping"
  BY DEF SessionStops, TypeOK
<1>2. Issued' = Issued /\ Latest' = Latest
  BY <1>1, SameIssued
<1>3. \A t \in Session : /\ awaits'[t] = IF t = s THEN w ELSE awaits[t]
  BY DEF TypeOK
<1>4. job.step = "free" /\ daemon # "off" /\ ~replaced
  BY DEF Free
<1>5. \/ job'.step = "free"
      \/ /\ job'.s = s /\ job'.verdict \in Outcome
         /\ job'.verdict = "interrupted" => daemon = "closing"
         /\ job'.step = IF job'.verdict = "interrupted" THEN "end_session" ELSE "finalize"
  BY <1>4, WindUpValues, JobValues
<1>6. job'.step \in {"free", "end_session", "finalize"}
  BY <1>4, <1>5
<1>7. Over' = Over /\ AtRest' = AtRest /\ (\A t \in Session : Owner(t)' = Owner(t))
  BY DEF Over, AtRest, Owner
<1>8. s # NoSession
  BY NobodyIsNoSession
<1>9. Numbered'
  BY <1>2, <1>4, <1>6 DEF Held, Numbered, Opening
<1>10. DaemonHolds'
  <2>1. daemon \in {"up", "closing"}
    BY <1>4 DEF Held, DaemonHolds, TypeOK, Reclaiming
  <2> QED
    BY <1>3, <1>4, <1>6, <2>1 DEF Held, DaemonHolds, Starting, Opening, Winding, Reclaiming
<1>11. StartHolds'
  BY <1>4, <1>6, <1>7 DEF Held, StartHolds, Finalized
<1>12. EndHolds'
  BY <1>4, <1>5, <1>6, <1>7 DEF Held, EndHolds, Winding
<1>13. RowsHold'
  <2>1. CompletedRunIsKept'
    BY <1>1 DEF Held, RowsHold, CompletedRunIsKept
  <2> QED
    BY <1>1, <1>4, <1>7, <2>1 DEF Held, RowsHold, UnderWay, OpenSession
<1>14. OwnerHolds'
  <2>1. \A t \in Session : session'[t] \in UnderWay => session[t] \in UnderWay
    BY <1>1 DEF UnderWay, OpenSession
  <2>2. active # NoSession /\ session[active] \in OpenSession => session'[active] \in OpenSession
    BY <1>1 DEF OpenSession, TypeOK
  <2> QED
    BY <1>3, <1>4, <1>7, <2>1, <2>2 DEF Held, OwnerHolds, Winding
<1> QED
  BY <1>9, <1>10, <1>11, <1>12, <1>13, <1>14 DEF Held

(* Whoever is held by the manager, or awaited, has an owner while the      *)
(* event loop is free, and the store is still open.                        *)
LEMMA HasOwner ==
  ASSUME TypeOK, Held, Free, NEW s \in Session, active = s \/ awaits[s] # {}
  PROVE  Owner(s) /\ daemon # "closed"
<1>1. s # NoSession
  BY NobodyIsNoSession
<1> QED
  BY <1>1 DEF Held, OwnerHolds, DaemonHolds, Owner, Free

(* fail.                                                                   *)
LEMMA FailHolds ==
  ASSUME TypeOK, Held, Free, NEW s \in Session, NEW c, Fail(s, c),
         UNCHANGED <<rows, active, resuming, daemon, crashes, replaced>>
  PROVE  Held'
<1>1. CASE active # s
  BY <1>1, AsideHolds DEF Fail
<1>2. CASE active = s
  <2>1. Owner(s) /\ daemon # "closed"
    BY <1>2, HasOwner
  <2>2. CASE awaits' = [awaits EXCEPT ![s] = @ \cup {"fail"}] /\ job' = job
    <3>1. UNCHANGED <<run, workspace, session, active, resuming, daemon, crashes, replaced>>
      BY DEF rows
    <3>2. PICK w : w = awaits[s] \cup {"fail"}
      OBVIOUS
    <3>3. /\ awaits' = [awaits EXCEPT ![s] = w]
          /\ "shutdown" \in w <=> "shutdown" \in awaits[s]
      BY <2>2, <3>2
    <3> QED
      BY <2>1, <2>2, <3>1, <3>3, StopHolds
  <2>3. CASE awaits' = awaits /\ job' = WindUp(s, "failed")
    <3>1. UNCHANGED <<run, workspace, session, active, resuming, daemon, crashes, replaced>>
      BY DEF rows
    <3>2. PICK w : w = awaits[s]
      OBVIOUS
    <3>3. /\ awaits' = [awaits EXCEPT ![s] = w]
          /\ "shutdown" \in w <=> "shutdown" \in awaits[s]
          /\ "failed" \in Outcome
      BY <2>3, <3>2 DEF TypeOK, Outcome
    <3> QED
      BY <2>1, <2>3, <3>1, <3>3, StopHolds
  <2> QED
    BY <1>2, <2>2, <2>3 DEF Fail
<1> QED
  BY <1>1, <1>2

(* The thread of a starting session comes up.                              *)
LEMMA ThreadStartsHolds ==
  ASSUME TypeOK, Held, NEW s \in Session, ThreadStarts(s)
  PROVE  Held'
<1>1. /\ UNCHANGED <<run, workspace, active, awaits, resuming, job, daemon, crashes, replaced>>
      /\ job.step = "free"
  BY DEF ThreadStarts, ThreadReady, Quiet, Free
<1>2. session[s] = "starting" \/ session[s] = "created"
  BY DEF ThreadStarts, CanBeginSession, SessionTransition
<1>3. session[s] = "starting"
  BY <1>2 DEF ThreadStarts, CanBeginSession, SessionTransition
<1>4. \A t \in Session : session'[t] = IF t = s THEN "running" ELSE session[t]
  BY DEF ThreadStarts, TypeOK
<1>5. Issued' = Issued /\ Latest' = Latest
  BY <1>3, <1>4, SameIssued
<1>6. Over' = Over /\ AtRest' = AtRest /\ (\A t \in Session : Owner(t)' = Owner(t))
  BY <1>1 DEF Over, AtRest, Owner
<1>7. Numbered'
  BY <1>1, <1>5 DEF Held, Numbered
<1>8. DaemonHolds'
  BY <1>1 DEF Held, DaemonHolds
<1>9. StartHolds'
  BY <1>1, <1>6 DEF Held, StartHolds, Finalized
<1>10. EndHolds'
  BY <1>1, <1>6 DEF Held, EndHolds, Winding
<1>11. RowsHold'
  <2>1. CompletedRunIsKept'
    BY <1>1, <1>3, <1>4 DEF Held, RowsHold, CompletedRunIsKept
  <2> QED
    BY <1>1, <1>3, <1>4, <1>6, <2>1 DEF Held, RowsHold, UnderWay, OpenSession
<1>12. OwnerHolds'
  <2>1. \A t \in Session : session'[t] \in UnderWay => session[t] \in UnderWay
    BY <1>3, <1>4 DEF UnderWay, OpenSession
  <2>2. active # NoSession /\ session[active] \in OpenSession => session'[active] \in OpenSession
    BY <1>4 DEF OpenSession, TypeOK
  <2> QED
    BY <1>1, <1>6, <2>1, <2>2 DEF Held, OwnerHolds
<1> QED
  BY <1>7, <1>8, <1>9, <1>10, <1>11, <1>12 DEF Held

LEMMA LaunchHolds ==
  ASSUME TypeOK, Held, NEW s \in Session, LaunchGoesOn(s)
  PROVE  Held'
<1>1. CASE \/ EgressUp(s) \/ EgressFails(s) \/ HandshakeDone(s) \/ HostGivesUp(s)
           \/ ThreadTooLate(s) \/ RequestRefused(s) \/ TurnAnswered(s) \/ TurnBegins(s)
  BY <1>1, AsideHolds
  DEF EgressUp, EgressFails, HandshakeDone, HostGivesUp, ThreadTooLate, RequestRefused,
      TurnAnswered, TurnBegins
<1>2. CASE ThreadStarts(s)
  BY <1>2, ThreadStartsHolds
<1>3. CASE LaunchRejected(s)
  BY <1>3, FailHolds DEF LaunchRejected
<1> QED
  BY <1>1, <1>2, <1>3 DEF LaunchGoesOn

LEMMA EndsHold ==
  ASSUME TypeOK, Held, NEW s \in Session, Ends(s)
  PROVE  Held'
<1>1. ASSUME NEW good \in BOOLEAN, InterruptReturns(s, good)
      PROVE  Held'
  <2>1. Free /\ awaits[s] # {}
    BY <1>1 DEF InterruptReturns, Quiet
  <2>2. Owner(s) /\ daemon # "closed"
    BY <2>1, HasOwner
  <2>3. PICK w : w = (awaits[s] \ {"interrupt"}) \cup {"cancel"}
    OBVIOUS
  <2>4. /\ awaits' = [awaits EXCEPT ![s] = w]
        /\ "shutdown" \in w <=> "shutdown" \in awaits[s]
    BY <1>1, <2>3 DEF InterruptReturns
  <2>5. UNCHANGED <<run, workspace, session, active, resuming, job, daemon, crashes, replaced>>
    BY <1>1 DEF InterruptReturns, rows
  <2> QED
    BY <2>1, <2>2, <2>4, <2>5, StopHolds
<1>2. ASSUME NEW waiter \in Waiter \ {"interrupt"}, StopReturns(s, waiter)
      PROVE  Held'
  <2>1. Free /\ awaits[s] # {}
    BY <1>2 DEF StopReturns
  <2>2. Owner(s) /\ daemon # "closed"
    BY <2>1, HasOwner
  <2>3. PICK w : w = awaits[s] \ {waiter}
    OBVIOUS
  <2>4. UNCHANGED <<run, workspace, session, active, resuming, daemon, crashes, replaced>>
    BY <1>2 DEF StopReturns, rows
  <2>5. PICK v : v = Verdict(waiter, host[s].outcome)
    OBVIOUS
  <2>6. v \in Outcome /\ (v = "interrupted" <=> waiter = "shutdown")
    BY <2>5, Verdicts
  <2>7. waiter = "shutdown" => daemon = "closing"
    BY <1>2 DEF StopReturns, Held, DaemonHolds
  <2>8. job' = NoJob \/ job' = WindUp(s, v)
    BY <1>2, <2>5 DEF StopReturns
  <2>9. waiter = "shutdown" => job' = WindUp(s, v)
    BY <1>2, <2>5, <2>6 DEF StopReturns
  <2>10. CASE job' = WindUp(s, v)
    <3>1. job'.step \in Winding
      BY <2>6, <2>10, WindUpValues DEF Winding
    <3>2. /\ awaits' = [awaits EXCEPT ![s] = w]
          /\ "shutdown" \in w => "shutdown" \in awaits[s]
      BY <1>2, <2>3 DEF StopReturns
    <3> QED
      BY <2>1, <2>2, <2>4, <2>6, <2>7, <2>10, <3>1, <3>2, StopHolds
  <2>11. CASE job' = NoJob /\ waiter # "shutdown"
    <3>1. /\ awaits' = [awaits EXCEPT ![s] = w]
          /\ "shutdown" \in w <=> "shutdown" \in awaits[s]
      BY <1>2, <2>3, <2>11 DEF StopReturns
    <3> QED
      BY <2>1, <2>2, <2>4, <2>11, <3>1, StopHolds
  <2> QED
    BY <2>8, <2>9, <2>10, <2>11
<1>3. CASE ExitJudged(s)
  <2>1. Free
    BY <1>3 DEF ExitJudged, Quiet
  <2>2. PICK w : w = IF "interrupt" \in awaits[s] THEN (awaits[s] \ {"interrupt"}) \cup {"cancel"}
                     ELSE awaits[s]
    OBVIOUS
  <2>3. /\ awaits' = [awaits EXCEPT ![s] = w]
        /\ "shutdown" \in w <=> "shutdown" \in awaits[s]
    BY <1>3, <2>2 DEF ExitJudged
  <2>4. UNCHANGED <<run, workspace, session, known, active, resuming, daemon, crashes, replaced>>
    BY <1>3 DEF ExitJudged, rows
  <2>5. job' = job \/ (job' = WindUp(s, "failed") /\ active = s)
    BY <1>3 DEF ExitJudged
  <2>6. CASE active = s \/ awaits[s] # {}
    <3>1. Owner(s) /\ daemon # "closed" /\ "failed" \in Outcome
      BY <2>1, <2>6, HasOwner DEF Outcome
    <3> QED
      BY <2>1, <2>3, <2>4, <2>5, <3>1, StopHolds
  <2>7. CASE active # s /\ awaits[s] = {}
    <3>1. awaits' = awaits
      BY <2>2, <2>3, <2>7 DEF TypeOK
    <3> QED
      BY <2>4, <2>5, <2>7, <3>1, AsideHolds DEF rows
  <2> QED
    BY <2>6, <2>7
<1> QED
  BY <1>1, <1>2, <1>3 DEF Ends

LEMMA OutsideHolds ==
  ASSUME TypeOK, Held, NEW s \in Session,
         \/ ContinueIdle(s) \/ Cancel(s) \/ Finish(s) \/ ProviderFaults(s) \/ HostTimesOut(s)
         \/ \E b \in BOOLEAN : TurnCompleted(s, b) \/ ChildExits(s, b)
  PROVE  Held'
<1>1. CASE \/ ContinueIdle(s) \/ ProviderFaults(s) \/ HostTimesOut(s)
           \/ \E b \in BOOLEAN : ChildExits(s, b)
  BY <1>1, AsideHolds DEF ContinueIdle, ProviderFaults, HostTimesOut, ChildExits, memory
<1>2. CASE Cancel(s)
  <2>1. Free /\ active = s
    BY <1>2 DEF Cancel, Accepting, Quiet
  <2>2. Owner(s) /\ daemon # "closed" /\ "failed" \in Outcome
    BY <2>1, HasOwner DEF Outcome
  <2>3. /\ UNCHANGED <<run, workspace, active, resuming, daemon, crashes, replaced>>
        /\ SessionStops(s)
    BY <1>2 DEF Cancel
  <2>4. \/ awaits' = [awaits EXCEPT ![s] = @ \cup {"interrupt"}] /\ job' = job
        \/ awaits' = [awaits EXCEPT ![s] = @ \cup {"cancel"}] /\ job' = job
        \/ awaits' = awaits /\ job' = WindUp(s, "failed")
    BY <1>2 DEF Cancel
  <2>5. CASE awaits' = awaits /\ job' = WindUp(s, "failed")
    <3>1. PICK w : w = awaits[s]
      OBVIOUS
    <3>2. awaits' = [awaits EXCEPT ![s] = w] /\ ("shutdown" \in w <=> "shutdown" \in awaits[s])
      BY <2>5, <3>1 DEF TypeOK
    <3> QED
      BY <2>1, <2>2, <2>3, <2>5, <3>2, StopHolds
  <2>6. ASSUME NEW x \in {"interrupt", "cancel"},
               awaits' = [awaits EXCEPT ![s] = @ \cup {x}], job' = job
        PROVE  Held'
    <3>1. PICK w : w = awaits[s] \cup {x}
      OBVIOUS
    <3>2. awaits' = [awaits EXCEPT ![s] = w] /\ ("shutdown" \in w <=> "shutdown" \in awaits[s])
      BY <2>6, <3>1
    <3> QED
      BY <2>1, <2>2, <2>3, <2>6, <3>2, StopHolds
  <2> QED
    BY <2>4, <2>5, <2>6
<1>3. CASE Finish(s)
  <2>1. Free /\ active = s
    BY <1>3 DEF Finish, Accepting, Quiet
  <2>2. Owner(s) /\ daemon # "closed"
    BY <2>1, HasOwner
  <2>3. /\ UNCHANGED <<run, workspace, active, resuming, job, daemon, crashes, replaced>>
        /\ SessionStops(s)
    BY <1>3 DEF Finish
  <2>4. PICK w : w = awaits[s] \cup {"finish"}
    OBVIOUS
  <2>5. awaits' = [awaits EXCEPT ![s] = w] /\ ("shutdown" \in w <=> "shutdown" \in awaits[s])
    BY <1>3, <2>4 DEF Finish
  <2> QED
    BY <2>1, <2>2, <2>3, <2>5, StopHolds
<1>4. ASSUME NEW good \in BOOLEAN, TurnCompleted(s, good)
      PROVE  Held'
  <2>1. Free /\ UNCHANGED <<rows, active, resuming, daemon, crashes, replaced>>
    BY <1>4 DEF TurnCompleted
  <2>2. (awaits' = awaits /\ job' = job) \/ \E c : Fail(s, c)
    BY <1>4 DEF TurnCompleted
  <2> QED
    BY <2>1, <2>2, AsideHolds, FailHolds
<1> QED
  BY <1>1, <1>2, <1>3, <1>4

-----------------------------------------------------------------------------
(* start and continue, stretch by stretch                                  *)

LEMMA StartKeepsHeld ==
  ASSUME TypeOK, Held, Start
  PROVE  Held'
<1>1. /\ run = "absent" /\ run' = "created" /\ job.step = "free" /\ job'.step = "prepare"
      /\ daemon = "up" /\ ~replaced
      /\ UNCHANGED <<workspace, session, active, awaits, resuming, daemon, crashes, replaced>>
  BY JobValues DEF Start, Accepting, Quiet, Free, memory, JobStep
<1>2. Issued' = Issued /\ Latest' = Latest
  BY <1>1, SameIssued
<1>3. active = NoSession /\ \A s \in Session : awaits[s] = {} /\ session[s] = "absent"
  <2>1. Issued = {}
    BY <1>1 DEF Held, Numbered
  <2> QED
    BY <1>1, <2>1, NobodyIsNoSession
    DEF Held, OwnerHolds, Owner, Over, Going, TerminalRunStatus, Issued
<1>4. Numbered'
  BY <1>1, <1>2, HostedAssumption DEF Held, Numbered, Opening
<1>5. DaemonHolds'
  BY <1>1, <1>3 DEF Held, DaemonHolds, Starting, Opening, Winding, Reclaiming
<1>6. StartHolds'
  BY <1>1, <1>3 DEF Held, Numbered, StartHolds
<1>7. EndHolds'
  BY <1>1 DEF EndHolds, Winding
<1>8. RowsHold'
  BY <1>1, <1>3
  DEF Held, RowsHold, Over, Going, TerminalRunStatus, UnderWay, OpenSession, CompletedRunIsKept
<1>9. OwnerHolds'
  BY <1>1, <1>3 DEF OwnerHolds, UnderWay, OpenSession
<1> QED
  BY <1>4, <1>5, <1>6, <1>7, <1>8, <1>9 DEF Held

LEMMA PrepareKeepsHeld ==
  ASSUME TypeOK, Held, PrepareWorkspace
  PROVE  Held'
<1>1. /\ job.step = "prepare"
      /\ \/ job'.step = "restore" /\ workspace' = "preparing"
         \/ job'.step = "free" /\ workspace' = workspace
      /\ UNCHANGED <<run, session, active, awaits, resuming, daemon, crashes, replaced>>
  BY JobValues DEF PrepareWorkspace, memory, JobStep
<1>2. Issued' = Issued /\ Latest' = Latest
  BY <1>1, SameIssued
<1>3. run = "created" /\ daemon = "up" /\ active = NoSession
  BY <1>1 DEF Held, StartHolds, DaemonHolds, OwnerHolds, Starting, Opening, Going
<1>4. ~Over /\ ~Over' /\ (\A s \in Session : Owner(s)' = Owner(s))
  BY <1>1, <1>3 DEF Over, Owner, TerminalRunStatus
<1>5. resuming = 0
  BY <1>1 DEF Held, StartHolds
<1>6. Numbered'
  BY <1>1, <1>2, LatestIsNumber, HostedAssumption DEF Held, Numbered, Opening, TypeOK
<1>7. DaemonHolds'
  BY <1>1, <1>3 DEF Held, DaemonHolds, Starting, Opening, Winding, Reclaiming
<1>8. StartHolds'
  BY <1>1, <1>3, <1>5 DEF StartHolds
<1>9. EndHolds'
  BY <1>1 DEF EndHolds, Winding
<1>10. RowsHold'
  BY <1>1, <1>3, <1>4 DEF Held, RowsHold, UnderWay, CompletedRunIsKept, Going
<1>11. OwnerHolds'
  BY <1>1, <1>3, <1>4 DEF Held, OwnerHolds
<1> QED
  BY <1>6, <1>7, <1>8, <1>9, <1>10, <1>11 DEF Held

LEMMA RestoreKeepsHeld ==
  ASSUME TypeOK, Held, RestoreWorktree
  PROVE  Held'
<1>1. /\ job.step = "restore"
      /\ \/ job'.step = "issue" /\ workspace' = "ready"
         \/ job'.step = "free" /\ workspace' = "failed"
      /\ UNCHANGED <<run, session, active, awaits, resuming, daemon, crashes, replaced>>
  BY JobValues DEF RestoreWorktree, memory, JobStep
<1>2. Issued' = Issued /\ Latest' = Latest
  BY <1>1, SameIssued
<1>3. run = "created" /\ daemon = "up" /\ active = NoSession
  BY <1>1 DEF Held, StartHolds, DaemonHolds, OwnerHolds, Starting, Opening, Going
<1>4. ~Over /\ ~Over' /\ (\A s \in Session : Owner(s)' = Owner(s))
  BY <1>1, <1>3 DEF Over, Owner, TerminalRunStatus
<1>5. resuming = 0
  BY <1>1 DEF Held, StartHolds
<1>6. Numbered'
  BY <1>1, <1>2, LatestIsNumber, HostedAssumption DEF Held, Numbered, Opening, TypeOK
<1>7. DaemonHolds'
  BY <1>1, <1>3 DEF Held, DaemonHolds, Starting, Opening, Winding, Reclaiming
<1>8. StartHolds'
  BY <1>1, <1>3, <1>5 DEF StartHolds
<1>9. EndHolds'
  BY <1>1 DEF EndHolds, Winding
<1>10. RowsHold'
  BY <1>1, <1>3, <1>4 DEF Held, RowsHold, UnderWay, CompletedRunIsKept, Going
<1>11. OwnerHolds'
  BY <1>1, <1>3, <1>4 DEF Held, OwnerHolds
<1> QED
  BY <1>6, <1>7, <1>8, <1>9, <1>10, <1>11 DEF Held

LEMMA IssueKeepsHeld ==
  ASSUME TypeOK, Held, CreateProviderSession
  PROVE  Held'
<1>1. Latest \in Nat /\ resuming \in Nat /\ Latest + resuming + 1 <= MaxSession /\ daemon = "up"
  BY LatestIsNumber
  DEF CreateProviderSession, Held, Numbered, DaemonHolds, Opening, Starting, TypeOK
<1>2. Latest + 1 \in Session /\ Latest + 1 \notin Issued
  <2>1. Issued = 1 .. Latest
    BY DEF Held, Numbered
  <2> QED
    BY <1>1, <2>1, HostedAssumption DEF Session
<1>3. PICK n : n = Latest + 1
  OBVIOUS
<1>4. /\ job.step = "issue" /\ job'.s = n
      /\ job'.step = IF workspace = "ready" THEN "activate" ELSE "set_running"
      /\ UNCHANGED <<run, workspace, active, awaits, resuming, daemon, crashes, replaced>>
  BY <1>2, <1>3, JobValues DEF CreateProviderSession, memory, JobStep
<1>5. \A s \in Session : session'[s] = IF s = n THEN "created" ELSE session[s]
  BY <1>3 DEF CreateProviderSession, TypeOK
<1>6. n \in Session /\ session[n] = "absent" /\ n # NoSession
  BY <1>2, <1>3, NobodyIsNoSession DEF Issued
<1>7. Issued' = 1 .. n /\ Latest' = n
  <2>1. Issued' = Issued \cup {n}
    BY <1>5, <1>6 DEF Issued, Session
  <2>2. Issued' = 1 .. n
    BY <1>1, <1>3, <2>1 DEF Held, Numbered
  <2> QED
    BY <1>1, <1>3, <2>2, LatestIsNumber DEF Latest
<1>8. Over' = Over /\ AtRest' = AtRest /\ (\A s \in Session : Owner(s)' = Owner(s))
  BY <1>4 DEF Over, AtRest, Owner
<1>9. Numbered'
  <2>1. run # "absent"
    BY <1>4 DEF Held, StartHolds
  <2> QED
    BY <1>1, <1>3, <1>4, <1>7, <2>1, HostedAssumption DEF Numbered, Opening
<1>10. DaemonHolds'
  BY <1>1, <1>4 DEF Held, DaemonHolds, Starting, Opening, Winding, Reclaiming
<1>11. StartHolds'
  BY <1>4, <1>5, <1>6, <1>8 DEF Held, StartHolds, Finalized
<1>12. EndHolds'
  BY <1>4 DEF EndHolds, Winding
<1>13. RowsHold'
  <2>1. CompletedRunIsKept'
    BY <1>4, <1>5, <1>6 DEF Held, RowsHold, CompletedRunIsKept
  <2> QED
    BY <1>1, <1>4, <1>5, <1>8, <2>1 DEF Held, RowsHold, UnderWay
<1>14. OwnerHolds'
  <2>1. \A s \in Session : session'[s] \in UnderWay => session[s] \in UnderWay
    BY <1>5 DEF UnderWay
  <2>2. active # NoSession /\ session[active] \in OpenSession => session'[active] \in OpenSession
    BY <1>5 DEF OpenSession, TypeOK
  <2> QED
    BY <1>4, <1>8, <2>1, <2>2 DEF Held, OwnerHolds, Winding
<1> QED
  BY <1>9, <1>10, <1>11, <1>12, <1>13, <1>14 DEF Held

LEMMA ActivateKeepsHeld ==
  ASSUME TypeOK, Held, ActivateWorkspace
  PROVE  Held'
<1>1. job \in JobState /\ "set_running" \in JobStep
  BY DEF TypeOK, JobState, JobStep
<1>2. /\ job.step = "activate" /\ job'.step = "set_running" /\ job'.s = job.s
      /\ workspace' = "active"
      /\ UNCHANGED <<run, session, active, awaits, resuming, daemon, crashes, replaced>>
  BY <1>1, NextJobValues DEF ActivateWorkspace, memory
<1>3. Issued' = Issued /\ Latest' = Latest
  BY <1>2, SameIssued
<1>4. run = "created" /\ daemon = "up" /\ active = NoSession
  BY <1>2 DEF Held, StartHolds, DaemonHolds, OwnerHolds, Starting, Going
<1>5. ~Over /\ ~Over' /\ (\A s \in Session : Owner(s)' = Owner(s))
  BY <1>2, <1>4 DEF Over, Owner, TerminalRunStatus
<1>6. Numbered'
  BY <1>2, <1>3 DEF Held, Numbered, Opening
<1>7. DaemonHolds'
  BY <1>2, <1>4 DEF Held, DaemonHolds, Starting, Opening, Winding, Reclaiming
<1>8. StartHolds'
  BY <1>2, <1>4 DEF Held, StartHolds
<1>9. EndHolds'
  BY <1>2 DEF EndHolds, Winding
<1>10. RowsHold'
  BY <1>2, <1>4, <1>5 DEF Held, RowsHold, UnderWay, CompletedRunIsKept, Going
<1>11. OwnerHolds'
  BY <1>2, <1>4, <1>5 DEF Held, OwnerHolds
<1> QED
  BY <1>6, <1>7, <1>8, <1>9, <1>10, <1>11 DEF Held

LEMMA SetRunningKeepsHeld ==
  ASSUME TypeOK, Held, SetRunning
  PROVE  Held'
<1>1. job \in JobState /\ "launch" \in JobStep /\ job.step = "set_running"
  BY DEF TypeOK, JobState, JobStep, SetRunning
<1>2. UNCHANGED <<workspace, session, awaits, resuming, daemon, crashes>>
  BY DEF SetRunning
<1>3. Issued' = Issued /\ Latest' = Latest
  BY <1>2, SameIssued
<1>4. /\ job.s \in Session /\ session[job.s] = "created" /\ job.s # NoSession
      /\ daemon = "up" /\ ~replaced
  BY <1>1, NobodyIsNoSession DEF Held, StartHolds, DaemonHolds, Starting
<1>5. CASE CanSetRunning
  <2>1. /\ run' = "running" /\ active' = job.s /\ replaced' = (active # NoSession)
        /\ job'.step = "launch" /\ job'.s = job.s
    <3>1. /\ run' = "running" /\ active' = job.s /\ replaced' = (replaced \/ active # NoSession)
          /\ job' = [job EXCEPT !.step = "launch"]
      BY <1>5 DEF SetRunning
    <3>2. [job EXCEPT !.step = "launch"].step = "launch" /\ [job EXCEPT !.step = "launch"].s = job.s
      BY <1>1, NextJobValues
    <3> QED
      BY <1>4, <3>1, <3>2
  <2>2. ~Over /\ ~Over' /\ run # "absent"
    BY <1>5, <2>1, RunMoves DEF CanSetRunning, Over, TerminalRunStatus
  <2>3. workspace = "active" /\ AtRest' = AtRest
    BY <1>1, <1>2, <2>2 DEF Held, StartHolds, Finalized, AtRest
  <2>4. replaced' = FALSE => \A s \in Session : session[s] \notin UnderWay /\ awaits[s] = {}
    BY <1>4, <2>1, <2>2, NobodyIsNoSession DEF Held, OwnerHolds, Owner
  <2>5. Numbered'
    BY <1>1, <1>2, <1>3, <2>1 DEF Held, Numbered, Opening
  <2>6. DaemonHolds'
    BY <1>1, <1>2, <1>4, <2>1 DEF Held, DaemonHolds, Starting, Opening, Winding, Reclaiming
  <2>7. StartHolds'
    BY <1>2, <1>4, <2>1, <2>3 DEF StartHolds
  <2>8. EndHolds'
    BY <2>1 DEF EndHolds, Winding
  <2>9. RowsHold'
    BY <1>1, <1>2, <1>4, <2>1, <2>2 DEF Held, RowsHold, CompletedRunIsKept, Going
  <2>10. OwnerHolds'
    BY <1>2, <1>4, <2>1, <2>2, <2>4 DEF OwnerHolds, Going, OpenSession
  <2> QED
    BY <2>5, <2>6, <2>7, <2>8, <2>9, <2>10 DEF Held
<1>6. CASE ~CanSetRunning
  <2>1. UNCHANGED <<run, active, replaced>> /\ job'.step = "free"
    BY <1>6, JobValues DEF SetRunning
  <2>2. Over' = Over /\ AtRest' = AtRest /\ (\A s \in Session : Owner(s)' = Owner(s))
    BY <1>2, <2>1 DEF Over, AtRest, Owner
  <2>3. Numbered'
    BY <1>1, <1>2, <1>3, <2>1 DEF Held, Numbered, Opening
  <2>4. DaemonHolds'
    BY <1>1, <1>2, <1>4, <2>1 DEF Held, DaemonHolds, Starting, Opening, Winding, Reclaiming
  <2>5. StartHolds'
    BY <1>1, <1>2, <2>1, <2>2 DEF Held, StartHolds, Finalized
  <2>6. EndHolds'
    BY <2>1 DEF EndHolds, Winding
  <2>7. RowsHold'
    BY <1>1, <1>2, <1>4, <2>1, <2>2 DEF Held, RowsHold, CompletedRunIsKept
  <2>8. OwnerHolds'
    BY <1>1, <1>2, <1>4, <2>1, <2>2 DEF Held, OwnerHolds, Winding
  <2> QED
    BY <2>3, <2>4, <2>5, <2>6, <2>7, <2>8 DEF Held
<1> QED
  BY <1>5, <1>6

LEMMA LaunchKeepsHeld ==
  ASSUME TypeOK, Held, Launch
  PROVE  Held'
<1>1. /\ job.step = "launch" /\ job'.step = "free"
      /\ UNCHANGED <<run, workspace, active, awaits, resuming, daemon, crashes, replaced>>
  BY JobValues DEF Launch
<1>2. /\ job.s \in Session /\ session[job.s] = "created" /\ job.s # NoSession
      /\ run = "running" /\ active = job.s /\ daemon = "up"
  BY <1>1, NobodyIsNoSession DEF Held, StartHolds, DaemonHolds, Starting
<1>3. \A s \in Session : session'[s] = IF s = job.s THEN "starting" ELSE session[s]
  BY DEF Launch, TypeOK
<1>4. Issued' = Issued /\ Latest' = Latest
  BY <1>2, <1>3, SameIssued
<1>5. Over' = Over /\ AtRest' = AtRest /\ (\A s \in Session : Owner(s)' = Owner(s))
  BY <1>1 DEF Over, AtRest, Owner
<1>6. Numbered'
  BY <1>1, <1>4 DEF Held, Numbered, Opening
<1>7. DaemonHolds'
  BY <1>1, <1>2 DEF Held, DaemonHolds, Starting, Opening, Winding, Reclaiming
<1>8. StartHolds'
  BY <1>1, <1>5 DEF Held, StartHolds, Finalized
<1>9. EndHolds'
  BY <1>1 DEF EndHolds, Winding
<1>10. RowsHold'
  BY <1>1, <1>2, <1>3, <1>5 DEF Held, RowsHold, CompletedRunIsKept, Going
<1>11. OwnerHolds'
  <2>1. \A s \in Session : session'[s] \in UnderWay => session[s] \in UnderWay \/ s = active
    BY <1>2, <1>3
  <2>2. session'[active] \in OpenSession
    BY <1>2, <1>3 DEF OpenSession
  <2> QED
    BY <1>1, <1>2, <1>5, <2>1, <2>2 DEF Held, OwnerHolds
<1> QED
  BY <1>6, <1>7, <1>8, <1>9, <1>10, <1>11 DEF Held

LEMMA ContinueKeepsHeld ==
  ASSUME TypeOK, Held, ContinueInterrupted \/ PreflightReturns
  PROVE  Held'
<1>1. /\ UNCHANGED <<run, workspace, session, active, awaits, daemon, crashes, replaced>>
      /\ job.step = "free" /\ daemon = "up" /\ ~replaced
  BY DEF ContinueInterrupted, PreflightReturns, Accepting, Quiet, Free, rows
<1>2. Issued' = Issued /\ Latest' = Latest
  BY <1>1, SameIssued
<1>3. Over' = Over /\ AtRest' = AtRest /\ (\A s \in Session : Owner(s)' = Owner(s))
  BY <1>1 DEF Over, AtRest, Owner
<1>4. resuming \in Nat /\ Latest \in Nat
  BY LatestIsNumber DEF TypeOK
<1>5. \/ /\ job'.step = "free" /\ resuming' = resuming + 1 /\ Latest + resuming < MaxSession
         /\ run = "interrupted" /\ workspace = "active"
      \/ /\ job'.step \in {"free", "issue"} /\ resuming' = resuming - 1 /\ resuming > 0
  <2>1. Job("issue", NoSession).step = "issue"
    BY JobValues DEF JobStep
  <2> QED
    BY <1>1, <2>1 DEF ContinueInterrupted, PreflightReturns, Resumable
<1>6. Numbered'
  BY <1>1, <1>2, <1>4, <1>5, HostedAssumption DEF Held, Numbered, Opening
<1>7. DaemonHolds'
  BY <1>1, <1>5 DEF Held, DaemonHolds, Starting, Opening, Winding, Reclaiming
<1>8. StartHolds'
  <2>1. job'.step = "issue" => run # "absent" /\ workspace # "ready"
    BY <1>1, <1>4, <1>5 DEF Held, Numbered, StartHolds, Finalized, RowsHold, AtRest
  <2> QED
    BY <1>1, <1>3, <1>4, <1>5, <2>1 DEF Held, StartHolds, Finalized
<1>9. EndHolds'
  BY <1>5 DEF EndHolds, Winding
<1>10. RowsHold'
  BY <1>1, <1>3 DEF Held, RowsHold, CompletedRunIsKept
<1>11. OwnerHolds'
  BY <1>1, <1>3 DEF Held, OwnerHolds, Winding
<1> QED
  BY <1>6, <1>7, <1>8, <1>9, <1>10, <1>11 DEF Held

-----------------------------------------------------------------------------
(* shutdown, and the run's approvals                                       *)

LEMMA ShutdownKeepsHeld ==
  ASSUME TypeOK, Held, Shutdown
  PROVE  Held'
<1>1. /\ UNCHANGED <<run, workspace, session, active, resuming, crashes, replaced>>
      /\ job.step = "free" /\ daemon = "up" /\ daemon' = "closing" /\ ~replaced
  BY DEF Shutdown, Accepting, Quiet, Free, rows
<1>2. Issued' = Issued /\ Latest' = Latest
  BY <1>1, SameIssued
<1>3. Over' = Over /\ AtRest' = AtRest /\ (\A s \in Session : Owner(s)' = Owner(s))
  BY <1>1 DEF Over, AtRest, Owner
<1>4. /\ \A s \in Session : s # active => awaits'[s] = awaits[s]
      /\ active # NoSession => "shutdown" \in awaits'[active] \/ job'.step = "end_session"
      /\ \/ job'.step = "free"
         \/ /\ job'.step = "end_session" /\ job'.s = active /\ active \in Session
            /\ job'.verdict = "interrupted"
  <2>1. CASE active = NoSession
    BY <1>1, <2>1 DEF Shutdown
  <2>2. CASE active # NoSession
    <3>1. active \in Session /\ "interrupted" \in Outcome
      BY <2>2 DEF TypeOK, Outcome
    <3>2. /\ WindUp(active, "interrupted").step = "end_session"
          /\ WindUp(active, "interrupted").s = active
          /\ WindUp(active, "interrupted").verdict = "interrupted"
      BY <3>1, WindUpValues
    <3>3. \/ job' = WindUp(active, "interrupted") /\ awaits' = awaits
          \/ job' = job /\ awaits' = [awaits EXCEPT ![active] = @ \cup {"shutdown"}]
      BY <2>2 DEF Shutdown
    <3> QED
      BY <1>1, <2>2, <3>1, <3>2, <3>3 DEF TypeOK
  <2> QED
    BY <2>1, <2>2
<1>5. Numbered'
  BY <1>1, <1>2, <1>4 DEF Held, Numbered, Opening
<1>6. DaemonHolds'
  BY <1>1, <1>4 DEF Held, DaemonHolds, Starting, Opening, Winding, Reclaiming
<1>7. StartHolds'
  BY <1>1, <1>3, <1>4 DEF Held, StartHolds, Finalized
<1>8. EndHolds'
  BY <1>1, <1>4 DEF EndHolds, Winding, Outcome, Owner
<1>9. RowsHold'
  BY <1>1, <1>3 DEF Held, RowsHold, CompletedRunIsKept
<1>10. OwnerHolds'
  <2>1. \A s \in Session : awaits'[s] # {} => Owner(s)'
    BY <1>1, <1>3, <1>4 DEF Held, OwnerHolds, Owner
  <2> QED
    BY <1>1, <2>1 DEF Held, OwnerHolds, Winding
<1> QED
  BY <1>5, <1>6, <1>7, <1>8, <1>9, <1>10 DEF Held

LEMMA ShutdownEndsKeepsHeld ==
  ASSUME TypeOK, Held, ShutdownEnds
  PROVE  Held'
<1>1. /\ UNCHANGED <<run, workspace, session, resuming, job, crashes, replaced>>
      /\ job.step = "free" /\ daemon = "closing" /\ daemon' = "closed" /\ ~replaced
      /\ active' = NoSession /\ \A s \in Session : awaits'[s] = {} /\ "shutdown" \notin awaits[s]
  BY DEF ShutdownEnds, Free, rows
<1>2. Issued' = Issued /\ Latest' = Latest
  BY <1>1, SameIssued
<1>3. Over' = Over /\ AtRest' = AtRest
  BY <1>1 DEF Over, AtRest
<1>4. run \in Going => active = NoSession
  BY <1>1 DEF Held, DaemonHolds, Winding, TypeOK
<1>5. Numbered'
  BY <1>1, <1>2 DEF Held, Numbered
<1>6. DaemonHolds'
  BY <1>1 DEF DaemonHolds, Starting, Opening, Winding, Reclaiming
<1>7. StartHolds'
  BY <1>1, <1>3 DEF Held, StartHolds, Finalized
<1>8. EndHolds'
  BY <1>1 DEF EndHolds, Winding
<1>9. RowsHold'
  BY <1>1, <1>3, <1>4 DEF Held, RowsHold, CompletedRunIsKept
<1>10. OwnerHolds'
  <2>1. \A s \in Session : session[s] \notin UnderWay
    BY <1>1, <1>4, NobodyIsNoSession DEF Held, OwnerHolds, RowsHold
  <2> QED
    BY <1>1, <2>1 DEF OwnerHolds
<1> QED
  BY <1>5, <1>6, <1>7, <1>8, <1>9, <1>10 DEF Held

LEMMA ApprovalKeepsHeld ==
  ASSUME TypeOK, Held, ApprovalMovesRun
  PROVE  Held'
<1>1. /\ UNCHANGED <<workspace, session, active, awaits, resuming, job, daemon, crashes, replaced>>
      /\ job.step = "free" /\ run \in Going /\ run' \in Going
  BY DEF ApprovalMovesRun, Free, memory, Going
<1>2. Issued' = Issued /\ Latest' = Latest
  BY <1>1, SameIssued
<1>3. ~Over /\ ~Over' /\ AtRest' = AtRest /\ (\A s \in Session : Owner(s)' = Owner(s))
  BY <1>1 DEF Over, AtRest, Owner, Going, TerminalRunStatus
<1>4. Numbered'
  BY <1>1, <1>2 DEF Held, Numbered, Going
<1>5. DaemonHolds'
  BY <1>1 DEF Held, DaemonHolds
<1>6. StartHolds'
  BY <1>1, <1>3 DEF Held, StartHolds, Finalized
<1>7. EndHolds'
  BY <1>1 DEF EndHolds, Winding
<1>8. RowsHold'
  BY <1>1, <1>3 DEF Held, RowsHold, CompletedRunIsKept, Going
<1>9. OwnerHolds'
  BY <1>1, <1>3 DEF Held, OwnerHolds
<1> QED
  BY <1>4, <1>5, <1>6, <1>7, <1>8, <1>9 DEF Held

-----------------------------------------------------------------------------
(* The end of a run, stretch by stretch                                    *)

LEMMA FinalizeKeepsHeld ==
  ASSUME TypeOK, Held, FinalizeWorkspace
  PROVE  Held'
<1>1. job \in JobState /\ "end_session" \in JobStep /\ "failed" \in Outcome /\ job.step = "finalize"
  BY DEF TypeOK, JobState, JobStep, Outcome, FinalizeWorkspace
<1>2. UNCHANGED <<run, session, active, awaits, resuming, daemon, crashes, replaced>>
  BY DEF FinalizeWorkspace, memory
<1>3. /\ job'.step = "end_session" /\ job'.s = job.s
      /\ \/ /\ workspace \in {"ready", "active"} /\ workspace' = "finalized"
            /\ job'.verdict = job.verdict
         \/ /\ workspace \in {"ready", "active"} /\ workspace' = "failed"
            /\ job'.verdict = "failed"
         \/ /\ workspace \notin {"ready", "active"} /\ workspace' = workspace
            /\ job'.verdict = job.verdict
  <2>1. /\ [job EXCEPT !.step = "end_session"].step = "end_session"
        /\ [job EXCEPT !.step = "end_session"].s = job.s
        /\ [job EXCEPT !.step = "end_session"].verdict = job.verdict
    BY <1>1, NextJobValues
  <2>2. /\ [job EXCEPT !.step = "end_session", !.verdict = "failed"].step = "end_session"
        /\ [job EXCEPT !.step = "end_session", !.verdict = "failed"].s = job.s
        /\ [job EXCEPT !.step = "end_session", !.verdict = "failed"].verdict = "failed"
    BY <1>1 DEF JobState
  <2> QED
    BY <2>1, <2>2 DEF FinalizeWorkspace, FinalVerdict
<1>4. /\ job.s \in Session /\ job.verdict \in Outcome /\ job.verdict # "interrupted" /\ Owner(job.s)
      /\ daemon \in {"up", "closing"} /\ ~replaced
  BY <1>1 DEF Held, EndHolds, DaemonHolds, Winding
<1>5. Issued' = Issued /\ Latest' = Latest
  BY <1>2, SameIssued
<1>6. Over' = Over /\ (\A s \in Session : Owner(s)' = Owner(s))
  BY <1>2 DEF Over, Owner
<1>7. AtRest'
  BY <1>1, <1>3, <1>4 DEF AtRest, Held, RowsHold
<1>8. Over => workspace' = workspace
  BY <1>3 DEF Held, RowsHold, AtRest
<1>9. job'.verdict = "completed" /\ ~Over => workspace' = "finalized"
  <2>1. ASSUME job.verdict = "completed", ~Over
        PROVE  workspace = "active"
    BY <1>1, <1>4, <2>1, NobodyIsNoSession DEF Held, StartHolds, Finalized, Owner
  <2> QED
    BY <1>3, <2>1
<1>10. Numbered'
  BY <1>1, <1>2, <1>3, <1>5 DEF Held, Numbered, Opening
<1>11. DaemonHolds'
  BY <1>1, <1>2, <1>3, <1>4 DEF Held, DaemonHolds, Starting, Opening, Winding, Reclaiming
<1>12. StartHolds'
  BY <1>3, <1>4 DEF StartHolds, Finalized
<1>13. EndHolds'
  BY <1>3, <1>4, <1>1, <1>6, <1>7, <1>9 DEF EndHolds, Winding
<1>14. RowsHold'
  <2>1. CompletedRunIsKept'
    BY <1>2, <1>8 DEF Held, RowsHold, CompletedRunIsKept, Over, TerminalRunStatus
  <2> QED
    BY <1>2, <1>6, <1>7, <2>1 DEF Held, RowsHold, AtRest
<1>15. OwnerHolds'
  BY <1>1, <1>2, <1>3, <1>6 DEF Held, OwnerHolds, Winding
<1> QED
  BY <1>10, <1>11, <1>12, <1>13, <1>14, <1>15 DEF Held

LEMMA EndSessionKeepsHeld ==
  ASSUME TypeOK, Held, EndSession
  PROVE  Held'
<1>1. /\ job \in JobState /\ "end_run" \in JobStep /\ job.step = "end_session"
      /\ job' = [job EXCEPT !.step = "end_run"]
  BY DEF TypeOK, JobState, JobStep, EndSession
<1>2. UNCHANGED <<run, workspace, active, awaits, resuming, daemon, crashes, replaced>>
  BY DEF EndSession, memory
<1>3. job'.step = "end_run" /\ job'.s = job.s /\ job'.verdict = job.verdict
  BY <1>1, NextJobValues
<1>4. /\ job.s \in Session /\ job.verdict \in Outcome /\ Owner(job.s)
      /\ daemon \in {"up", "closing"} /\ ~replaced
  BY <1>1 DEF Held, EndHolds, DaemonHolds, Winding
<1>5. \A s \in Session : session'[s] = IF s = job.s /\ session[s] \in OpenSession THEN job.verdict
                                       ELSE session[s]
  BY <1>4 DEF EndSession, TypeOK
<1>6. job.verdict \notin OpenSession /\ job.verdict # "absent" /\ "absent" \notin OpenSession
  BY <1>4 DEF Outcome, OpenSession
<1>7. Issued' = Issued /\ Latest' = Latest
  BY <1>5, <1>6, SameIssued
<1>8. Over' = Over /\ AtRest' = AtRest /\ (\A s \in Session : Owner(s)' = Owner(s))
  BY <1>2 DEF Over, AtRest, Owner
<1>9. \A s \in Session : session'[s] \in UnderWay => session[s] \in UnderWay
  BY <1>5, <1>6 DEF UnderWay
<1>10. session'[job.s] \notin OpenSession
  BY <1>4, <1>5, <1>6
<1>11. job.verdict = "completed" /\ run = "running" => session'[job.s] = "completed"
  <2>1. ASSUME job.verdict = "completed", run = "running"
        PROVE  session[job.s] \in OpenSession
    BY <1>1, <1>4, <2>1, NobodyIsNoSession
    DEF Held, OwnerHolds, Owner, Over, Going, TerminalRunStatus
  <2> QED
    BY <1>4, <1>5, <2>1
<1>12. Numbered'
  BY <1>1, <1>2, <1>3, <1>7 DEF Held, Numbered, Opening
<1>13. DaemonHolds'
  BY <1>1, <1>2, <1>3, <1>4 DEF Held, DaemonHolds, Starting, Opening, Winding, Reclaiming
<1>14. StartHolds'
  BY <1>1, <1>2, <1>3, <1>8 DEF Held, StartHolds, Finalized
<1>15. EndHolds'
  BY <1>1, <1>2, <1>3, <1>4, <1>8, <1>10, <1>11 DEF Held, EndHolds, Winding
<1>16. RowsHold'
  <2>1. CompletedRunIsKept'
    BY <1>2, <1>5, <1>6 DEF Held, RowsHold, CompletedRunIsKept, OpenSession
  <2> QED
    BY <1>1, <1>2, <1>3, <1>8, <1>9, <2>1 DEF Held, RowsHold
<1>17. OwnerHolds'
  BY <1>2, <1>3, <1>8, <1>9 DEF Held, OwnerHolds
<1> QED
  BY <1>12, <1>13, <1>14, <1>15, <1>16, <1>17 DEF Held

LEMMA EndRunKeepsHeld ==
  ASSUME TypeOK, Held, EndRun
  PROVE  Held'
<1>1. /\ UNCHANGED <<workspace, session, awaits, resuming, daemon, crashes, replaced>>
      /\ job.step = "end_run"
  BY DEF EndRun
<1>2. /\ job.s \in Session /\ job.s # NoSession /\ job.verdict \in Outcome /\ Owner(job.s)
      /\ session[job.s] \notin OpenSession
      /\ daemon \in {"up", "closing"} /\ ~replaced /\ workspace # "preparing"
  BY <1>1, NobodyIsNoSession DEF Held, EndHolds, DaemonHolds, RowsHold, Winding
<1>3. Issued' = Issued /\ Latest' = Latest
  BY <1>1, SameIssued
<1>4. AtRest' = AtRest
  BY <1>1 DEF AtRest
<1>5. \A s \in Session : session[s] \notin UnderWay
  BY <1>2, NobodyIsNoSession DEF Held, OwnerHolds, Owner, UnderWay
<1>6. CASE run \in TerminalRunStatus /\ run' = run /\ job' = NoJob
  <2>1. job'.step = "free" /\ active = NoSession /\ active' = NoSession
    BY <1>6, JobValues DEF EndRun, Held, OwnerHolds, Going, TerminalRunStatus
  <2>2. Over /\ Over' /\ (\A s \in Session : Owner(s)' = Owner(s))
    BY <1>6, <2>1 DEF Over, Owner
  <2>3. Numbered'
    BY <1>1, <1>3, <1>6, <2>1 DEF Held, Numbered, Opening
  <2>4. DaemonHolds'
    BY <1>1, <1>2, <2>1 DEF Held, DaemonHolds, Starting, Opening, Winding, Reclaiming
  <2>5. StartHolds'
    BY <2>1, <2>2 DEF StartHolds
  <2>6. EndHolds'
    BY <2>1 DEF EndHolds, Winding
  <2>7. RowsHold'
    BY <1>1, <1>2, <1>4, <1>5, <1>6, <2>1, <2>2 DEF Held, RowsHold, CompletedRunIsKept
  <2>8. OwnerHolds'
    BY <1>1, <1>5, <2>1, <2>2 DEF Held, OwnerHolds
  <2> QED
    BY <2>3, <2>4, <2>5, <2>6, <2>7, <2>8 DEF Held
<1>7. CASE <<run, job.verdict>> \in RunTransition /\ run' = job.verdict /\ job' = NoJob
  <2>1. /\ job'.step = "free"
        /\ active' = IF job.verdict = "interrupted" THEN active ELSE NoSession
    BY <1>7, JobValues DEF EndRun
  <2>2. ~Over /\ active = job.s
    BY <1>2, <1>7, RunMoves DEF Owner, Over
  <2>3. /\ Over' <=> job.verdict # "interrupted"
        /\ run' \notin Going /\ run' # "absent"
    BY <1>2, <1>7 DEF Over, TerminalRunStatus, Outcome, Going
  <2>4. job.verdict = "interrupted" => daemon = "closing" /\ workspace = "active"
    BY <1>1, <1>2, <2>2 DEF Held, EndHolds, StartHolds, Winding, Finalized
  <2>5. job.verdict # "interrupted" => AtRest
    BY <1>1 DEF Held, EndHolds
  <2>6. job.verdict = "completed" => workspace = "finalized" /\ session[job.s] = "completed"
    BY <1>1, <1>7, <2>2, RunMoves DEF Held, EndHolds
  <2>7. Numbered'
    BY <1>1, <1>3, <2>1, <2>3 DEF Held, Numbered, Opening
  <2>8. DaemonHolds'
    BY <1>1, <1>2, <2>1, <2>3 DEF Held, DaemonHolds, Starting, Opening, Winding, Reclaiming
  <2>9. StartHolds'
    BY <1>1, <2>1, <2>3, <2>4 DEF StartHolds
  <2>10. EndHolds'
    BY <2>1 DEF EndHolds, Winding
  <2>11. RowsHold'
    <3>1. CompletedRunIsKept'
      BY <1>1, <1>2, <1>7, <2>6 DEF CompletedRunIsKept
    <3> QED
      BY <1>1, <1>2, <1>4, <1>5, <2>1, <2>3, <2>5, <3>1 DEF RowsHold
  <2>12. OwnerHolds'
    <3>1. \A s \in Session : awaits'[s] # {} => Owner(s)'
      BY <1>1, <1>2, <2>1, <2>2, <2>3 DEF Held, OwnerHolds, Owner
    <3>2. active' # NoSession => run' = "interrupted" /\ daemon' = "closing"
      BY <1>1, <1>7, <2>1, <2>4
    <3> QED
      BY <1>1, <1>5, <2>1, <2>3, <3>1, <3>2 DEF OwnerHolds
  <2> QED
    BY <2>7, <2>8, <2>9, <2>10, <2>11, <2>12 DEF Held
<1>8. CASE run \notin TerminalRunStatus /\ run' = run /\ job' = WindUp(job.s, "failed")
  <2>1. "failed" \in Outcome
    BY DEF Outcome
  <2>2. job'.step = "finalize" /\ job'.s = job.s /\ job'.verdict = "failed"
    BY <1>2, <1>8, <2>1, WindUpValues
  <2>3. active' = active
    BY <2>2 DEF EndRun
  <2>4. ~Over /\ ~Over' /\ (\A s \in Session : Owner(s)' = Owner(s))
    BY <1>8, <2>3 DEF Over, Owner
  <2>5. Numbered'
    BY <1>1, <1>3, <1>8, <2>2 DEF Held, Numbered, Opening
  <2>6. DaemonHolds'
    BY <1>1, <1>2, <1>8, <2>2, <2>3 DEF Held, DaemonHolds, Starting, Opening, Winding, Reclaiming
  <2>7. StartHolds'
    BY <2>2 DEF StartHolds, Finalized
  <2>8. EndHolds'
    BY <1>2, <2>1, <2>2, <2>4 DEF EndHolds, Winding
  <2>9. RowsHold'
    BY <1>1, <1>2, <1>4, <1>5, <1>8, <2>3, <2>4 DEF Held, RowsHold, CompletedRunIsKept
  <2>10. OwnerHolds'
    BY <1>1, <1>5, <1>8, <2>2, <2>3, <2>4 DEF Held, OwnerHolds, Winding
  <2> QED
    BY <2>5, <2>6, <2>7, <2>8, <2>9, <2>10 DEF Held
<1> QED
  BY <1>6, <1>7, <1>8 DEF EndRun

-----------------------------------------------------------------------------
(* Death and start-up                                                      *)

LEMMA DeathKeepsHeld ==
  ASSUME TypeOK, Held, Crash \/ ProcessEnds
  PROVE  Held'
<1>1. /\ UNCHANGED <<run, workspace, session>> /\ crashes \in Nat
      /\ \/ crashes' = crashes + 1
         \/ crashes' = crashes /\ active = NoSession
  BY HostedAssumption DEF Crash, ProcessEnds, rows, Held, DaemonHolds, TypeOK
<1>2. /\ active' = NoSession /\ resuming' = 0 /\ daemon' = "off" /\ replaced' = FALSE
      /\ job'.step = "free" /\ \A s \in Session : awaits'[s] = {}
  BY JobValues DEF Crash, ProcessEnds, Forgotten
<1>3. Issued' = Issued /\ Latest' = Latest /\ Latest \in Nat /\ resuming \in Nat
  BY <1>1, SameIssued, LatestIsNumber DEF TypeOK
<1>4. Over' = Over /\ AtRest' = AtRest
  BY <1>1 DEF Over, AtRest
<1>5. Numbered'
  BY <1>1, <1>2, <1>3, HostedAssumption DEF Held, Numbered, Opening
<1>6. DaemonHolds'
  BY <1>2 DEF DaemonHolds, Starting, Opening, Winding, Reclaiming
<1>7. StartHolds'
  BY <1>2 DEF StartHolds
<1>8. EndHolds'
  BY <1>2 DEF EndHolds, Winding
<1>9. RowsHold'
  BY <1>1, <1>2, <1>4 DEF Held, RowsHold, CompletedRunIsKept
<1>10. OwnerHolds'
  BY <1>2 DEF OwnerHolds
<1> QED
  BY <1>5, <1>6, <1>7, <1>8, <1>9, <1>10 DEF Held

LEMMA RecoverKeepsHeld ==
  ASSUME TypeOK, Held, RecoverProviderSessions
  PROVE  Held'
<1>1. /\ daemon = "off" /\ job.step = "free" /\ active = NoSession /\ resuming = 0 /\ ~replaced
      /\ \A s \in Session : awaits[s] = {}
  BY DEF RecoverProviderSessions, Held, DaemonHolds
<1>2. UNCHANGED <<workspace, active, awaits, resuming, crashes, replaced>>
  BY DEF RecoverProviderSessions, memory
<1>3. \/ /\ workspace \in {"preparing", "ready"}
         /\ daemon' = "recovering" /\ job'.step = "discard"
      \/ /\ workspace \notin {"preparing", "ready"}
         /\ daemon' = "up" /\ job'.step = "free"
  <2>1. Job("discard", NoSession).step = "discard" /\ NoJob.step = "free"
    BY JobValues DEF JobStep
  <2> QED
    BY <2>1 DEF RecoverProviderSessions
<1>4. \A s \in Session : session'[s] = IF session[s] \in UnderWay THEN "interrupted" ELSE session[s]
  BY DEF RecoverProviderSessions, HitByRestart, UnderWay, OpenSession, TypeOK
<1>5. Issued' = Issued /\ Latest' = Latest
  BY <1>4, SameIssued DEF UnderWay, OpenSession
<1>6. \A s \in Session : session'[s] \notin UnderWay
  BY <1>4 DEF UnderWay, OpenSession
<1>7. \/ run' = run
      \/ run \in Going /\ run' = "interrupted"
  BY DEF RecoverProviderSessions, InterruptedBy, HitByRestart, Held, RowsHold, UnderWay, OpenSession, Going
<1>8. Over' = Over /\ AtRest' = AtRest
  BY <1>2, <1>7 DEF Over, AtRest, TerminalRunStatus, Going
<1>9. Numbered'
  BY <1>1, <1>2, <1>3, <1>5, <1>7 DEF Held, Numbered, Opening
<1>10. DaemonHolds'
  BY <1>1, <1>2, <1>3 DEF DaemonHolds, Starting, Opening, Winding, Reclaiming
<1>11. StartHolds'
  BY <1>1, <1>2, <1>3 DEF StartHolds
<1>12. EndHolds'
  BY <1>2, <1>3 DEF EndHolds, Winding
<1>13. RowsHold'
  <2>1. CompletedRunIsKept'
    BY <1>2, <1>4, <1>7 DEF Held, RowsHold, CompletedRunIsKept, UnderWay, OpenSession
  <2> QED
    BY <1>1, <1>2, <1>3, <1>6, <1>7, <1>8, <2>1 DEF Held, RowsHold, Going
<1>14. OwnerHolds'
  BY <1>1, <1>2, <1>6 DEF OwnerHolds
<1> QED
  BY <1>9, <1>10, <1>11, <1>12, <1>13, <1>14 DEF Held

LEMMA ReclaimKeepsHeld ==
  ASSUME TypeOK, Held, DiscardWorkspace \/ AbandonRun \/ RemoveWorktree
  PROVE  Held'
<1>1. UNCHANGED <<session, active, awaits, resuming, crashes, replaced>>
  BY DEF DiscardWorkspace, AbandonRun, RemoveWorktree, memory
<1>2. \/ /\ job.step = "discard" /\ job'.step = "abandon" /\ workspace' = "failed"
         /\ run' = run /\ daemon' = daemon
      \/ /\ job.step = "abandon" /\ job'.step = "remove" /\ workspace' = workspace
         /\ run' = IF run \in TerminalRunStatus THEN run ELSE "failed"
         /\ daemon' = daemon
      \/ /\ job.step = "remove" /\ job'.step = "free" /\ workspace' \in {"cleaned", "failed"}
         /\ run' = run /\ daemon' = "up"
  <2>1. /\ Job("abandon", NoSession).step = "abandon" /\ Job("remove", NoSession).step = "remove"
        /\ NoJob.step = "free"
    BY JobValues DEF JobStep
  <2> QED
    BY <2>1 DEF DiscardWorkspace, AbandonRun, RemoveWorktree
<1>3. /\ daemon = "recovering" /\ active = NoSession /\ resuming = 0 /\ ~replaced
      /\ \A s \in Session : awaits[s] = {}
  BY <1>2 DEF Held, DaemonHolds, Reclaiming
<1>4. \A s \in Session : session[s] \notin UnderWay
  BY <1>3, NobodyIsNoSession DEF Held, OwnerHolds
<1>5. Issued' = Issued /\ Latest' = Latest
  BY <1>1, SameIssued
<1>6. run' = run \/ (~Over /\ run' = "failed" /\ workspace = "failed")
  BY <1>2 DEF Over, Held, EndHolds
<1>7. Numbered'
  BY <1>1, <1>2, <1>3, <1>5, <1>6 DEF Held, Numbered, Opening
<1>8. DaemonHolds'
  BY <1>1, <1>2, <1>3 DEF DaemonHolds, Starting, Opening, Winding, Reclaiming
<1>9. StartHolds'
  BY <1>1, <1>2, <1>3 DEF StartHolds
<1>10. EndHolds'
  BY <1>2 DEF Held, EndHolds, Winding
<1>11. RowsHold'
  <2>1. workspace' # "preparing" /\ (Over' => AtRest')
    BY <1>2, <1>3, <1>6 DEF Held, RowsHold, Over, AtRest
  <2>2. CompletedRunIsKept'
    <3>1. run # "completed"
      BY <1>2 DEF Held, EndHolds, RowsHold, CompletedRunIsKept, AtRest, Over, TerminalRunStatus
    <3> QED
      BY <1>6, <3>1 DEF CompletedRunIsKept
  <2> QED
    BY <1>1, <1>3, <1>4, <1>6, <2>1, <2>2 DEF Held, RowsHold, Going
<1>12. OwnerHolds'
  BY <1>1, <1>3, <1>4 DEF OwnerHolds
<1> QED
  BY <1>7, <1>8, <1>9, <1>10, <1>11, <1>12 DEF Held

-----------------------------------------------------------------------------
(* Turns                                                                   *)

(* A step that leaves turns, calls and hosts alone, or takes the manager's *)
(* context away.                                                           *)
LEMMA TurnsAside ==
  ASSUME TurnsHold, UNCHANGED <<ctx, host, call, live>>, active' \in {active, NoSession},
         job'.step # "launch"
  PROVE  TurnsHold'
BY NobodyIsNoSession DEF TurnsHold, TurnIsMine

(* A step that makes no turn current and wakes no answer, kills no turn    *)
(* and revives no child.                                                   *)
LEMMA TurnsKept ==
  ASSUME TurnsHold, active' = active, job'.step # "launch",
         \A s \in Session :
           /\ ctx'[s].turn => ctx[s].turn
           /\ ctx[s].finalizing => ctx'[s].finalizing
           /\ call'[s] = "egress" => call[s] = "egress"
           /\ call'[s] = "answered" => call[s] = "answered" /\ (TurnIsMine(s)' => TurnIsMine(s))
           /\ Alive(host'[s]) => Alive(host[s])
           /\ live[s] => live'[s]
  PROVE  TurnsHold'
BY DEF TurnsHold, TurnIsMine

LEMMA JobTurns ==
  ASSUME HInv, JobRuns
  PROVE  TurnsHold'
<1>1. job \in JobState
  BY DEF HInv, TypeOK, JobState
<1>2. CASE SetRunning
  <2>1. job.s \in Session
    BY <1>2 DEF SetRunning, HInv, Held, StartHolds
  <2>2. UNCHANGED <<host, call, live>>
    BY <1>2 DEF SetRunning, provider
  <2>3. CASE CanSetRunning
    <3>1. /\ active' = job.s /\ ctx' = [ctx EXCEPT ![job.s] = NewContext]
          /\ job' = [job EXCEPT !.step = "launch"]
      BY <1>2, <2>3 DEF SetRunning
    <3>2. job'.s = job.s
      BY <1>1, <3>1 DEF JobState
    <3>3. /\ ctx'[job.s] = NewContext
          /\ \A s \in Session : s # job.s => ctx'[s] = ctx[s]
      BY <2>1, <3>1 DEF HInv, TypeOK
    <3> QED
      BY <2>1, <2>2, <3>1, <3>2, <3>3 DEF HInv, TurnsHold, TurnIsMine, NewContext, NoContext
  <2>4. CASE ~CanSetRunning
    BY <1>2, <2>2, <2>4, JobValues, TurnsAside DEF SetRunning, HInv
  <2> QED
    BY <2>3, <2>4
<1>3. CASE Launch
  <2>1. job.s \in Session /\ ~ctx[job.s].turn /\ job'.step = "free"
    BY <1>3, JobValues DEF Launch, HInv, Held, StartHolds, TurnsHold
  <2>2. /\ UNCHANGED <<active, ctx, live>>
        /\ \A s \in Session : Alive(host'[s]) => Alive(host[s])
    BY <1>3, <2>1 DEF Launch, HInv, TypeOK, Alive, Host
  <2>3. \A s \in Session : call'[s] = IF s = job.s THEN "egress" ELSE call[s]
    BY <1>3 DEF Launch, HInv, TypeOK
  <2> QED
    BY <2>1, <2>2, <2>3 DEF HInv, TurnsHold, TurnIsMine
<1>4. CASE EndRun
  <2>1. job'.step \in {"free", "finalize", "end_session"}
    BY <1>4, JobValues DEF EndRun, WindUp
  <2> QED
    BY <1>4, <2>1, TurnsAside DEF EndRun, HInv, provider
<1>5. CASE ActivateWorkspace \/ FinalizeWorkspace \/ EndSession
  <2>1. job'.step # "launch"
    BY <1>1, <1>5 DEF ActivateWorkspace, FinalizeWorkspace, EndSession, JobState
  <2> QED
    BY <1>5, <2>1, TurnsAside
    DEF ActivateWorkspace, FinalizeWorkspace, EndSession, HInv, memory, provider
<1>6. CASE \/ PrepareWorkspace \/ RestoreWorktree \/ CreateProviderSession
           \/ DiscardWorkspace \/ AbandonRun \/ RemoveWorktree
  <2>1. CreateProviderSession => job'.step # "launch"
    BY DEF CreateProviderSession, Job, NoJob
  <2>2. \/ PrepareWorkspace \/ RestoreWorktree
        \/ DiscardWorkspace \/ AbandonRun \/ RemoveWorktree
        => job'.step # "launch"
    BY JobValues
    DEF PrepareWorkspace, RestoreWorktree, DiscardWorkspace, AbandonRun, RemoveWorktree, JobStep
  <2>3. job'.step # "launch"
    BY <1>6, <2>1, <2>2
  <2> QED
    BY <1>6, <2>3, TurnsAside
    DEF PrepareWorkspace, RestoreWorktree, CreateProviderSession, DiscardWorkspace, AbandonRun,
        RemoveWorktree, HInv, memory, provider
<1> QED
  BY <1>2, <1>3, <1>4, <1>5, <1>6 DEF JobRuns

(* fail ends what it finds.                                                *)
LEMMA FailTurns ==
  ASSUME TypeOK, Free, NEW s \in Session, NEW c \in Context, Fail(s, c)
  PROVE  /\ job'.step # "launch"
         /\ \A t \in Session :
              /\ t # s => ctx'[t] = ctx[t]
              /\ Alive(host'[t]) => Alive(host[t])
         /\ ctx'[s] \in {c, Ending(c)}
         /\ active = s => ctx'[s].finalizing
<1>1. "failed" \in Outcome /\ job.step = "free"
  BY DEF Outcome, Free
<1>2. job'.step # "launch"
  BY <1>1, WindUpValues DEF Fail
<1>3. \A t \in Session : Alive(host'[t]) => Alive(host[t])
  <2>1. Alive(Stopped(host[s], "failed")) => Alive(host[s])
    BY <1>1, OnlySpawnedLive DEF TypeOK
  <2> QED
    BY <2>1 DEF Fail, TypeOK
<1>4. \A t \in Session : t # s => ctx'[t] = ctx[t]
  BY DEF Fail, TypeOK
<1>5. ctx'[s] = IF active = s THEN Ending(c) ELSE c
  BY DEF Fail, TypeOK
<1>6. Ending(c).finalizing
  BY DEF Ending, Context
<1> QED
  BY <1>2, <1>3, <1>4, <1>5, <1>6

LEMMA LaunchTurns ==
  ASSUME HInv, NEW s \in Session, LaunchGoesOn(s)
  PROVE  TurnsHold'
<1>0. TypeOK /\ host[s] \in Host /\ ctx[s] \in Context /\ TurnsHold
  BY DEF HInv, TypeOK
<1>1. /\ active' = active
      /\ job' = job => job'.step # "launch"
  BY DEF LaunchGoesOn, EgressUp, EgressFails, HandshakeDone, HostGivesUp, ThreadStarts,
         ThreadTooLate, RequestRefused, TurnAnswered, TurnBegins, LaunchRejected, ThreadReady,
         Quiet, Free
<1>2. CASE EgressUp(s)
  <2>1. /\ UNCHANGED <<ctx, live, job>>
        /\ \A t \in Session : /\ t # s => host'[t] = host[t]
                              /\ call'[t] = IF t = s THEN "handshake" ELSE call[t]
    BY <1>0, <1>2 DEF EgressUp, TypeOK
  <2>2. ~ctx[s].turn
    BY <1>0, <1>2 DEF EgressUp, TurnsHold
  <2> QED
    BY <1>0, <1>1, <2>1, <2>2 DEF TurnsHold, TurnIsMine
<1>3. CASE \/ EgressFails(s) \/ HandshakeDone(s) \/ HostGivesUp(s)
  <2>1. UNCHANGED <<ctx, live, job>>
    BY <1>3 DEF EgressFails, HandshakeDone, HostGivesUp
  <2>2. \A t \in Session : call'[t] = IF t = s THEN call'[s] ELSE call[t]
    BY <1>0, <1>3 DEF EgressFails, HandshakeDone, HostGivesUp, TypeOK
  <2>3. call'[s] \in {"rejected", "thread", "sunk"}
    BY <1>0, <1>3 DEF EgressFails, HandshakeDone, HostGivesUp, TypeOK
  <2>4. /\ Alive(GivenUp(host[s])) => Alive(host[s])
        /\ \A t \in {"starting", "running", "failed"} :
             Alive([host[s] EXCEPT !.state = t]) => Alive(host[s])
    BY <1>0, OnlySpawnedLive
  <2>5. \A t \in Session : Alive(host'[t]) => Alive(host[t])
    BY <1>0, <1>3, <2>4 DEF EgressFails, HandshakeDone, HostGivesUp, TypeOK
  <2> QED
    BY <1>0, <1>1, <2>1, <2>2, <2>3, <2>5, TurnsKept DEF TurnIsMine
<1>4. CASE ThreadStarts(s) \/ ThreadTooLate(s) \/ RequestRefused(s)
  <2>1. UNCHANGED <<host, live, job>>
    BY <1>4 DEF ThreadStarts, ThreadTooLate, RequestRefused, provider
  <2>2. /\ \A t \in Session : call'[t] = IF t = s THEN call'[s] ELSE call[t]
        /\ call'[s] \in {"turn", "rejected"}
    BY <1>0, <1>4 DEF ThreadStarts, ThreadTooLate, RequestRefused, TypeOK
  <2>3. \A t \in Session : /\ t # s => ctx'[t] = ctx[t]
                           /\ ctx'[t].turn = ctx[t].turn /\ ctx'[t].finalizing = ctx[t].finalizing
    BY <1>0, <1>4 DEF ThreadStarts, ThreadTooLate, RequestRefused, TypeOK, Context
  <2> QED
    BY <1>0, <1>1, <2>1, <2>2, <2>3, TurnsKept DEF TurnIsMine
<1>5. CASE TurnAnswered(s)
  <2>1. UNCHANGED <<ctx, host, job>>
    BY <1>5 DEF TurnAnswered
  <2>2. \A t \in Session : /\ call'[t] = IF t = s THEN "answered" ELSE call[t]
                           /\ live'[t] = IF t = s THEN TRUE ELSE live[t]
    BY <1>0, <1>5 DEF TurnAnswered, TypeOK
  <2> QED
    BY <1>0, <1>1, <2>1, <2>2 DEF TurnsHold, TurnIsMine
<1>6. CASE TurnBegins(s)
  <2>1. UNCHANGED <<host, live, job>> /\ call[s] = "answered"
    BY <1>6 DEF TurnBegins, provider
  <2>2. \A t \in Session : call'[t] = IF t = s THEN "over" ELSE call[t]
    BY <1>0, <1>6 DEF TurnBegins, TypeOK
  <2>3. \A t \in Session : /\ t # s => ctx'[t] = ctx[t]
                           /\ ctx'[t].finalizing = ctx[t].finalizing
    BY <1>0, <1>6 DEF TurnBegins, TypeOK, Context
  <2>4. ctx'[s].turn => ctx[s].turn \/ TurnIsMine(s)
    BY <1>0, <1>6 DEF TurnBegins, TypeOK, Context
  <2> QED
    BY <1>0, <1>1, <2>1, <2>2, <2>3, <2>4 DEF TurnsHold, TurnIsMine
<1>7. CASE LaunchRejected(s)
  <2>1. Free /\ Fail(s, ctx[s]) /\ UNCHANGED live
    BY <1>7 DEF LaunchRejected
  <2>2. \A t \in Session : call'[t] = IF t = s THEN "over" ELSE call[t]
    BY <1>0, <1>7 DEF LaunchRejected, TypeOK
  <2>3. /\ job'.step # "launch"
        /\ \A t \in Session : t # s => ctx'[t] = ctx[t]
        /\ \A t \in Session : Alive(host'[t]) => Alive(host[t])
        /\ ctx'[s] \in {ctx[s], Ending(ctx[s])}
    BY <1>0, <2>1, FailTurns
  <2>4. Ending(ctx[s]).turn = ctx[s].turn /\ Ending(ctx[s]).finalizing
    BY <1>0 DEF Ending, Context
  <2>5. \A t \in Session : /\ ctx'[t].turn => ctx[t].turn
                           /\ ctx[t].finalizing => ctx'[t].finalizing
    BY <2>3, <2>4
  <2> QED
    BY <1>0, <1>1, <2>1, <2>2, <2>3, <2>5, TurnsKept DEF TurnIsMine
<1> QED
  BY <1>2, <1>3, <1>4, <1>5, <1>6, <1>7 DEF LaunchGoesOn

LEMMA EndsTurns ==
  ASSUME HInv, NEW s \in Session, Ends(s)
  PROVE  TurnsHold'
<1>0. TypeOK /\ host[s] \in Host /\ ctx[s] \in Context /\ TurnsHold
      /\ {"cancelled", "failed"} \subseteq Outcome
  BY DEF HInv, TypeOK, Outcome
<1>1. ASSUME NEW good \in BOOLEAN, InterruptReturns(s, good)
      PROVE  TurnsHold'
  <2>1. UNCHANGED <<active, ctx, call, live, job>> /\ job.step = "free"
    BY <1>1 DEF InterruptReturns, Quiet, Free
  <2>2. /\ Alive(GivenUp(host[s])) => Alive(host[s])
        /\ Alive(Stopped(host[s], "cancelled")) => Alive(host[s])
    BY <1>0, OnlySpawnedLive
  <2>3. \A t \in Session : Alive(host'[t]) => Alive(host[t])
    BY <1>0, <1>1, <2>2 DEF InterruptReturns, TypeOK
  <2> QED
    BY <1>0, <2>1, <2>3, TurnsKept DEF TurnIsMine
<1>2. ASSUME NEW waiter \in Waiter \ {"interrupt"}, StopReturns(s, waiter)
      PROVE  TurnsHold'
  <2>1. job'.step # "launch"
    BY <1>2, JobValues DEF StopReturns, WindUp
  <2> QED
    BY <1>0, <1>2, <2>1, TurnsAside DEF StopReturns, provider
<1>3. CASE ExitJudged(s)
  <2>1. active' = active /\ job.step = "free"
    BY <1>3 DEF ExitJudged, Quiet, Free
  <2>2. job'.step # "launch"
    BY <1>3, <2>1 DEF ExitJudged, WindUp
  <2>3. ~Alive(Closed(host[s]))
    BY <1>0, OnlySpawnedLive
  <2>4. ~Alive(host'[s]) /\ \A t \in Session : t # s => host'[t] = host[t] /\ live'[t] = live[t]
    BY <1>0, <1>3, <2>3 DEF ExitJudged, TypeOK
  <2>5. \A t \in Session : /\ t # s => call'[t] = call[t] /\ ctx'[t] = ctx[t]
                           /\ call'[t] = "egress" => call[t] = "egress"
    BY <1>0, <1>3 DEF ExitJudged, TypeOK
  <2>6. ctx'[s] \in {ctx[s], Ending(ctx[s])}
    BY <1>0, <1>3 DEF ExitJudged, TypeOK
  <2>7. ctx'[s].turn = ctx[s].turn
    BY <1>0, <2>6 DEF Ending, Context
  <2> QED
    BY <1>0, <2>1, <2>2, <2>4, <2>5, <2>7 DEF TurnsHold, TurnIsMine
<1> QED
  BY <1>1, <1>2, <1>3 DEF Ends

LEMMA OutsideTurns ==
  ASSUME HInv, NEW s \in Session,
         \/ ContinueIdle(s) \/ Cancel(s) \/ Finish(s) \/ ProviderFaults(s) \/ HostTimesOut(s)
         \/ \E b \in BOOLEAN : TurnCompleted(s, b) \/ ChildExits(s, b)
  PROVE  TurnsHold'
<1>0. /\ TypeOK /\ host[s] \in Host /\ ctx[s] \in Context /\ TurnsHold
      /\ {"completed", "cancelled", "failed"} \subseteq Outcome
  BY DEF HInv, TypeOK, Outcome
<1>1. CASE ContinueIdle(s)
  <2>1. UNCHANGED <<active, host, live, job>> /\ job.step = "free"
    BY <1>1 DEF ContinueIdle, Accepting, Quiet, Free, provider
  <2>2. \A t \in Session : call'[t] = IF t = s THEN call'[s] ELSE call[t]
    BY <1>0, <1>1 DEF ContinueIdle, TypeOK
  <2>3. call'[s] \in {"turn", "rejected"}
    BY <1>0, <1>1 DEF ContinueIdle, TypeOK
  <2>4. \A t \in Session : /\ t # s => ctx'[t] = ctx[t]
                           /\ ctx'[t].finalizing = ctx[t].finalizing
                           /\ ctx'[t].turn => ctx[t].turn
    BY <1>0, <1>1 DEF ContinueIdle, TypeOK, Context
  <2> QED
    BY <1>0, <2>1, <2>2, <2>3, <2>4, TurnsKept DEF TurnIsMine
<1>2. CASE Cancel(s) \/ Finish(s)
  <2>1. UNCHANGED <<active, call, live>> /\ job'.step # "launch"
    BY <1>2 DEF Cancel, Finish, Accepting, Quiet, Free, WindUp
  <2>2. /\ Alive(Stopped(host[s], "cancelled")) => Alive(host[s])
        /\ Alive(Stopped(host[s], "completed")) => Alive(host[s])
    BY <1>0, OnlySpawnedLive
  <2>3. \A t \in Session : Alive(host'[t]) => Alive(host[t])
    BY <1>0, <1>2, <2>2 DEF Cancel, Finish, TypeOK
  <2>4. \A t \in Session : ctx'[t] = IF t = s THEN Ending(ctx[s]) ELSE ctx[t]
    BY <1>0, <1>2 DEF Cancel, Finish, TypeOK
  <2>5. Ending(ctx[s]).turn = ctx[s].turn /\ Ending(ctx[s]).finalizing
    BY <1>0 DEF Ending, Context
  <2>6. \A t \in Session : /\ ctx'[t].turn => ctx[t].turn
                           /\ ctx[t].finalizing => ctx'[t].finalizing
                           /\ TurnIsMine(t)' => TurnIsMine(t)
    BY <2>4, <2>5 DEF TurnIsMine
  <2> QED
    BY <1>0, <2>1, <2>3, <2>6, TurnsKept
<1>3. CASE ProviderFaults(s) \/ HostTimesOut(s) \/ \E b \in BOOLEAN : ChildExits(s, b)
  <2>1. UNCHANGED <<active, ctx, call, live, job>> /\ job.step = "free"
    BY <1>3 DEF ProviderFaults, HostTimesOut, ChildExits, Quiet, Free, memory
  <2>2. /\ Alive(Faulted(host[s])) => Alive(host[s])
        /\ Alive(TimedOut(host[s])) => Alive(host[s])
        /\ \A b \in BOOLEAN : ~Alive(Gone(host[s], b))
    BY <1>0, OnlySpawnedLive
  <2>3. \A t \in Session : Alive(host'[t]) => Alive(host[t])
    BY <1>0, <1>3, <2>2 DEF ProviderFaults, HostTimesOut, ChildExits, TypeOK
  <2> QED
    BY <1>0, <2>1, <2>3, TurnsKept DEF TurnIsMine
<1>4. ASSUME NEW good \in BOOLEAN, TurnCompleted(s, good)
      PROVE  TurnsHold'
  <2> DEFINE c == [ctx[s] EXCEPT !.turn = FALSE]
  <2>1. /\ c \in Context /\ c.turn = FALSE
        /\ [c EXCEPT !.state = "idle"].turn = FALSE /\ [c EXCEPT !.state = "idle"].state = "idle"
        /\ Ending(c).turn = FALSE
    BY <1>0 DEF Context, Ending
  <2> HIDE DEF c
  <2>2. /\ Free /\ UNCHANGED <<active, call>>
        /\ \A t \in Session : t # s => live'[t] = live[t]
    BY <1>0, <1>4 DEF TurnCompleted, TypeOK
  <2>3. CASE ctx[s].finalizing
    <3>1. UNCHANGED <<ctx, host, job>>
      BY <1>4, <2>3 DEF TurnCompleted
    <3> QED
      BY <1>0, <2>2, <2>3, <3>1 DEF TurnsHold, TurnIsMine, Free
  <2>4. CASE ctx' = [ctx EXCEPT ![s] = [c EXCEPT !.state = "idle"]] /\ UNCHANGED <<host, job>>
    <3>1. \A t \in Session : ctx'[t] = IF t = s THEN [c EXCEPT !.state = "idle"] ELSE ctx[t]
      BY <1>0, <2>4 DEF TypeOK
    <3> QED
      BY <1>0, <2>1, <2>2, <2>4, <3>1 DEF TurnsHold, TurnIsMine, Free
  <2>5. CASE Fail(s, c)
    <3>1. /\ job'.step # "launch"
          /\ \A t \in Session : t # s => ctx'[t] = ctx[t]
          /\ \A t \in Session : Alive(host'[t]) => Alive(host[t])
          /\ ctx'[s] \in {c, Ending(c)}
          /\ active = s => ctx'[s].finalizing
      BY <1>0, <2>1, <2>2, <2>5, FailTurns
    <3>2. ctx'[s].turn = FALSE
      BY <2>1, <3>1
    <3> QED
      BY <1>0, <2>2, <3>1, <3>2 DEF TurnsHold, TurnIsMine
  <2> QED
    BY <1>4, <2>3, <2>4, <2>5 DEF TurnCompleted, c
<1> QED
  BY <1>1, <1>2, <1>3, <1>4

LEMMA RunTurns ==
  ASSUME HInv,
         \/ NotFollowed \/ Start \/ ContinueInterrupted \/ PreflightReturns
         \/ Shutdown \/ ShutdownEnds \/ Crash \/ ProcessEnds \/ RecoverProviderSessions
         \/ ApprovalMovesRun
  PROVE  TurnsHold'
<1>0. TypeOK /\ TurnsHold
  BY DEF HInv
<1>1. CASE NotFollowed
  <2>1. UNCHANGED <<active, ctx, host, call, live, job>>
    BY <1>1 DEF NotFollowed, vars, memory, provider
  <2> QED
    BY <1>0, <2>1 DEF TurnsHold, TurnIsMine
<1>2. CASE \/ Start \/ ContinueInterrupted \/ PreflightReturns \/ RecoverProviderSessions
           \/ ApprovalMovesRun
  <2>1. job'.step # "launch"
    <3>1. /\ Start => job'.step = "prepare"
          /\ RecoverProviderSessions => job'.step \in {"discard", "free"}
      BY JobValues DEF Start, RecoverProviderSessions, JobStep
    <3>2. PreflightReturns => job'.step \in {"issue", "free"}
      BY JobValues DEF PreflightReturns, Accepting, Quiet, Free, JobStep
    <3>3. ContinueInterrupted \/ ApprovalMovesRun => job'.step = "free"
      BY DEF ContinueInterrupted, ApprovalMovesRun, Accepting, Quiet, Free
    <3> QED
      BY <1>2, <3>1, <3>2, <3>3
  <2>2. UNCHANGED <<active, ctx, host, call, live>>
    BY <1>2
    DEF Start, ContinueInterrupted, PreflightReturns, RecoverProviderSessions, ApprovalMovesRun,
        memory, provider
  <2> QED
    BY <1>0, <2>1, <2>2, TurnsAside
<1>3. CASE ShutdownEnds
  BY <1>0, <1>3, TurnsAside DEF ShutdownEnds, Free, provider
<1>4. CASE Shutdown
  <2>1. UNCHANGED <<active, call, live>> /\ job'.step # "launch"
    BY <1>4 DEF Shutdown, Accepting, Quiet, Free, WindUp
  <2>2. CASE active = NoSession
    BY <1>0, <1>4, <2>1, <2>2, TurnsAside DEF Shutdown
  <2>3. CASE active # NoSession
    <3>1. active \in Session /\ host[active] \in Host /\ ctx[active] \in Context
          /\ "cancelled" \in Outcome
      BY <1>0, <2>3 DEF TypeOK, Outcome
    <3>2. Alive(Stopped(host[active], "cancelled")) => Alive(host[active])
      BY <3>1, OnlySpawnedLive
    <3>3. \A t \in Session : Alive(host'[t]) => Alive(host[t])
      BY <1>0, <1>4, <2>3, <3>1, <3>2 DEF Shutdown, TypeOK
    <3>4. \A t \in Session : /\ t # active => ctx'[t] = ctx[t]
                             /\ ctx'[t].turn = ctx[t].turn /\ ctx'[t].state = ctx[t].state
                             /\ ctx[t].finalizing => ctx'[t].finalizing
      BY <1>0, <1>4, <2>3, <3>1 DEF Shutdown, TypeOK, Context
    <3> QED
      BY <1>0, <2>1, <3>3, <3>4, TurnsKept DEF TurnIsMine
  <2> QED
    BY <2>2, <2>3
<1>5. CASE Crash \/ ProcessEnds
  <2>1. Forgotten
    BY <1>5 DEF Crash, ProcessEnds
  <2>2. active' = NoSession /\ job'.step = "free" /\ \A s \in Session : call'[s] = "none"
    BY <2>1, JobValues DEF Forgotten
  <2> QED
    BY <2>2, NobodyIsNoSession DEF TurnsHold
<1> QED
  BY <1>1, <1>2, <1>3, <1>4, <1>5

-----------------------------------------------------------------------------
(* The invariant holds                                                     *)

LEMMA JobHeld ==
  ASSUME TypeOK, Held, JobRuns
  PROVE  Held'
BY PrepareKeepsHeld, RestoreKeepsHeld, IssueKeepsHeld, ActivateKeepsHeld, SetRunningKeepsHeld,
   LaunchKeepsHeld, FinalizeKeepsHeld, EndSessionKeepsHeld, EndRunKeepsHeld, ReclaimKeepsHeld
DEF JobRuns

LEMMA RunHeld ==
  ASSUME TypeOK, Held,
         \/ NotFollowed \/ Start \/ ContinueInterrupted \/ PreflightReturns
         \/ Shutdown \/ ShutdownEnds \/ Crash \/ ProcessEnds \/ RecoverProviderSessions
         \/ ApprovalMovesRun
  PROVE  Held'
<1>1. CASE NotFollowed
  BY <1>1, AsideHolds DEF NotFollowed, vars, memory
<1> QED
  BY <1>1, StartKeepsHeld, ContinueKeepsHeld, ShutdownKeepsHeld, ShutdownEndsKeepsHeld,
     DeathKeepsHeld, RecoverKeepsHeld, ApprovalKeepsHeld

LEMMA HostedInit == Init => HInv
<1> SUFFICES ASSUME Init
             PROVE  HInv
  OBVIOUS
<1>1. Issued = {} /\ Latest = 0
  <2>1. Issued = {}
    BY DEF Init, Issued
  <2> QED
    BY <2>1, FS_EmptySet DEF Latest
<1>2. job.step = "free"
  BY JobValues DEF Init
<1>3. TypeOK
  <2>1. NoContext \in Context /\ NewHost \in Host /\ NoJob \in JobState /\ 0 \in 0 .. MaxSession
        /\ 0 \in 0 .. MaxCrash
    BY JobValues, HostedAssumption DEF NoContext, Context, NewHost, Host
  <2> QED
    BY <2>1 DEF Init, TypeOK, JobState, RunStatus, WorkspaceStatus, SessionStatus, Stage
<1>4. Numbered
  BY <1>1, <1>2, HostedAssumption DEF Init, Numbered, Opening
<1>5. DaemonHolds
  BY <1>2 DEF Init, DaemonHolds, Starting, Opening, Winding, Reclaiming, Going
<1>6. StartHolds /\ EndHolds
  BY <1>2 DEF Init, StartHolds, EndHolds, Winding
<1>7. RowsHold
  BY DEF Init, RowsHold, Over, TerminalRunStatus, CompletedRunIsKept, UnderWay, OpenSession, Going
<1>8. OwnerHolds
  BY DEF Init, OwnerHolds, UnderWay, OpenSession
<1>9. TurnsHold
  BY <1>2, NobodyIsNoSession DEF Init, TurnsHold
<1> QED
  BY <1>3, <1>4, <1>5, <1>6, <1>7, <1>8, <1>9 DEF HInv, Held

LEMMA HostedNext == HInv /\ [Next]_vars => HInv'
<1> SUFFICES ASSUME HInv, [Next]_vars
             PROVE  HInv'
  OBVIOUS
<1>0. TypeOK /\ Held
  BY DEF HInv
<1>1. CASE JobRuns
  BY <1>0, <1>1, JobTypes, JobHeld, JobTurns DEF HInv
<1>2. CASE \/ NotFollowed \/ Start \/ ContinueInterrupted \/ PreflightReturns
           \/ Shutdown \/ ShutdownEnds \/ Crash \/ ProcessEnds \/ RecoverProviderSessions
           \/ ApprovalMovesRun
  BY <1>0, <1>2, RunTypes, RunHeld, RunTurns DEF HInv
<1>3. ASSUME NEW s \in Session, LaunchGoesOn(s)
      PROVE  HInv'
  BY <1>0, <1>3, LaunchTypes, LaunchHolds, LaunchTurns DEF HInv
<1>4. ASSUME NEW s \in Session, Ends(s)
      PROVE  HInv'
  BY <1>0, <1>4, EndTypes, EndsHold, EndsTurns DEF HInv
<1>5. ASSUME NEW s \in Session,
             \/ ContinueIdle(s) \/ Cancel(s) \/ Finish(s) \/ ProviderFaults(s) \/ HostTimesOut(s)
             \/ \E b \in BOOLEAN : TurnCompleted(s, b) \/ ChildExits(s, b)
      PROVE  HInv'
  BY <1>0, <1>5, OutsideTypes, OutsideHolds, OutsideTurns DEF HInv
<1>6. CASE UNCHANGED vars
  <2>1. UNCHANGED <<run, workspace, session, known, active, ctx, host, call, awaits, live, job,
                    resuming, daemon, crashes, replaced>>
    BY <1>6 DEF vars, rows, memory, provider
  <2>2. TypeOK'
    BY <1>0, <2>1 DEF TypeOK
  <2>3. Held'
    BY <1>0, <2>1, AsideHolds DEF rows
  <2>4. TurnsHold'
    BY <2>1 DEF HInv, TurnsHold, TurnIsMine
  <2> QED
    BY <2>2, <2>3, <2>4 DEF HInv
<1> QED
  BY <1>1, <1>2, <1>3, <1>4, <1>5, <1>6 DEF Next

(* The invariant holds in every state of a hosted run, whatever its        *)
(* handlers, its child, the people and the deaths of the daemon do.        *)
THEOREM HostedInvariance == Spec => []HInv
BY HostedInit, HostedNext, PTL DEF Spec

-----------------------------------------------------------------------------
(* What follows                                                            *)

(* Once a run is over, no session of it is under way and its worktree      *)
(* waits for nothing, whichever of cancel, finish, fail, shutdown, exit,   *)
(* death and start-up came first.                                          *)
THEOREM EndedRunsRest == Spec => []EndedRunIsAtRest
<1>1. HInv => EndedRunIsAtRest
  BY DEF HInv, Held, RowsHold, EndedRunIsAtRest, Over, AtRest, UnderWay, Going, TerminalRunStatus
<1> QED
  BY <1>1, HostedInvariance, PTL

(* A completed run has a worktree finalized against an unchanged source,   *)
(* and a session that completed.                                           *)
THEOREM CompletedRunsAreKept == Spec => []CompletedRunIsKept
<1>1. HInv => CompletedRunIsKept
  BY DEF HInv, Held, RowsHold
<1> QED
  BY <1>1, HostedInvariance, PTL

(* While the daemon serves, what is under way is the manager's to cancel.  *)
THEOREM NothingIsStranded == Spec => []EverythingUnderWayIsOwned
<1>1. HInv => EverythingUnderWayIsOwned
  BY DEF HInv, Held, RowsHold, OwnerHolds, EverythingUnderWayIsOwned, UnderWay, Going, Free
<1> QED
  BY <1>1, HostedInvariance, PTL

(* The turn that cancel would interrupt is one the provider works on.      *)
THEOREM CurrentTurnsAreLive == Spec => []CurrentTurnIsLive
<1>1. HInv => CurrentTurnIsLive
  BY DEF HInv, TurnsHold, CurrentTurnIsLive
<1> QED
  BY <1>1, HostedInvariance, PTL

(* A continue that found the run interrupted takes the place of a living   *)
(* context only when that run has come to wait for an approval meanwhile.  *)
THEOREM ContextsAreReplacedOnlyWhileWaiting == Spec => ReplacedOnlyWhileWaiting
<1>1. ASSUME HInv, [Next]_vars
      PROVE  [replaced' /\ ~replaced => run = "waiting_approval"]_vars
  <2>1. SUFFICES ASSUME replaced', ~replaced
                 PROVE  run = "waiting_approval"
    OBVIOUS
  <2>2. SetRunning
    BY <1>1, <2>1
    DEF Next, vars, NotFollowed, JobRuns, LaunchGoesOn, Ends, Start, ContinueInterrupted,
        PreflightReturns, Shutdown, ShutdownEnds, Crash, ProcessEnds, Forgotten,
        RecoverProviderSessions, ApprovalMovesRun, ContinueIdle, Cancel, Finish, ProviderFaults,
        HostTimesOut, TurnCompleted, ChildExits, PrepareWorkspace, RestoreWorktree,
        CreateProviderSession, ActivateWorkspace, Launch, FinalizeWorkspace, EndSession, EndRun,
        DiscardWorkspace, AbandonRun, RemoveWorktree, EgressUp, EgressFails, HandshakeDone,
        HostGivesUp, ThreadStarts, ThreadTooLate, RequestRefused, TurnAnswered, TurnBegins,
        LaunchRejected, InterruptReturns, StopReturns, ExitJudged
  <2>3. CanSetRunning /\ active # NoSession /\ job.step = "set_running"
    BY <2>1, <2>2 DEF SetRunning
  <2>4. run \in {"created", "waiting_approval", "interrupted"}
    BY <2>3, RunMoves DEF CanSetRunning
  <2> QED
    BY <1>1, <2>3, <2>4 DEF HInv, Held, OwnerHolds, DaemonHolds, Starting, Going
<1> QED
  BY <1>1, HostedInvariance, PTL DEF Spec, ReplacedOnlyWhileWaiting
=============================================================================
