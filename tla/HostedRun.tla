----------------------------- MODULE HostedRun -----------------------------
(***************************************************************************)
(* A hosted run: the manager that starts, continues, cancels, finishes,    *)
(* fails and shuts it down, the App Server it drives, the worktree it      *)
(* works in, its provider sessions, and what start-up makes of them.       *)
(*                                                                         *)
(* The manager is asynchronous.  It awaits the answers of the App Server   *)
(* and its exit; between two awaits it holds the event loop ("job"), yet   *)
(* each transaction commits alone and the daemon may die after any.        *)
(* A coroutine woken by an answer or an exit runs before the next request, *)
(* message or timer is looked at (Quiet).                                  *)
(*                                                                         *)
(* The model follows a run until a context takes the place of another that *)
(* is alive (replaced), which is a mistake, and then only the next start-up*)
(* is of interest.                                                         *)
(*                                                                         *)
(* There is one run; a context of the manager is identified with its       *)
(* provider session, sessions are numbered in the order of creation.       *)
(***************************************************************************)
EXTENDS AppServerHost, RunState, FiniteSets, Naturals

CONSTANTS
  MaxSession,   \* bound on the provider sessions of the run
  MaxCrash      \* bound on the deaths of the daemon

ASSUME HostedAssumption == MaxSession \in Nat \ {0} /\ MaxCrash \in Nat

VARIABLES
  run,         \* the run's row
  workspace,   \* the row of its hosted workspace
  session,     \* the rows of its provider sessions
  known,       \* whether a session's row names the provider's thread
  active,      \* the context the manager holds for the run
  ctx,         \* the contexts
  host,        \* the App Server of each context
  call,        \* where launch or continue stands in its awaits
  awaits,      \* who else awaits the App Server
  live,        \* whether the provider works on a turn
  job,         \* the synchronous stretch that holds the event loop
  resuming,    \* continue calls between their check and their session
  daemon,      \* the daemon
  crashes,     \* history: how often it has died
  replaced     \* history: a context took the place of a living one

rows     == <<run, workspace, session, known>>
memory   == <<active, ctx, call, awaits, resuming>>
provider == <<host, live>>
vars     == <<rows, memory, provider, job, daemon, crashes, replaced>>

Session == 1 .. MaxSession
NoSession == 0

SessionStatus == {"absent", "created", "starting", "running", "stopping",
                  "completed", "failed", "cancelled", "interrupted"}

OpenSession == {"created", "starting", "running", "stopping"}

SessionTransition ==
  {<<"created", t>> : t \in {"starting", "failed", "cancelled"}}
  \cup {<<"starting", t>> : t \in {"running", "failed", "cancelled", "interrupted"}}
  \cup {<<"running", t>> : t \in {"stopping", "completed", "failed", "cancelled", "interrupted"}}
  \cup {<<"stopping", t>> : t \in {"completed", "failed", "cancelled", "interrupted"}}

WorkspaceStatus == {"absent", "preparing", "ready", "active",
                    "finalized", "failed", "cleaned"}

Context == [state : {"none", "starting", "running", "idle", "stopping"},
            finalizing : BOOLEAN, thread : BOOLEAN, turn : BOOLEAN]

NoContext == [state |-> "none", finalizing |-> FALSE, thread |-> FALSE, turn |-> FALSE]
NewContext == [NoContext EXCEPT !.state = "starting"]

Ending(c) == [c EXCEPT !.state = "stopping", !.finalizing = TRUE]

Stage == {"none", "egress", "handshake", "thread", "turn", "answered",
          "sunk", "rejected", "over"}

Waiter == {"interrupt", "cancel", "finish", "fail", "shutdown"}

JobStep == {"free", "prepare", "restore", "issue", "activate", "set_running", "launch",
            "finalize", "end_session", "end_run", "discard", "abandon", "remove"}

NoJob == [step |-> "free", s |-> NoSession, verdict |-> "none"]
Job(step, s) == [NoJob EXCEPT !.step = step, !.s = s]

(* The end of cancel, finish and fail; shutdown leaves the worktree alone. *)
WindUp(s, verdict) ==
  [step |-> IF verdict = "interrupted" THEN "end_session" ELSE "finalize",
   s |-> s, verdict |-> verdict]

Init ==
  /\ run = "absent" /\ workspace = "absent"
  /\ session = [s \in Session |-> "absent"]
  /\ known = [s \in Session |-> FALSE]
  /\ active = NoSession
  /\ ctx = [s \in Session |-> NoContext]
  /\ host = [s \in Session |-> NewHost]
  /\ call = [s \in Session |-> "none"]
  /\ awaits = [s \in Session |-> {}]
  /\ live = [s \in Session |-> FALSE]
  /\ job = NoJob
  /\ resuming = 0
  /\ daemon = "up"
  /\ crashes = 0
  /\ replaced = FALSE

Issued == {s \in Session : session[s] # "absent"}

Latest == Cardinality(Issued)

Free == job.step = "free" /\ daemon # "off" /\ ~replaced

(* Somebody awaits an exit that has happened. *)
Woken(s) == host[s].child = "closed" /\ awaits[s] # {}

(* Nothing is left to run but what the outside world brings. *)
Quiet == Free /\ \A s \in Session : call[s] \notin {"answered", "rejected"} /\ ~Woken(s)

Accepting == Quiet /\ daemon = "up"

-----------------------------------------------------------------------------
(* start: the run, its worktree, its session, its context.                 *)

Start ==
  /\ Accepting
  /\ run = "absent"
  /\ run' = "created"
  /\ job' = Job("prepare", NoSession)
  /\ UNCHANGED <<workspace, session, known, memory, provider, daemon, crashes, replaced>>

(* The checkpoint is taken, or cannot be; then the run stays created.      *)
PrepareWorkspace ==
  /\ job.step = "prepare"
  /\ \/ workspace' = "preparing" /\ job' = Job("restore", NoSession)
     \/ workspace' = workspace /\ job' = NoJob
  /\ UNCHANGED <<run, session, known, memory, provider, daemon, crashes, replaced>>

RestoreWorktree ==
  /\ job.step = "restore"
  /\ \/ workspace' = "ready" /\ job' = Job("issue", NoSession)
     \/ workspace' = "failed" /\ job' = NoJob
  /\ UNCHANGED <<run, session, known, memory, provider, daemon, crashes, replaced>>

CreateProviderSession ==
  /\ job.step = "issue"
  /\ session' = [session EXCEPT ![Latest + 1] = "created"]
  /\ job' = Job(IF workspace = "ready" THEN "activate" ELSE "set_running", Latest + 1)
  /\ UNCHANGED <<run, workspace, known, memory, provider, daemon, crashes, replaced>>

ActivateWorkspace ==
  /\ job.step = "activate"
  /\ workspace' = "active"
  /\ job' = [job EXCEPT !.step = "set_running"]
  /\ UNCHANGED <<run, session, known, memory, provider, daemon, crashes, replaced>>

(* Takes the run for running already and goes on. *)
CanSetRunning_Bug == run \in {"created", "interrupted", "running"}

CanSetRunning == <<run, "running">> \in RunTransition

(* Of two calls that both found the run interrupted the second throws here *)
(* and leaves its session behind, created.                                 *)
SetRunning ==
  /\ job.step = "set_running"
  /\ IF CanSetRunning
     THEN /\ run' = "running"
          /\ active' = job.s
          /\ replaced' = (replaced \/ active # NoSession)
          /\ ctx' = [ctx EXCEPT ![job.s] = NewContext]
          /\ job' = [job EXCEPT !.step = "launch"]
     ELSE UNCHANGED <<run, active, ctx, replaced>> /\ job' = NoJob
  /\ UNCHANGED <<workspace, session, known, call, awaits, resuming, provider, daemon, crashes>>

(* launch up to its first await: the egress boundary opens its port.       *)
Launch ==
  /\ job.step = "launch"
  /\ session' = [session EXCEPT ![job.s] = "starting"]
  /\ host' = [host EXCEPT ![job.s].state = "starting"]
  /\ call' = [call EXCEPT ![job.s] = "egress"]
  /\ job' = NoJob
  /\ UNCHANGED <<run, workspace, known, active, ctx, awaits, resuming, live, daemon, crashes, replaced>>

-----------------------------------------------------------------------------
(* fail                                                                    *)

(* Fails the context of s, which is c by now; nothing happens when the     *)
(* manager holds that context no more.  A stop that throws is ignored.     *)
Fail(s, c) ==
  IF active # s
  THEN ctx' = [ctx EXCEPT ![s] = c] /\ UNCHANGED <<host, awaits, job>>
  ELSE /\ ctx' = [ctx EXCEPT ![s] = Ending(c)]
       /\ IF host[s].state \in {"starting", "running", "stopping"} /\ CanStop(host[s])
          THEN /\ host' = [host EXCEPT ![s] = Stopped(@, "failed")]
               /\ awaits' = [awaits EXCEPT ![s] = @ \cup {"fail"}]
               /\ UNCHANGED job
          ELSE job' = WindUp(s, "failed") /\ UNCHANGED <<host, awaits>>

(* launch or continue has thrown.  Whoever awaited the exit itself is      *)
(* woken before the rejected requests have come up through their callers.  *)
LaunchRejected(s) ==
  /\ Free /\ ~Woken(s)
  /\ call[s] = "rejected"
  /\ call' = [call EXCEPT ![s] = "over"]
  /\ Fail(s, ctx[s])
  /\ UNCHANGED <<rows, active, resuming, live, daemon, crashes, replaced>>

-----------------------------------------------------------------------------
(* launch, await by await.  It does not ask whether its context is still   *)
(* the manager's.                                                          *)

EgressUp(s) ==
  /\ Quiet /\ call[s] = "egress"
  /\ host' = [host EXCEPT ![s] = Spawned(@)]
  /\ call' = [call EXCEPT ![s] = "handshake"]
  /\ UNCHANGED <<rows, active, ctx, awaits, resuming, live, job, daemon, crashes, replaced>>

EgressFails(s) ==
  /\ Quiet /\ call[s] = "egress"
  /\ host' = [host EXCEPT ![s].state = "failed"]
  /\ call' = [call EXCEPT ![s] = "rejected"]
  /\ UNCHANGED <<rows, active, ctx, awaits, resuming, live, job, daemon, crashes, replaced>>

(* initialize, initialized, config/read.                                   *)
HandshakeDone(s) ==
  /\ Quiet /\ call[s] = "handshake" /\ Alive(host[s])
  /\ host[s].state = "starting"
  /\ host' = [host EXCEPT ![s].state = "running"]
  /\ call' = [call EXCEPT ![s] = "thread"]
  /\ UNCHANGED <<rows, active, ctx, awaits, resuming, live, job, daemon, crashes, replaced>>

(* An error, no answer in time, a configuration that is refused; or the    *)
(* next request cannot be sent because the host is being stopped.  A thread*)
(* whose MCP servers are not disabled ends the same way.                   *)
HostGivesUp(s) ==
  /\ Quiet /\ call[s] \in {"handshake", "thread"}
  /\ host' = [host EXCEPT ![s] = GivenUp(@)]
  /\ call' = [call EXCEPT ![s] = "sunk"]
  /\ UNCHANGED <<rows, active, ctx, awaits, resuming, live, job, daemon, crashes, replaced>>

(* thread/start or thread/resume, and the proof that no MCP server runs.   *)
ThreadReady(s) ==
  /\ Quiet /\ call[s] = "thread" /\ Alive(host[s])
  /\ host[s].state = "running"

CanBeginSession_Bug(s) == session[s] # "absent"

CanBeginSession(s) == <<session[s], "running">> \in SessionTransition /\ daemon # "closed"

ThreadStarts(s) ==
  /\ ThreadReady(s)
  /\ CanBeginSession(s)
  /\ session' = [session EXCEPT ![s] = "running"]
  /\ known' = [known EXCEPT ![s] = TRUE]
  /\ ctx' = [ctx EXCEPT ![s].thread = TRUE, ![s].state = "running"]
  /\ call' = [call EXCEPT ![s] = "turn"]
  /\ UNCHANGED <<run, workspace, active, awaits, resuming, provider, job, daemon, crashes, replaced>>

(* The session has ended meanwhile, or the store is closed: it throws.     *)
ThreadTooLate(s) ==
  /\ ThreadReady(s)
  /\ ~CanBeginSession(s)
  /\ ctx' = [ctx EXCEPT ![s].thread = TRUE]
  /\ call' = [call EXCEPT ![s] = "rejected"]
  /\ UNCHANGED <<rows, active, awaits, resuming, provider, job, daemon, crashes, replaced>>

(* thread/start or turn/start is answered with an error or not in time.    *)
RequestRefused(s) ==
  /\ Quiet /\ call[s] \in {"thread", "turn"}
  /\ call' = [call EXCEPT ![s] = "rejected"]
  /\ UNCHANGED <<rows, active, ctx, awaits, resuming, provider, job, daemon, crashes, replaced>>

(* The answer to turn/start; beginTurn has yet to be woken.                *)
TurnAnswered(s) ==
  /\ Quiet /\ call[s] = "turn" /\ Alive(host[s])
  /\ call' = [call EXCEPT ![s] = "answered"]
  /\ live' = [live EXCEPT ![s] = TRUE]
  /\ UNCHANGED <<rows, active, ctx, awaits, resuming, host, job, daemon, crashes, replaced>>

(* Does not look whether the turn is over already. *)
TurnIsMine_Bug(s) == ~ctx[s].finalizing

TurnIsMine(s) == ctx[s].state = "running" /\ ~ctx[s].finalizing

TurnBegins(s) ==
  /\ Free /\ call[s] = "answered"
  /\ call' = [call EXCEPT ![s] = "over"]
  /\ ctx' = [ctx EXCEPT ![s].turn = @ \/ TurnIsMine(s)]
  /\ UNCHANGED <<rows, active, awaits, resuming, provider, job, daemon, crashes, replaced>>

(* turn/completed may be the next line of output after the answer, and is  *)
(* then handled before beginTurn is woken.                                 *)
TurnCompleted(s, good) ==
  /\ Free /\ live[s] /\ Alive(host[s])
  /\ \A t \in Session : call[t] # "rejected" /\ ~Woken(t)
  /\ live' = [live EXCEPT ![s] = FALSE]
  /\ LET c == [ctx[s] EXCEPT !.turn = FALSE] IN
     IF ctx[s].finalizing THEN UNCHANGED <<ctx, host, awaits, job>>
     ELSE IF good THEN /\ ctx' = [ctx EXCEPT ![s] = [c EXCEPT !.state = "idle"]]
                       /\ UNCHANGED <<host, awaits, job>>
     ELSE Fail(s, c)
  /\ UNCHANGED <<rows, active, call, resuming, daemon, crashes, replaced>>

-----------------------------------------------------------------------------
(* continue                                                                *)

ContinueIdle(s) ==
  /\ Accepting /\ active = s
  /\ ctx[s].state = "idle" /\ ~ctx[s].finalizing
  /\ ctx' = [ctx EXCEPT ![s].state = "running", ![s].turn = FALSE]
  /\ call' = [call EXCEPT ![s] = IF CanRequest(host[s]) THEN "turn" ELSE "rejected"]
  /\ UNCHANGED <<rows, active, awaits, resuming, provider, job, daemon, crashes, replaced>>

Resumable ==
  /\ run = "interrupted"
  /\ workspace = "active"
  /\ Latest > 0 /\ session[Latest] = "interrupted" /\ known[Latest]

(* The check, then the preflight is awaited.                               *)
ContinueInterrupted ==
  /\ Accepting /\ active = NoSession
  /\ Resumable
  /\ Latest + resuming < MaxSession
  /\ resuming' = resuming + 1
  /\ UNCHANGED <<rows, active, ctx, call, awaits, provider, job, daemon, crashes, replaced>>

PreflightReturns ==
  /\ Accepting /\ resuming > 0
  /\ resuming' = resuming - 1
  /\ \/ job' = Job("issue", NoSession)
     \/ job' = job   \* not ready
  /\ UNCHANGED <<rows, active, ctx, call, awaits, provider, daemon, crashes, replaced>>

-----------------------------------------------------------------------------
(* cancel, finish, shutdown: each stops the host and awaits its exit.      *)

SessionStops(s) ==
  session' = [session EXCEPT ![s] = IF @ = "running" THEN "stopping" ELSE @]

(* With a turn on, the provider is asked to interrupt it first.            *)
Cancel(s) ==
  /\ Accepting /\ active = s
  /\ ~ctx[s].finalizing
  /\ SessionStops(s)
  /\ ctx' = [ctx EXCEPT ![s] = Ending(@)]
  /\ \/ /\ ctx[s].thread /\ ctx[s].turn
        /\ awaits' = [awaits EXCEPT ![s] = @ \cup {"interrupt"}]
        /\ UNCHANGED <<host, job>>
     \/ /\ ~(ctx[s].thread /\ ctx[s].turn)
        /\ CanStop(host[s])
        /\ host' = [host EXCEPT ![s] = Stopped(@, "cancelled")]
        /\ awaits' = [awaits EXCEPT ![s] = @ \cup {"cancel"}]
        /\ UNCHANGED job
     \/ /\ ~CanStop(host[s])
        /\ job' = WindUp(s, "failed")
        /\ UNCHANGED <<host, awaits>>
  /\ UNCHANGED <<run, workspace, known, active, call, resuming, live, daemon, crashes, replaced>>

InterruptReturns(s, good) ==
  /\ Quiet /\ "interrupt" \in awaits[s] /\ host[s].child # "closed"
  /\ good => Alive(host[s])
  /\ host' = [host EXCEPT ![s] = IF good THEN Stopped(@, "cancelled") ELSE GivenUp(@)]
  /\ awaits' = [awaits EXCEPT ![s] = (@ \ {"interrupt"}) \cup {"cancel"}]
  /\ UNCHANGED <<rows, active, ctx, call, resuming, live, job, daemon, crashes, replaced>>

Finish(s) ==
  /\ Accepting /\ active = s
  /\ ctx[s].state = "idle" /\ ~ctx[s].finalizing
  /\ SessionStops(s)
  /\ ctx' = [ctx EXCEPT ![s] = Ending(@)]
  /\ host' = [host EXCEPT ![s] = Stopped(@, "completed")]
  /\ awaits' = [awaits EXCEPT ![s] = @ \cup {"finish"}]
  /\ UNCHANGED <<run, workspace, known, active, call, resuming, live, job, daemon, crashes, replaced>>

(* The server closes after the requests in flight; a cancel or finish      *)
(* whose client has hung up is not waited for.                             *)
Shutdown ==
  /\ Accepting /\ resuming = 0
  /\ daemon' = "closing"
  /\ IF active = NoSession THEN UNCHANGED <<ctx, host, awaits, job>>
     ELSE /\ ctx' = [ctx EXCEPT ![active].finalizing = TRUE]
          /\ IF /\ host[active].state \in {"starting", "running", "stopping"}
                /\ CanStop(host[active])
             THEN /\ host' = [host EXCEPT ![active] = Stopped(@, "cancelled")]
                  /\ awaits' = [awaits EXCEPT ![active] = @ \cup {"shutdown"}]
                  /\ UNCHANGED job
             ELSE job' = WindUp(active, "interrupted") /\ UNCHANGED <<host, awaits>>
  /\ UNCHANGED <<rows, active, call, resuming, live, crashes, replaced>>

(* All contexts are dealt with, those of other runs included.              *)
ShutdownEnds ==
  /\ Free /\ daemon = "closing"
  /\ \A s \in Session : "shutdown" \notin awaits[s]
  /\ daemon' = "closed"
  /\ active' = NoSession
  /\ awaits' = [s \in Session |-> {}]
  /\ UNCHANGED <<rows, ctx, call, resuming, provider, job, crashes, replaced>>

Verdict(waiter, outcome) ==
  CASE waiter = "cancel"   -> IF outcome = "failed" THEN "failed" ELSE "cancelled"
    [] waiter = "finish"   -> IF outcome = "completed" THEN "completed" ELSE "failed"
    [] waiter = "fail"     -> "failed"
    [] waiter = "shutdown" -> "interrupted"

(* One of those that awaited the exit goes on.                             *)
StopReturns(s, waiter) ==
  /\ Free /\ host[s].child = "closed" /\ waiter \in awaits[s]
  /\ awaits' = [awaits EXCEPT ![s] = @ \ {waiter}]
  /\ LET verdict == Verdict(waiter, host[s].outcome) IN
     job' = IF verdict = "failed" /\ waiter # "fail" /\ active # s
            THEN NoJob ELSE WindUp(s, verdict)
  /\ UNCHANGED <<rows, active, ctx, call, resuming, provider, daemon, crashes, replaced>>

-----------------------------------------------------------------------------
(* The last stretch: worktree, session, run.                               *)

(* A worktree that cannot be finalized does not stop the verdict. *)
FinalVerdict_Bug == job.verdict

FinalVerdict == "failed"

(* The worktree becomes a diff, unless the source has changed meanwhile.   *)
FinalizeWorkspace ==
  /\ job.step = "finalize"
  /\ \/ /\ workspace \in {"ready", "active"}
        /\ \/ workspace' = "finalized" /\ job' = [job EXCEPT !.step = "end_session"]
           \/ /\ workspace' = "failed"
              /\ job' = [job EXCEPT !.step = "end_session", !.verdict = FinalVerdict]
     \/ /\ workspace \notin {"ready", "active"}
        /\ workspace' = workspace /\ job' = [job EXCEPT !.step = "end_session"]
  /\ UNCHANGED <<run, session, known, memory, provider, daemon, crashes, replaced>>

EndSession ==
  /\ job.step = "end_session"
  /\ session' = [session EXCEPT ![job.s] = IF @ \in OpenSession THEN job.verdict ELSE @]
  /\ job' = [job EXCEPT !.step = "end_run"]
  /\ UNCHANGED <<run, workspace, known, memory, provider, daemon, crashes, replaced>>

(* A run that has ended is left as it is.  A verdict the run cannot take   *)
(* makes cancel and finish fail instead.                                   *)
EndRun ==
  /\ job.step = "end_run"
  /\ \/ /\ run \in TerminalRunStatus
        /\ run' = run /\ job' = NoJob
     \/ /\ <<run, job.verdict>> \in RunTransition
        /\ run' = job.verdict /\ job' = NoJob
     \/ /\ run \notin TerminalRunStatus /\ <<run, job.verdict>> \notin RunTransition
        /\ run' = run /\ job' = WindUp(job.s, "failed")
  /\ active' = IF job'.step = "free" /\ job.verdict # "interrupted" THEN NoSession ELSE active
  /\ UNCHANGED <<workspace, session, known, ctx, call, awaits, resuming, provider, daemon, crashes, replaced>>

-----------------------------------------------------------------------------
(* The App Server on its own, the approvals of the run, time               *)

(* It exits, of its own accord or because it was told to.                  *)
ChildExits(s, clean) ==
  /\ Quiet /\ Alive(host[s])
  /\ clean => host[s].child = "up"   \* a signal is no exit code
  /\ host' = [host EXCEPT ![s] = Gone(@, clean)]
  /\ UNCHANGED <<rows, memory, live, job, daemon, crashes, replaced>>

(* finishExit rejects what is pending and resolves the exit; launch has    *)
(* registered a handler of its own for an exit nobody asked for.           *)
ExitJudged(s) ==
  /\ Quiet /\ host[s].child = "exited"
  /\ host' = [host EXCEPT ![s] = Closed(@)]
  /\ live' = [live EXCEPT ![s] = FALSE]
  /\ call' = [call EXCEPT ![s] =
                IF @ \in {"handshake", "thread", "turn", "sunk"} THEN "rejected" ELSE @]
  /\ awaits' = [awaits EXCEPT ![s] =
                  IF "interrupt" \in @ THEN (@ \ {"interrupt"}) \cup {"cancel"} ELSE @]
  /\ IF ctx[s].thread /\ ~ctx[s].finalizing /\ active = s
     THEN ctx' = [ctx EXCEPT ![s] = Ending(@)] /\ job' = WindUp(s, "failed")
     ELSE UNCHANGED <<ctx, job>>
  /\ UNCHANGED <<rows, active, resuming, daemon, crashes, replaced>>

(* An invalid line, a limit exceeded, a server request left unanswered.    *)
ProviderFaults(s) ==
  /\ Quiet /\ host[s].child = "up"
  /\ host' = [host EXCEPT ![s] = Faulted(@)]
  /\ UNCHANGED <<rows, memory, live, job, daemon, crashes, replaced>>

(* The timer that start arms once the handshake is done.                   *)
HostTimesOut(s) ==
  /\ Quiet /\ host[s].child = "up" /\ host[s].state = "running"
  /\ host' = [host EXCEPT ![s] = TimedOut(@)]
  /\ UNCHANGED <<rows, memory, live, job, daemon, crashes, replaced>>

(* An approval of the run is asked for; the last pending one is settled.   *)
ApprovalMovesRun ==
  /\ Free /\ daemon \in {"up", "closing"}
  /\ \/ run = "running" /\ run' = "waiting_approval"
     \/ run = "waiting_approval" /\ run' = "running"
  /\ UNCHANGED <<workspace, session, known, memory, provider, job, daemon, crashes, replaced>>

-----------------------------------------------------------------------------
(* Death and start-up                                                      *)

(* What the process held is gone, and its children with it: they end when  *)
(* their input does.                                                       *)
Forgotten ==
  /\ active' = NoSession
  /\ ctx' = [s \in Session |-> NoContext]
  /\ host' = [s \in Session |-> NewHost]
  /\ call' = [s \in Session |-> "none"]
  /\ awaits' = [s \in Session |-> {}]
  /\ live' = [s \in Session |-> FALSE]
  /\ resuming' = 0
  /\ job' = NoJob
  /\ daemon' = "off"
  /\ replaced' = FALSE

Crash ==
  /\ daemon \in {"up", "closing", "recovering"}
  /\ crashes < MaxCrash
  /\ crashes' = crashes + 1
  /\ Forgotten
  /\ UNCHANGED rows

ProcessEnds ==
  /\ daemon = "closed"
  /\ Forgotten
  /\ UNCHANGED <<rows, crashes>>

InterruptedBy(status) ==
  CASE status = "created" -> "failed"
    [] status \in {"running", "waiting_approval"} -> "interrupted"
    [] OTHER -> status

(* A session that was being stopped is taken for one that has ended. *)
HitByRestart_Bug == {s \in Session : session[s] \in {"starting", "running"}}

HitByRestart == {s \in Session : session[s] \in {"starting", "running", "stopping"}}

(* store.recover, one transaction.                                         *)
RecoverProviderSessions ==
  /\ daemon = "off"
  /\ session' = [s \in Session |-> IF s \in HitByRestart THEN "interrupted" ELSE session[s]]
  /\ run' = IF HitByRestart = {} THEN run ELSE InterruptedBy(run)
  /\ IF workspace \in {"preparing", "ready"}
     THEN daemon' = "recovering" /\ job' = Job("discard", NoSession)
     ELSE daemon' = "up" /\ job' = NoJob
  /\ UNCHANGED <<workspace, known, memory, provider, crashes, replaced>>

(* recoverIncomplete: the workspace, then the run, then the worktree.      *)
DiscardWorkspace ==
  /\ job.step = "discard"
  /\ workspace' = "failed"
  /\ job' = Job("abandon", NoSession)
  /\ UNCHANGED <<run, session, known, memory, provider, daemon, crashes, replaced>>

AbandonRun ==
  /\ job.step = "abandon"
  /\ run' = IF run \in TerminalRunStatus THEN run ELSE "failed"
  /\ job' = Job("remove", NoSession)
  /\ UNCHANGED <<workspace, session, known, memory, provider, daemon, crashes, replaced>>

RemoveWorktree ==
  /\ job.step = "remove"
  /\ workspace' \in {"cleaned", "failed"}
  /\ job' = NoJob
  /\ daemon' = "up"
  /\ UNCHANGED <<run, session, known, memory, provider, crashes, replaced>>

-----------------------------------------------------------------------------

JobRuns ==
  \/ PrepareWorkspace \/ RestoreWorktree \/ CreateProviderSession
  \/ ActivateWorkspace \/ SetRunning \/ Launch
  \/ FinalizeWorkspace \/ EndSession \/ EndRun
  \/ DiscardWorkspace \/ AbandonRun \/ RemoveWorktree

(* An await of launch or continue ends: by an answer, or by its timer.     *)
LaunchGoesOn(s) ==
  \/ EgressUp(s) \/ EgressFails(s) \/ HandshakeDone(s) \/ HostGivesUp(s)
  \/ ThreadStarts(s) \/ ThreadTooLate(s) \/ RequestRefused(s)
  \/ TurnAnswered(s) \/ TurnBegins(s) \/ LaunchRejected(s)

Ends(s) ==
  \/ \E good \in BOOLEAN : InterruptReturns(s, good)
  \/ \E waiter \in Waiter \ {"interrupt"} : StopReturns(s, waiter)
  \/ ExitJudged(s)

(* SIGKILL follows SIGTERM. *)
DyingExits(s) == host[s].child = "dying" /\ ChildExits(s, FALSE)

NotFollowed == replaced /\ UNCHANGED vars

Next ==
  \/ NotFollowed
  \/ Start \/ JobRuns
  \/ ContinueInterrupted \/ PreflightReturns
  \/ Shutdown \/ ShutdownEnds \/ Crash \/ ProcessEnds \/ RecoverProviderSessions
  \/ ApprovalMovesRun
  \/ \E s \in Session :
       \/ LaunchGoesOn(s) \/ Ends(s)
       \/ ContinueIdle(s) \/ Cancel(s) \/ Finish(s)
       \/ ProviderFaults(s) \/ HostTimesOut(s)
       \/ \E b \in BOOLEAN : TurnCompleted(s, b) \/ ChildExits(s, b)

Spec == Init /\ [][Next]_vars

(* The event loop turns; every request has a timer, a process told to stop *)
(* is killed in the end, and the host's own timer runs off.  Nobody has to *)
(* ask for anything, answer a request or end a turn.                       *)
Fairness ==
  /\ WF_vars(JobRuns \/ ShutdownEnds \/ RecoverProviderSessions)
  /\ \A s \in Session :
       /\ WF_vars(LaunchGoesOn(s)) /\ WF_vars(Ends(s))
       /\ WF_vars(DyingExits(s)) /\ WF_vars(HostTimesOut(s))

FairSpec == Spec /\ Fairness

-----------------------------------------------------------------------------
(* Properties                                                              *)

TypeOK ==
  /\ run \in RunStatus
  /\ workspace \in WorkspaceStatus
  /\ session \in [Session -> SessionStatus]
  /\ known \in [Session -> BOOLEAN]
  /\ active \in Session \cup {NoSession}
  /\ ctx \in [Session -> Context]
  /\ host \in [Session -> Host]
  /\ call \in [Session -> Stage]
  /\ awaits \in [Session -> SUBSET Waiter]
  /\ live \in [Session -> BOOLEAN]
  /\ job \in [step : JobStep, s : Session \cup {NoSession}, verdict : Outcome \cup {"none"}]
  /\ resuming \in 0 .. MaxSession
  /\ daemon \in {"up", "closing", "closed", "off", "recovering"}
  /\ crashes \in 0 .. MaxCrash
  /\ replaced \in BOOLEAN

(* Every variable keeps to its values (TypeOK), and                        *)
(* an ended run is at rest in every table: no session of it is under way,  *)
(* no worktree waits to be finalized.  Three rows are written one after    *)
(* the other by coroutines that overtake one another, and a death comes    *)
(* between any two.                                                        *)
EndedRunIsAtRest ==
  /\ TypeOK
  /\ Free /\ run \in TerminalRunStatus =>
       /\ \A s \in Session : session[s] \notin OpenSession \ {"created"}
       /\ workspace \notin {"preparing", "ready", "active"}

(* A completed run has a diff to show: its worktree was finalized against  *)
(* an unchanged source, and its last provider session ended as completed.  *)
CompletedRunIsKept ==
  run = "completed" => workspace = "finalized" /\ \E s \in Session : session[s] = "completed"

(* While the daemon serves, a session under way belongs to the context the *)
(* manager holds, so that somebody can cancel it, and so does a run under  *)
(* way.  The one hole: a death between two of the rows written at either   *)
(* end of a run leaves the run under way with no session start-up looks    *)
(* for.                                                                    *)
EverythingUnderWayIsOwned ==
  Free /\ daemon = "up" =>
    /\ \A s \in Session : session[s] \in OpenSession \ {"created"} => active = s
    /\ run \in {"running", "waiting_approval"} /\ active = NoSession => crashes > 0

(* The turn that cancel would interrupt is one the provider works on,      *)
(* in whichever order the answer to turn/start and the end of the turn are *)
(* handled.                                                                *)
CurrentTurnIsLive ==
  \A s \in Session :
    Quiet /\ active = s /\ ctx[s].turn /\ ~ctx[s].finalizing /\ Alive(host[s]) => live[s]

(* Whatever stops a run, and whatever overtakes it, the run's context is   *)
(* given up in the end.                                                    *)
StoppingEnds ==
  \A s \in Session : (active = s /\ ctx[s].finalizing) ~> active # s \/ replaced

(* An App Server nobody owns any more ends, be it by its own timer.        *)
StrayChildEnds ==
  \A s \in Session : (Alive(host[s]) /\ active # s) ~> ~Alive(host[s]) \/ replaced

(* ENDS.  Whoever stops, whatever overtakes it and whoever is left behind, *)
(* contexts and App Servers end.                                           *)
EverythingEnds == StoppingEnds /\ StrayChildEnds

(* A stale continue replaces a living context only while its run waits for *)
(* an approval: in any other state the transition to running throws.       *)
ReplacedOnlyWhileWaiting ==
  [][replaced' /\ ~replaced => run = "waiting_approval"]_vars

(* A run whose context is alive continues in that context or not at all.   *)
ContinuesInItsContext == ~replaced

(* The host's exit takes its child with it: none runs without a context.   *)
NoStrayChild ==
  \A s \in Session : host[s].child = "up" => active = s
=============================================================================
