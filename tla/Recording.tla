----------------------------- MODULE Recording -----------------------------
(***************************************************************************)
(* How a run is recorded and watched: the event log and the blobs of       *)
(* LocalStore, the collectors that write to it (`afr exec`, `afr codex`,    *)
(* the hosted event bridge, any other API client that retries), and the    *)
(* console that follows the log over the event stream.                     *)
(*                                                                         *)
(* One run.  A handler of the daemon runs to its end before the next one,  *)
(* so what can come between its transactions is only the daemon's death:   *)
(* a call is given by the store it leaves and the stores a death leaves.   *)
(* An event is its idempotency key, its fingerprint and the blobs it       *)
(* names; the numbers and the hashes of the chain are its place in `log`.  *)
(***************************************************************************)
EXTENDS Integers, Sequences, FiniteSets, SequencesExt

CONSTANTS
    Line,        \* what codex exec may print: records of type, id and phase
    Output,      \* the content of a long output, as a blob
    PageLimit,   \* the events the console's first request returns (10 000)
    ListLimit,   \* the events listEvents returns at most (50 000)
    MaxLog,      \* bound: outside callers stop when the log is this long
    MaxLines,    \* bound: lines codex exec prints
    MaxApi,      \* bound: calls of the other API client
    MaxFault     \* bound: deaths of the daemon and broken streams

ASSUME LimitAssumption ==
    /\ PageLimit \in Nat \ {0} /\ ListLimit \in Nat \ {0, 1} /\ PageLimit <= ListLimit
    /\ {MaxLog, MaxLines, MaxApi, MaxFault} \subseteq Nat

VARIABLES
    store,     \* what SQLite and the blob directory hold
    up,        \* the daemon: "up", "down", or "refused" to start
    ask,       \* where a handler that awaits read the log's end, or NoAsk
    client,    \* the collector of this run
    viewer,    \* the console following the run
    faults     \* deaths and broken streams so far

vars == <<store, up, ask, client, viewer, faults>>

NoAsk == -1

---------------------------------------------------------------------------
(* The event log.                                                          *)

Event(name, n, fp, blobs) == [key |-> <<name, n>>, fp |-> fp, blobs |-> blobs, silent |-> FALSE]
Once(name) == Event(name, 0, 0, {})
Silent(event) == [event EXCEPT !.silent = TRUE]

Keys(log) == {log[i].key : i \in DOMAIN log}

Registered_Bug(st, blob) == blob \in st.files

(* A blob is registered when its row and its file are there.               *)
Registered(st, blob) == blob \in st.rows /\ blob \in st.files

(* An event is known when its key was used before with the same content.   *)
Known(log, event) == \E i \in DOMAIN log : log[i].key = event.key /\ log[i].fp = event.fp

Conflicts(log, event) == event.key \in Keys(log) /\ ~Known(log, event)

(* The whole batch is taken, or nothing of it.                             *)
Accepted(st, batch) ==
    \A i \in DOMAIN batch :
        /\ ~Conflicts(st.log, batch[i])
        /\ Known(st.log, batch[i]) \/ \A b \in batch[i].blobs : Registered(st, b)

(* One event after the other; one that is known is passed over.            *)
Inserted(log, event) == IF Known(log, event) THEN log ELSE Append(log, event)

Grown(st, batch) ==
    LET taken[i \in 0..Len(batch)] ==
            IF i = 0 THEN st.log ELSE Inserted(taken[i - 1], batch[i])
    IN  [st EXCEPT !.log = taken[Len(batch)]]

appendEvents_Bug(st, batch) ==
    IF Accepted(st, batch) THEN Grown(st, batch)
    ELSE IF Accepted(st, <<batch[1]>>) THEN Grown(st, <<batch[1]>>) ELSE st
appendEvents(st, batch) == IF Accepted(st, batch) THEN Grown(st, batch) ELSE st

transitionRun(st, to) == [Grown(st, <<Once(to)>>) EXCEPT !.run = to]

(* The numbers listEvents returns: those after a cursor, up to the limit.  *)
Minimum(a, b) == IF a < b THEN a ELSE b
listEvents(log, after, limit) ==
    [k \in 1..(Minimum(Len(log), after + limit) - Minimum(after, Len(log))) |-> after + k]

verifyRunChain_Bug(log) == Len(log) < ListLimit
verifyRunChain(log) == Len(listEvents(log, 0, ListLimit)) = Len(log)

(* The file comes before the row, a death between them leaves the file.    *)
blobFile(st, blob) == [st EXCEPT !.files = @ \cup {blob}]
putBlob(st, blob) == [blobFile(st, blob) EXCEPT !.rows = @ \cup {blob}]

---------------------------------------------------------------------------
(* The coverage of a hosted run, a row computed from the provider events   *)
(* and the workspace, and kept.                                            *)

CoverageLevel(st) ==
    IF st.parsed = {} THEN "L0"
    ELSE IF st.parsed \cap {"gap", "invalid"} = {} /\ st.workspace = "finalized" THEN "L2"
    ELSE "L1"

refreshRunCoverage(st) == [st EXCEPT !.level = CoverageLevel(st)]

recordProviderEvent(st, parse) ==
    LET logged == IF parse = "ignored" THEN st
                  ELSE Grown(st, <<Event("note", Len(st.log), 0, {})>>)
    IN  refreshRunCoverage([logged EXCEPT !.parsed = @ \cup {parse}])

---------------------------------------------------------------------------
(* The event stream.                                                       *)

(* What a handler that read `before` pushes when it is done.               *)
Pushed(log, before) ==
    IF viewer.state = "open"
    THEN [viewer EXCEPT !.chan = @ \o listEvents(log, before, ListLimit)]
    ELSE viewer

Unplugged == IF viewer.state = "open" THEN [viewer EXCEPT !.state = "broken", !.chan = <<>>]
             ELSE viewer

Die == /\ up = "up" /\ faults < MaxFault
       /\ up' = "down" /\ faults' = faults + 1
       /\ ask' = NoAsk /\ viewer' = Unplugged

(* A request that leaves the store `final`, or one of `cuts` when the      *)
(* daemon dies in it, seen by a caller that goes on or whose call throws.  *)
Answered(final, next) ==
    /\ up = "up"
    /\ store' = final
    /\ viewer' = Pushed(final.log, Len(store.log))
    /\ client' = next
    /\ UNCHANGED <<up, ask, faults>>

Cut(cuts, thrown) ==
    /\ Die
    /\ store' \in cuts \cup {store}
    /\ client' = thrown

Unreachable(thrown) ==
    /\ up # "up"
    /\ client' = thrown
    /\ UNCHANGED <<store, up, ask, viewer, faults>>

Request(final, cuts, next, thrown) ==
    \/ Answered(final, next)
    \/ Cut(cuts \cup {final}, thrown)
    \/ Unreachable(thrown)

Submit(batch, next, thrown) ==
    Request(appendEvents(store, batch), {}, IF Accepted(store, batch) THEN next ELSE thrown, thrown)

---------------------------------------------------------------------------
(* `afr exec` and `afr codex`.  They retry nothing: a call that throws ends *)
(* the process, except while codex exec prints, when it ends the codex     *)
(* child and is remembered in `err`.                                       *)

Dead == [client EXCEPT !.pc = "dead"]
At(pc) == [client EXCEPT !.pc = pc]

CreateRun ==
    /\ client.pc = "create"
    /\ LET row == [store EXCEPT !.run = "created"]
           born == Grown(row, <<Once("created")>>)
       IN  Request(transitionRun(born, "running"), {row, born}, At("open"), Dead)

AppendOpening ==
    /\ client.pc = "open"
    /\ Submit(<<Once("opening")>>, At(IF client.mode = "exec" THEN "work" ELSE "stream"), Dead)

(* The command runs; an output above the limit becomes a blob.             *)
Execute ==
    /\ client.pc = "work"
    /\ \E ok \in BOOLEAN, long \in BOOLEAN :
           client' = [client EXCEPT !.pc = IF long THEN "out" ELSE "final",
                                    !.ok = ok, !.outputs = IF long THEN {Output} ELSE {}]
    /\ UNCHANGED <<store, up, ask, viewer, faults>>

UploadOutput ==
    /\ client.pc = "out"
    /\ Request(putBlob(store, Output), {blobFile(store, Output)}, At("final"), Dead)

(* Which phases of an item the normalizer turns into an event.             *)
Phases == [command |-> {"started", "completed"},
           tool    |-> {"started", "updated", "completed"},
           file    |-> {"started", "completed"},
           message |-> {"completed"},
           summary |-> {"completed"}]

(* The n-th line: its key comes from what it says, its fingerprint from a  *)
(* fresh event id and time; what the normalizer does not know is a gap     *)
(* with a key of its own.                                                  *)
normalizeLine(line, n) ==
    IF line.type \notin DOMAIN Phases THEN <<Event("gap", n, n, {})>>
    ELSE IF line.phase \in Phases[line.type] THEN <<Event("line", line, n, {})>>
    ELSE <<>>

HandleLine_Bug ==
    /\ client.pc = "stream" /\ client.lines < MaxLines
    /\ \E line \in Line :
           LET n == client.lines + 1
               events == normalizeLine(line, n)
               printed == [client EXCEPT !.lines = n, !.told = @ \cup {n}]
           IN  events # <<>> /\ Submit(events, printed, printed)

HandleLine ==
    /\ client.pc = "stream" /\ client.lines < MaxLines
    /\ \E line \in Line :
           LET n == client.lines + 1
               events == normalizeLine(line, n)
               printed == [client EXCEPT !.lines = n, !.told = @ \cup {n}]
           IN  /\ events # <<>>
               /\ Submit(events, printed, [printed EXCEPT !.pc = "final", !.err = TRUE])

QuietLine ==
    /\ client.pc = "stream" /\ client.lines < MaxLines
    /\ \E line \in Line : normalizeLine(line, client.lines + 1) = <<>>
    /\ client' = [client EXCEPT !.lines = @ + 1]
    /\ UNCHANGED <<store, up, ask, viewer, faults>>

(* Codex exits, is stopped by the timeout, or reports a failed turn.       *)
CodexEnds ==
    /\ client.pc = "stream"
    /\ \E ok \in BOOLEAN : client' = [client EXCEPT !.pc = "final", !.ok = ok]
    /\ UNCHANGED <<store, up, ask, viewer, faults>>

AppendFinal ==
    /\ client.pc = "final"
    /\ Submit(<<Event("final", 0, 0, client.outputs)>>, At("status"), Dead)

Verdict == IF client.ok /\ ~client.err THEN "completed" ELSE "failed"

SetStatus ==
    /\ client.pc = "status"
    /\ Request(transitionRun(store, Verdict), {}, At("done"), Dead)

(* A person stops the collector.                                           *)
Kill ==
    /\ client.pc \notin {"none", "done", "dead"}
    /\ client' = Dead
    /\ UNCHANGED <<store, up, ask, viewer, faults>>

---------------------------------------------------------------------------
(* Another API client: it sends a batch of two events, sends it again when *)
(* it got no answer, or sends one whose second event reuses a key.         *)

Batches == {<<Event("q", 0, 1, {}), Event("p", 0, 1, {Output})>>,
            <<Event("q", 0, 1, {}), Event("p", 0, 2, {})>>}

Retry ==
    /\ client.mode = "api" /\ store.run = "running"
    /\ client.api < MaxApi /\ Len(store.log) < MaxLog
    /\ LET called == [client EXCEPT !.api = @ + 1]
       IN  \E batch \in Batches : Submit(batch, called, called)

RetryBlob ==
    /\ client.mode = "api" /\ client.api < MaxApi
    /\ LET called == [client EXCEPT !.api = @ + 1]
       IN  Request(putBlob(store, Output), {blobFile(store, Output)}, called, called)

(* Reading approvals expires one and tells no subscriber.                  *)
ExpireOnRead ==
    /\ up = "up" /\ store.run # "none" /\ Len(store.log) < MaxLog
    /\ <<"expired", 0>> \notin Keys(store.log)
    /\ store' = Grown(store, <<Silent(Once("expired"))>>)
    /\ UNCHANGED <<up, ask, client, viewer, faults>>

---------------------------------------------------------------------------
(* A hosted run: its notifications, a request that waits for a person, and *)
(* the end of its workspace.                                               *)

Hosted == client.mode = "hosted" /\ store.run = "running" /\ store.workspace = "active"

OnNotification ==
    /\ Hosted /\ Len(store.log) < MaxLog
    /\ \E parse \in {"mapped", "ignored", "gap", "invalid"} :
           \/ Answered(recordProviderEvent(store, parse), client)
           \/ Cut({recordProviderEvent(store, parse)}, client)

OnServerRequest ==
    /\ Hosted /\ up = "up" /\ ask = NoAsk /\ Len(store.log) < MaxLog
    /\ <<"asked", 0>> \notin Keys(store.log)
    /\ ask' = Len(store.log)
    /\ store' = Grown(store, <<Once("asked")>>)
    /\ UNCHANGED <<up, client, viewer, faults>>

ServerRequestDone ==
    /\ up = "up" /\ ask # NoAsk
    /\ store' = Grown(store, <<Once("answered")>>)
    /\ viewer' = Pushed(store'.log, ask)
    /\ ask' = NoAsk
    /\ UNCHANGED <<up, client, faults>>

(* finalize: the workspace's row, its events, then the coverage.           *)
Finalize ==
    /\ Hosted /\ ask = NoAsk
    /\ \E unchanged \in BOOLEAN :
           LET row == [store EXCEPT !.workspace = IF unchanged THEN "finalized" ELSE "failed"]
               told == Grown(row, IF unchanged THEN <<Once("diff")>>
                                  ELSE <<Once("diff"), Once("changed")>>)
           IN  \/ Answered(refreshRunCoverage(told), client)
               \/ Cut({row, told, refreshRunCoverage(told)}, client)

---------------------------------------------------------------------------
(* The daemon.                                                             *)

Crash == Die /\ UNCHANGED <<store, client>>

(* recover: every run's chain is verified before anything else is done.    *)
Start ==
    /\ up = "down"
    /\ IF ~verifyRunChain(store.log)
       THEN up' = "refused" /\ UNCHANGED store
       ELSE /\ up' = "up"
            /\ store' = IF client.mode = "hosted" /\ store.run = "running"
                        THEN transitionRun(store, "interrupted") ELSE store
    /\ UNCHANGED <<ask, client, viewer, faults>>

---------------------------------------------------------------------------
(* The console: it loads the first page, then follows the stream from the  *)
(* last number it loaded.  The browser reconnects to the same address.     *)

Load ==
    /\ up = "up" /\ store.run # "none" /\ viewer.state = "off"
    /\ LET page == listEvents(store.log, 0, PageLimit)
       IN  viewer' = [viewer EXCEPT !.state = "loaded", !.shown = page, !.cursor = Len(page)]
    /\ UNCHANGED <<store, up, ask, client, faults>>

(* Reconnecting from the last number shown, as Last-Event-ID would.        *)
Connect_Bug ==
    /\ up = "up" /\ viewer.state \in {"loaded", "broken"}
    /\ LET last == IF viewer.shown = <<>> THEN viewer.cursor ELSE Last(viewer.shown)
       IN  viewer' = [viewer EXCEPT !.state = "open", !.since = Len(store.log),
                                    !.chan = listEvents(store.log, last, ListLimit)]
    /\ UNCHANGED <<store, up, ask, client, faults>>

Connect_Once ==
    /\ up = "up" /\ viewer.state = "loaded"
    /\ viewer' = [viewer EXCEPT !.state = "open", !.since = Len(store.log),
                                !.chan = listEvents(store.log, viewer.cursor, ListLimit)]
    /\ UNCHANGED <<store, up, ask, client, faults>>

(* Replay and subscription are one step of the daemon.                     *)
Connect ==
    /\ up = "up" /\ viewer.state \in {"loaded", "broken"}
    /\ viewer' = [viewer EXCEPT !.state = "open", !.since = Len(store.log),
                                !.chan = listEvents(store.log, viewer.cursor, ListLimit)]
    /\ UNCHANGED <<store, up, ask, client, faults>>

Receive ==
    /\ viewer.chan # <<>>
    /\ LET n == Head(viewer.chan)
       IN  viewer' = [viewer EXCEPT !.chan = Tail(@),
                         !.shown = IF n \in ToSet(@) THEN @ ELSE Append(@, n)]
    /\ UNCHANGED <<store, up, ask, client, faults>>

Break ==
    /\ viewer.state = "open" /\ faults < MaxFault
    /\ viewer' = Unplugged
    /\ faults' = faults + 1
    /\ UNCHANGED <<store, up, ask, client>>

---------------------------------------------------------------------------
EmptyStore == [run |-> "none", log |-> <<>>, rows |-> {}, files |-> {},
               workspace |-> "none", parsed |-> {}, level |-> "none"]

(* A hosted run is created with its workspace; another client's by the   *)
(* same route as the collectors'.                                          *)
StartedStore(mode) == [EmptyStore EXCEPT !.run = "running", !.log = <<Once("created"), Once("running")>>,
                                  !.workspace = IF mode = "hosted" THEN "active" ELSE "none"]

Init ==
    /\ \E mode \in {"exec", "codex", "api", "hosted"} :
           /\ client = [mode |-> mode, pc |-> IF mode \in {"exec", "codex"} THEN "create" ELSE "none",
                        ok |-> FALSE, err |-> FALSE, outputs |-> {}, lines |-> 0, told |-> {}, api |-> 0]
           /\ store = IF mode \in {"exec", "codex"} THEN EmptyStore ELSE StartedStore(mode)
    /\ up = "up" /\ ask = NoAsk /\ faults = 0
    /\ viewer = [state |-> "off", shown |-> <<>>, cursor |-> 0, since |-> 0, chan |-> <<>>]

Collector ==
    \/ CreateRun \/ AppendOpening \/ Execute \/ UploadOutput \/ HandleLine \/ QuietLine \/ CodexEnds
    \/ AppendFinal \/ SetStatus

Daemon == OnNotification \/ OnServerRequest \/ ServerRequestDone \/ Finalize \/ Crash \/ Start

Console == Load \/ Connect \/ Receive \/ Break

Next == Collector \/ Kill \/ Retry \/ RetryBlob \/ ExpireOnRead \/ Daemon \/ Console

Spec == Init /\ [][Next]_vars

(* The collector goes on while nobody stops it, bytes on a stream arrive   *)
(* and a browser reconnects; nobody has to start a daemon that died.       *)
FairSpec == Spec /\ WF_vars(Collector) /\ WF_vars(Receive) /\ WF_vars(Connect)

---------------------------------------------------------------------------
(* TYPE.  Every variable keeps to its values.                              *)
TypeOK ==
    /\ store.run \in {"none", "created", "running", "completed", "failed", "interrupted"}
    /\ store.rows \subseteq {Output} /\ store.files \subseteq {Output}
    /\ store.level \in {"none", "L0", "L1", "L2"}
    /\ up \in {"up", "down", "refused"}
    /\ ask \in Nat \cup {NoAsk}
    /\ viewer.state \in {"off", "loaded", "open", "broken"}

(* WHOLE AND ONCE.  Every variable keeps to its values; however often a    *)
(* client sends a batch again, and wherever the daemon dies, each key is   *)
(* logged once, and two events that are only ever sent together are both   *)
(* in the log or both missing.                                             *)
BatchesAreWholeAndOnce ==
    /\ TypeOK
    /\ Cardinality(Keys(store.log)) = Len(store.log)
    /\ <<"p", 0>> \in Keys(store.log) <=> <<"q", 0>> \in Keys(store.log)

(* EVIDENCE.  A blob an event names can be read: it has a row and a file,  *)
(* and so has every row, whichever deaths came between file and row.       *)
EveryReferenceResolves ==
    /\ \A i \in DOMAIN store.log : store.log[i].blobs \subseteq store.rows \cap store.files
    /\ store.rows \subseteq store.files

(* COMPLETED.  A captured run that is completed has its final event with   *)
(* the output it names, and every line codex printed.                      *)
CompletedMeansRecorded ==
    store.run = "completed" =>
        /\ <<"final", 0>> \in Keys(store.log)
        /\ client.outputs \subseteq store.rows
        /\ \A n \in client.told :
               \E i \in DOMAIN store.log : store.log[i].key[1] \in {"line", "gap"} /\ store.log[i].fp = n

(* THE CONSOLE.  No event is shown twice; and a console that has received  *)
(* all it was sent shows every event but those past the replay's limit,    *)
(* those logged without a word since it connected, those an unfinished     *)
(* handler has still to push, and the answer to a request that more events *)
(* than one list holds have overtaken while it waited.                     *)
ViewIsFaithful ==
    /\ IsInjective(viewer.shown)
    /\ viewer.state = "open" /\ viewer.chan = <<>> =>
           \A i \in DOMAIN store.log \ ToSet(viewer.shown) :
               \/ viewer.cursor + ListLimit < i
               \/ /\ viewer.since < i
                  /\ \/ store.log[i].silent
                     \/ ask # NoAsk /\ ask < i
                     \/ store.log[i].key = <<"answered", 0>> /\ ListLimit < i

(* START-UP.  Nobody tampers with the log here, and then only a run longer *)
(* than the list limit keeps the daemon from starting.                     *)
RefusesOnlyLongRuns == up = "refused" => Len(store.log) > ListLimit

(* COVERAGE.  The kept level never claims more than the rows say: L2 only  *)
(* for a run without a gap whose workspace was verified.                   *)
CoverageNeverOverstates ==
    store.level = "L2" =>
        /\ store.parsed \cap {"gap", "invalid"} = {}
        /\ store.workspace = "finalized" /\ <<"changed", 0>> \notin Keys(store.log)

(* HONEST.  Neither the status nor the coverage says more than was kept.   *)
NothingIsOverstated == CompletedMeansRecorded /\ CoverageNeverOverstates

(* SHOWN.  An event a handler announces reaches a console that follows the *)
(* run, broken streams included, unless the daemon stops.                  *)
Watching == viewer.state \in {"loaded", "open", "broken"}
RecordedIsShown ==
    \A n \in 1..ListLimit :
        (Watching /\ n <= Len(store.log) /\ ~store.log[n].silent /\ ask = NoAsk)
            ~> (n \in ToSet(viewer.shown) \/ up # "up")

(* ENDS.  docs/codex-integration-plan.md:357 says of an adapter that exits *)
(* half way: "Run interrupted/failed".  The run of a collector that threw  *)
(* or was killed stays running: nothing looks for it.                      *)
CollectedRunEnds ==
    store.run = "running" /\ client.mode \in {"exec", "codex"}
        ~> store.run \in {"completed", "failed", "interrupted"}
=============================================================================
