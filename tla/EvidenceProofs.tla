--------------------------- MODULE EvidenceProofs ---------------------------
(***************************************************************************)
(* The evidence a run leaves and what is done with it: proofs about        *)
(* Recording, for every log, bound and number of lines, calls, deaths and  *)
(* broken streams, and about Replay, for every finite set of paths, every  *)
(* content, index and base commit.                                         *)
(*                                                                         *)
(* A log only grows, and each transaction keeps what the others rely on:   *)
(* the store is shown to continue, transaction by transaction, and so the  *)
(* collector, the console and the daemon, whose facts are about a prefix   *)
(* of the log.  A console that is connected lacks only what it is spared.  *)
(*                                                                         *)
(* A checkpoint is read path by path: what it may count on is that the     *)
(* paths read so far are as they were, as long as nobody has edited since. *)
(* The rows of a replay are written at different steps of one call: what   *)
(* they may say is tied to the place the call has reached, and to why it   *)
(* was left when there is no call.                                         *)
(***************************************************************************)
EXTENDS Recording, Replay, FiniteSetTheorems, TLAPS

-----------------------------------------------------------------------------
(* RECORDING                                                               *)

-----------------------------------------------------------------------------
(* The log: keys are used once, and those made once have one content.      *)
OnceName == {"created", "running", "opening", "expired", "asked", "answered", "diff", "changed",
             "completed", "failed", "interrupted", "final"}
EventName == OnceName \cup {"note", "line", "gap", "q", "p"}

EventValue == [key : EventName \X (Nat \cup Line), fp : Nat,
               blobs : SUBSET {Output}, silent : BOOLEAN]

(* What an event of a log may be: a note has the number of the one before  *)
(* it in its key.                                                          *)
Fits(event, n) ==
  /\ event.key[1] = "note" => event.key[2] = n
  /\ event.key[1] \in OnceName => event.fp = 0

LogHolds(log) ==
  /\ log \in Seq(EventValue)
  /\ \A i, j \in DOMAIN log : log[i].key = log[j].key => i = j
  /\ \A i \in DOMAIN log : Fits(log[i], i - 1)

(* Two events at most are logged in a step, after those that are there.    *)
Longer(log, grown) ==
  /\ Len(log) <= Len(grown) /\ Len(grown) <= Len(log) + 2
  /\ \A i \in DOMAIN log : grown[i] = log[i]

-----------------------------------------------------------------------------
(* The invariant                                                           *)

RunStatus == {"none", "created", "running", "completed", "failed", "interrupted"}
Parse == {"mapped", "ignored", "gap", "invalid"}

StoreValue ==
  [run : RunStatus, log : Seq(EventValue), rows : SUBSET {Output}, files : SUBSET {Output},
   workspace : {"none", "active", "finalized", "failed"}, parsed : SUBSET Parse,
   level : {"none", "L0", "L1", "L2"}]

(* The batch of the other client: both of its events or none.              *)
PairIsWhole(log) == <<"p", 0>> \in Keys(log) <=> <<"q", 0>> \in Keys(log)

Resolves(st) ==
  /\ \A i \in DOMAIN st.log : st.log[i].blobs \subseteq st.rows
  /\ st.rows \subseteq st.files

CoverageHolds(st) ==
  /\ <<"changed", 0>> \in Keys(st.log) => st.workspace = "failed"
  /\ st.level = "L2" => st.parsed \cap {"gap", "invalid"} = {} /\ st.workspace = "finalized"

StoreHolds(st) ==
  /\ st \in StoreValue /\ LogHolds(st.log)
  /\ PairIsWhole(st.log) /\ Resolves(st) /\ CoverageHolds(st)

(* The n-th line of codex is in the log.                                   *)
LineKept(log, n) == \E i \in DOMAIN log : log[i].key[1] \in {"line", "gap"} /\ log[i].fp = n

(* What is recorded of a collector, by the place it has reached.           *)
CollectorStep == {"create", "open", "work", "out", "stream", "final", "status", "done", "dead"}

ClientValue ==
  [mode : {"exec", "codex", "api", "hosted"}, pc : {"none"} \cup CollectorStep,
   ok : BOOLEAN, err : BOOLEAN, outputs : SUBSET {Output}, lines : Nat, told : SUBSET Nat, api : Nat]

ClientHolds(c, st) ==
  /\ c \in ClientValue
  /\ c.pc \in CollectorStep <=> c.mode \in {"exec", "codex"}
  /\ ~c.err => \A n \in c.told : LineKept(st.log, n)
  /\ c.pc \in {"create", "open", "work", "stream"} => c.outputs = {}
  /\ c.pc \in {"final", "status", "done"} => c.outputs \subseteq st.rows
  /\ c.pc \in {"status", "done"} => <<"final", 0>> \in Keys(st.log)
  /\ st.run = "completed" =>
       /\ c.pc \in {"done", "dead"} /\ ~c.err /\ c.outputs \subseteq st.rows
       /\ <<"final", 0>> \in Keys(st.log)

(* What a console that is connected need not have been sent.               *)
Spared(v, log, pending, i) ==
  \/ v.cursor + ListLimit < i
  \/ /\ v.since < i
     /\ \/ log[i].silent
        \/ pending # NoAsk /\ i = pending + 1
        \/ log[i].key = <<"answered", 0>> /\ ListLimit < i

ViewerValue ==
  [state : {"off", "loaded", "open", "broken"}, shown : Seq(Nat), cursor : Nat,
   since : Nat, chan : Seq(Nat)]

ViewerHolds(v, log, pending) ==
  /\ v \in ViewerValue
  /\ \A i, j \in DOMAIN v.shown : v.shown[i] = v.shown[j] => i = j
  /\ v.state # "open" => v.chan = <<>>
  /\ v.state = "off" => v.shown = <<>>
  /\ v.state # "off" => 1..v.cursor \subseteq ToSet(v.shown)
  /\ v.cursor <= Len(log) /\ v.since <= Len(log)
  /\ v.state = "open" =>
       \A i \in DOMAIN log \ (ToSet(v.shown) \cup ToSet(v.chan)) : Spared(v, log, pending, i)

DaemonHolds ==
  /\ up \in {"up", "down", "refused"} /\ faults \in Nat
  /\ ask \in Nat \cup {NoAsk} /\ (ask # NoAsk => ask < Len(store.log))
  /\ up # "up" => viewer.state # "open" /\ ask = NoAsk
  /\ up = "refused" => Len(store.log) > ListLimit

EInv ==
  /\ StoreHolds(store) /\ ClientHolds(client, store)
  /\ ViewerHolds(viewer, store.log, ask) /\ DaemonHolds

-----------------------------------------------------------------------------
(* Batches.  A call logs one event or two, each unless it is known.        *)
Taken(log, batch, f) ==
  f = [i \in 0..Len(batch) |-> IF i = 0 THEN log ELSE Inserted(f[i - 1], batch[i])]

LEMMA GrownIs ==
  ASSUME NEW st, NEW batch
  PROVE  Grown(st, batch) = [st EXCEPT !.log = (CHOOSE f : Taken(st.log, batch, f))[Len(batch)]]
BY Zenon DEF Grown, Taken

LEMMA GrownOne ==
  ASSUME NEW st, NEW e
  PROVE  Grown(st, <<e>>) = [st EXCEPT !.log = Inserted(st.log, e)]
<1> DEFINE g == [i \in 0..1 |-> IF i = 0 THEN st.log ELSE Inserted(st.log, e)]
           f == CHOOSE f : Taken(st.log, <<e>>, f)
<1>1. Len(<<e>>) = 1 /\ <<e>>[1] = e
  OBVIOUS
<1>2. Taken(st.log, <<e>>, g)
  BY <1>1 DEF Taken
<1>3. Taken(st.log, <<e>>, f)
  BY <1>2
<1> HIDE DEF f
<1>4. f[1] = Inserted(st.log, e)
  BY <1>1, <1>3 DEF Taken
<1> QED
  BY <1>1, <1>4, GrownIs DEF f

LEMMA GrownTwo ==
  ASSUME NEW st, NEW e, NEW e2
  PROVE  Grown(st, <<e, e2>>) = [st EXCEPT !.log = Inserted(Inserted(st.log, e), e2)]
<1> DEFINE g == [i \in 0..2 |-> IF i = 0 THEN st.log
                                ELSE IF i = 1 THEN Inserted(st.log, e)
                                ELSE Inserted(Inserted(st.log, e), e2)]
           f == CHOOSE f : Taken(st.log, <<e, e2>>, f)
<1>1. Len(<<e, e2>>) = 2 /\ <<e, e2>>[1] = e /\ <<e, e2>>[2] = e2
  OBVIOUS
<1>2. Taken(st.log, <<e, e2>>, g)
  BY <1>1 DEF Taken
<1>3. Taken(st.log, <<e, e2>>, f)
  BY <1>2
<1> HIDE DEF f
<1>4. f[1] = Inserted(st.log, e) /\ f[2] = Inserted(f[1], e2)
  BY <1>1, <1>3 DEF Taken
<1> QED
  BY <1>1, <1>4, GrownIs DEF f

(* What a log that takes the events of a set becomes.                      *)
Adds(log, grown, events) ==
  /\ LogHolds(grown)
  /\ Longer(log, grown)
  /\ Keys(grown) = Keys(log) \cup {e.key : e \in events}
  /\ \A e \in events : Known(grown, e)
  /\ \A i \in DOMAIN grown \ DOMAIN log : grown[i] \in events

(* An event that may be logged next.                                       *)
Proper(log, e) == e \in EventValue /\ ~Conflicts(log, e) /\ Fits(e, Len(log))

LEMMA InsertedAdds ==
  ASSUME NEW log, LogHolds(log), NEW e, Proper(log, e)
  PROVE  Adds(log, Inserted(log, e), {e}) /\ Len(Inserted(log, e)) <= Len(log) + 1
<1> DEFINE grown == Inserted(log, e)
<1>1. log \in Seq(EventValue) /\ Len(log) \in Nat /\ DOMAIN log = 1..Len(log)
  BY DEF LogHolds
<1>2. CASE Known(log, e)
  <2>1. grown = log /\ e.key \in Keys(log)
    BY <1>2 DEF Inserted, Known, Keys
  <2>2. Longer(log, grown)
    BY <1>1, <2>1 DEF Longer
  <2> QED
    BY <1>1, <1>2, <2>1, <2>2 DEF Adds
<1>3. CASE ~Known(log, e)
  <2> DEFINE n == Len(log) + 1
  <2>1. grown = Append(log, e) /\ e.key \notin Keys(log)
    BY <1>3 DEF Inserted, Proper, Conflicts
  <2>2. /\ grown \in Seq(EventValue) /\ Len(grown) = n /\ DOMAIN grown = 1..n
        /\ grown[n] = e /\ \A i \in DOMAIN log : grown[i] = log[i]
    BY <1>1, <2>1 DEF Proper
  <2> HIDE DEF grown
  <2>3. \A i \in 1..n : i \in DOMAIN log \/ i = n
    BY <1>1
  <2>4. \A i \in DOMAIN log : i \in 1..n /\ i # n
    BY <1>1
  <2>5. \A i, j \in DOMAIN grown : grown[i].key = grown[j].key => i = j
    <3>1. \A i \in DOMAIN log : grown[i].key # e.key
      BY <2>1, <2>2 DEF Keys
    <3> QED
      BY <2>2, <2>3, <3>1 DEF LogHolds
  <2>6. \A i \in DOMAIN grown : Fits(grown[i], i - 1)
    <3>1. Fits(grown[n], n - 1)
      BY <1>1, <2>2 DEF Proper
    <3> QED
      BY <2>2, <2>3, <3>1 DEF LogHolds
  <2>7. LogHolds(grown)
    BY <2>2, <2>5, <2>6 DEF LogHolds
  <2>8. Longer(log, grown)
    BY <1>1, <2>2 DEF Longer
  <2>9. Keys(grown) = Keys(log) \cup {e.key}
    BY <2>2, <2>3, <2>4 DEF Keys
  <2>10. Known(grown, e)
    BY <1>1, <2>2 DEF Known
  <2>11. \A i \in DOMAIN grown \ DOMAIN log : grown[i] \in {e}
    BY <2>2, <2>3
  <2>12. Adds(log, grown, {e})
    BY <2>7, <2>8, <2>9, <2>10, <2>11 DEF Adds
  <2> QED
    BY <1>1, <2>2, <2>12 DEF grown
<1> QED
  BY <1>2, <1>3

LEMMA InsertedTwoAdds ==
  ASSUME NEW log, LogHolds(log), NEW e, Proper(log, e), NEW e2, e2 \in EventValue,
         ~Conflicts(log, e2), e2.key # e.key, e2.key[1] # "note", Fits(e2, Len(log))
  PROVE  Adds(log, Inserted(Inserted(log, e), e2), {e, e2})
<1> DEFINE one == Inserted(log, e)
           two == Inserted(one, e2)
<1>1. Adds(log, one, {e}) /\ Len(one) <= Len(log) + 1
  BY InsertedAdds
<1> HIDE DEF one
<1>2. /\ Len(log) \in Nat /\ Len(one) \in Nat /\ Len(log) <= Len(one)
      /\ DOMAIN log = 1..Len(log) /\ DOMAIN one = 1..Len(one) /\ DOMAIN log \subseteq DOMAIN one
      /\ \A i \in DOMAIN log : one[i] = log[i]
  BY <1>1 DEF Adds, LogHolds, Longer
<1>3. ~Conflicts(one, e2)
  <2>1. CASE e2.key \in Keys(one)
    <3>1. e2.key \in Keys(log)
      BY <1>1, <2>1 DEF Adds
    <3>2. PICK i \in DOMAIN log : log[i].key = e2.key /\ log[i].fp = e2.fp
      BY <3>1 DEF Conflicts, Known
    <3> QED
      BY <1>2, <3>2 DEF Conflicts, Known
  <2> QED
    BY <2>1 DEF Conflicts
<1>4. Proper(one, e2)
  BY <1>3 DEF Proper, Fits
<1>5. Adds(one, two, {e2}) /\ Len(two) <= Len(one) + 1
  BY <1>1, <1>4, InsertedAdds DEF Adds
<1> HIDE DEF two
<1>6. /\ Len(two) \in Nat /\ Len(one) <= Len(two) /\ DOMAIN two = 1..Len(two)
      /\ DOMAIN one \subseteq DOMAIN two /\ \A i \in DOMAIN one : two[i] = one[i]
  BY <1>2, <1>5 DEF Adds, LogHolds, Longer
<1>7. Longer(log, two)
  <2>1. Len(log) <= Len(two) /\ Len(two) <= Len(log) + 2
    BY <1>1, <1>2, <1>5, <1>6
  <2> QED
    BY <1>2, <1>6, <2>1 DEF Longer
<1>8. Keys(two) = Keys(log) \cup {x.key : x \in {e, e2}}
  BY <1>1, <1>5 DEF Adds
<1>9. \A x \in {e, e2} : Known(two, x)
  <2>1. Known(two, e)
    BY <1>1, <1>6 DEF Adds, Known
  <2> QED
    BY <1>5, <2>1 DEF Adds
<1>10. \A i \in DOMAIN two \ DOMAIN log : two[i] \in {e, e2}
  BY <1>1, <1>5, <1>6 DEF Adds
<1> QED
  BY <1>5, <1>7, <1>8, <1>9, <1>10 DEF Adds, one, two

-----------------------------------------------------------------------------
(* The events the daemon and the clients make.                             *)
LEMMA OnceProper ==
  ASSUME NEW log, LogHolds(log), NEW name \in OnceName, NEW blobs \in SUBSET {Output}
  PROVE  Proper(log, Event(name, 0, 0, blobs)) /\ Proper(log, Silent(Event(name, 0, 0, blobs)))
<1> DEFINE e == Event(name, 0, 0, blobs)
<1>1. e \in EventValue /\ e.key = <<name, 0>> /\ e.fp = 0 /\ e.key[1] = name
  BY DEF Event, EventValue, EventName
<1>2. Silent(e) \in EventValue /\ Silent(e).key = <<name, 0>> /\ Silent(e).fp = 0
  BY <1>1 DEF Silent, EventValue
<1>3. name # "note"
  BY DEF OnceName
<1>4. ASSUME NEW x \in EventValue, x.key = <<name, 0>>, x.fp = 0
      PROVE  Proper(log, x)
  <2>1. x.key[1] = name
    BY <1>4
  <2>2. Fits(x, Len(log))
    BY <1>3, <1>4, <2>1 DEF Fits
  <2>3. \A i \in DOMAIN log : log[i].key = x.key => log[i].fp = x.fp
    BY <1>4, <2>1 DEF LogHolds, Fits
  <2>4. ~Conflicts(log, x)
    BY <2>3 DEF Conflicts, Known, Keys
  <2> QED
    BY <1>4, <2>2, <2>4 DEF Proper
<1> QED
  BY <1>1, <1>2, <1>4

LEMMA NoteProper ==
  ASSUME NEW log, LogHolds(log)
  PROVE  Proper(log, Event("note", Len(log), 0, {}))
<1> DEFINE e == Event("note", Len(log), 0, {})
<1>1. Len(log) \in Nat /\ DOMAIN log = 1..Len(log)
  BY DEF LogHolds
<1>2. e \in EventValue /\ e.key = <<"note", Len(log)>> /\ e.fp = 0
  BY <1>1 DEF Event, EventValue, EventName
<1>3. e.key[1] = "note" /\ e.key[2] = Len(log)
  BY <1>2
<1>4. Fits(e, Len(log))
  BY <1>2, <1>3 DEF Fits, OnceName
<1>5. \A i \in DOMAIN log : log[i].key # e.key
  <2> SUFFICES ASSUME NEW i \in DOMAIN log, log[i].key = e.key PROVE FALSE
    OBVIOUS
  <2>1. i - 1 = Len(log)
    BY <1>3 DEF LogHolds, Fits
  <2> QED
    BY <1>1, <2>1
<1> QED
  BY <1>2, <1>4, <1>5 DEF Proper, Conflicts, Keys

-----------------------------------------------------------------------------
(* The store, transaction by transaction.                                  *)

(* What is recorded stays, and two events at most are added.               *)
Continues(st, next) ==
  StoreHolds(next) /\ Longer(st.log, next.log) /\ st.rows \subseteq next.rows

Rest(st) == <<st.run, st.rows, st.files, st.workspace, st.parsed, st.level>>

LEMMA StaysTheSame ==
  ASSUME NEW st, StoreHolds(st)
  PROVE  Continues(st, st) /\ [st EXCEPT !.log = st.log] = st
<1>1. Len(st.log) \in Nat
  BY DEF StoreHolds, LogHolds
<1>2. Longer(st.log, st.log)
  BY <1>1 DEF Longer
<1>3. [st EXCEPT !.log = st.log] = st
  BY DEF StoreHolds, StoreValue
<1> QED
  BY <1>2, <1>3 DEF Continues

LEMMA LoggedHolds ==
  ASSUME NEW st, StoreHolds(st), NEW grown, NEW events, Adds(st.log, grown, events),
         \A e \in events : e.blobs \subseteq st.rows,
         PairIsWhole(grown), <<"changed", 0>> \in Keys(grown) => st.workspace = "failed"
  PROVE  /\ Continues(st, [st EXCEPT !.log = grown])
         /\ [st EXCEPT !.log = grown].log = grown
         /\ Rest([st EXCEPT !.log = grown]) = Rest(st)
<1> DEFINE next == [st EXCEPT !.log = grown]
<1>1. next \in StoreValue /\ next.log = grown
  BY DEF StoreHolds, StoreValue, Adds, LogHolds
<1>2. /\ next.run = st.run /\ next.rows = st.rows /\ next.files = st.files
      /\ next.workspace = st.workspace /\ next.parsed = st.parsed /\ next.level = st.level
  BY DEF StoreHolds, StoreValue
<1>3. Resolves(next)
  <2>1. ASSUME NEW i \in DOMAIN grown PROVE grown[i].blobs \subseteq st.rows
    <3>1. CASE i \in DOMAIN st.log
      BY <3>1 DEF Adds, Longer, StoreHolds, Resolves
    <3>2. CASE i \notin DOMAIN st.log
      BY <2>1, <3>2 DEF Adds
    <3> QED
      BY <3>1, <3>2
  <2> QED
    BY <1>1, <1>2, <2>1 DEF Resolves, StoreHolds
<1>4. CoverageHolds(next)
  BY <1>1, <1>2 DEF StoreHolds, CoverageHolds
<1>5. StoreHolds(next)
  BY <1>1, <1>3, <1>4 DEF StoreHolds, Adds
<1> HIDE DEF next
<1>6. Continues(st, next)
  BY <1>1, <1>2, <1>5 DEF Continues, Adds
<1> QED
  BY <1>1, <1>2, <1>6 DEF Rest, next

(* One event that is none of those told of in pairs.                       *)
LEMMA OneContinues ==
  ASSUME NEW st, StoreHolds(st), NEW e, Proper(st.log, e),
         e.key[1] \notin {"p", "q", "changed"},
         Known(st.log, e) \/ e.blobs \subseteq st.rows
  PROVE  /\ Continues(st, Grown(st, <<e>>))
         /\ Adds(st.log, Grown(st, <<e>>).log, {e})
         /\ Len(Grown(st, <<e>>).log) <= Len(st.log) + 1
         /\ Rest(Grown(st, <<e>>)) = Rest(st)
<1> DEFINE grown == Inserted(st.log, e)
<1>1. Adds(st.log, grown, {e}) /\ Len(grown) <= Len(st.log) + 1
  BY InsertedAdds DEF StoreHolds
<1>2. CASE Known(st.log, e)
  <2>1. grown = st.log
    BY <1>2 DEF Inserted
  <2>2. Grown(st, <<e>>) = st
    BY <2>1, GrownOne, StaysTheSame
  <2> QED
    BY <1>1, <2>1, <2>2, StaysTheSame
<1>3. CASE ~Known(st.log, e)
  <2>1. \A x \in {e} : x.blobs \subseteq st.rows
    BY <1>3
  <2>2. Keys(grown) = Keys(st.log) \cup {e.key}
    BY <1>1 DEF Adds
  <2>3. e.key # <<"p", 0>> /\ e.key # <<"q", 0>> /\ e.key # <<"changed", 0>>
    OBVIOUS
  <2>4. PairIsWhole(grown)
    BY <2>2, <2>3 DEF PairIsWhole, StoreHolds
  <2>5. <<"changed", 0>> \in Keys(grown) => st.workspace = "failed"
    BY <2>2, <2>3 DEF StoreHolds, CoverageHolds
  <2> DEFINE events == {e}
  <2> HIDE DEF grown, events
  <2>6. /\ Continues(st, [st EXCEPT !.log = grown])
        /\ [st EXCEPT !.log = grown].log = grown
        /\ Rest([st EXCEPT !.log = grown]) = Rest(st)
    <3>1. Adds(st.log, grown, events) /\ \A x \in events : x.blobs \subseteq st.rows
      BY <1>1, <2>1 DEF events
    <3> QED
      BY <2>4, <2>5, <3>1, LoggedHolds
  <2>7. Grown(st, <<e>>) = [st EXCEPT !.log = grown]
    BY GrownOne DEF grown
  <2> QED
    BY <1>1, <2>6, <2>7
<1> QED
  BY <1>2, <1>3

LEMMA OnceContinues ==
  ASSUME NEW st, StoreHolds(st), NEW name \in OnceName, name # "changed",
         NEW e \in {Once(name), Silent(Once(name))}
  PROVE  /\ Continues(st, Grown(st, <<e>>))
         /\ Adds(st.log, Grown(st, <<e>>).log, {e})
         /\ Len(Grown(st, <<e>>).log) <= Len(st.log) + 1
         /\ Rest(Grown(st, <<e>>)) = Rest(st)
<1>1. LogHolds(st.log)
  BY DEF StoreHolds
<1>2. Proper(st.log, e)
  BY <1>1, OnceProper DEF Once
<1>3. e.key[1] = name /\ e.blobs = {}
  BY DEF Once, Event, Silent
<1>4. e.key[1] \notin {"p", "q", "changed"}
  BY <1>3 DEF OnceName
<1> QED
  BY <1>2, <1>3, <1>4, OneContinues

LEMMA TransitionContinues ==
  ASSUME NEW st, StoreHolds(st), NEW to \in RunStatus \cap OnceName
  PROVE  /\ Continues(st, transitionRun(st, to))
         /\ Len(transitionRun(st, to).log) <= Len(st.log) + 1
         /\ transitionRun(st, to).run = to
         /\ transitionRun(st, to).log = Grown(st, <<Once(to)>>).log
<1> DEFINE grown == Grown(st, <<Once(to)>>)
           next == transitionRun(st, to)
<1>1. Continues(st, grown) /\ Len(grown.log) <= Len(st.log) + 1
  BY OnceContinues DEF RunStatus
<1>2. next = [grown EXCEPT !.run = to]
  BY DEF transitionRun
<1> HIDE DEF grown, next
<1>3. /\ next \in StoreValue /\ next.log = grown.log /\ next.rows = grown.rows
      /\ next.files = grown.files /\ next.workspace = grown.workspace
      /\ next.parsed = grown.parsed /\ next.level = grown.level /\ next.run = to
  BY <1>1, <1>2 DEF Continues, StoreHolds, StoreValue
<1>4. StoreHolds(next)
  BY <1>1, <1>3 DEF Continues, StoreHolds, Resolves, CoverageHolds
<1>5. Continues(st, next)
  BY <1>1, <1>3, <1>4 DEF Continues
<1> QED
  BY <1>1, <1>3, <1>5 DEF grown, next

(* The file, then the row of a blob.                                       *)
LEMMA BlobContinues ==
  ASSUME NEW st, StoreHolds(st)
  PROVE  /\ Continues(st, blobFile(st, Output)) /\ Continues(st, putBlob(st, Output))
         /\ blobFile(st, Output).log = st.log /\ putBlob(st, Output).log = st.log
         /\ blobFile(st, Output).run = st.run /\ putBlob(st, Output).run = st.run
         /\ Output \in putBlob(st, Output).rows
<1> DEFINE f == blobFile(st, Output)
           p == putBlob(st, Output)
<1>1. /\ f \in StoreValue /\ f.log = st.log /\ f.rows = st.rows /\ f.files = st.files \cup {Output}
      /\ f.workspace = st.workspace /\ f.parsed = st.parsed /\ f.level = st.level /\ f.run = st.run
  BY DEF blobFile, StoreHolds, StoreValue
<1>2. /\ p \in StoreValue /\ p.log = st.log /\ p.rows = st.rows \cup {Output}
      /\ p.files = st.files \cup {Output}
      /\ p.workspace = st.workspace /\ p.parsed = st.parsed /\ p.level = st.level /\ p.run = st.run
  BY <1>1 DEF putBlob, StoreHolds, StoreValue
<1> HIDE DEF f, p
<1>3. StoreHolds(f) /\ StoreHolds(p)
  BY <1>1, <1>2 DEF StoreHolds, Resolves, CoverageHolds
<1>4. Longer(st.log, st.log)
  BY StaysTheSame DEF Continues
<1>5. Continues(st, f) /\ Continues(st, p)
  BY <1>1, <1>2, <1>3, <1>4 DEF Continues
<1> QED
  BY <1>1, <1>2, <1>5 DEF f, p

(* A level is computed from rows it agrees with.                           *)
LEMMA RefreshContinues ==
  ASSUME NEW st, StoreHolds(st)
  PROVE  /\ Continues(st, refreshRunCoverage(st)) /\ refreshRunCoverage(st).log = st.log
         /\ refreshRunCoverage(st).run = st.run
<1> DEFINE next == refreshRunCoverage(st)
<1>1. /\ CoverageLevel(st) \in {"L0", "L1", "L2"}
      /\ CoverageLevel(st) = "L2" =>
           st.parsed \cap {"gap", "invalid"} = {} /\ st.workspace = "finalized"
  BY DEF CoverageLevel
<1>2. /\ next \in StoreValue /\ next.log = st.log /\ next.rows = st.rows /\ next.files = st.files
      /\ next.workspace = st.workspace /\ next.parsed = st.parsed /\ next.run = st.run
      /\ next.level = CoverageLevel(st)
  BY <1>1 DEF refreshRunCoverage, StoreHolds, StoreValue
<1> HIDE DEF next
<1>3. StoreHolds(next)
  BY <1>1, <1>2 DEF StoreHolds, Resolves, CoverageHolds
<1>4. Continues(st, next)
  BY <1>2, <1>3, StaysTheSame DEF Continues
<1> QED
  BY <1>2, <1>4 DEF next

LEMMA ProviderContinues ==
  ASSUME NEW st, StoreHolds(st), st.workspace = "active", NEW parse \in Parse
  PROVE  /\ Continues(st, recordProviderEvent(st, parse))
         /\ recordProviderEvent(st, parse).run = st.run
<1> DEFINE logged == IF parse = "ignored" THEN st
                     ELSE Grown(st, <<Event("note", Len(st.log), 0, {})>>)
           mid == [logged EXCEPT !.parsed = @ \cup {parse}]
<1>1. Continues(st, logged) /\ Rest(logged) = Rest(st)
  <2>1. CASE parse = "ignored"
    BY <2>1, StaysTheSame
  <2>2. CASE parse # "ignored"
    <3> DEFINE e == Event("note", Len(st.log), 0, {})
    <3>1. Proper(st.log, e)
      BY NoteProper DEF StoreHolds
    <3>2. e.key[1] = "note" /\ e.blobs = {}
      BY DEF Event
    <3> HIDE DEF e
    <3>3. Continues(st, Grown(st, <<e>>)) /\ Rest(Grown(st, <<e>>)) = Rest(st)
      BY <3>1, <3>2, OneContinues
    <3> QED
      BY <2>2, <3>3 DEF e
  <2> QED
    BY <2>1, <2>2
<1> HIDE DEF logged
<1>2. /\ mid \in StoreValue /\ mid.log = logged.log /\ mid.rows = logged.rows
      /\ mid.files = logged.files /\ mid.workspace = logged.workspace
      /\ mid.level = logged.level /\ mid.run = logged.run
  BY <1>1 DEF Continues, StoreHolds, StoreValue
<1>3. logged.workspace = "active" /\ logged.run = st.run
  BY <1>1 DEF Rest
<1> HIDE DEF mid
<1>4. StoreHolds(mid)
  BY <1>1, <1>2, <1>3 DEF Continues, StoreHolds, Resolves, CoverageHolds
<1>5. /\ Continues(mid, refreshRunCoverage(mid)) /\ refreshRunCoverage(mid).log = mid.log
      /\ refreshRunCoverage(mid).run = mid.run
  BY <1>4, RefreshContinues
<1>6. recordProviderEvent(st, parse) = refreshRunCoverage(mid)
  BY DEF recordProviderEvent, mid, logged
<1>7. Continues(st, refreshRunCoverage(mid))
  BY <1>1, <1>2, <1>5 DEF Continues
<1> QED
  BY <1>2, <1>3, <1>5, <1>6, <1>7

(* The row of the workspace, then what is told of it, then the coverage.   *)
FinalRow(st, unchanged) ==
  [st EXCEPT !.workspace = IF unchanged THEN "finalized" ELSE "failed"]

FinalTold(st, unchanged) ==
  Grown(FinalRow(st, unchanged), IF unchanged THEN <<Once("diff")>>
                                 ELSE <<Once("diff"), Once("changed")>>)

LEMMA FinalContinues ==
  ASSUME NEW st, StoreHolds(st), st.workspace = "active", NEW unchanged \in BOOLEAN
  PROVE  /\ Continues(st, FinalRow(st, unchanged)) /\ FinalRow(st, unchanged).run = st.run
         /\ Continues(st, FinalTold(st, unchanged)) /\ FinalTold(st, unchanged).run = st.run
<1> DEFINE row == FinalRow(st, unchanged)
           told == FinalTold(st, unchanged)
<1>1. /\ row \in StoreValue /\ row.log = st.log /\ row.rows = st.rows /\ row.files = st.files
      /\ row.workspace = (IF unchanged THEN "finalized" ELSE "failed")
      /\ row.level = st.level /\ row.run = st.run /\ row.parsed = st.parsed
  BY DEF FinalRow, StoreHolds, StoreValue
<1> HIDE DEF row
<1>2. StoreHolds(row)
  <2>1. st.level # "L2" /\ <<"changed", 0>> \notin Keys(st.log)
    BY DEF StoreHolds, CoverageHolds
  <2> QED
    BY <1>1, <2>1 DEF StoreHolds, Resolves, CoverageHolds
<1>3. Continues(st, row)
  BY <1>1, <1>2, StaysTheSame DEF Continues
<1>4. Continues(row, told) /\ told.run = row.run
  <2>1. CASE unchanged
    <3>1. told = Grown(row, <<Once("diff")>>)
      BY <2>1 DEF FinalTold, row
    <3>2. "diff" \in OnceName /\ "diff" # "changed" /\ Once("diff") \in {Once("diff"), Silent(Once("diff"))}
      BY DEF OnceName
    <3> QED
      BY <1>2, <3>1, <3>2, OnceContinues DEF Rest
  <2>2. CASE ~unchanged
    <3> DEFINE d == Once("diff")
               c == Once("changed")
               grown == Inserted(Inserted(row.log, d), c)
               events == {d, c}
    <3>1. /\ d.key = <<"diff", 0>> /\ c.key = <<"changed", 0>> /\ d.blobs = {} /\ c.blobs = {}
          /\ c.key[1] = "changed" /\ d.key # c.key
      BY DEF Once, Event
    <3>2. LogHolds(row.log) /\ Proper(row.log, d) /\ Proper(row.log, c)
      <4>1. LogHolds(row.log)
        BY <1>2 DEF StoreHolds
      <4>2. "diff" \in OnceName /\ "changed" \in OnceName /\ {} \in SUBSET {Output}
        BY DEF OnceName
      <4> QED
        BY <4>1, <4>2, OnceProper DEF Once
    <3> HIDE DEF d, c
    <3>3. Adds(row.log, grown, {d, c})
      <4>1. c \in EventValue /\ ~Conflicts(row.log, c) /\ Fits(c, Len(row.log))
        BY <3>2 DEF Proper
      <4> QED
        BY <3>1, <3>2, <4>1, InsertedTwoAdds
    <3>4. told = [row EXCEPT !.log = grown]
      <4>1. told = Grown(row, <<d, c>>)
        BY <2>2 DEF FinalTold, row, d, c
      <4> QED
        BY <4>1, GrownTwo
    <3> HIDE DEF grown
    <3>5. Adds(row.log, grown, events) /\ \A e \in events : e.blobs \subseteq row.rows
      BY <3>1, <3>3
    <3>6. PairIsWhole(grown)
      <4>1. Keys(grown) = Keys(row.log) \cup {<<"diff", 0>>, <<"changed", 0>>}
        BY <3>1, <3>3 DEF Adds
      <4>2. <<"p", 0>> \notin {<<"diff", 0>>, <<"changed", 0>>} /\ <<"q", 0>> \notin {<<"diff", 0>>, <<"changed", 0>>}
        OBVIOUS
      <4> QED
        BY <1>2, <4>1, <4>2 DEF StoreHolds, PairIsWhole
    <3>7. row.workspace = "failed"
      BY <1>1, <2>2
    <3> HIDE DEF events
    <3>8. Continues(row, told) /\ Rest(told) = Rest(row)
      BY <1>2, <3>4, <3>5, <3>6, <3>7, LoggedHolds
    <3> QED
      BY <3>8 DEF Rest
  <2> QED
    BY <2>1, <2>2
<1> HIDE DEF told
<1>5. Continues(st, told)
  BY <1>1, <1>4 DEF Continues
<1> QED
  BY <1>1, <1>3, <1>4, <1>5 DEF row, told

(* The batch of two of the other client.                                   *)
LEMMA PairContinues ==
  ASSUME NEW st, StoreHolds(st), NEW batch \in Batches, Accepted(st, batch)
  PROVE  /\ Continues(st, Grown(st, batch))
         /\ Rest(Grown(st, batch)) = Rest(st)
<1> DEFINE q == batch[1]
           p == batch[2]
<1>1. /\ batch = <<q, p>> /\ DOMAIN batch = {1, 2} /\ q.key = <<"q", 0>> /\ p.key = <<"p", 0>>
      /\ q \in EventValue /\ p \in EventValue /\ q.blobs = {}
  <2>1. PICK n \in {1, 2}, blobs \in SUBSET {Output} :
          batch = <<Event("q", 0, 1, {}), Event("p", 0, n, blobs)>>
    BY DEF Batches
  <2>2. /\ Event("q", 0, 1, {}) \in EventValue /\ Event("q", 0, 1, {}).key = <<"q", 0>>
        /\ Event("q", 0, 1, {}).blobs = {}
    BY DEF Event, EventValue, EventName
  <2>3. Event("p", 0, n, blobs) \in EventValue /\ Event("p", 0, n, blobs).key = <<"p", 0>>
    BY DEF Event, EventValue, EventName
  <2>4. q = Event("q", 0, 1, {}) /\ p = Event("p", 0, n, blobs)
    BY <2>1
  <2>5. batch = <<q, p>> /\ DOMAIN batch = {1, 2}
    BY <2>1, <2>4
  <2> HIDE DEF q, p
  <2> QED
    BY <2>2, <2>3, <2>4, <2>5
<1> HIDE DEF q, p
<1>2. ~Conflicts(st.log, q) /\ ~Conflicts(st.log, p)
  BY <1>1 DEF Accepted, q, p
<1>3. Fits(q, Len(st.log)) /\ Fits(p, Len(st.log)) /\ p.key[1] # "note" /\ p.key # q.key
  <2>1. q.key[1] = "q" /\ p.key[1] = "p"
    BY <1>1
  <2> QED
    BY <2>1 DEF Fits, OnceName
<1> DEFINE grown == Inserted(Inserted(st.log, q), p)
           events == {q, p}
<1>4. LogHolds(st.log) /\ Adds(st.log, grown, {q, p})
  <2>1. LogHolds(st.log) /\ Proper(st.log, q)
    BY <1>1, <1>2, <1>3 DEF StoreHolds, Proper
  <2> QED
    BY <1>1, <1>2, <1>3, <2>1, InsertedTwoAdds
<1>5. Grown(st, batch) = [st EXCEPT !.log = grown]
  BY <1>1, GrownTwo
<1>6. CASE Known(st.log, p)
  <2>1. p.key \in Keys(st.log)
    BY <1>6 DEF Known, Keys
  <2>2. q.key \in Keys(st.log)
    BY <1>1, <2>1 DEF StoreHolds, PairIsWhole
  <2>3. Known(st.log, q)
    BY <1>2, <2>2 DEF Conflicts
  <2>4. grown = st.log
    BY <1>6, <2>3 DEF Inserted
  <2> QED
    BY <1>5, <2>4, StaysTheSame
<1>7. CASE ~Known(st.log, p)
  <2>1. \A b \in p.blobs : Registered(st, b)
    <3>1. Known(st.log, batch[2]) \/ \A b \in batch[2].blobs : Registered(st, b)
      BY <1>1 DEF Accepted
    <3> QED
      BY <1>7, <3>1 DEF p
  <2>2. \A e \in events : e.blobs \subseteq st.rows
    BY <1>1, <2>1 DEF Registered
  <2>3. Keys(grown) = Keys(st.log) \cup {<<"q", 0>>, <<"p", 0>>}
    BY <1>1, <1>4 DEF Adds
  <2>4. <<"changed", 0>> \notin {<<"q", 0>>, <<"p", 0>>}
    OBVIOUS
  <2>5. PairIsWhole(grown)
    BY <2>3 DEF PairIsWhole
  <2>6. <<"changed", 0>> \in Keys(grown) => st.workspace = "failed"
    BY <2>3, <2>4 DEF StoreHolds, CoverageHolds
  <2>7. Adds(st.log, grown, events)
    BY <1>4
  <2> HIDE DEF grown, events
  <2> QED
    BY <1>5, <2>2, <2>5, <2>6, <2>7, LoggedHolds
<1> QED
  BY <1>6, <1>7

-----------------------------------------------------------------------------
(* The collector.                                                          *)

LEMMA LogStays ==
  ASSUME NEW log, NEW grown, LogHolds(log), LogHolds(grown), Longer(log, grown)
  PROVE  /\ Keys(log) \subseteq Keys(grown)
         /\ \A n : LineKept(log, n) => LineKept(grown, n)
         /\ DOMAIN log = 1..Len(log) /\ DOMAIN grown = 1..Len(grown)
         /\ Len(log) \in Nat /\ Len(grown) \in Nat /\ DOMAIN log \subseteq DOMAIN grown
<1>1. /\ Len(log) \in Nat /\ Len(grown) \in Nat /\ Len(log) <= Len(grown)
      /\ DOMAIN log = 1..Len(log) /\ DOMAIN grown = 1..Len(grown)
  BY DEF LogHolds, Longer
<1>2. DOMAIN log \subseteq DOMAIN grown
  BY <1>1
<1>3. \A i \in DOMAIN log : grown[i] = log[i]
  BY DEF Longer
<1> QED
  BY <1>1, <1>2, <1>3 DEF Keys, LineKept

LEMMA ClientGoesOn ==
  ASSUME NEW c, NEW st, NEW next, StoreHolds(st), ClientHolds(c, st), Continues(st, next),
         next.run = "completed" => st.run = "completed"
  PROVE  ClientHolds(c, next)
<1>1. /\ Keys(st.log) \subseteq Keys(next.log) /\ st.rows \subseteq next.rows
      /\ \A n : LineKept(st.log, n) => LineKept(next.log, n)
  BY LogStays DEF Continues, StoreHolds
<1> QED
  BY <1>1 DEF ClientHolds

LEMMA DeadHolds ==
  ASSUME NEW c, NEW st, ClientHolds(c, st), c.pc \in CollectorStep
  PROVE  ClientHolds([c EXCEPT !.pc = "dead"], st)
<1> DEFINE d == [c EXCEPT !.pc = "dead"]
<1>1. /\ d \in ClientValue /\ d.pc = "dead" /\ d.mode = c.mode /\ d.err = c.err
      /\ d.told = c.told /\ d.outputs = c.outputs
  BY DEF ClientHolds, ClientValue, CollectorStep
<1> HIDE DEF d
<1>2. ClientHolds(d, st)
  BY <1>1 DEF ClientHolds, CollectorStep
<1> QED
  BY <1>2 DEF d

-----------------------------------------------------------------------------
(* The console.                                                            *)

(* The last number of a list.                                              *)
EndOf(log, after, limit) == Minimum(Len(log), after + limit)

LEMMA MinimumIs ==
  ASSUME NEW a \in Nat, NEW b \in Nat
  PROVE  /\ Minimum(a, b) \in Nat /\ Minimum(a, b) <= a /\ Minimum(a, b) <= b
         /\ Minimum(a, b) = a \/ Minimum(a, b) = b
         /\ a <= b => Minimum(a, b) = a
BY DEF Minimum

LEMMA ListIs ==
  ASSUME NEW log, LogHolds(log), NEW after \in Nat, after <= Len(log), NEW limit \in Nat
  PROVE  /\ EndOf(log, after, limit) \in Nat
         /\ after <= EndOf(log, after, limit) /\ EndOf(log, after, limit) <= Len(log)
         /\ EndOf(log, after, limit) = Len(log) \/ EndOf(log, after, limit) = after + limit
         /\ Len(log) <= after + limit => EndOf(log, after, limit) = Len(log)
         /\ listEvents(log, after, limit) \in Seq(Nat)
         /\ Len(listEvents(log, after, limit)) = EndOf(log, after, limit) - after
         /\ \A k \in DOMAIN listEvents(log, after, limit) :
               listEvents(log, after, limit)[k] = after + k
         /\ ToSet(listEvents(log, after, limit)) = (after + 1)..EndOf(log, after, limit)
<1> DEFINE list == listEvents(log, after, limit)
           end  == EndOf(log, after, limit)
           n    == end - after
<1>1. Len(log) \in Nat
  BY DEF LogHolds
<1>2. /\ end \in Nat /\ after <= end /\ end <= Len(log)
      /\ end = Len(log) \/ end = after + limit
      /\ Len(log) <= after + limit => end = Len(log)
  BY <1>1 DEF Minimum, EndOf
<1>3. Minimum(after, Len(log)) = after
  BY <1>1 DEF Minimum
<1>4. list = [k \in 1..n |-> after + k]
  BY <1>3 DEF listEvents, EndOf
<1> HIDE DEF list, end
<1>5. n \in Nat
  BY <1>2
<1> HIDE DEF n
<1>6. list \in Seq(Nat) /\ Len(list) = n /\ DOMAIN list = 1..n
  BY <1>4, <1>5
<1>7. \A k \in DOMAIN list : list[k] = after + k
  BY <1>4, <1>6
<1>8. ToSet(list) = (after + 1)..end
  <2>1. ASSUME NEW x \in ToSet(list) PROVE x \in (after + 1)..end
    <3>1. PICK k \in DOMAIN list : x = list[k]
      BY <2>1 DEF ToSet
    <3> QED
      BY <1>2, <1>6, <1>7, <3>1 DEF n
  <2>2. ASSUME NEW x \in (after + 1)..end PROVE x \in ToSet(list)
    <3>1. x - after \in 1..n /\ after + (x - after) = x
      BY <1>2, <2>2 DEF n
    <3>2. list[x - after] = x /\ x - after \in DOMAIN list
      BY <1>6, <1>7, <3>1
    <3> QED
      BY <3>2 DEF ToSet
  <2> QED
    BY <2>1, <2>2
<1> QED
  BY <1>2, <1>6, <1>7, <1>8 DEF list, end, n

LEMMA ToSetOfConcat ==
  ASSUME NEW s \in Seq(Nat), NEW t \in Seq(Nat)
  PROVE  s \o t \in Seq(Nat) /\ ToSet(s \o t) = ToSet(s) \cup ToSet(t)
<1>1. /\ s \o t \in Seq(Nat) /\ DOMAIN (s \o t) = 1..(Len(s) + Len(t))
      /\ DOMAIN s = 1..Len(s) /\ DOMAIN t = 1..Len(t) /\ Len(s) \in Nat /\ Len(t) \in Nat
      /\ \A i \in DOMAIN s : (s \o t)[i] = s[i]
      /\ \A i \in DOMAIN t : (s \o t)[Len(s) + i] = t[i]
  OBVIOUS
<1>2. ASSUME NEW i \in DOMAIN (s \o t) PROVE (s \o t)[i] \in ToSet(s) \cup ToSet(t)
  <2>1. CASE i \in DOMAIN s
    BY <1>1, <2>1 DEF ToSet
  <2>2. CASE i \notin DOMAIN s
    <3>1. i - Len(s) \in DOMAIN t /\ Len(s) + (i - Len(s)) = i
      BY <1>1, <2>2
    <3>2. (s \o t)[i] = t[i - Len(s)]
      BY <1>1, <3>1
    <3> QED
      BY <3>1, <3>2 DEF ToSet
  <2> QED
    BY <2>1, <2>2
<1>3. ASSUME NEW i \in DOMAIN s PROVE s[i] \in ToSet(s \o t)
  <2>1. i \in DOMAIN (s \o t) /\ (s \o t)[i] = s[i]
    BY <1>1
  <2> QED
    BY <2>1 DEF ToSet
<1>4. ASSUME NEW i \in DOMAIN t PROVE t[i] \in ToSet(s \o t)
  <2>1. Len(s) + i \in DOMAIN (s \o t) /\ (s \o t)[Len(s) + i] = t[i]
    BY <1>1
  <2> QED
    BY <2>1 DEF ToSet
<1>5. ToSet(s \o t) \subseteq ToSet(s) \cup ToSet(t)
  BY <1>2 DEF ToSet
<1>6. ToSet(s) \subseteq ToSet(s \o t) /\ ToSet(t) \subseteq ToSet(s \o t)
  BY <1>3, <1>4 DEF ToSet
<1> QED
  BY <1>1, <1>5, <1>6

(* What a handler logs and then pushes is on its way to the console.       *)
LEMMA PushedHolds ==
  ASSUME NEW log, NEW grown, NEW pending, LogHolds(log), LogHolds(grown), Longer(log, grown),
         ViewerHolds(viewer, log, pending)
  PROVE  ViewerHolds(Pushed(grown, Len(log)), grown, pending)
<1> DEFINE list == listEvents(grown, Len(log), ListLimit)
           v == Pushed(grown, Len(log))
<1>1. /\ DOMAIN log = 1..Len(log) /\ DOMAIN grown = 1..Len(grown)
      /\ Len(log) \in Nat /\ Len(grown) \in Nat
      /\ Len(log) <= Len(grown) /\ Len(grown) <= Len(log) + 2
      /\ \A i \in DOMAIN log : grown[i] = log[i]
  BY LogStays DEF Longer
<1>2. list \in Seq(Nat) /\ ToSet(list) = (Len(log) + 1)..Len(grown)
  <2>1. ListLimit \in Nat /\ 2 <= ListLimit
    BY LimitAssumption
  <2>2. Len(grown) <= Len(log) + ListLimit
    BY <1>1, <2>1
  <2>3. /\ EndOf(grown, Len(log), ListLimit) = Len(grown)
        /\ list \in Seq(Nat) /\ ToSet(list) = (Len(log) + 1)..EndOf(grown, Len(log), ListLimit)
    <3>1. Len(log) \in Nat /\ Len(log) <= Len(grown) /\ ListLimit \in Nat
      BY <1>1, <2>1
    <3> QED
      BY <2>2, <3>1, ListIs
  <2> QED
    BY <2>3
<1> HIDE DEF list
<1>3. CASE viewer.state # "open"
  <2>1. v = viewer
    BY <1>3 DEF Pushed
  <2> QED
    BY <1>1, <1>3, <2>1 DEF ViewerHolds, ViewerValue
<1>4. CASE viewer.state = "open"
  <2>1. v = [viewer EXCEPT !.chan = @ \o list]
    BY <1>4 DEF Pushed, list
  <2>2. viewer \in ViewerValue /\ viewer.chan \in Seq(Nat)
    BY DEF ViewerHolds, ViewerValue
  <2>3. viewer.chan \o list \in Seq(Nat) /\ ToSet(viewer.chan \o list) = ToSet(viewer.chan) \cup ToSet(list)
    BY <1>2, <2>2, ToSetOfConcat
  <2>4. /\ v \in ViewerValue /\ v.state = "open" /\ v.shown = viewer.shown
        /\ v.cursor = viewer.cursor /\ v.since = viewer.since
        /\ ToSet(v.chan) = ToSet(viewer.chan) \cup ToSet(list)
    BY <1>4, <2>1, <2>2, <2>3 DEF ViewerValue
  <2> HIDE DEF v
  <2>5. ASSUME NEW i \in DOMAIN grown \ (ToSet(v.shown) \cup ToSet(v.chan))
        PROVE  Spared(v, grown, pending, i)
    <3>1. i \in DOMAIN log
      BY <1>1, <1>2, <2>4, <2>5
    <3>2. Spared(viewer, log, pending, i)
      BY <1>4, <2>4, <2>5, <3>1 DEF ViewerHolds
    <3> QED
      BY <1>1, <2>4, <3>1, <3>2 DEF Spared
  <2>6. v.cursor <= Len(grown) /\ v.since <= Len(grown)
    BY <1>1, <2>2, <2>4 DEF ViewerHolds, ViewerValue
  <2>7. ViewerHolds(v, grown, pending)
    BY <1>4, <2>4, <2>5, <2>6 DEF ViewerHolds
  <2> QED
    BY <2>7 DEF v
<1> QED
  BY <1>3, <1>4

(* What is logged without a word is spared, and so is what an unfinished   *)
(* handler has logged.                                                     *)
LEMMA UnsentHolds ==
  ASSUME NEW log, NEW grown, NEW pending, NEW after,
         LogHolds(log), LogHolds(grown), Longer(log, grown),
         ViewerHolds(viewer, log, pending), after = pending \/ pending = NoAsk,
         \A i \in DOMAIN grown \ DOMAIN log :
            grown[i].silent \/ (after # NoAsk /\ i = after + 1)
  PROVE  ViewerHolds(viewer, grown, after)
<1>1. /\ DOMAIN log = 1..Len(log) /\ DOMAIN grown = 1..Len(grown)
      /\ Len(log) \in Nat /\ Len(grown) \in Nat
      /\ Len(log) <= Len(grown) /\ \A i \in DOMAIN log : grown[i] = log[i]
  BY LogStays DEF Longer
<1>2. viewer.cursor \in Nat /\ viewer.since \in Nat /\ viewer.since <= Len(log)
  BY DEF ViewerHolds, ViewerValue
<1>3. viewer.cursor <= Len(grown) /\ viewer.since <= Len(grown)
  BY <1>1, <1>2 DEF ViewerHolds
<1>4. ASSUME viewer.state = "open",
             NEW i \in DOMAIN grown \ (ToSet(viewer.shown) \cup ToSet(viewer.chan))
      PROVE  Spared(viewer, grown, after, i)
  <2>1. CASE i \in DOMAIN log
    <3>1. Spared(viewer, log, pending, i)
      BY <1>4, <2>1 DEF ViewerHolds
    <3> QED
      BY <1>1, <2>1, <3>1 DEF Spared
  <2>2. CASE i \notin DOMAIN log
    <3>1. viewer.since < i
      BY <1>1, <1>2, <1>4, <2>2
    <3> QED
      BY <1>4, <2>2, <3>1 DEF Spared
  <2> QED
    BY <2>1, <2>2
<1> QED
  BY <1>3, <1>4 DEF ViewerHolds

(* The answer to a request is pushed with all that came since it, up to a  *)
(* list's limit.                                                           *)
LEMMA AwaitedHolds ==
  ASSUME NEW log, NEW grown, NEW pending \in Nat, LogHolds(log), LogHolds(grown),
         Longer(log, grown), pending < Len(log), ViewerHolds(viewer, log, pending),
         \A i \in DOMAIN grown \ DOMAIN log : grown[i].key = <<"answered", 0>>
  PROVE  ViewerHolds(Pushed(grown, pending), grown, NoAsk)
<1> DEFINE list == listEvents(grown, pending, ListLimit)
           end == EndOf(grown, pending, ListLimit)
           v == Pushed(grown, pending)
<1>1. /\ DOMAIN log = 1..Len(log) /\ DOMAIN grown = 1..Len(grown)
      /\ Len(log) \in Nat /\ Len(grown) \in Nat
      /\ Len(log) <= Len(grown) /\ \A i \in DOMAIN log : grown[i] = log[i]
  BY LogStays DEF Longer
<1>2. ListLimit \in Nat /\ 2 <= ListLimit
  BY LimitAssumption
<1>3. /\ list \in Seq(Nat) /\ ToSet(list) = (pending + 1)..end
      /\ end \in Nat /\ (end = Len(grown) \/ end = pending + ListLimit)
  <2>1. pending <= Len(grown)
    BY <1>1
  <2> QED
    BY <1>2, <2>1, ListIs
<1> HIDE DEF list, end
<1>4. CASE viewer.state # "open"
  <2>1. v = viewer
    BY <1>4 DEF Pushed
  <2> QED
    BY <1>1, <1>4, <2>1 DEF ViewerHolds, ViewerValue
<1>5. CASE viewer.state = "open"
  <2>1. v = [viewer EXCEPT !.chan = @ \o list]
    BY <1>5 DEF Pushed, list
  <2>2. viewer \in ViewerValue /\ viewer.chan \in Seq(Nat)
    BY DEF ViewerHolds, ViewerValue
  <2>3. viewer.chan \o list \in Seq(Nat) /\ ToSet(viewer.chan \o list) = ToSet(viewer.chan) \cup ToSet(list)
    BY <1>3, <2>2, ToSetOfConcat
  <2>4. /\ v \in ViewerValue /\ v.state = "open" /\ v.shown = viewer.shown
        /\ v.cursor = viewer.cursor /\ v.since = viewer.since
        /\ ToSet(v.chan) = ToSet(viewer.chan) \cup ToSet(list)
    BY <1>5, <2>1, <2>2, <2>3 DEF ViewerValue
  <2> HIDE DEF v
  <2>5. ASSUME NEW i \in DOMAIN grown \ (ToSet(v.shown) \cup ToSet(v.chan))
        PROVE  Spared(v, grown, NoAsk, i)
    <3>1. i \in 1..Len(grown) /\ ~(pending + 1 <= i /\ i <= end)
      <4>1. i \in 1..Len(grown)
        BY <1>1, <2>5
      <4>2. i \notin (pending + 1)..end
        BY <1>3, <2>4, <2>5
      <4>3. Len(grown) \in Nat /\ end \in Nat
        BY <1>1, <1>3
      <4> HIDE DEF v
      <4> QED
        BY <4>1, <4>2, <4>3
    <3>2. CASE i \in DOMAIN log
      <4>1. Spared(viewer, log, pending, i)
        BY <1>5, <2>4, <2>5, <3>2 DEF ViewerHolds
      <4>2. i # pending + 1
        <5>1. /\ end \in Nat /\ (end = Len(grown) \/ end = pending + ListLimit)
              /\ Len(log) \in Nat /\ Len(grown) \in Nat /\ Len(log) <= Len(grown)
          BY <1>1, <1>3
        <5>2. CASE end = Len(grown)
          BY <3>1, <5>1, <5>2
        <5>3. CASE end = pending + ListLimit
          BY <1>2, <3>1, <5>1, <5>3
        <5> QED
          BY <5>1, <5>2, <5>3
      <4> QED
        BY <1>1, <2>4, <3>2, <4>1, <4>2 DEF Spared
    <3>3. CASE i \notin DOMAIN log
      <4>1. Len(log) < i
        BY <1>1, <3>1, <3>3
      <4>2. grown[i].key = <<"answered", 0>>
        BY <2>5, <3>3
      <4>3. pending + 1 <= i /\ i <= Len(grown) /\ i \in Nat
        BY <1>1, <3>1, <4>1
      <4>4. end < i
        BY <1>3, <3>1, <4>3
      <4>5. end = pending + ListLimit
        <5>1. end \in Nat /\ (end = Len(grown) \/ end = pending + ListLimit)
          BY <1>3
        <5>2. Len(grown) \in Nat
          BY <1>1
        <5> QED
          BY <4>3, <4>4, <5>1, <5>2
      <4>6. ListLimit < i
        BY <1>2, <4>3, <4>4, <4>5
      <4>7. v.since < i
        BY <1>1, <2>2, <2>4, <3>1, <4>1 DEF ViewerHolds, ViewerValue
      <4> QED
        BY <4>2, <4>6, <4>7 DEF Spared
    <3> QED
      BY <3>2, <3>3
  <2>6. v.cursor <= Len(grown) /\ v.since <= Len(grown)
    BY <1>1, <2>2, <2>4 DEF ViewerHolds, ViewerValue
  <2>7. ViewerHolds(v, grown, NoAsk)
    BY <1>5, <2>4, <2>5, <2>6 DEF ViewerHolds
  <2> QED
    BY <2>7 DEF v
<1> QED
  BY <1>4, <1>5

LEMMA UnpluggedHolds ==
  ASSUME NEW log, NEW grown, NEW pending, NEW after,
         LogHolds(log), LogHolds(grown), Longer(log, grown), ViewerHolds(viewer, log, pending)
  PROVE  ViewerHolds(Unplugged, grown, after) /\ Unplugged.state # "open"
<1>1. /\ Len(log) \in Nat /\ Len(grown) \in Nat /\ Len(log) <= Len(grown)
  BY LogStays DEF Longer
<1>2. viewer \in ViewerValue /\ viewer.cursor <= Len(log) /\ viewer.since <= Len(log)
  BY DEF ViewerHolds
<1>3. viewer.cursor <= Len(grown) /\ viewer.since <= Len(grown)
  BY <1>1, <1>2 DEF ViewerValue
<1>4. CASE viewer.state = "open"
  <2> DEFINE v == [viewer EXCEPT !.state = "broken", !.chan = <<>>]
  <2>1. Unplugged = v
    BY <1>4 DEF Unplugged
  <2>2. /\ v \in ViewerValue /\ v.state = "broken" /\ v.chan = <<>> /\ v.shown = viewer.shown
        /\ v.cursor = viewer.cursor /\ v.since = viewer.since
    <3>1. <<>> \in Seq(Nat)
      OBVIOUS
    <3> QED
      BY <1>2, <3>1 DEF ViewerValue
  <2> HIDE DEF v
  <2>3. ViewerHolds(v, grown, after)
    BY <1>3, <1>4, <2>2 DEF ViewerHolds
  <2> QED
    BY <2>1, <2>2, <2>3
<1>5. CASE viewer.state # "open"
  <2>1. Unplugged = viewer
    BY <1>5 DEF Unplugged
  <2> QED
    BY <1>3, <1>5, <2>1 DEF ViewerHolds
<1> QED
  BY <1>4, <1>5

-----------------------------------------------------------------------------
(* Requests: one that is answered, and one the daemon dies in.             *)

LEMMA ContinuesOnwards ==
  ASSUME NEW st, NEW mid, NEW next, StoreHolds(st), Continues(st, mid), Continues(mid, next),
         Len(next.log) <= Len(st.log) + 2
  PROVE  Continues(st, next)
<1>1. /\ LogHolds(st.log) /\ LogHolds(mid.log) /\ LogHolds(next.log)
      /\ Longer(st.log, mid.log) /\ Longer(mid.log, next.log)
  BY DEF Continues, StoreHolds
<1>2. /\ DOMAIN st.log \subseteq DOMAIN mid.log
      /\ Len(st.log) \in Nat /\ Len(mid.log) \in Nat /\ Len(next.log) \in Nat
  BY <1>1, LogStays
<1>3. Len(st.log) <= Len(next.log)
  BY <1>1, <1>2 DEF Longer
<1>4. Longer(st.log, next.log)
  BY <1>1, <1>2, <1>3 DEF Longer
<1> QED
  BY <1>4 DEF Continues

LEMMA AnsweredKeeps ==
  ASSUME EInv, NEW final, NEW next, Answered(final, next),
         Continues(store, final), ClientHolds(next, final)
  PROVE  EInv'
<1>1. /\ store' = final /\ client' = next /\ viewer' = Pushed(final.log, Len(store.log))
      /\ up' = up /\ ask' = ask /\ faults' = faults /\ up = "up"
  BY DEF Answered
<1>2. LogHolds(store.log) /\ LogHolds(final.log) /\ Longer(store.log, final.log)
  BY DEF EInv, Continues, StoreHolds
<1>3. ViewerHolds(viewer', final.log, ask)
  BY <1>1, <1>2, PushedHolds DEF EInv
<1>4. ask # NoAsk => ask < Len(final.log)
  <2>1. Len(store.log) \in Nat /\ Len(final.log) \in Nat /\ Len(store.log) <= Len(final.log)
    BY <1>2, LogStays DEF Longer
  <2> QED
    BY <2>1 DEF EInv, DaemonHolds, NoAsk
<1>5. DaemonHolds'
  BY <1>1, <1>4 DEF EInv, DaemonHolds
<1> QED
  BY <1>1, <1>3, <1>5 DEF EInv, Continues

LEMMA DieKeeps ==
  ASSUME EInv, Die, NEW st, NEW c, store' = st, client' = c,
         Continues(store, st), ClientHolds(c, st)
  PROVE  EInv'
<1>1. /\ up' = "down" /\ faults' = faults + 1 /\ ask' = NoAsk /\ viewer' = Unplugged
  BY DEF Die
<1>2. LogHolds(store.log) /\ LogHolds(st.log) /\ Longer(store.log, st.log)
  BY DEF EInv, Continues, StoreHolds
<1>3. ViewerHolds(viewer', st.log, NoAsk) /\ viewer'.state # "open"
  BY <1>1, <1>2, UnpluggedHolds DEF EInv
<1>4. DaemonHolds'
  BY <1>1, <1>3 DEF EInv, DaemonHolds
<1> QED
  BY <1>1, <1>3, <1>4 DEF EInv, Continues

LEMMA RequestKeeps ==
  ASSUME EInv, NEW final, NEW cuts, NEW next, NEW thrown, Request(final, cuts, next, thrown),
         \A st \in cuts \cup {final} : Continues(store, st) /\ ClientHolds(thrown, st),
         ClientHolds(thrown, store), ClientHolds(next, final)
  PROVE  EInv'
<1>1. CASE Answered(final, next)
  BY <1>1, AnsweredKeeps
<1>2. CASE Cut(cuts \cup {final}, thrown)
  <2>1. PICK st \in cuts \cup {final} \cup {store} : store' = st
    BY <1>2 DEF Cut
  <2>2. Continues(store, st) /\ ClientHolds(thrown, st)
    BY <2>1, StaysTheSame DEF EInv
  <2> QED
    BY <1>2, <2>1, <2>2, DieKeeps DEF Cut
<1>3. CASE Unreachable(thrown)
  <2>1. client' = thrown /\ UNCHANGED <<store, up, ask, viewer, faults>>
    BY <1>3 DEF Unreachable
  <2> QED
    BY <2>1 DEF EInv, DaemonHolds
<1> QED
  BY <1>1, <1>2, <1>3 DEF Request

LEMMA SubmitKeeps ==
  ASSUME EInv, NEW batch, NEW next, NEW thrown, Submit(batch, next, thrown),
         Accepted(store, batch) =>
            /\ Continues(store, Grown(store, batch)) /\ Rest(Grown(store, batch)) = Rest(store)
            /\ ClientHolds(next, Grown(store, batch)),
         ClientHolds(thrown, store)
  PROVE  EInv'
<1>1. PICK final : final = appendEvents(store, batch)
  OBVIOUS
<1>2. Continues(store, final) /\ final.run = store.run
  BY <1>1, StaysTheSame DEF appendEvents, EInv, Rest
<1>3. ClientHolds(thrown, final)
  BY <1>2, ClientGoesOn DEF EInv
<1>4. CASE Accepted(store, batch)
  <2>1. Request(final, {}, next, thrown) /\ ClientHolds(next, final)
    BY <1>1, <1>4 DEF Submit, appendEvents
  <2> QED
    BY <1>2, <1>3, <2>1, RequestKeeps
<1>5. CASE ~Accepted(store, batch)
  <2>1. Request(final, {}, thrown, thrown)
    BY <1>1, <1>5 DEF Submit
  <2> QED
    BY <1>2, <1>3, <2>1, RequestKeeps
<1> QED
  BY <1>4, <1>5

(* The collector moves to a place whose records are there.                 *)
LEMMA AtHolds ==
  ASSUME NEW c, NEW st, ClientHolds(c, st), c.pc \in CollectorStep \ {"done", "dead"},
         NEW pc \in CollectorStep,
         pc \in {"create", "open", "work", "stream"} => c.outputs = {},
         pc \in {"final", "status", "done"} => c.outputs \subseteq st.rows,
         pc \in {"status", "done"} => <<"final", 0>> \in Keys(st.log)
  PROVE  ClientHolds([c EXCEPT !.pc = pc], st)
<1> DEFINE d == [c EXCEPT !.pc = pc]
<1>1. /\ d \in ClientValue /\ d.pc = pc /\ d.mode = c.mode /\ d.err = c.err
      /\ d.told = c.told /\ d.outputs = c.outputs
  BY DEF ClientHolds, ClientValue
<1>2. st.run # "completed"
  BY DEF ClientHolds
<1> HIDE DEF d
<1>3. ClientHolds(d, st)
  BY <1>1, <1>2 DEF ClientHolds
<1> QED
  BY <1>3 DEF d


-----------------------------------------------------------------------------
(* The collectors.                                                         *)

LEMMA SubmitOneKeeps ==
  ASSUME EInv, NEW e, NEW next, NEW thrown, Submit(<<e>>, next, thrown),
         e \in EventValue, Fits(e, Len(store.log)), e.key[1] \notin {"p", "q", "changed"},
         ClientHolds(thrown, store),
         \A st : Continues(store, st) /\ Known(st.log, e) /\ st.run = store.run
                   => ClientHolds(next, st)
  PROVE  EInv'
<1>1. ASSUME Accepted(store, <<e>>)
      PROVE  /\ Continues(store, Grown(store, <<e>>)) /\ Rest(Grown(store, <<e>>)) = Rest(store)
             /\ ClientHolds(next, Grown(store, <<e>>))
  <2>1. /\ ~Conflicts(store.log, e)
        /\ Known(store.log, e) \/ \A b \in e.blobs : Registered(store, b)
    <3>1. 1 \in DOMAIN <<e>> /\ <<e>>[1] = e
      OBVIOUS
    <3> QED
      BY <1>1, <3>1 DEF Accepted
  <2>2. Known(store.log, e) \/ e.blobs \subseteq store.rows
    BY <2>1 DEF Registered
  <2>3. Proper(store.log, e)
    BY <2>1 DEF Proper
  <2>4. PICK st : st = Grown(store, <<e>>)
    OBVIOUS
  <2>5. Continues(store, st) /\ Adds(store.log, st.log, {e}) /\ Rest(st) = Rest(store)
    BY <2>2, <2>3, <2>4, OneContinues DEF EInv
  <2>6. Known(st.log, e) /\ st.run = store.run
    BY <2>5 DEF Adds, Rest
  <2> QED
    BY <2>4, <2>5, <2>6
<1> QED
  BY <1>1, SubmitKeeps

LEMMA CreateRunKeeps == EInv /\ CreateRun => EInv'
<1> SUFFICES ASSUME EInv, CreateRun PROVE EInv'
  OBVIOUS
<1>1. PICK row : row = [store EXCEPT !.run = "created"]
  OBVIOUS
<1>2. PICK born : born = Grown(row, <<Once("created")>>)
  OBVIOUS
<1>3. PICK final : final = transitionRun(born, "running")
  OBVIOUS
<1>4. client.pc = "create" /\ Request(final, {row, born}, At("open"), Dead)
  BY <1>1, <1>2, <1>3 DEF CreateRun
<1>5. StoreHolds(store) /\ ClientHolds(client, store)
  BY DEF EInv
<1>6. row.log = store.log /\ row.rows = store.rows /\ row.run = "created" /\ StoreHolds(row)
  BY <1>1, <1>5 DEF StoreHolds, StoreValue, RunStatus, Resolves, CoverageHolds
<1>7. Continues(store, row)
  <2>1. Longer(store.log, store.log)
    BY <1>5, StaysTheSame DEF Continues
  <2> QED
    BY <1>6, <2>1 DEF Continues
<1>8. /\ Continues(row, born) /\ Len(born.log) <= Len(row.log) + 1 /\ born.run = "created"
  BY <1>2, <1>6, OnceContinues DEF OnceName, Rest
<1>9. /\ Continues(born, final) /\ Len(final.log) <= Len(born.log) + 1 /\ final.run = "running"
  <2>1. StoreHolds(born) /\ "running" \in RunStatus \cap OnceName
    BY <1>8 DEF Continues, RunStatus, OnceName
  <2> QED
    BY <1>3, <2>1, TransitionContinues
<1>10. Continues(store, born) /\ Continues(store, final)
  <2>1. Len(store.log) \in Nat /\ Len(born.log) \in Nat /\ Len(final.log) \in Nat
    BY <1>5, <1>8, <1>9 DEF Continues, StoreHolds, LogHolds
  <2>2. Len(born.log) <= Len(store.log) + 2 /\ Len(final.log) <= Len(store.log) + 2
    BY <1>6, <1>8, <1>9, <2>1
  <2>3. Continues(store, born)
    BY <1>5, <1>7, <1>8, <2>2, ContinuesOnwards
  <2> QED
    BY <1>5, <1>9, <2>2, <2>3, ContinuesOnwards
<1>11. \A st \in {row, born} \cup {final} :
          Continues(store, st) /\ ClientHolds(client, st) /\ ClientHolds(Dead, st)
  <2> TAKE st \in {row, born} \cup {final}
  <2>1. Continues(store, st) /\ st.run # "completed"
    BY <1>6, <1>7, <1>8, <1>9, <1>10
  <2>2. ClientHolds(client, st)
    BY <1>5, <2>1, ClientGoesOn
  <2>3. client.pc \in CollectorStep
    BY <1>4 DEF CollectorStep
  <2> QED
    BY <2>1, <2>2, <2>3, DeadHolds DEF Dead
<1>12. ClientHolds(Dead, store) /\ ClientHolds(At("open"), final)
  <2>1. client.pc \in CollectorStep \ {"done", "dead"} /\ "open" \in CollectorStep
    BY <1>4 DEF CollectorStep
  <2>2. client.outputs = {}
    BY <1>4, <1>5 DEF ClientHolds
  <2>3. ClientHolds(client, final)
    BY <1>11
  <2> QED
    BY <1>5, <2>1, <2>2, <2>3, DeadHolds, AtHolds DEF Dead, At
<1> HIDE DEF Dead, At
<1> QED
  BY <1>4, <1>11, <1>12, RequestKeeps

LEMMA AppendOpeningKeeps == EInv /\ AppendOpening => EInv'
<1> SUFFICES ASSUME EInv, AppendOpening PROVE EInv'
  OBVIOUS
<1>1. PICK e : e = Once("opening")
  OBVIOUS
<1>2. PICK pc \in {"work", "stream"} : client.pc = "open" /\ Submit(<<e>>, At(pc), Dead)
  BY <1>1 DEF AppendOpening
<1>3. ClientHolds(client, store) /\ LogHolds(store.log)
  BY DEF EInv, StoreHolds
<1>4. Proper(store.log, e) /\ e.key = <<"opening", 0>>
  <2>1. "opening" \in OnceName /\ {} \in SUBSET {Output}
    BY DEF OnceName
  <2> QED
    BY <1>1, <1>3, <2>1, OnceProper DEF Once, Event
<1>5. client.pc \in CollectorStep \ {"done", "dead"} /\ pc \in CollectorStep
  BY <1>2 DEF CollectorStep
<1>6. client.outputs = {}
  BY <1>2, <1>3 DEF ClientHolds
<1>7. ClientHolds(Dead, store)
  BY <1>3, <1>5, DeadHolds DEF Dead
<1>8. \A st : Continues(store, st) /\ st.run = store.run => ClientHolds(At(pc), st)
  <2> TAKE st
  <2> HAVE Continues(store, st) /\ st.run = store.run
  <2>1. ClientHolds(client, st)
    BY ClientGoesOn DEF EInv
  <2> QED
    BY <1>2, <1>5, <1>6, <2>1, AtHolds DEF At
<1>9. e.key[1] \notin {"p", "q", "changed"} /\ e \in EventValue /\ Fits(e, Len(store.log))
  BY <1>4 DEF Proper
<1> HIDE DEF Dead, At
<1> QED
  BY <1>2, <1>7, <1>8, <1>9, SubmitOneKeeps

(* A step of the client alone.                                             *)
LEMMA AloneKeeps ==
  ASSUME EInv, NEW c, client' = c, ClientHolds(c, store),
         UNCHANGED <<store, up, ask, viewer, faults>>
  PROVE  EInv'
BY DEF EInv, DaemonHolds

LEMMA ExecuteKeeps == EInv /\ Execute => EInv'
<1> SUFFICES ASSUME EInv, Execute PROVE EInv'
  OBVIOUS
<1>1. ClientHolds(client, store) /\ client.pc = "work"
  BY DEF EInv, Execute
<1>2. PICK ok \in BOOLEAN, long \in BOOLEAN :
         client' = [client EXCEPT !.pc = IF long THEN "out" ELSE "final",
                                  !.ok = ok, !.outputs = IF long THEN {Output} ELSE {}]
  BY DEF Execute
<1>3. PICK c : c = client'
  OBVIOUS
<1>4. /\ c \in ClientValue /\ c.mode = client.mode /\ c.err = client.err /\ c.told = client.told
      /\ c.pc = "out" \/ (c.pc = "final" /\ c.outputs = {})
  BY <1>1, <1>2, <1>3 DEF ClientHolds, ClientValue, CollectorStep
<1>5. store.run # "completed" /\ client.mode \in {"exec", "codex"}
  BY <1>1 DEF ClientHolds, CollectorStep
<1>6. ClientHolds(c, store)
  BY <1>1, <1>4, <1>5 DEF ClientHolds, CollectorStep
<1> QED
  BY <1>3, <1>6, AloneKeeps DEF Execute

LEMMA UploadOutputKeeps == EInv /\ UploadOutput => EInv'
<1> SUFFICES ASSUME EInv, UploadOutput PROVE EInv'
  OBVIOUS
<1>1. PICK final : final = putBlob(store, Output)
  OBVIOUS
<1>2. PICK cut : cut = blobFile(store, Output)
  OBVIOUS
<1>3. client.pc = "out" /\ Request(final, {cut}, At("final"), Dead)
  BY <1>1, <1>2 DEF UploadOutput
<1>4. ClientHolds(client, store) /\ StoreHolds(store)
  BY DEF EInv
<1>5. /\ Continues(store, final) /\ Continues(store, cut) /\ Output \in final.rows
      /\ final.run = store.run /\ cut.run = store.run
  BY <1>1, <1>2, <1>4, BlobContinues
<1>6. client.pc \in CollectorStep \ {"done", "dead"} /\ "final" \in CollectorStep
  BY <1>3 DEF CollectorStep
<1>7. \A st \in {cut} \cup {final} : Continues(store, st) /\ ClientHolds(client, st)
  BY <1>4, <1>5, ClientGoesOn
<1>8. ClientHolds(Dead, store) /\ \A st \in {cut} \cup {final} : ClientHolds(Dead, st)
  BY <1>4, <1>6, <1>7, DeadHolds DEF Dead
<1>9. ClientHolds(At("final"), final)
  <2>1. client.outputs \subseteq final.rows
    BY <1>4, <1>5 DEF ClientHolds, ClientValue
  <2>2. ClientHolds(client, final)
    BY <1>7
  <2> QED
    BY <1>6, <2>1, <2>2, AtHolds DEF At
<1> HIDE DEF Dead, At
<1> QED
  BY <1>3, <1>7, <1>8, <1>9, RequestKeeps

(* What a line of codex becomes: nothing, or one event with its number.    *)
LEMMA LineIs ==
  ASSUME NEW line \in Line, NEW n \in Nat, normalizeLine(line, n) # <<>>
  PROVE  \E e \in EventValue :
            /\ normalizeLine(line, n) = <<e>>
            /\ e.key[1] \in {"line", "gap"} /\ e.fp = n
<1>1. ASSUME NEW name \in {"line", "gap"}, NEW k \in Nat \cup Line
      PROVE  /\ Event(name, k, n, {}) \in EventValue
             /\ Event(name, k, n, {}).key[1] = name /\ Event(name, k, n, {}).fp = n
  BY DEF Event, EventValue, EventName
<1>2. \/ normalizeLine(line, n) = <<Event("gap", n, n, {})>>
      \/ normalizeLine(line, n) = <<Event("line", line, n, {})>>
  BY DEF normalizeLine
<1> QED
  BY <1>1, <1>2

LEMMA HandleLineKeeps == EInv /\ HandleLine => EInv'
<1> SUFFICES ASSUME EInv, HandleLine PROVE EInv'
  OBVIOUS
<1>1. PICK n : n = client.lines + 1
  OBVIOUS
<1>2. PICK printed : printed = [client EXCEPT !.lines = n, !.told = @ \cup {n}]
  OBVIOUS
<1>3. PICK thrown : thrown = [printed EXCEPT !.pc = "final", !.err = TRUE]
  OBVIOUS
<1>4. PICK line \in Line : /\ normalizeLine(line, n) # <<>>
                           /\ Submit(normalizeLine(line, n), printed, thrown)
  BY <1>1, <1>2, <1>3 DEF HandleLine
<1>5. client.pc = "stream" /\ ClientHolds(client, store) /\ client.lines \in Nat
  BY DEF HandleLine, EInv, ClientHolds, ClientValue
<1>6. n \in Nat
  BY <1>1, <1>5
<1>7. PICK e \in EventValue : /\ normalizeLine(line, n) = <<e>>
                              /\ e.key[1] \in {"line", "gap"} /\ e.fp = n
  BY <1>4, <1>6, LineIs
<1>8. Fits(e, Len(store.log)) /\ e.key[1] \notin {"p", "q", "changed"}
  BY <1>7 DEF Fits, OnceName
<1>9. /\ printed \in ClientValue /\ printed.pc = "stream" /\ printed.mode = client.mode
      /\ printed.err = client.err /\ printed.told = client.told \cup {n} /\ printed.outputs = {}
  BY <1>2, <1>5, <1>6 DEF ClientHolds, ClientValue
<1>10. /\ thrown \in ClientValue /\ thrown.pc = "final" /\ thrown.mode = client.mode
       /\ thrown.err = TRUE /\ thrown.outputs = {}
  BY <1>3, <1>9 DEF ClientValue, CollectorStep
<1>11. store.run # "completed" /\ client.mode \in {"exec", "codex"}
  BY <1>5 DEF ClientHolds, CollectorStep
<1>12. ClientHolds(thrown, store)
  BY <1>10, <1>11 DEF ClientHolds, CollectorStep
<1>13. \A st : Continues(store, st) /\ Known(st.log, e) /\ st.run = store.run
                 => ClientHolds(printed, st)
  <2> TAKE st
  <2> HAVE Continues(store, st) /\ Known(st.log, e) /\ st.run = store.run
  <2>1. ClientHolds(client, st)
    BY ClientGoesOn DEF EInv
  <2>2. LineKept(st.log, n)
    BY <1>7 DEF Known, LineKept
  <2>3. ~printed.err => \A k \in printed.told : LineKept(st.log, k)
    BY <1>9, <2>1, <2>2 DEF ClientHolds
  <2> QED
    BY <1>9, <1>11, <2>3 DEF ClientHolds, CollectorStep
<1> QED
  BY <1>4, <1>7, <1>8, <1>12, <1>13, SubmitOneKeeps

LEMMA StreamKeeps == EInv /\ (QuietLine \/ CodexEnds) => EInv'
<1> SUFFICES ASSUME EInv, QuietLine \/ CodexEnds PROVE EInv'
  OBVIOUS
<1>1. client.pc = "stream" /\ ClientHolds(client, store)
  BY DEF QuietLine, CodexEnds, EInv
<1>2. PICK c : c = client'
  OBVIOUS
<1>3. \/ c = [client EXCEPT !.lines = @ + 1]
      \/ \E ok \in BOOLEAN : c = [client EXCEPT !.pc = "final", !.ok = ok]
  BY <1>2 DEF QuietLine, CodexEnds
<1>4. client \in ClientValue /\ client.lines \in Nat
  BY <1>1 DEF ClientHolds, ClientValue
<1>5. /\ c \in ClientValue /\ c.mode = client.mode /\ c.err = client.err /\ c.told = client.told
      /\ c.outputs = client.outputs /\ c.pc \in {"stream", "final"}
  <2>1. client.lines + 1 \in Nat /\ "final" \in CollectorStep /\ client.pc = "stream"
    BY <1>1, <1>4 DEF CollectorStep
  <2>2. CASE c = [client EXCEPT !.lines = @ + 1]
    BY <1>4, <2>1, <2>2 DEF ClientValue
  <2>3. ASSUME NEW ok \in BOOLEAN, c = [client EXCEPT !.pc = "final", !.ok = ok]
        PROVE  /\ c \in ClientValue /\ c.mode = client.mode /\ c.err = client.err
               /\ c.told = client.told /\ c.outputs = client.outputs /\ c.pc = "final"
    BY <1>4, <2>1, <2>3 DEF ClientValue
  <2> QED
    BY <1>3, <2>1, <2>2, <2>3
<1>6. /\ store.run # "completed" /\ client.mode \in {"exec", "codex"} /\ client.outputs = {}
  BY <1>1 DEF ClientHolds, CollectorStep
<1>7. ClientHolds(c, store)
  BY <1>1, <1>5, <1>6 DEF ClientHolds, CollectorStep
<1> QED
  BY <1>2, <1>7, AloneKeeps DEF QuietLine, CodexEnds

LEMMA AppendFinalKeeps == EInv /\ AppendFinal => EInv'
<1> SUFFICES ASSUME EInv, AppendFinal PROVE EInv'
  OBVIOUS
<1>1. PICK e : e = Event("final", 0, 0, client.outputs)
  OBVIOUS
<1>2. client.pc = "final" /\ Submit(<<e>>, At("status"), Dead)
  BY <1>1 DEF AppendFinal
<1>3. ClientHolds(client, store) /\ LogHolds(store.log)
  BY DEF EInv, StoreHolds
<1>4. client.outputs \in SUBSET {Output} /\ client.outputs \subseteq store.rows
  BY <1>2, <1>3 DEF ClientHolds, ClientValue
<1>5. Proper(store.log, e) /\ e.key = <<"final", 0>>
  <2>1. "final" \in OnceName
    BY DEF OnceName
  <2>2. Proper(store.log, e)
    BY <1>1, <1>3, <1>4, <2>1, OnceProper
  <2> QED
    BY <1>1, <2>2 DEF Event
<1>6. client.pc \in CollectorStep \ {"done", "dead"} /\ "status" \in CollectorStep
  BY <1>2 DEF CollectorStep
<1>7. ClientHolds(Dead, store)
  BY <1>3, <1>6, DeadHolds DEF Dead
<1>8. \A st : Continues(store, st) /\ Known(st.log, e) /\ st.run = store.run
                => ClientHolds(At("status"), st)
  <2> TAKE st
  <2> HAVE Continues(store, st) /\ Known(st.log, e) /\ st.run = store.run
  <2>1. ClientHolds(client, st)
    BY ClientGoesOn DEF EInv
  <2>2. <<"final", 0>> \in Keys(st.log)
    BY <1>5 DEF Known, Keys
  <2>3. client.outputs \subseteq st.rows
    BY <1>4 DEF Continues
  <2> QED
    BY <1>6, <2>1, <2>2, <2>3, AtHolds DEF At
<1>9. e.key[1] \notin {"p", "q", "changed"} /\ e \in EventValue /\ Fits(e, Len(store.log))
  BY <1>5 DEF Proper
<1> HIDE DEF Dead, At
<1> QED
  BY <1>2, <1>7, <1>8, <1>9, SubmitOneKeeps

LEMMA SetStatusKeeps == EInv /\ SetStatus => EInv'
<1> SUFFICES ASSUME EInv, SetStatus PROVE EInv'
  OBVIOUS
<1>1. PICK to \in {"completed", "failed"} : to = Verdict
  BY DEF Verdict
<1>2. PICK final : final = transitionRun(store, to)
  OBVIOUS
<1>3. client.pc = "status" /\ Request(final, {}, At("done"), Dead)
  BY <1>1, <1>2 DEF SetStatus
<1>4. ClientHolds(client, store) /\ StoreHolds(store) /\ client \in ClientValue
  BY DEF EInv, ClientHolds
<1>5. Continues(store, final) /\ final.run = to
  <2>1. to \in RunStatus \cap OnceName
    BY DEF RunStatus, OnceName
  <2> QED
    BY <1>2, <1>4, <2>1, TransitionContinues
<1>6. to = "completed" => ~client.err
  BY <1>1, <1>4 DEF Verdict, ClientValue
<1>7. client.pc \in CollectorStep \ {"done", "dead"}
  BY <1>3 DEF CollectorStep
<1>8. ASSUME NEW c, c \in {Dead, At("done")}
      PROVE  ClientHolds(c, final)
  <2>1. /\ c \in ClientValue /\ c.pc \in {"done", "dead"} /\ c.mode = client.mode
        /\ c.err = client.err /\ c.told = client.told /\ c.outputs = client.outputs
    BY <1>4, <1>8 DEF Dead, At, ClientValue, CollectorStep
  <2>2. client.mode \in {"exec", "codex"} /\ client.outputs \subseteq store.rows
    BY <1>3, <1>4 DEF ClientHolds, CollectorStep
  <2>3. /\ Keys(store.log) \subseteq Keys(final.log)
        /\ \A n : LineKept(store.log, n) => LineKept(final.log, n)
    BY <1>5, LogStays DEF EInv, Continues, StoreHolds
  <2>4. <<"final", 0>> \in Keys(final.log) /\ client.outputs \subseteq final.rows
    BY <1>3, <1>4, <1>5, <2>2, <2>3 DEF ClientHolds, Continues
  <2>5. ~c.err => \A n \in c.told : LineKept(final.log, n)
    BY <1>4, <2>1, <2>3 DEF ClientHolds
  <2> QED
    BY <1>5, <1>6, <2>1, <2>2, <2>4, <2>5 DEF ClientHolds, CollectorStep
<1>9. ClientHolds(Dead, store)
  BY <1>4, <1>7, DeadHolds DEF Dead
<1> HIDE DEF Dead, At
<1> QED
  BY <1>3, <1>5, <1>8, <1>9, RequestKeeps

LEMMA KillKeeps == EInv /\ Kill => EInv'
<1> SUFFICES ASSUME EInv, Kill PROVE EInv'
  OBVIOUS
<1>1. ClientHolds(client, store) /\ client' = Dead
  BY DEF EInv, Kill
<1>2. client.pc \in CollectorStep
  BY <1>1 DEF Kill, ClientHolds, ClientValue
<1>3. ClientHolds(Dead, store)
  BY <1>1, <1>2, DeadHolds DEF Dead
<1> QED
  BY <1>1, <1>3, AloneKeeps DEF Kill

-----------------------------------------------------------------------------
(* The other client, and the daemon's own handlers.                        *)

LEMMA CalledHolds ==
  ASSUME NEW c, NEW st, ClientHolds(c, st)
  PROVE  ClientHolds([c EXCEPT !.api = @ + 1], st)
<1> DEFINE d == [c EXCEPT !.api = @ + 1]
<1>1. /\ d \in ClientValue /\ d.pc = c.pc /\ d.mode = c.mode /\ d.err = c.err
      /\ d.told = c.told /\ d.outputs = c.outputs
  BY DEF ClientHolds, ClientValue
<1> HIDE DEF d
<1>2. ClientHolds(d, st)
  BY <1>1 DEF ClientHolds
<1> QED
  BY <1>2 DEF d

LEMMA RetryKeeps == EInv /\ Retry => EInv'
<1> SUFFICES ASSUME EInv, Retry PROVE EInv'
  OBVIOUS
<1>1. PICK called : called = [client EXCEPT !.api = @ + 1]
  OBVIOUS
<1>2. PICK batch \in Batches : Submit(batch, called, called) /\ store.run = "running"
  BY <1>1 DEF Retry
<1>3. \A st : ClientHolds(client, st) => ClientHolds(called, st)
  BY <1>1, CalledHolds
<1>4. ASSUME Accepted(store, batch)
      PROVE  /\ Continues(store, Grown(store, batch)) /\ Rest(Grown(store, batch)) = Rest(store)
             /\ ClientHolds(called, Grown(store, batch))
  <2>1. PICK st : st = Grown(store, batch)
    OBVIOUS
  <2>2. Continues(store, st) /\ Rest(st) = Rest(store)
    BY <1>4, <2>1, PairContinues DEF EInv
  <2>3. ClientHolds(client, st)
    BY <2>2, ClientGoesOn DEF EInv, Rest
  <2> QED
    BY <1>3, <2>1, <2>2, <2>3
<1>5. ClientHolds(called, store)
  BY <1>3 DEF EInv
<1> QED
  BY <1>2, <1>4, <1>5, SubmitKeeps

LEMMA RetryBlobKeeps == EInv /\ RetryBlob => EInv'
<1> SUFFICES ASSUME EInv, RetryBlob PROVE EInv'
  OBVIOUS
<1>1. PICK called : called = [client EXCEPT !.api = @ + 1]
  OBVIOUS
<1>2. PICK final : final = putBlob(store, Output)
  OBVIOUS
<1>3. PICK cut : cut = blobFile(store, Output)
  OBVIOUS
<1>4. Request(final, {cut}, called, called)
  BY <1>1, <1>2, <1>3 DEF RetryBlob
<1>5. StoreHolds(store) /\ ClientHolds(client, store)
  BY DEF EInv
<1>6. /\ Continues(store, final) /\ Continues(store, cut)
      /\ final.run = store.run /\ cut.run = store.run
  BY <1>2, <1>3, <1>5, BlobContinues
<1>7. \A st \in {cut} \cup {final} : Continues(store, st) /\ ClientHolds(client, st)
  BY <1>5, <1>6, ClientGoesOn
<1>8. \A st : ClientHolds(client, st) => ClientHolds(called, st)
  BY <1>1, CalledHolds
<1> QED
  BY <1>4, <1>5, <1>7, <1>8, RequestKeeps

LEMMA ExpireOnReadKeeps == EInv /\ ExpireOnRead => EInv'
<1> SUFFICES ASSUME EInv, ExpireOnRead PROVE EInv'
  OBVIOUS
<1>1. PICK e : e = Silent(Once("expired"))
  OBVIOUS
<1>2. PICK st : st = Grown(store, <<e>>)
  OBVIOUS
<1>3. store' = st /\ UNCHANGED <<up, ask, client, viewer, faults>>
  BY <1>1, <1>2 DEF ExpireOnRead
<1>4. Continues(store, st) /\ Adds(store.log, st.log, {e}) /\ Rest(st) = Rest(store)
  <2>1. "expired" \in OnceName /\ e \in {Once("expired"), Silent(Once("expired"))}
    BY <1>1 DEF OnceName
  <2> QED
    BY <1>2, <2>1, OnceContinues DEF EInv
<1>5. ClientHolds(client, st)
  BY <1>4, ClientGoesOn DEF EInv, Rest
<1>6. LogHolds(store.log) /\ LogHolds(st.log) /\ Longer(store.log, st.log)
  BY <1>4 DEF EInv, Continues, StoreHolds
<1>7. e.silent
  BY <1>1 DEF Silent, Once, Event
<1>8. \A i \in DOMAIN st.log \ DOMAIN store.log : st.log[i].silent
  BY <1>4, <1>7 DEF Adds
<1>9. ViewerHolds(viewer, st.log, ask)
  BY <1>6, <1>8, UnsentHolds DEF EInv
<1>10. Len(store.log) \in Nat /\ Len(st.log) \in Nat /\ Len(store.log) <= Len(st.log)
  BY <1>6, LogStays DEF Longer
<1>11. up = "up" /\ (ask # NoAsk => ask < Len(st.log))
  BY <1>10 DEF ExpireOnRead, EInv, DaemonHolds, NoAsk
<1>12. DaemonHolds'
  BY <1>3, <1>11 DEF EInv, DaemonHolds
<1> QED
  BY <1>3, <1>4, <1>5, <1>9, <1>12 DEF EInv, Continues

LEMMA CutKeeps ==
  ASSUME EInv, NEW cuts, Cut(cuts, client),
         \A st \in cuts : Continues(store, st) /\ ClientHolds(client, st)
  PROVE  EInv'
<1>1. PICK st \in cuts \cup {store} : store' = st
  BY DEF Cut
<1>2. Continues(store, st) /\ ClientHolds(client, st)
  BY <1>1, StaysTheSame DEF EInv
<1> QED
  BY <1>1, <1>2, DieKeeps DEF Cut

LEMMA OnNotificationKeeps == EInv /\ OnNotification => EInv'
<1> SUFFICES ASSUME EInv, OnNotification PROVE EInv'
  OBVIOUS
<1>1. PICK parse \in Parse : \/ Answered(recordProviderEvent(store, parse), client)
                             \/ Cut({recordProviderEvent(store, parse)}, client)
  BY DEF OnNotification, Parse
<1>2. PICK final : final = recordProviderEvent(store, parse)
  OBVIOUS
<1>3. store.workspace = "active" /\ StoreHolds(store) /\ ClientHolds(client, store)
  BY DEF OnNotification, Hosted, EInv
<1>4. Continues(store, final) /\ final.run = store.run
  BY <1>2, <1>3, ProviderContinues
<1>5. ClientHolds(client, final)
  BY <1>3, <1>4, ClientGoesOn
<1> QED
  BY <1>1, <1>2, <1>4, <1>5, AnsweredKeeps, CutKeeps

LEMMA OnServerRequestKeeps == EInv /\ OnServerRequest => EInv'
<1> SUFFICES ASSUME EInv, OnServerRequest PROVE EInv'
  OBVIOUS
<1>1. PICK e : e = Once("asked")
  OBVIOUS
<1>2. PICK st : st = Grown(store, <<e>>)
  OBVIOUS
<1>3. PICK n : n = Len(store.log)
  OBVIOUS
<1>4. /\ store' = st /\ ask' = n /\ UNCHANGED <<up, client, viewer, faults>>
      /\ up = "up" /\ ask = NoAsk /\ <<"asked", 0>> \notin Keys(store.log)
  BY <1>1, <1>2, <1>3 DEF OnServerRequest
<1>5. /\ Continues(store, st) /\ Adds(store.log, st.log, {e}) /\ Rest(st) = Rest(store)
      /\ Len(st.log) <= Len(store.log) + 1
  <2>1. "asked" \in OnceName /\ e \in {Once("asked"), Silent(Once("asked"))}
    BY <1>1 DEF OnceName
  <2> QED
    BY <1>2, <2>1, OnceContinues DEF EInv
<1>6. ClientHolds(client, st)
  BY <1>5, ClientGoesOn DEF EInv, Rest
<1>7. LogHolds(store.log) /\ LogHolds(st.log) /\ Longer(store.log, st.log)
  BY <1>5 DEF EInv, Continues, StoreHolds
<1>8. /\ n \in Nat /\ Len(st.log) \in Nat
      /\ DOMAIN store.log = 1..n /\ DOMAIN st.log = 1..Len(st.log)
      /\ n <= Len(st.log) /\ Len(st.log) <= n + 1
  BY <1>3, <1>5, <1>7, LogStays DEF Longer
<1>9. n < Len(st.log)
  <2>1. <<"asked", 0>> \in Keys(st.log)
    <3>1. e.key = <<"asked", 0>>
      BY <1>1 DEF Once, Event
    <3> QED
      BY <1>5, <3>1 DEF Adds, Known, Keys
  <2>2. CASE Len(st.log) = n
    <3>1. DOMAIN st.log = DOMAIN store.log
      BY <1>8, <2>2
    <3>2. Keys(st.log) = Keys(store.log)
      BY <1>7, <3>1 DEF Longer, Keys
    <3> QED
      BY <1>4, <2>1, <3>2
  <2> QED
    BY <1>8, <2>2
<1>10. \A i \in DOMAIN st.log \ DOMAIN store.log : n # NoAsk /\ i = n + 1
  BY <1>8 DEF NoAsk
<1>11. ViewerHolds(viewer, st.log, n)
  BY <1>4, <1>7, <1>10, UnsentHolds DEF EInv
<1>12. DaemonHolds'
  BY <1>4, <1>8, <1>9 DEF EInv, DaemonHolds
<1> QED
  BY <1>4, <1>5, <1>6, <1>11, <1>12 DEF EInv, Continues

LEMMA ServerRequestDoneKeeps == EInv /\ ServerRequestDone => EInv'
<1> SUFFICES ASSUME EInv, ServerRequestDone PROVE EInv'
  OBVIOUS
<1>1. PICK e : e = Once("answered")
  OBVIOUS
<1>2. PICK st : st = Grown(store, <<e>>)
  OBVIOUS
<1>3. /\ store' = st /\ viewer' = Pushed(st.log, ask) /\ ask' = NoAsk
      /\ UNCHANGED <<up, client, faults>> /\ up = "up" /\ ask # NoAsk
  BY <1>1, <1>2 DEF ServerRequestDone
<1>4. Continues(store, st) /\ Adds(store.log, st.log, {e}) /\ Rest(st) = Rest(store)
  <2>1. "answered" \in OnceName /\ e \in {Once("answered"), Silent(Once("answered"))}
    BY <1>1 DEF OnceName
  <2> QED
    BY <1>2, <2>1, OnceContinues DEF EInv
<1>5. ClientHolds(client, st)
  BY <1>4, ClientGoesOn DEF EInv, Rest
<1>6. LogHolds(store.log) /\ LogHolds(st.log) /\ Longer(store.log, st.log)
  BY <1>4 DEF EInv, Continues, StoreHolds
<1>7. ask \in Nat /\ ask < Len(store.log)
  BY <1>3 DEF EInv, DaemonHolds
<1>8. e.key = <<"answered", 0>>
  BY <1>1 DEF Once, Event
<1>9. \A i \in DOMAIN st.log \ DOMAIN store.log : st.log[i].key = <<"answered", 0>>
  BY <1>4, <1>8 DEF Adds
<1>10. ViewerHolds(viewer', st.log, NoAsk)
  BY <1>3, <1>6, <1>7, <1>9, AwaitedHolds DEF EInv
<1>11. DaemonHolds'
  BY <1>3 DEF EInv, DaemonHolds
<1> QED
  BY <1>3, <1>4, <1>5, <1>10, <1>11 DEF EInv, Continues

LEMMA FinalizeKeeps == EInv /\ Finalize => EInv'
<1> SUFFICES ASSUME EInv, Finalize PROVE EInv'
  OBVIOUS
<1>1. PICK unchanged \in BOOLEAN :
         \/ Answered(refreshRunCoverage(FinalTold(store, unchanged)), client)
         \/ Cut({FinalRow(store, unchanged), FinalTold(store, unchanged),
                 refreshRunCoverage(FinalTold(store, unchanged))}, client)
  BY DEF Finalize, FinalTold, FinalRow
<1>2. PICK row : row = FinalRow(store, unchanged)
  OBVIOUS
<1>3. PICK told : told = FinalTold(store, unchanged)
  OBVIOUS
<1>4. PICK final : final = refreshRunCoverage(told)
  OBVIOUS
<1>5. Answered(final, client) \/ Cut({row, told, final}, client)
  BY <1>1, <1>2, <1>3, <1>4
<1>6. store.workspace = "active" /\ StoreHolds(store) /\ ClientHolds(client, store)
  BY DEF Finalize, Hosted, EInv
<1>7. /\ Continues(store, row) /\ row.run = store.run
      /\ Continues(store, told) /\ told.run = store.run
  BY <1>2, <1>3, <1>6, FinalContinues
<1>8. Continues(told, final) /\ final.log = told.log /\ final.run = told.run
  BY <1>4, <1>7, RefreshContinues DEF Continues
<1>9. Continues(store, final)
  <2>1. Len(final.log) <= Len(store.log) + 2
    BY <1>7, <1>8 DEF Continues, Longer
  <2> QED
    BY <1>6, <1>7, <1>8, <2>1, ContinuesOnwards
<1>10. \A st \in {row, told, final} : Continues(store, st) /\ ClientHolds(client, st)
  BY <1>6, <1>7, <1>8, <1>9, ClientGoesOn
<1>11. CASE Answered(final, client)
  BY <1>10, <1>11, AnsweredKeeps
<1>12. CASE Cut({row, told, final}, client)
  BY <1>10, <1>12, CutKeeps
<1> QED
  BY <1>5, <1>11, <1>12

LEMMA CrashKeeps == EInv /\ Crash => EInv'
<1> SUFFICES ASSUME EInv, Crash PROVE EInv'
  OBVIOUS
<1>1. Continues(store, store) /\ ClientHolds(client, store)
  BY StaysTheSame DEF EInv
<1> QED
  BY <1>1, DieKeeps DEF Crash

LEMMA StartKeeps == EInv /\ Start => EInv'
<1> SUFFICES ASSUME EInv, Start PROVE EInv'
  OBVIOUS
<1>1. /\ up = "down" /\ viewer.state # "open" /\ ask = NoAsk
      /\ UNCHANGED <<ask, client, viewer, faults>>
  BY DEF EInv, DaemonHolds, Start
<1>2. StoreHolds(store) /\ LogHolds(store.log) /\ ClientHolds(client, store)
  BY DEF EInv, StoreHolds
<1>3. CASE ~verifyRunChain(store.log)
  <2>1. up' = "refused" /\ store' = store
    BY <1>3 DEF Start
  <2>2. Len(store.log) \in Nat /\ ListLimit \in Nat
    BY <1>2, LogStays, StaysTheSame, LimitAssumption DEF Continues
  <2>3. Len(store.log) > ListLimit
    <3> SUFFICES ASSUME Len(store.log) <= ListLimit PROVE FALSE
      BY <2>2
    <3>1. 0 \in Nat /\ 0 <= Len(store.log) /\ Len(store.log) <= 0 + ListLimit
      BY <2>2
    <3>2. Len(listEvents(store.log, 0, ListLimit)) = Len(store.log) - 0
      BY <1>2, <2>2, <3>1, ListIs
    <3> QED
      BY <1>3, <2>2, <3>2 DEF verifyRunChain
  <2>4. DaemonHolds'
    BY <1>1, <2>1, <2>3 DEF EInv, DaemonHolds
  <2> QED
    BY <1>1, <2>1, <2>4 DEF EInv
<1>4. CASE verifyRunChain(store.log)
  <2>1. PICK st \in {store, transitionRun(store, "interrupted")} : store' = st
    BY <1>4 DEF Start
  <2>2. up' = "up"
    BY <1>4 DEF Start
  <2>3. Continues(store, st) /\ (st.run = store.run \/ st.run = "interrupted")
    <3>1. "interrupted" \in RunStatus \cap OnceName
      BY DEF RunStatus, OnceName
    <3>2. CASE st = store
      BY <1>2, <3>2, StaysTheSame
    <3>3. CASE st = transitionRun(store, "interrupted")
      BY <1>2, <3>1, <3>3, TransitionContinues
    <3> QED
      BY <2>1, <3>2, <3>3
  <2>4. ClientHolds(client, st)
    BY <1>2, <2>3, ClientGoesOn
  <2>5. LogHolds(st.log) /\ Longer(store.log, st.log)
    BY <2>3 DEF Continues, StoreHolds
  <2>6. ViewerHolds(viewer, st.log, ask)
    <3>1. ViewerHolds(Pushed(st.log, Len(store.log)), st.log, ask)
      BY <1>2, <2>5, PushedHolds DEF EInv
    <3> QED
      BY <1>1, <3>1 DEF Pushed
  <2>7. DaemonHolds'
    BY <1>1, <2>2 DEF EInv, DaemonHolds
  <2> QED
    BY <1>1, <2>1, <2>3, <2>4, <2>6, <2>7 DEF EInv, Continues
<1> QED
  BY <1>3, <1>4

-----------------------------------------------------------------------------
(* The console.                                                            *)

(* A step of the console alone.                                            *)
LEMMA WatchedKeeps ==
  ASSUME EInv, NEW v, viewer' = v, ViewerHolds(v, store.log, ask), up = "up" \/ v.state # "open",
         UNCHANGED <<store, up, ask, client>>, faults' \in {faults, faults + 1}
  PROVE  EInv'
<1>1. faults' \in Nat
  BY DEF EInv, DaemonHolds
<1>2. DaemonHolds'
  BY <1>1 DEF EInv, DaemonHolds
<1> QED
  BY <1>2 DEF EInv

LEMMA LoadKeeps == EInv /\ Load => EInv'
<1> SUFFICES ASSUME EInv, Load PROVE EInv'
  OBVIOUS
<1>1. PICK page : page = listEvents(store.log, 0, PageLimit)
  OBVIOUS
<1>2. PICK v : v = [viewer EXCEPT !.state = "loaded", !.shown = page, !.cursor = Len(page)]
  OBVIOUS
<1>3. viewer' = v /\ UNCHANGED <<store, up, ask, client, faults>> /\ viewer.state = "off"
  BY <1>1, <1>2 DEF Load
<1>4. PICK end : end = EndOf(store.log, 0, PageLimit)
  OBVIOUS
<1>5. LogHolds(store.log) /\ Len(store.log) \in Nat /\ PageLimit \in Nat
  BY LogStays, StaysTheSame, LimitAssumption DEF EInv, StoreHolds, Continues
<1>6. /\ end \in Nat /\ end <= Len(store.log)
      /\ page \in Seq(Nat) /\ Len(page) = end - 0
      /\ \A k \in DOMAIN page : page[k] = 0 + k
      /\ ToSet(page) = (0 + 1)..end
  <2>1. 0 \in Nat /\ 0 <= Len(store.log)
    BY <1>5
  <2>2. LogHolds(store.log) /\ PageLimit \in Nat
    BY <1>5
  <2> DEFINE list == listEvents(store.log, 0, PageLimit)
             last == EndOf(store.log, 0, PageLimit)
  <2>3. last \in Nat /\ last <= Len(store.log) /\ list \in Seq(Nat)
    BY <2>1, <2>2, ListIs
  <2>4. Len(list) = last - 0 /\ ToSet(list) = (0 + 1)..last
    BY <2>1, <2>2, ListIs
  <2>5. \A k \in DOMAIN list : list[k] = 0 + k
    BY <2>1, <2>2, ListIs
  <2> QED
    BY <1>1, <1>4, <2>3, <2>4, <2>5
<1>7. Len(page) = end /\ ToSet(page) = 1..end /\ DOMAIN page = 1..end
  BY <1>6
<1>8. viewer \in ViewerValue /\ viewer.chan = <<>> /\ viewer.since <= Len(store.log)
  BY <1>3 DEF EInv, ViewerHolds
<1>9. /\ v \in ViewerValue /\ v.state = "loaded" /\ v.shown = page /\ v.cursor = end
      /\ v.since = viewer.since /\ v.chan = <<>>
  BY <1>2, <1>6, <1>7, <1>8 DEF ViewerValue
<1>10. \A i, j \in DOMAIN page : page[i] = page[j] => i = j
  BY <1>6, <1>7
<1>11. ViewerHolds(v, store.log, ask)
  BY <1>6, <1>7, <1>8, <1>9, <1>10 DEF ViewerHolds
<1> QED
  BY <1>3, <1>9, <1>11, WatchedKeeps

LEMMA ConnectKeeps == EInv /\ Connect => EInv'
<1> SUFFICES ASSUME EInv, Connect PROVE EInv'
  OBVIOUS
<1>1. PICK list : list = listEvents(store.log, viewer.cursor, ListLimit)
  OBVIOUS
<1>2. PICK v : v = [viewer EXCEPT !.state = "open", !.since = Len(store.log), !.chan = list]
  OBVIOUS
<1>3. /\ viewer' = v /\ UNCHANGED <<store, up, ask, client, faults>> /\ up = "up"
      /\ viewer.state # "off"
  BY <1>1, <1>2 DEF Connect
<1>4. /\ viewer \in ViewerValue /\ viewer.cursor \in Nat /\ viewer.cursor <= Len(store.log)
      /\ 1..viewer.cursor \subseteq ToSet(viewer.shown)
      /\ \A i, j \in DOMAIN viewer.shown : viewer.shown[i] = viewer.shown[j] => i = j
  BY <1>3 DEF EInv, ViewerHolds, ViewerValue
<1>5. PICK end : end = EndOf(store.log, viewer.cursor, ListLimit)
  OBVIOUS
<1>6. /\ LogHolds(store.log) /\ Len(store.log) \in Nat /\ ListLimit \in Nat
      /\ DOMAIN store.log = 1..Len(store.log)
  BY LogStays, StaysTheSame, LimitAssumption DEF EInv, StoreHolds, Continues
<1>7. /\ end \in Nat /\ end <= Len(store.log)
      /\ end = Len(store.log) \/ end = viewer.cursor + ListLimit
      /\ list \in Seq(Nat) /\ ToSet(list) = (viewer.cursor + 1)..end
  <2>1. /\ LogHolds(store.log) /\ viewer.cursor \in Nat /\ viewer.cursor <= Len(store.log)
        /\ ListLimit \in Nat
    BY <1>4, <1>6
  <2> DEFINE listed == listEvents(store.log, viewer.cursor, ListLimit)
             last == EndOf(store.log, viewer.cursor, ListLimit)
  <2>2. /\ last \in Nat /\ last <= Len(store.log)
        /\ last = Len(store.log) \/ last = viewer.cursor + ListLimit
        /\ listed \in Seq(Nat) /\ ToSet(listed) = (viewer.cursor + 1)..last
    BY <2>1, ListIs
  <2> QED
    BY <1>1, <1>5, <2>2
<1>8. /\ v \in ViewerValue /\ v.state = "open" /\ v.shown = viewer.shown
      /\ v.cursor = viewer.cursor /\ v.since = Len(store.log) /\ v.chan = list
  BY <1>2, <1>4, <1>6, <1>7 DEF ViewerValue
<1>9. \A i \in DOMAIN store.log \ (ToSet(v.shown) \cup ToSet(v.chan)) : Spared(v, store.log, ask, i)
  <2> TAKE i \in DOMAIN store.log \ (ToSet(v.shown) \cup ToSet(v.chan))
  <2>1. i \in 1..Len(store.log) /\ i \notin 1..viewer.cursor /\ i \notin (viewer.cursor + 1)..end
    BY <1>4, <1>6, <1>7, <1>8
  <2>2. viewer.cursor + ListLimit < i
    BY <1>4, <1>6, <1>7, <2>1
  <2> QED
    BY <1>8, <2>2 DEF Spared
<1>10. ViewerHolds(v, store.log, ask)
  <2>1. Len(store.log) <= Len(store.log)
    BY <1>6
  <2> QED
    BY <1>4, <1>8, <1>9, <2>1 DEF ViewerHolds
<1> QED
  BY <1>3, <1>10, WatchedKeeps

LEMMA ReceiveKeeps == EInv /\ Receive => EInv'
<1> SUFFICES ASSUME EInv, Receive PROVE EInv'
  OBVIOUS
<1>1. PICK n : n = Head(viewer.chan)
  OBVIOUS
<1>2. PICK shown : shown = IF n \in ToSet(viewer.shown) THEN viewer.shown ELSE Append(viewer.shown, n)
  OBVIOUS
<1>3. PICK v : v = [viewer EXCEPT !.chan = Tail(@), !.shown = shown]
  OBVIOUS
<1>4. viewer' = v /\ UNCHANGED <<store, up, ask, client, faults>> /\ viewer.chan # <<>>
  BY <1>1, <1>2, <1>3 DEF Receive
<1>5. /\ viewer \in ViewerValue /\ viewer.state = "open"
      /\ ViewerHolds(viewer, store.log, ask) /\ viewer.shown \in Seq(Nat) /\ viewer.chan \in Seq(Nat)
  BY <1>4 DEF EInv, ViewerHolds, ViewerValue
<1>6. /\ n \in Nat /\ Tail(viewer.chan) \in Seq(Nat)
      /\ ToSet(viewer.chan) = ToSet(Tail(viewer.chan)) \cup {n}
  <2>1. viewer.chan = <<n>> \o Tail(viewer.chan) /\ n \in Nat /\ Tail(viewer.chan) \in Seq(Nat)
    BY <1>1, <1>4, <1>5
  <2>2. <<n>> \in Seq(Nat) /\ ToSet(<<n>>) = {n}
    BY <2>1 DEF ToSet
  <2>3. ToSet(<<n>> \o Tail(viewer.chan)) = {n} \cup ToSet(Tail(viewer.chan))
    BY <2>1, <2>2, ToSetOfConcat
  <2> QED
    BY <2>1, <2>3
<1>7. /\ shown \in Seq(Nat) /\ ToSet(shown) = ToSet(viewer.shown) \cup {n}
      /\ \A i, j \in DOMAIN shown : shown[i] = shown[j] => i = j
  <2>1. \A i, j \in DOMAIN viewer.shown : viewer.shown[i] = viewer.shown[j] => i = j
    BY <1>5 DEF ViewerHolds
  <2>2. CASE n \in ToSet(viewer.shown)
    BY <1>2, <1>5, <2>1, <2>2
  <2>3. CASE n \notin ToSet(viewer.shown)
    <3>1. PICK k : k = Len(viewer.shown) + 1
      OBVIOUS
    <3>2. /\ shown \in Seq(Nat) /\ DOMAIN shown = 1..k /\ shown[k] = n
          /\ \A i \in DOMAIN viewer.shown : shown[i] = viewer.shown[i]
          /\ DOMAIN viewer.shown = 1..(k - 1) /\ k \in Nat \ {0}
      BY <1>2, <1>5, <1>6, <2>3, <3>1
    <3>3. 1..k = 1..(k - 1) \cup {k} /\ k \notin 1..(k - 1)
      BY <3>2
    <3>4. ToSet(shown) = ToSet(viewer.shown) \cup {n}
      BY <3>2, <3>3 DEF ToSet
    <3>5. \A i \in DOMAIN viewer.shown : shown[i] # n
      BY <2>3, <3>2 DEF ToSet
    <3> QED
      BY <2>1, <3>2, <3>3, <3>4, <3>5
  <2> QED
    BY <2>2, <2>3
<1>8. /\ v \in ViewerValue /\ v.state = "open" /\ v.shown = shown /\ v.cursor = viewer.cursor
      /\ v.since = viewer.since /\ v.chan = Tail(viewer.chan)
  BY <1>3, <1>5, <1>6, <1>7 DEF ViewerValue
<1>9. \A i : Spared(viewer, store.log, ask, i) => Spared(v, store.log, ask, i)
  BY <1>8 DEF Spared
<1>10. ToSet(v.shown) \cup ToSet(v.chan) = ToSet(viewer.shown) \cup ToSet(viewer.chan)
  BY <1>6, <1>7, <1>8
<1>11. ViewerHolds(v, store.log, ask)
  BY <1>5, <1>7, <1>8, <1>9, <1>10 DEF ViewerHolds
<1>12. up = "up"
  BY <1>5 DEF EInv, DaemonHolds
<1> QED
  BY <1>4, <1>11, <1>12, WatchedKeeps

LEMMA BreakKeeps == EInv /\ Break => EInv'
<1> SUFFICES ASSUME EInv, Break PROVE EInv'
  OBVIOUS
<1>1. LogHolds(store.log) /\ Longer(store.log, store.log)
  BY StaysTheSame DEF EInv, StoreHolds, Continues
<1>2. ViewerHolds(Unplugged, store.log, ask) /\ Unplugged.state # "open"
  BY <1>1, UnpluggedHolds DEF EInv
<1> HIDE DEF Unplugged
<1> QED
  BY <1>2, WatchedKeeps DEF Break

-----------------------------------------------------------------------------
(* The invariant                                                           *)

LEMMA EInit == Init => EInv
<1> SUFFICES ASSUME Init PROVE EInv
  OBVIOUS
<1>1. PICK mode \in {"exec", "codex", "api", "hosted"} :
         /\ client = [mode |-> mode, pc |-> IF mode \in {"exec", "codex"} THEN "create" ELSE "none",
                      ok |-> FALSE, err |-> FALSE, outputs |-> {}, lines |-> 0, told |-> {}, api |-> 0]
         /\ store = IF mode \in {"exec", "codex"} THEN EmptyStore ELSE StartedStore(mode)
  BY DEF Init
<1>2. /\ store.log = <<>> \/ store.log = <<Once("created"), Once("running")>>
      /\ store.run \in {"none", "running"} /\ store.rows = {} /\ store.files = {}
      /\ store.workspace \in {"none", "active"} /\ store.parsed = {} /\ store.level = "none"
      /\ store = [run |-> store.run, log |-> store.log, rows |-> store.rows, files |-> store.files,
                  workspace |-> store.workspace, parsed |-> store.parsed, level |-> store.level]
  BY <1>1 DEF EmptyStore, StartedStore
<1>3. LogHolds(store.log) /\ \A i \in DOMAIN store.log : /\ store.log[i].blobs = {}
                                                         /\ store.log[i].key[1] \in {"created", "running"}
  <2>1. CASE store.log = <<>>
    <3>1. DOMAIN store.log = {} /\ store.log \in Seq(EventValue)
      BY <2>1
    <3> QED
      BY <3>1 DEF LogHolds
  <2>2. CASE store.log = <<Once("created"), Once("running")>>
    <3>1. PICK a : a = Once("created")
      OBVIOUS
    <3>2. PICK b : b = Once("running")
      OBVIOUS
    <3>3. /\ a \in EventValue /\ a.key = <<"created", 0>> /\ a.blobs = {} /\ a.fp = 0
          /\ a.key[1] = "created"
      BY <3>1 DEF Once, Event, EventValue, EventName, OnceName
    <3>4. /\ b \in EventValue /\ b.key = <<"running", 0>> /\ b.blobs = {} /\ b.fp = 0
          /\ b.key[1] = "running"
      BY <3>2 DEF Once, Event, EventValue, EventName, OnceName
    <3>5. Fits(a, 0) /\ Fits(b, 1)
      BY <3>3, <3>4 DEF Fits
    <3>6. /\ store.log \in Seq(EventValue) /\ DOMAIN store.log = {1, 2}
          /\ store.log[1] = a /\ store.log[2] = b
      BY <2>2, <3>1, <3>2, <3>3, <3>4
    <3>7. a.key # b.key
      BY <3>3, <3>4
    <3>8. \A i \in DOMAIN store.log : Fits(store.log[i], i - 1)
      BY <3>5, <3>6
    <3> QED
      BY <3>3, <3>4, <3>6, <3>7, <3>8 DEF LogHolds
  <2> QED
    BY <1>2, <2>1, <2>2
<1>4. StoreHolds(store)
  <2>1. store \in StoreValue
    BY <1>2, <1>3 DEF StoreValue, RunStatus, LogHolds
  <2>2. ASSUME NEW name \in {"p", "q", "changed"} PROVE <<name, 0>> \notin Keys(store.log)
    <3>1. \A i \in DOMAIN store.log : store.log[i].key # <<name, 0>>
      BY <1>3
    <3> QED
      BY <3>1 DEF Keys
  <2>3. PairIsWhole(store.log) /\ <<"changed", 0>> \notin Keys(store.log)
    BY <2>2 DEF PairIsWhole
  <2>4. Resolves(store) /\ CoverageHolds(store)
    BY <1>2, <1>3, <2>3 DEF Resolves, CoverageHolds
  <2> QED
    BY <1>3, <2>1, <2>3, <2>4 DEF StoreHolds
<1>5. ClientHolds(client, store)
  <2>1. /\ client \in ClientValue /\ client.mode = mode /\ client.told = {} /\ client.outputs = {}
        /\ client.pc = IF mode \in {"exec", "codex"} THEN "create" ELSE "none"
    BY <1>1 DEF ClientValue, CollectorStep
  <2> QED
    BY <1>2, <2>1 DEF ClientHolds, CollectorStep
<1>6. /\ up = "up" /\ ask = NoAsk /\ faults = 0
      /\ viewer = [state |-> "off", shown |-> <<>>, cursor |-> 0, since |-> 0, chan |-> <<>>]
  BY DEF Init
<1>7. ViewerHolds(viewer, store.log, ask)
  <2>1. Len(store.log) \in Nat
    BY <1>3 DEF LogHolds
  <2>2. 0 <= Len(store.log)
    BY <2>1
  <2>3. /\ viewer \in ViewerValue /\ DOMAIN viewer.shown = {} /\ viewer.state = "off"
        /\ viewer.chan = <<>> /\ viewer.shown = <<>> /\ viewer.cursor = 0 /\ viewer.since = 0
    BY <1>6 DEF ViewerValue
  <2> QED
    BY <2>2, <2>3 DEF ViewerHolds
<1>8. DaemonHolds
  BY <1>6 DEF DaemonHolds
<1> QED
  BY <1>4, <1>5, <1>7, <1>8 DEF EInv

LEMMA EStep == EInv /\ [Next]_vars => EInv'
<1> SUFFICES ASSUME EInv, [Next]_vars PROVE EInv'
  OBVIOUS
<1>1. CASE Collector
  BY <1>1, CreateRunKeeps, AppendOpeningKeeps, ExecuteKeeps, UploadOutputKeeps, HandleLineKeeps,
     StreamKeeps, AppendFinalKeeps, SetStatusKeeps DEF Collector
<1>2. CASE Kill \/ Retry \/ RetryBlob \/ ExpireOnRead
  BY <1>2, KillKeeps, RetryKeeps, RetryBlobKeeps, ExpireOnReadKeeps
<1>3. CASE Daemon
  BY <1>3, OnNotificationKeeps, OnServerRequestKeeps, ServerRequestDoneKeeps, FinalizeKeeps,
     CrashKeeps, StartKeeps DEF Daemon
<1>4. CASE Console
  BY <1>4, LoadKeeps, ConnectKeeps, ReceiveKeeps, BreakKeeps DEF Console
<1>5. CASE UNCHANGED vars
  BY <1>5 DEF vars, EInv, DaemonHolds
<1> QED
  BY <1>1, <1>2, <1>3, <1>4, <1>5 DEF Next

(* What holds of the store, the collector, the console and the daemon      *)
(* after any number of calls, deaths and broken streams.                   *)
THEOREM RecordingInvariance == Spec => []EInv
BY EInit, EStep, PTL DEF Spec

(* A log has as many keys as events.                                       *)
LEMMA OncePerKey ==
  ASSUME NEW log, LogHolds(log)
  PROVE  Cardinality(Keys(log)) = Len(log)
<1> DEFINE S == 1..Len(log)
           f == [i \in S |-> log[i].key]
<1>1. Len(log) \in Nat /\ DOMAIN log = S
  BY DEF LogHolds
<1>2. IsFiniteSet(S) /\ Cardinality(S) = Len(log)
  <2>1. 1 \in Int /\ Len(log) \in Int
    BY <1>1
  <2>2. IsFiniteSet(S) /\ Cardinality(S) = IF 1 > Len(log) THEN 0 ELSE Len(log) - 1 + 1
    BY <2>1, FS_Interval
  <2> QED
    BY <1>1, <2>2
<1>3. \A i \in S : f[i] \in Keys(log)
  BY <1>1 DEF Keys
<1>4. f \in [S -> Keys(log)]
  BY <1>3
<1>5. \A i, j \in S : f[i] = f[j] => i = j
  BY <1>1 DEF LogHolds
<1>6. \A key \in Keys(log) : \E i \in S : f[i] = key
  BY <1>1 DEF Keys
<1>7. f \in Bijection(S, Keys(log))
  BY <1>4, <1>5, <1>6 DEF Bijection, Injection, Surjection, IsInjective
<1>8. ExistsBijection(S, Keys(log))
  BY <1>7 DEF ExistsBijection
<1> HIDE DEF S
<1> QED
  BY <1>2, <1>8, FS_Bijection

(* Whatever is sent again and wherever the daemon dies: each key is logged *)
(* once, and the two events of a batch are both there or both missing.     *)
THEOREM BatchesStayWhole == Spec => []BatchesAreWholeAndOnce
<1>1. EInv => BatchesAreWholeAndOnce
  <2> SUFFICES ASSUME EInv PROVE BatchesAreWholeAndOnce
    OBVIOUS
  <2>1. StoreHolds(store) /\ store \in StoreValue /\ LogHolds(store.log)
    BY DEF EInv, StoreHolds
  <2>2. /\ store.run \in RunStatus /\ store.rows \subseteq {Output} /\ store.files \subseteq {Output}
        /\ store.level \in {"none", "L0", "L1", "L2"}
    BY <2>1 DEF StoreValue
  <2>3. viewer.state \in {"off", "loaded", "open", "broken"}
    BY DEF EInv, ViewerHolds, ViewerValue
  <2>4. TypeOK
    BY <2>2, <2>3 DEF TypeOK, RunStatus, EInv, DaemonHolds
  <2> QED
    BY <2>1, <2>4, OncePerKey DEF BatchesAreWholeAndOnce, StoreHolds, PairIsWhole
<1> QED
  BY <1>1, RecordingInvariance, PTL

(* A blob that an event names has a row and a file, whichever deaths came  *)
(* between the file and the row.                                           *)
THEOREM ReferencesResolve == Spec => []EveryReferenceResolves
<1>1. EInv => EveryReferenceResolves
  BY DEF EInv, StoreHolds, Resolves, EveryReferenceResolves
<1> QED
  BY <1>1, RecordingInvariance, PTL

(* A completed capture has its final event, its output and every line that *)
(* was printed, and no coverage is claimed that the rows do not bear out.  *)
THEOREM NothingIsClaimedInVain == Spec => []NothingIsOverstated
<1>1. EInv => NothingIsOverstated
  <2> SUFFICES ASSUME EInv PROVE NothingIsOverstated
    OBVIOUS
  <2>1. ClientHolds(client, store) /\ CoverageHolds(store)
    BY DEF EInv, StoreHolds
  <2>2. CompletedMeansRecorded
    BY <2>1 DEF ClientHolds, LineKept, CompletedMeansRecorded
  <2>3. CoverageNeverOverstates
    BY <2>1 DEF CoverageHolds, CoverageNeverOverstates
  <2> QED
    BY <2>2, <2>3 DEF NothingIsOverstated
<1> QED
  BY <1>1, RecordingInvariance, PTL

(* A console shows no event twice, and one that has received all it was    *)
(* sent lacks only events that the code is known not to send it.           *)
THEOREM ViewsAreFaithful == Spec => []ViewIsFaithful
<1>1. EInv => ViewIsFaithful
  <2> SUFFICES ASSUME EInv PROVE ViewIsFaithful
    OBVIOUS
  <2>1. ViewerHolds(viewer, store.log, ask)
    BY DEF EInv
  <2>2. IsInjective(viewer.shown)
    BY <2>1 DEF ViewerHolds, IsInjective
  <2>3. ASSUME viewer.state = "open", viewer.chan = <<>>,
               NEW i \in DOMAIN store.log \ ToSet(viewer.shown)
        PROVE  \/ viewer.cursor + ListLimit < i
               \/ /\ viewer.since < i
                  /\ \/ store.log[i].silent
                     \/ ask # NoAsk /\ ask < i
                     \/ store.log[i].key = <<"answered", 0>> /\ ListLimit < i
    <3>1. ToSet(viewer.chan) = {}
      BY <2>3 DEF ToSet
    <3>2. Spared(viewer, store.log, ask, i)
      BY <2>1, <2>3, <3>1 DEF ViewerHolds
    <3>3. ask # NoAsk /\ i = ask + 1 => ask < i
      BY DEF EInv, DaemonHolds, NoAsk
    <3> QED
      BY <3>2, <3>3 DEF Spared
  <2> QED
    BY <2>2, <2>3 DEF ViewIsFaithful
<1> QED
  BY <1>1, RecordingInvariance, PTL

(* A daemon that refuses to start refuses for the length of a run alone.   *)
THEOREM OnlyLongRunsAreRefused == Spec => []RefusesOnlyLongRuns
<1>1. EInv => RefusesOnlyLongRuns
  BY DEF EInv, DaemonHolds, RefusesOnlyLongRuns
<1> QED
  BY <1>1, RecordingInvariance, PTL

-----------------------------------------------------------------------------
(* REPLAY                                                                  *)

-----------------------------------------------------------------------------
(* The places of a call, and what its variables can hold.                  *)
Before    == {"fingerprint", "restore", "verify", "run"}
Working   == {"execute", "checkZero", "checkOther", "recordZero", "recordOther"}
Replaying == {"row", "replay", "compare", "catch", "catchReplay", "final"}
                 \cup Before \cup Working
Place     == {"idle", "read", "commit"} \cup Replaying

Checkpoint == [made: BOOLEAN, manifest: Tree, diff: Tree, quiet: BOOLEAN]
Call == [at: Place, i: Nat \ {0}, listed: SUBSET Path, draft: Checkpoint, before: Tree]

Values ==
  /\ ReplayTypeOK
  /\ checkpoint \in Checkpoint
  /\ h \in Call

(* A checkpoint that restores to what it lists.                            *)
Faithful(cp) == Restored(cp) = cp.manifest

(* The checkpoint being read, the one that was made, and the tree the      *)
(* command is about to see.                                                *)
ReadHolds ==
  /\ h.at \in {"read", "commit"} => ~checkpoint.made
  /\ h.at = "read" /\ h.draft.quiet =>
       /\ h.listed = Tracked \cup Untracked(source)
       /\ \A j \in DOMAIN Order : j < h.i => h.draft.manifest[Order[j]] = source[Order[j]]
  /\ h.at = "commit" /\ h.draft.quiet => Faithful(h.draft)
  /\ checkpoint.made /\ checkpoint.quiet => Faithful(checkpoint)
  /\ h.at \in {"run", "replay", "execute"} => worktree = checkpoint.manifest

(* The two rows, by the place the call has reached.                        *)
RowsHold ==
  /\ ~checkpoint.made => run = "none"
  /\ run = "none" => replay = "none" /\ left = "no" /\ answer = "none" /\ h.at \notin Replaying
  /\ h.at \in Replaying => left = "no" /\ answer = "none"
  /\ h.at = "row" => run = "created" /\ replay = "none"
  /\ h.at \in Before => run = "created" /\ replay = "queued"
  /\ h.at = "replay" => run = "running" /\ replay = "queued"
  /\ h.at \in Working => run = "running" /\ replay = "running"
  /\ h.at = "compare" => run \in Terminal /\ replay = "running"
  /\ h.at \in {"catch", "catchReplay"} => replay \in {"queued", "running"}
  /\ h.at = "catchReplay" => run \in Terminal
  /\ h.at = "final" => run \in Terminal /\ replay \in Terminal

RInv == Values /\ ReadHolds /\ RowsHold /\ ReplayTellsTheRun

-----------------------------------------------------------------------------
(* Lemmas about trees and about the values of a call.                      *)

LEMMA EmptyTreeIsATree == EmptyTree \in Tree
  BY DEF EmptyTree, Tree

LEMMA NoCheckpointValues ==
  /\ NoCheckpoint \in Checkpoint
  /\ NoCheckpoint.made = FALSE
  BY EmptyTreeIsATree DEF NoCheckpoint, Checkpoint

LEMMA IdleValues ==
  /\ Idle \in Call
  /\ Idle.at = "idle"
  BY EmptyTreeIsATree, NoCheckpointValues DEF Idle, Call, Place

(* What git restores from a checkpoint is a tree.                          *)
LEMMA RestoredIsATree ==
  ASSUME NEW cp \in Checkpoint
  PROVE  Restored(cp) \in Tree
  BY DEF Restored, Checkpoint, Tree

LEMMA DiffedIsATree ==
  ASSUME NEW t \in Tree
  PROVE  Diffed(t) \in Tree
  BY DEF Diffed, Tree

(* A manifest that lists the workspace as it is, with the diff of the same *)
(* workspace, restores to that workspace: deleted paths, and paths taken   *)
(* out of the index, included.                                             *)
LEMMA WholeIsFaithful ==
  ASSUME NEW t \in Tree, NEW cp \in Checkpoint,
         cp.manifest = t, cp.diff = Diffed(t)
  PROVE  Faithful(cp)
<1>1. \A p \in Path : Restored(cp)[p] = t[p]
  BY DEF Restored, Diffed, Tree
<1>2. Restored(cp) \in Tree
  BY RestoredIsATree
<1> QED
  BY <1>1, <1>2 DEF Faithful, Tree

(* Once the reading is past the last path every path has been read.        *)
LEMMA AllAreRead ==
  ASSUME NEW i \in Nat \ {0}, i \notin DOMAIN Order, NEW p \in Path
  PROVE  \E j \in DOMAIN Order : j < i /\ Order[j] = p
<1>1. Cardinality(Path) \in Nat
  BY ReplayAssumption, FS_CardinalityType
<1>2. DOMAIN Order = 1..Cardinality(Path)
  BY ReplayAssumption
<1>3. \A j \in DOMAIN Order : j < i
  BY <1>1, <1>2
<1>4. PICK j \in DOMAIN Order : Order[j] = p
  BY ReplayAssumption
<1> QED
  BY <1>3, <1>4

(* A move to another place changes nothing else of the call.               *)
LEMMA GotoValues ==
  ASSUME h \in Call, NEW at \in Place, Goto(at)
  PROVE  /\ h' \in Call
         /\ h'.at = at
         /\ h'.i = h.i /\ h'.listed = h.listed
         /\ h'.draft = h.draft /\ h'.before = h.before
  BY DEF Goto, Call

-----------------------------------------------------------------------------
(* The invariant holds at first, and a step that leaves everything alone   *)
(* keeps it.                                                               *)

LEMMA InitHolds == ReplayInit => RInv
<1> SUFFICES ASSUME ReplayInit PROVE RInv
  OBVIOUS
<1>1. Values
  BY IdleValues, NoCheckpointValues, EmptyTreeIsATree
     DEF ReplayInit, Values, ReplayTypeOK, NoCheckpoint
<1>2. ReadHolds /\ RowsHold
  BY IdleValues, NoCheckpointValues DEF ReplayInit, ReadHolds, RowsHold, Replaying, Before, Working
<1>3. ReplayTellsTheRun
  BY <1>1 DEF Values, ReplayInit, ReplayTellsTheRun, Terminal
<1> QED
  BY <1>1, <1>2, <1>3 DEF RInv

LEMMA NothingHappens ==
  ASSUME RInv, UNCHANGED replayVars
  PROVE  RInv'
<1> USE DEF replayVars
<1>1. Values'
  BY DEF RInv, Values, ReplayTypeOK
<1>2. ReadHolds'
  BY DEF RInv, ReadHolds
<1>3. RowsHold'
  BY DEF RInv, RowsHold
<1>4. ReplayTellsTheRun'
  BY DEF RInv, ReplayTellsTheRun, ReplayTypeOK
<1> QED
  BY <1>1, <1>2, <1>3, <1>4 DEF RInv

(* A checkpoint that was made stays as good as it was while nothing is     *)
(* read; what remains is the tree the command is to see.                   *)
LEMMA ReadAside ==
  ASSUME ReadHolds, checkpoint' = checkpoint, h'.at \notin {"read", "commit"},
         h'.at \in {"run", "replay", "execute"} => worktree' = checkpoint.manifest
  PROVE  ReadHolds'
<1>1. checkpoint'.made /\ checkpoint'.quiet => Faithful(checkpoint)'
  BY DEF ReadHolds, Faithful, Restored
<1> QED
  BY <1>1 DEF ReadHolds

(* The rows say what they said.                                            *)
LEMMA RowsAside ==
  ASSUME RInv, Values', UNCHANGED <<run, replay, left, answer>>,
         checkpoint'.made = checkpoint.made,
         h'.at = h.at \/ {h.at, h'.at} \subseteq {"read", "commit", "idle"},
         h.at = "idle" \/ h'.at # "idle" \/ run = "none"
  PROVE  RowsHold' /\ ReplayTellsTheRun'
<1>1. RowsHold'
  BY DEF RInv, RowsHold, Replaying, Before, Working
<1>2. ReplayTellsTheRun'
  BY DEF RInv, ReplayTellsTheRun, Values
<1> QED
  BY <1>1, <1>2

-----------------------------------------------------------------------------
(* Taking a checkpoint.                                                    *)

(* While a checkpoint is read or committed there is no run yet.            *)
LEMMA NoRunYet ==
  ASSUME RInv, h.at \in {"read", "commit"}
  PROVE  run = "none" /\ checkpoint.made = FALSE
  BY DEF RInv, ReadHolds, RowsHold, Values, Checkpoint

LEMMA StartCheckpointKeeps ==
  ASSUME RInv, StartCheckpoint
  PROVE  RInv'
<1> USE DEF StartCheckpoint
<1>1. /\ h' \in Call
      /\ h'.at = "read" /\ h'.i = 1
      /\ h'.listed = Tracked \cup Untracked(source)
  BY IdleValues, ReplayAssumption DEF Idle, Call, Place, Untracked
<1>2. UNCHANGED <<source, worktree, checkpoint, run, replay, left, answer>>
  BY DEF records, world
<1>3. Values'
  BY <1>1, <1>2 DEF RInv, Values, ReplayTypeOK
<1>4. ReadHolds'
  <2>1. \A j \in DOMAIN Order : ~(j < h'.i)
    BY <1>1, ReplayAssumption, FS_CardinalityType
  <2>2. ~checkpoint'.made
    BY <1>2
  <2>3. Untracked(source)' = Untracked(source)
    BY <1>2 DEF Untracked
  <2> QED
    BY <1>1, <1>2, <2>1, <2>2, <2>3 DEF ReadHolds
<1>5. RowsHold' /\ ReplayTellsTheRun'
  BY <1>1, <1>2, <1>3, RowsAside
<1> QED
  BY <1>3, <1>4, <1>5 DEF RInv

(* The path just read is as it is in the workspace: one that was not       *)
(* listed was not there.                                                   *)
LEMMA ReadPathKeeps ==
  ASSUME RInv, ReadPath
  PROVE  RInv'
<1> DEFINE p == Order[h.i]
           found == IF p \in h.listed THEN source[p] ELSE Absent
<1>1. p \in Path /\ h.i \in Nat \ {0} /\ h.i \in DOMAIN Order
  BY ReplayAssumption DEF RInv, Values, Call, ReadPath
<1>2. found \in Content \cup {Absent}
  BY <1>1 DEF RInv, Values, ReplayTypeOK, Tree
<1>3. h' = [h EXCEPT !.i = @ + 1, !.draft.manifest[p] = found]
  BY DEF ReadPath
<1>4. h.draft \in Checkpoint /\ h.draft.manifest \in Tree
  BY DEF RInv, Values, Call, Checkpoint
<1>5. /\ h'.at = h.at /\ h'.i = h.i + 1 /\ h'.listed = h.listed /\ h'.before = h.before
      /\ h'.draft = [h.draft EXCEPT !.manifest[p] = found]
  BY <1>3 DEF RInv, Values, Call
<1>6. /\ h'.draft.manifest = [h.draft.manifest EXCEPT ![p] = found]
      /\ h'.draft.quiet = h.draft.quiet
  BY <1>4, <1>5 DEF Checkpoint
<1>7. h'.draft.manifest \in Tree
  BY <1>1, <1>2, <1>4, <1>6 DEF Tree
<1>8. h' \in Call
  <2>1. h'.draft \in Checkpoint
    BY <1>4, <1>5, <1>6, <1>7 DEF Checkpoint
  <2>2. h'.i \in Nat \ {0}
    BY <1>1, <1>5
  <2>3. h' = [at |-> h.at, i |-> h'.i, listed |-> h.listed, draft |-> h'.draft,
              before |-> h.before]
    BY <1>3, <1>5 DEF RInv, Values, Call
  <2> QED
    BY <2>1, <2>2, <2>3 DEF RInv, Values, Call
<1>9. UNCHANGED <<source, worktree, checkpoint, run, replay, left, answer>>
  BY DEF ReadPath, records, world
<1>10. Values'
  BY <1>8, <1>9 DEF RInv, Values, ReplayTypeOK
<1>11. h.draft.quiet => found = source[p]
  <2> SUFFICES ASSUME h.draft.quiet PROVE p \in h.listed \/ source[p] = Absent
    OBVIOUS
  <2>1. h.listed = Tracked \cup Untracked(source)
    BY DEF RInv, ReadHolds, ReadPath
  <2> QED
    BY <1>1, <2>1 DEF Untracked
<1>12. ReadHolds'
  <2>1. ~checkpoint'.made
    BY <1>9 DEF RInv, ReadHolds, ReadPath
  <2>2. h'.at = "read"
    BY <1>5 DEF ReadPath
  <2>3. h'.draft.quiet => h'.listed = Tracked \cup Untracked(source)'
    BY <1>5, <1>6, <1>9 DEF RInv, ReadHolds, ReadPath, Untracked
  <2>4. ASSUME h'.draft.quiet, NEW j \in DOMAIN Order, j < h'.i
        PROVE  h'.draft.manifest[Order[j]] = source'[Order[j]]
    <3>1. j \in Nat
      BY ReplayAssumption, FS_CardinalityType
    <3>2. Order[j] \in Path
      BY ReplayAssumption
    <3>3. CASE Order[j] = p
      BY <1>4, <1>6, <1>9, <1>11, <2>4, <3>2, <3>3 DEF Tree
    <3>4. CASE Order[j] # p
      <4>1. j < h.i
        BY <1>1, <1>5, <2>4, <3>1, <3>4
      <4>2. h.draft.manifest[Order[j]] = source[Order[j]]
        BY <1>6, <2>4, <4>1 DEF RInv, ReadHolds, ReadPath
      <4> QED
        BY <1>4, <1>6, <1>9, <3>2, <3>4, <4>2 DEF Tree
    <3> QED
      BY <3>3, <3>4
  <2> QED
    BY <2>1, <2>2, <2>3, <2>4 DEF ReadHolds
<1>13. RowsHold' /\ ReplayTellsTheRun'
  BY <1>5, <1>9, <1>10, RowsAside
<1> QED
  BY <1>10, <1>12, <1>13 DEF RInv

(* The diff is of the same workspace as the manifest if nobody has edited  *)
(* it since the first path was read.                                       *)
LEMMA ReadDiffKeeps ==
  ASSUME RInv, ReadDiff
  PROVE  RInv'
<1>1. h.draft \in Checkpoint /\ h.i \in Nat \ {0} /\ h.i \notin DOMAIN Order
  BY DEF RInv, Values, Call, ReadDiff
<1>2. Diffed(source) \in Tree
  BY DiffedIsATree DEF RInv, Values, ReplayTypeOK
<1>3. /\ h'.at = "commit" /\ h'.i = h.i /\ h'.listed = h.listed /\ h'.before = h.before
      /\ h'.draft = [h.draft EXCEPT !.diff = Diffed(source)]
  BY DEF RInv, Values, Call, ReadDiff
<1>4. /\ h'.draft \in Checkpoint
      /\ h'.draft.manifest = h.draft.manifest /\ h'.draft.quiet = h.draft.quiet
      /\ h'.draft.diff = Diffed(source)
  BY <1>1, <1>2, <1>3 DEF Checkpoint
<1>5. h' \in Call
  <2>1. h' = [at |-> "commit", i |-> h.i, listed |-> h.listed, draft |-> h'.draft,
              before |-> h.before]
    BY <1>3 DEF RInv, Values, Call, ReadDiff
  <2> QED
    BY <1>4, <2>1 DEF RInv, Values, Call, Place
<1>6. UNCHANGED <<source, worktree, checkpoint, run, replay, left, answer>>
  BY DEF ReadDiff, records, world
<1>7. Values'
  BY <1>5, <1>6 DEF RInv, Values, ReplayTypeOK
<1>8. ReadHolds'
  <2>1. ~checkpoint'.made
    BY <1>6 DEF RInv, ReadHolds, ReadDiff
  <2>2. ASSUME h'.draft.quiet PROVE Faithful(h'.draft)
    <3>1. \A q \in Path : h.draft.manifest[q] = source[q]
      BY <1>1, <1>4, <2>2, AllAreRead DEF RInv, ReadHolds, ReadDiff
    <3>2. h.draft.manifest = source
      BY <1>1, <3>1 DEF RInv, Values, ReplayTypeOK, Tree, Checkpoint
    <3> QED
      BY <1>4, <3>2, WholeIsFaithful DEF RInv, Values, ReplayTypeOK
  <2>3. h'.draft.quiet => Faithful(h.draft)'
    BY <2>2 DEF Faithful, Restored
  <2> QED
    BY <1>3, <2>1, <2>3 DEF ReadHolds
<1>9. RowsHold' /\ ReplayTellsTheRun'
  BY <1>3, <1>6, <1>7, RowsAside DEF ReadDiff
<1> QED
  BY <1>7, <1>8, <1>9 DEF RInv

LEMMA CommitCheckpointKeeps ==
  ASSUME RInv, CommitCheckpoint
  PROVE  RInv'
<1> USE DEF CommitCheckpoint
<1>1. h' \in Call /\ h'.at = "idle"
  BY IdleValues
<1>2. UNCHANGED <<source, worktree, run, replay, left, answer>>
  BY DEF world
<1>3. /\ checkpoint' \in Checkpoint
      /\ checkpoint'.made = TRUE
      /\ checkpoint'.manifest = h.draft.manifest /\ checkpoint'.diff = h.draft.diff
      /\ checkpoint'.quiet = h.draft.quiet
  BY DEF RInv, Values, Call, Checkpoint
<1>4. Values'
  BY <1>1, <1>2, <1>3 DEF RInv, Values, ReplayTypeOK, Checkpoint
<1>5. ReadHolds'
  <2>1. h.draft.quiet => Faithful(h.draft)
    BY DEF RInv, ReadHolds
  <2>2. checkpoint'.quiet => Faithful(checkpoint)'
    BY <1>3, <2>1 DEF Faithful, Restored
  <2> QED
    BY <1>1, <2>2 DEF ReadHolds
<1>6. run = "none"
  BY NoRunYet
<1>7. RowsHold' /\ ReplayTellsTheRun'
  BY <1>1, <1>2, <1>3, <1>4, <1>6
     DEF RInv, RowsHold, ReplayTellsTheRun, Values, Replaying, Before, Working, Terminal
<1> QED
  BY <1>4, <1>5, <1>7 DEF RInv

LEMMA CheckpointFailsKeeps ==
  ASSUME RInv, CheckpointFails
  PROVE  RInv'
<1> USE DEF CheckpointFails
<1>1. h' \in Call /\ h'.at = "idle"
  BY IdleValues
<1>2. UNCHANGED <<source, worktree, checkpoint, run, replay, left, answer>>
  BY DEF records, world
<1>3. Values'
  BY <1>1, <1>2 DEF RInv, Values, ReplayTypeOK
<1>4. ReadHolds'
  BY <1>1, <1>2, ReadAside DEF RInv
<1>5. run = "none"
  BY NoRunYet
<1>6. RowsHold' /\ ReplayTellsTheRun'
  BY <1>1, <1>2, <1>3, <1>5, RowsAside
<1> QED
  BY <1>3, <1>4, <1>6 DEF RInv

-----------------------------------------------------------------------------
(* Running a replay.                                                       *)

(* A step that goes from one place of the replay to another, and writes no *)
(* more than the worktree.                                                 *)
LEMMA Proceeds ==
  ASSUME RInv, NEW at \in Place, Goto(at),
         UNCHANGED <<source, checkpoint>>,
         worktree' \in Tree,
         run' \in {"created", "running", "completed", "failed"},
         replay' \in {"none", "queued", "running", "completed", "failed"},
         UNCHANGED <<left, answer>>,
         at \notin {"idle", "read", "commit"},
         at \in {"run", "replay", "execute"} => worktree' = checkpoint.manifest
  PROVE  Values' /\ ReadHolds' /\ h'.at = at
<1>1. h' \in Call /\ h'.at = at
  BY GotoValues DEF RInv, Values
<1>2. Values'
  BY <1>1 DEF RInv, Values, ReplayTypeOK
<1>3. ReadHolds'
  BY <1>1, ReadAside DEF RInv
<1> QED
  BY <1>1, <1>2, <1>3

(* The rows of a replay that is under way.                                 *)
LEMMA RowsOnTheWay ==
  ASSUME RInv, Values', h'.at \in Replaying, h.at \in Replaying,
         UNCHANGED <<checkpoint, left, answer>>,
         h'.at = "row" => run' = "created" /\ replay' = "none",
         h'.at \in Before => run' = "created" /\ replay' = "queued",
         h'.at = "replay" => run' = "running" /\ replay' = "queued",
         h'.at \in Working => run' = "running" /\ replay' = "running",
         h'.at = "compare" => run' \in Terminal /\ replay' = "running",
         h'.at \in {"catch", "catchReplay"} => replay' \in {"queued", "running"},
         h'.at = "catchReplay" => run' \in Terminal,
         h'.at = "final" => run' \in Terminal /\ replay' \in Terminal,
         run' # "none",
         replay' = "completed" => run' = "completed",
         replay' = "running" => run' # "created"
  PROVE  RowsHold' /\ ReplayTellsTheRun'
<1>1. checkpoint.made /\ left = "no" /\ answer = "none"
  BY DEF RInv, RowsHold
<1>2. RowsHold'
  BY <1>1 DEF RowsHold, Replaying, Before, Working
<1>3. ReplayTellsTheRun'
  BY <1>1 DEF Values, ReplayTellsTheRun, Replaying, Before, Working, Terminal
<1> QED
  BY <1>2, <1>3

LEMMA StartReplayKeeps ==
  ASSUME RInv, StartReplay
  PROVE  RInv'
<1> USE DEF StartReplay
<1>1. "row" \in Place /\ Goto("row")
  BY DEF Place, Replaying
<1>2. UNCHANGED <<source, worktree, checkpoint, replay, left, answer>> /\ run' = "created"
  BY DEF world
<1>3. left = "no" /\ answer = "none" /\ checkpoint.made
  BY DEF RInv, RowsHold
<1>4. Values' /\ ReadHolds' /\ h'.at = "row"
  BY <1>1, <1>2, Proceeds DEF RInv, Values, ReplayTypeOK
<1>5. RowsHold' /\ ReplayTellsTheRun'
  BY <1>2, <1>3, <1>4
     DEF RowsHold, Values, ReplayTellsTheRun, Replaying, Before, Working, Terminal
<1> QED
  BY <1>4, <1>5 DEF RInv

LEMMA createReplayKeeps ==
  ASSUME RInv, createReplay
  PROVE  RInv'
<1> USE DEF createReplay
<1>1. "fingerprint" \in Place /\ Goto("fingerprint")
  BY DEF Place, Replaying, Before
<1>2. /\ UNCHANGED <<source, worktree, checkpoint, left, answer>>
      /\ run' = "created" /\ replay' = "queued"
  BY DEF RInv, RowsHold, world
<1>3. Values' /\ ReadHolds' /\ h'.at = "fingerprint"
  BY <1>1, <1>2, Proceeds DEF RInv, Values, ReplayTypeOK
<1>4. RowsHold' /\ ReplayTellsTheRun'
  BY <1>2, <1>3, RowsOnTheWay DEF Replaying, Before, Working, Terminal
<1> QED
  BY <1>3, <1>4 DEF RInv

LEMMA FingerprintBeforeKeeps ==
  ASSUME RInv, FingerprintBefore
  PROVE  RInv'
<1> USE DEF FingerprintBefore
<1>1. /\ UNCHANGED <<source, worktree, checkpoint, run, replay, left, answer>>
      /\ run = "created" /\ replay = "queued"
  BY DEF RInv, RowsHold, Before, records, world
<1>2. h' \in Call /\ h'.at = "restore"
  BY DEF RInv, Values, ReplayTypeOK, Call, Place, Replaying, Before
<1>3. Values'
  BY <1>1, <1>2 DEF RInv, Values, ReplayTypeOK
<1>4. ReadHolds'
  BY <1>1, <1>2, ReadAside DEF RInv
<1>5. RowsHold' /\ ReplayTellsTheRun'
  BY <1>1, <1>2, <1>3, RowsOnTheWay DEF Replaying, Before, Working, Terminal
<1> QED
  BY <1>3, <1>4, <1>5 DEF RInv

(* A call that is over, with an account of why.                            *)
LEMMA CallEnds ==
  ASSUME RInv, h' = Idle, h.at \in Replaying,
         UNCHANGED <<source, worktree, checkpoint, run, replay>>,
         left' \in {"no", "died", "early", "catch"},
         left' = "no" => run \in Terminal /\ replay \in Terminal,
         answer' \in Terminal => replay = answer'
  PROVE  RInv'
<1>1. h' \in Call /\ h'.at = "idle"
  BY IdleValues
<1>2. Values'
  BY <1>1 DEF RInv, Values, ReplayTypeOK
<1>3. ReadHolds'
  BY <1>1, ReadAside DEF RInv
<1>4. run # "none" /\ checkpoint.made
  BY DEF RInv, RowsHold
<1>5. RowsHold' /\ ReplayTellsTheRun'
  BY <1>1, <1>2, <1>4
     DEF RInv, RowsHold, ReplayTellsTheRun, Values, Replaying, Before, Working, Terminal
<1> QED
  BY <1>2, <1>3, <1>5 DEF RInv

LEMMA FailsEarlyKeeps ==
  ASSUME RInv, FailsEarly
  PROVE  RInv'
  BY CallEnds DEF FailsEarly, Replaying, Before, world, Terminal

LEMMA CatchFailsKeeps ==
  ASSUME RInv, CatchFails
  PROVE  RInv'
  BY CallEnds DEF CatchFails, Replaying, world, Terminal

(* The last look at the source decides what the caller is told: the status *)
(* of the replay, or something that is not a status.                       *)
LEMMA AnswerKeeps ==
  ASSUME RInv, Answer
  PROVE  RInv'
<1> USE DEF Answer
<1>1. left = "no" /\ run \in Terminal /\ replay \in Terminal
  BY DEF RInv, RowsHold, Replaying
<1>2. answer' \in Terminal => replay = answer'
  BY DEF Terminal
<1> QED
  BY <1>1, <1>2, CallEnds DEF Replaying, world

(* What is restored need not be the manifest: the next step looks.         *)
LEMMA restoreCheckpointKeeps ==
  ASSUME RInv, restoreCheckpoint
  PROVE  RInv'
<1> USE DEF restoreCheckpoint
<1>1. "verify" \in Place /\ Goto("verify")
  BY DEF Place, Replaying, Before
<1>2. /\ UNCHANGED <<source, checkpoint, run, replay, left, answer>>
      /\ run = "created" /\ replay = "queued"
  BY DEF RInv, RowsHold, Before, records, world
<1>3. worktree' \in Tree
  BY RestoredIsATree DEF RInv, Values
<1>4. Values' /\ ReadHolds' /\ h'.at = "verify"
  BY <1>1, <1>2, <1>3, Proceeds DEF RInv, Values, ReplayTypeOK
<1>5. RowsHold' /\ ReplayTellsTheRun'
  BY <1>2, <1>4, RowsOnTheWay DEF Replaying, Before, Working, Terminal
<1> QED
  BY <1>4, <1>5 DEF RInv

LEMMA verifyCheckpointManifestKeeps ==
  ASSUME RInv, verifyCheckpointManifest
  PROVE  RInv'
<1> USE DEF verifyCheckpointManifest
<1>1. PICK at \in {"run", "catch"} :
        Goto(at) /\ (at = "run" => worktree = checkpoint.manifest)
  OBVIOUS
<1>2. at \in Place
  BY DEF Place, Replaying, Before
<1>3. /\ UNCHANGED <<source, worktree, checkpoint, run, replay, left, answer>>
      /\ run = "created" /\ replay = "queued"
  BY DEF RInv, RowsHold, Before, records, world
<1>4. Values' /\ ReadHolds' /\ h'.at = at
  BY <1>1, <1>2, <1>3, Proceeds DEF RInv, Values, ReplayTypeOK
<1>5. RowsHold' /\ ReplayTellsTheRun'
  BY <1>3, <1>4, RowsOnTheWay DEF Replaying, Before, Working, Terminal
<1> QED
  BY <1>4, <1>5 DEF RInv

LEMMA RunStartsKeeps ==
  ASSUME RInv, RunStarts
  PROVE  RInv'
<1> USE DEF RunStarts
<1>1. "replay" \in Place /\ Goto("replay")
  BY DEF Place, Replaying
<1>2. /\ UNCHANGED <<source, worktree, checkpoint, replay, left, answer>>
      /\ run' = "running" /\ replay = "queued"
  BY DEF RInv, RowsHold, Before, world
<1>3. worktree = checkpoint.manifest
  BY DEF RInv, ReadHolds
<1>4. Values' /\ ReadHolds' /\ h'.at = "replay"
  BY <1>1, <1>2, <1>3, Proceeds DEF RInv, Values, ReplayTypeOK
<1>5. RowsHold' /\ ReplayTellsTheRun'
  BY <1>2, <1>4, RowsOnTheWay DEF Replaying, Before, Working, Terminal
<1> QED
  BY <1>4, <1>5 DEF RInv

LEMMA ReplayStartsKeeps ==
  ASSUME RInv, ReplayStarts
  PROVE  RInv'
<1> USE DEF ReplayStarts
<1>1. "execute" \in Place /\ Goto("execute")
  BY DEF Place, Replaying, Working
<1>2. /\ UNCHANGED <<source, worktree, checkpoint, run, left, answer>>
      /\ run = "running" /\ replay' = "running"
  BY DEF RInv, RowsHold, world
<1>3. worktree = checkpoint.manifest
  BY DEF RInv, ReadHolds
<1>4. Values' /\ ReadHolds' /\ h'.at = "execute"
  BY <1>1, <1>2, <1>3, Proceeds DEF RInv, Values, ReplayTypeOK
<1>5. RowsHold' /\ ReplayTellsTheRun'
  BY <1>2, <1>4, RowsOnTheWay DEF Replaying, Before, Working, Terminal
<1> QED
  BY <1>4, <1>5 DEF RInv

(* The command leaves a tree, whatever it does to it.                      *)
LEMMA executeKeeps ==
  ASSUME RInv, execute
  PROVE  RInv'
<1> USE DEF execute
<1>1. PICK at \in {"checkZero", "checkOther"} : Goto(at)
  OBVIOUS
<1>2. at \in Place
  BY DEF Place, Replaying, Working
<1>3. /\ UNCHANGED <<source, checkpoint, run, replay, left, answer>>
      /\ run = "running" /\ replay = "running"
  BY DEF RInv, RowsHold, Working, records, world
<1>4. worktree' \in Tree
  BY DEF RInv, Values, ReplayTypeOK, Tree
<1>5. Values' /\ ReadHolds' /\ h'.at = at
  BY <1>1, <1>2, <1>3, <1>4, Proceeds DEF RInv, Values, ReplayTypeOK
<1>6. RowsHold' /\ ReplayTellsTheRun'
  BY <1>3, <1>5, RowsOnTheWay DEF Replaying, Before, Working, Terminal
<1> QED
  BY <1>5, <1>6 DEF RInv

LEMMA CheckSourceKeeps ==
  ASSUME RInv, CheckSource
  PROVE  RInv'
<1> USE DEF CheckSource
<1>1. PICK at \in {"catch", "recordZero", "recordOther"} : Goto(at)
  OBVIOUS
<1>2. at \in Place
  BY DEF Place, Replaying, Working
<1>3. /\ UNCHANGED <<source, worktree, checkpoint, run, replay, left, answer>>
      /\ run = "running" /\ replay = "running"
  BY DEF RInv, RowsHold, Working, records, world
<1>4. Values' /\ ReadHolds' /\ h'.at = at
  BY <1>1, <1>2, <1>3, Proceeds DEF RInv, Values, ReplayTypeOK
<1>5. RowsHold' /\ ReplayTellsTheRun'
  BY <1>3, <1>4, RowsOnTheWay DEF Replaying, Before, Working, Terminal
<1> QED
  BY <1>4, <1>5 DEF RInv

LEMMA RunEndsKeeps ==
  ASSUME RInv, RunEnds
  PROVE  RInv'
<1> USE DEF RunEnds
<1>1. "compare" \in Place /\ Goto("compare")
  BY DEF Place, Replaying
<1>2. /\ UNCHANGED <<source, worktree, checkpoint, replay, left, answer>>
      /\ run' \in Terminal /\ replay = "running"
  BY DEF RInv, RowsHold, Working, Terminal, world
<1>3. Values' /\ ReadHolds' /\ h'.at = "compare"
  BY <1>1, <1>2, Proceeds DEF RInv, Values, ReplayTypeOK, Terminal
<1>4. RowsHold' /\ ReplayTellsTheRun'
  BY <1>2, <1>3, RowsOnTheWay DEF Replaying, Before, Working, Terminal
<1> QED
  BY <1>3, <1>4 DEF RInv

(* The replay ends as its run has ended.                                   *)
LEMMA ReplayEndsKeeps ==
  ASSUME RInv, ReplayEnds
  PROVE  RInv'
<1> USE DEF ReplayEnds
<1>1. "final" \in Place /\ Goto("final")
  BY DEF Place, Replaying
<1>2. /\ UNCHANGED <<source, worktree, checkpoint, run, left, answer>>
      /\ run \in Terminal /\ replay' = run
  BY DEF RInv, RowsHold, world
<1>3. Values' /\ ReadHolds' /\ h'.at = "final"
  BY <1>1, <1>2, Proceeds DEF RInv, Values, ReplayTypeOK, Terminal
<1>4. RowsHold' /\ ReplayTellsTheRun'
  BY <1>2, <1>3, RowsOnTheWay DEF Replaying, Before, Working, Terminal
<1> QED
  BY <1>3, <1>4 DEF RInv

(* Whatever throws, neither row is over for the replay yet, and the run of *)
(* a completed command keeps its status.                                   *)
LEMMA ThrowsKeeps ==
  ASSUME RInv, Throws
  PROVE  RInv'
<1> USE DEF Throws
<1>1. "catch" \in Place /\ Goto("catch")
  BY DEF Place, Replaying
<1>2. UNCHANGED <<source, worktree, checkpoint, run, replay, left, answer>>
  BY DEF records, world
<1>3. /\ h.at \in Replaying /\ run # "none"
      /\ replay \in {"queued", "running"}
  BY DEF RInv, RowsHold, Replaying, Before, Working
<1>4. Values' /\ ReadHolds' /\ h'.at = "catch"
  BY <1>1, <1>2, <1>3, Proceeds DEF RInv, Values, ReplayTypeOK
<1>5. RowsHold' /\ ReplayTellsTheRun'
  <2>1. replay = "running" => run # "created"
    BY DEF RInv, ReplayTellsTheRun
  <2> QED
    BY <1>2, <1>3, <1>4, <2>1, RowsOnTheWay DEF Replaying, Before, Working, Terminal
<1> QED
  BY <1>4, <1>5 DEF RInv

LEMMA CatchRunKeeps ==
  ASSUME RInv, CatchRun
  PROVE  RInv'
<1> USE DEF CatchRun
<1>1. "catchReplay" \in Place /\ Goto("catchReplay")
  BY DEF Place, Replaying
<1>2. /\ UNCHANGED <<source, worktree, checkpoint, replay, left, answer>>
      /\ run' \in Terminal /\ replay \in {"queued", "running"}
  BY DEF RInv, RowsHold, Terminal, world
<1>3. Values' /\ ReadHolds' /\ h'.at = "catchReplay"
  BY <1>1, <1>2, Proceeds DEF RInv, Values, ReplayTypeOK, Terminal
<1>4. RowsHold' /\ ReplayTellsTheRun'
  BY <1>2, <1>3, RowsOnTheWay DEF Replaying, Before, Working, Terminal
<1> QED
  BY <1>3, <1>4 DEF RInv

LEMMA CatchReplayKeeps ==
  ASSUME RInv, CatchReplay
  PROVE  RInv'
<1> USE DEF CatchReplay
<1>1. "final" \in Place /\ Goto("final")
  BY DEF Place, Replaying
<1>2. /\ UNCHANGED <<source, worktree, checkpoint, run, left, answer>>
      /\ run \in Terminal /\ replay' = "failed"
  BY DEF RInv, RowsHold, world
<1>3. Values' /\ ReadHolds' /\ h'.at = "final"
  BY <1>1, <1>2, Proceeds DEF RInv, Values, ReplayTypeOK, Terminal
<1>4. RowsHold' /\ ReplayTellsTheRun'
  BY <1>2, <1>3, RowsOnTheWay DEF Replaying, Before, Working, Terminal
<1> QED
  BY <1>3, <1>4 DEF RInv

-----------------------------------------------------------------------------
(* Other programs and deaths.                                              *)

(* An edit spoils what is being read, and says so; what was made stays.    *)
LEMMA EditKeeps ==
  ASSUME RInv, Edit
  PROVE  RInv'
<1> USE DEF Edit
<1>1. /\ UNCHANGED <<worktree, checkpoint, run, replay, left, answer>>
      /\ source' \in Tree
  BY DEF RInv, Values, ReplayTypeOK, Tree, records
<1>2. /\ h' \in Call
      /\ h'.at = h.at /\ h'.draft.quiet = FALSE
  BY DEF RInv, Values, Call, Checkpoint
<1>3. Values'
  BY <1>1, <1>2 DEF RInv, Values, ReplayTypeOK
<1>4. ReadHolds'
  <2>1. checkpoint'.made /\ checkpoint'.quiet => Faithful(checkpoint)'
    BY <1>1 DEF RInv, ReadHolds, Faithful, Restored
  <2> QED
    BY <1>1, <1>2, <2>1 DEF RInv, ReadHolds
<1>5. RowsHold' /\ ReplayTellsTheRun'
  BY <1>1, <1>2, <1>3, RowsAside
<1> QED
  BY <1>3, <1>4, <1>5 DEF RInv

(* A death leaves the rows as they are; before the run was created there   *)
(* is nothing to account for.                                              *)
LEMMA DaemonDiesKeeps ==
  ASSUME RInv, DaemonDies
  PROVE  RInv'
<1> USE DEF DaemonDies
<1>1. UNCHANGED <<source, worktree, checkpoint, run, replay, answer>> /\ h' = Idle
  OBVIOUS
<1>2. CASE h.at \in Replaying
  <2>1. left' = "died" /\ answer = "none"
    BY <1>2 DEF RInv, RowsHold
  <2> QED
    BY <1>1, <1>2, <2>1, CallEnds DEF Terminal
<1>3. CASE h.at \notin Replaying
  <2>1. h.at \in {"read", "commit"}
    BY <1>3 DEF RInv, Values, Call, Place
  <2>2. run = "none" /\ left' = left
    BY <2>1, NoRunYet
  <2>3. h' \in Call /\ h'.at = "idle"
    BY IdleValues
  <2>4. Values'
    BY <1>1, <2>2, <2>3 DEF RInv, Values, ReplayTypeOK
  <2>5. ReadHolds'
    BY <1>1, <2>3, ReadAside DEF RInv
  <2>6. RowsHold' /\ ReplayTellsTheRun'
    BY <1>1, <2>1, <2>2, <2>3, <2>4, RowsAside
  <2> QED
    BY <2>4, <2>5, <2>6 DEF RInv
<1> QED
  BY <1>2, <1>3

-----------------------------------------------------------------------------
(* The invariant, and what it says.                                        *)

LEMMA StepKeeps ==
  ASSUME RInv, [ReplayNext]_replayVars
  PROVE  RInv'
<1>1. CASE CheckpointStep
  BY <1>1, StartCheckpointKeeps, ReadPathKeeps, ReadDiffKeeps, CommitCheckpointKeeps,
     CheckpointFailsKeeps DEF CheckpointStep
<1>2. CASE ReplayStep
  BY <1>2, createReplayKeeps, FingerprintBeforeKeeps, FailsEarlyKeeps, restoreCheckpointKeeps,
     verifyCheckpointManifestKeeps, RunStartsKeeps, ReplayStartsKeeps, executeKeeps,
     CheckSourceKeeps, RunEndsKeeps, ReplayEndsKeeps, ThrowsKeeps, CatchRunKeeps,
     CatchReplayKeeps, CatchFailsKeeps, AnswerKeeps DEF ReplayStep
<1> QED
  BY <1>1, <1>2, StartReplayKeeps, EditKeeps, DaemonDiesKeeps, NothingHappens DEF ReplayNext

(* The invariant holds of every state a checkpoint and a replay can reach: *)
(* what has been read is the workspace unless somebody edited it, and the  *)
(* rows say what the place of the call allows them to say.                 *)
THEOREM ReplayInvariance == ReplaySpec => []RInv
<1>1. ReplayInit => RInv
  BY InitHolds
<1>2. RInv /\ [ReplayNext]_replayVars => RInv'
  BY StepKeeps
<1> QED
  BY <1>1, <1>2, PTL DEF ReplaySpec

(* RESTORED, for every workspace: the command of a replay starts only in a *)
(* tree equal to the manifest of its checkpoint, and a checkpoint nobody   *)
(* disturbed while it was taken restores to exactly what it lists.         *)
THEOREM CommandsRunInTheCheckpoint == ReplaySpec => []RunsInTheCheckpoint
<1>1. RInv => RunsInTheCheckpoint
  BY DEF RInv, ReadHolds, RunsInTheCheckpoint, Faithful
<1> QED
  BY <1>1, ReplayInvariance, PTL

(* OUTCOME: at every step of a replay, and after it however it ended, the  *)
(* rows of the replay and of its run claim no more than was reached, and   *)
(* agree when the call came to its end.                                    *)
THEOREM ReplaysTellTheRun == ReplaySpec => []ReplayTellsTheRun
<1>1. RInv => ReplayTellsTheRun
  BY DEF RInv
<1> QED
  BY <1>1, ReplayInvariance, PTL
=============================================================================
