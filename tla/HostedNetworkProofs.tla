------------------------ MODULE HostedNetworkProofs -------------------------
(***************************************************************************)
(* Whatever the targets, addresses, connections and redirect limit: what a *)
(* hosted run reaches by either way out was vetted, and what is told of a  *)
(* read agrees wherever it was broken off.                                 *)
(***************************************************************************)
EXTENDS HostedNetwork, SequenceTheorems, TLAPS

---------------------------------------------------------------------------
(* The gateway.  The vetting of a hop is remembered in where the request   *)
(* is: one that is about to look an address up has a listed URL, and the   *)
(* number of contacts is the number of hops, plus one while a hop is on.   *)

Entry == {"requested", "granted", "spent", "started", "allowed", "hop",
          "observed", "degraded", "denied", "completed", "failed"}

ReadType ==
    [at : {"new", "done", "dead"} \cup Waiting, method : {"GET", "HEAD"},
     tool : BOOLEAN, url : Url, address : Address, hops : Nat, aborted : BOOLEAN]

GatewayTypes ==
    /\ read \in ReadType
    /\ journal \in Seq(Entry)
    /\ contacts \in Seq([url : Url, address : Address])

(* What is let out was allowed, paid for and announced.                    *)
LetOut ==
    /\ read.at # "new" /\ (read.at \in Waiting \/ contacts # <<>>) =>
           Logged("spent") /\ Logged("started")
    /\ read.at = "new" => read.hops = 0 /\ contacts = <<>>
    /\ read.at = "resolving" => read.url \in Allowed

HopsCounted ==
    /\ read.hops <= MaxRedirects
    /\ read.at = "resolving" => Len(contacts) = read.hops
    /\ read.at \in {"answering", "reading"} => Len(contacts) = read.hops + 1
    /\ Len(contacts) <= read.hops + 1

FirstIsGranted ==
    /\ read.at = "resolving" /\ read.hops = 0 => read.url \in Granted
    /\ contacts # <<>> => contacts[1].url \in Granted

ContactsVetted ==
    \A i \in DOMAIN contacts : contacts[i].url \in Allowed /\ contacts[i].address \in Public

GatewayInv == GatewayTypes /\ LetOut /\ HopsCounted /\ FirstIsGranted /\ ContactsVetted

---------------------------------------------------------------------------
(* The journal only grows: whatever a step commits, and wherever it        *)
(* breaks, what was logged stays logged.                                   *)
Grows == journal' \in Seq(Entry) /\ \A e : Logged(e) => Logged(e)'

LEMMA Appended ==
    ASSUME journal \in Seq(Entry), NEW s \in Seq(Entry), journal' = journal \o s
    PROVE  Grows /\ \A i \in DOMAIN s : Logged(s[i])'
<1>1. journal' \in Seq(Entry)
  OBVIOUS
<1>2. \A e : Logged(e) => Logged(e)'
  BY DEF Logged
<1>3. ASSUME NEW i \in DOMAIN s PROVE Logged(s[i])'
  <2>1. Len(journal) + i \in DOMAIN journal' /\ journal'[Len(journal) + i] = s[i]
    OBVIOUS
  <2> QED BY <2>1 DEF Logged
<1> QED BY <1>1, <1>2, <1>3 DEF Grows

LEMMA FailureType == \A code : Failure(code) \in Seq(Entry)
  BY DEF Failure, Entry

LEMMA BrokenKeeps ==
    ASSUME GatewayTypes, NEW commits \in Seq(Entry), Broken(commits)
    PROVE  Grows /\ read' \in ReadType /\ read'.at \in {"done", "dead"} /\ read'.hops = read.hops
<1>1. CASE Throws(commits)
  <2>1. PICK k \in DOMAIN commits :
          LET made == SubSeq(commits, 1, k - 1)
          IN  journal' = journal \o made \o
                (IF commits[k] \in {"hop", "observed", "completed"}
                 THEN Failure("transport_failed") ELSE <<>>)
    BY <1>1 DEF Throws
  <2> DEFINE made == SubSeq(commits, 1, k - 1)
             rest == IF commits[k] \in {"hop", "observed", "completed"}
                     THEN Failure("transport_failed") ELSE <<>>
  <2>2. made \in Seq(Entry)
    OBVIOUS
  <2>3. rest \in Seq(Entry)
    <3>1. Failure("transport_failed") \in Seq(Entry) /\ <<>> \in Seq(Entry)
      BY FailureType
    <3> QED BY <3>1
  <2>4. journal' = journal \o (made \o rest) /\ made \o rest \in Seq(Entry)
    <3> HIDE DEF made, rest
    <3>1. journal' = journal \o made \o rest
      BY <2>1 DEF made, rest
    <3> QED BY <3>1, <2>2, <2>3 DEF GatewayTypes
  <2>5. Grows
    BY <2>4, Appended DEF GatewayTypes
  <2>6. read' = [read EXCEPT !.at = "done"]
    BY <1>1 DEF Throws, Ends
  <2> QED BY <2>5, <2>6 DEF GatewayTypes, ReadType
<1>2. CASE Dies(commits)
  <2>1. PICK k \in 0..Len(commits) : journal' = journal \o SubSeq(commits, 1, k)
    BY <1>2 DEF Dies
  <2>2. SubSeq(commits, 1, k) \in Seq(Entry)
    OBVIOUS
  <2>3. Grows
    BY <2>1, <2>2, Appended DEF GatewayTypes
  <2> QED BY <1>2, <2>3 DEF Dies, GatewayTypes, ReadType
<1> QED BY <1>1, <1>2 DEF Broken

LEMMA ReturnsKeeps ==
    ASSUME GatewayTypes, NEW commits \in Seq(Entry), NEW told, Returns(commits, told)
    PROVE  Grows /\ read' \in ReadType /\ read'.at \in {"done", "dead"} /\ read'.hops = read.hops
<1>1. Grows
  BY Appended DEF Returns, GatewayTypes
<1> QED BY <1>1 DEF Returns, Ends, GatewayTypes, ReadType

(* A step that fails or succeeds ends the request and contacts nothing.    *)
Over == Grows /\ read' \in ReadType /\ read'.at \in {"done", "dead"} /\ read'.hops = read.hops

LEMMA FailsEnds ==
    ASSUME GatewayTypes, NEW commits \in Seq(Entry), NEW code, Fails(commits, code)
    PROVE  Over
<1> DEFINE rest == Failure(code)
<1>1. commits \o Failure(code) \in Seq(Entry)
  <2>1. rest \in Seq(Entry)
    BY FailureType
  <2> HIDE DEF rest
  <2>2. commits \o rest \in Seq(Entry)
    BY <2>1
  <2> QED BY <2>2 DEF rest
<1> QED BY <1>1, ReturnsKeeps, BrokenKeeps DEF Fails, Over

LEMMA SucceedsEnds ==
    ASSUME GatewayTypes, NEW commits \in Seq(Entry), Succeeds(commits)
    PROVE  Over
<1>1. commits \o <<"observed", "completed">> \in Seq(Entry)
  BY DEF Entry
<1> QED BY <1>1, ReturnsKeeps, BrokenKeeps DEF Succeeds, Over

LEMMA OverKeeps ==
    ASSUME GatewayInv, Over, read.at \in Waiting \/ contacts = <<>>, UNCHANGED contacts
    PROVE  GatewayInv'
<1>1. GatewayTypes'
  BY DEF GatewayInv, GatewayTypes, Over, Grows
<1>2. LetOut'
  BY DEF GatewayInv, GatewayTypes, LetOut, Over, Grows, Waiting
<1>3. HopsCounted'
  BY DEF GatewayInv, HopsCounted, Over, Waiting
<1>4. FirstIsGranted' /\ ContactsVetted'
  BY DEF GatewayInv, FirstIsGranted, ContactsVetted, Over, Waiting
<1> QED BY <1>1, <1>2, <1>3, <1>4 DEF GatewayInv

LEMMA RequestKeeps ==
    ASSUME GatewayInv, NEW method \in {"GET", "HEAD"}, NEW tool \in BOOLEAN, NEW url \in Url,
           request(method, tool, url)
    PROVE  GatewayInv'
<1> DEFINE commits == <<"requested", "granted", "spent", "started", "allowed">>
           opened == [read EXCEPT !.at = "resolving", !.method = method,
                                  !.tool = tool, !.url = url]
<1>1. contacts = <<>> /\ contacts' = contacts /\ read.at = "new" /\ read.hops = 0 /\ GatewayTypes
  BY DEF request, Refuse, GatewayInv, LetOut
<1>0. commits \in Seq(Entry)
  BY DEF Entry
<1>2. CASE \E s \in {<<"denied">>, <<"requested", "denied", "failed">>} : Refuse(s)
  <2>1. PICK s \in Seq(Entry) : Refuse(s)
    <3>1. <<"denied">> \in Seq(Entry) /\ <<"requested", "denied", "failed">> \in Seq(Entry)
      BY DEF Entry
    <3> QED BY <1>2, <3>1
  <2>2. Over
    BY <1>1, <2>1, ReturnsKeeps, BrokenKeeps DEF Refuse, Over
  <2> QED BY <1>1, <2>2, OverKeeps
<1>3. CASE Broken(commits)
  <2>1. Over
    BY <1>0, <1>1, <1>3, BrokenKeeps DEF Over
  <2> QED BY <1>1, <2>1, OverKeeps
<1>4. CASE MayAsk(url) /\ PolicyAllows(url) /\ Goes(commits, opened)
  <2>1. Grows /\ \A i \in DOMAIN commits : Logged(commits[i])'
    BY <1>0, <1>1, <1>4, Appended DEF Goes, GatewayTypes
  <2>2. Logged("spent")' /\ Logged("started")'
    <3>1. 3 \in DOMAIN commits /\ 4 \in DOMAIN commits
          /\ commits[3] = "spent" /\ commits[4] = "started"
      OBVIOUS
    <3> HIDE DEF commits
    <3> QED BY <2>1, <3>1
  <2>3. read' = opened
    BY <1>4 DEF Goes
  <2>4. GatewayTypes'
    BY <1>1, <2>1, <2>3 DEF GatewayTypes, ReadType, Grows, Waiting
  <2>5. url \in Allowed /\ url \in Granted
    BY <1>4 DEF MayAsk, UrlAllowed, PolicyAllows
  <2>6. /\ read'.at = "resolving" /\ read'.url = url /\ read'.hops = 0
    BY <1>1, <2>3 DEF GatewayTypes, ReadType
  <2>7. LetOut'
    BY <2>2, <2>5, <2>6 DEF LetOut
  <2>8. HopsCounted'
    BY <1>1, <2>6, GatewayAssumption DEF HopsCounted
  <2>9. FirstIsGranted' /\ ContactsVetted'
    BY <1>1, <2>5, <2>6 DEF FirstIsGranted, ContactsVetted, GatewayInv
  <2> QED BY <2>4, <2>7, <2>8, <2>9 DEF GatewayInv
<1> QED BY <1>2, <1>3, <1>4 DEF request

(* A step in which the request goes on where it is, or further.            *)
LEMMA GoesGrows ==
    ASSUME GatewayTypes, NEW commits \in Seq(Entry), NEW next, Goes(commits, next)
    PROVE  Grows /\ read' = next
  BY Appended DEF Goes, GatewayTypes

LEMMA OpenHopKeeps ==
    ASSUME GatewayInv, openHop
    PROVE  GatewayInv'
<1>1. GatewayTypes /\ read.at = "resolving" /\ read.at \in Waiting /\ <<>> \in Seq(Entry)
  <2>1. GatewayTypes /\ read.at = "resolving"
    BY DEF GatewayInv, openHop
  <2>2. <<>> \in Seq(Entry)
    OBVIOUS
  <2> QED BY <2>1, <2>2 DEF Waiting
<1>2. CASE Fails(<<>>, "refused") /\ UNCHANGED contacts
  <2>1. Over
    BY <1>1, <1>2, FailsEnds
  <2> QED BY <1>1, <1>2, <2>1, OverKeeps
<1>3. ASSUME NEW found \in SUBSET Address, NEW first \in found, Vetted(found),
             contacts' = Append(contacts, [url |-> read.url, address |-> first]),
             Goes(<<>>, [read EXCEPT !.at = "answering", !.address = first])
      PROVE  GatewayInv'
  <2> DEFINE contact == [url |-> read.url, address |-> first]
  <2>1. Grows /\ read' = [read EXCEPT !.at = "answering", !.address = first]
    BY <1>1, <1>3, GoesGrows
  <2>2. read.url \in Allowed /\ first \in Public /\ first \in Address
    BY <1>1, <1>3 DEF GatewayInv, LetOut, Vetted
  <2>3. read' \in ReadType /\ read'.at = "answering" /\ read'.hops = read.hops
    BY <1>1, <2>1, <2>2 DEF GatewayTypes, ReadType, Waiting
  <2>4. contact \in [url : Url, address : Address]
    BY <1>1, <2>2 DEF GatewayTypes, ReadType
  <2>5. /\ contacts' \in Seq([url : Url, address : Address])
        /\ Len(contacts') = Len(contacts) + 1
        /\ \A i \in DOMAIN contacts : contacts'[i] = contacts[i]
        /\ contacts'[Len(contacts) + 1] = contact
        /\ DOMAIN contacts' = DOMAIN contacts \cup {Len(contacts) + 1}
    <3> HIDE DEF contact
    <3>1. contacts' = Append(contacts, contact) /\ contacts \in Seq([url : Url, address : Address])
      BY <1>1, <1>3 DEF contact, GatewayTypes
    <3> QED BY <2>4, <3>1
  <2>6. GatewayTypes'
    BY <2>1, <2>3, <2>5 DEF GatewayTypes, Grows
  <2>7. LetOut'
    BY <1>1, <2>1, <2>3 DEF GatewayInv, LetOut, Grows
  <2>8. HopsCounted'
    BY <1>1, <2>3, <2>5 DEF GatewayInv, HopsCounted, GatewayTypes, ReadType
  <2>9. ContactsVetted'
    BY <2>2, <2>5 DEF GatewayInv, ContactsVetted
  <2>10. FirstIsGranted'
    <3>1. CASE contacts = <<>>
      <4>1. read.hops = 0 /\ contacts'[1] = contact
        BY <1>1, <2>5, <3>1 DEF GatewayInv, HopsCounted, GatewayTypes, ReadType
      <4> QED BY <1>1, <2>3, <4>1 DEF GatewayInv, FirstIsGranted
    <3>2. CASE contacts # <<>>
      <4>1. 1 \in DOMAIN contacts
        BY <1>1, <3>2 DEF GatewayTypes
      <4> QED BY <2>3, <2>5, <3>2, <4>1 DEF GatewayInv, FirstIsGranted
    <3> QED BY <3>1, <3>2
  <2> QED BY <2>6, <2>7, <2>8, <2>9, <2>10 DEF GatewayInv
<1> QED BY <1>2, <1>3 DEF openHop

(* An answer, whatever it is, contacts nothing and leads to a listed URL   *)
(* only, within the redirects.                                             *)
Onward(next) ==
    [read EXCEPT !.at = "resolving", !.url = next, !.hops = @ + 1]

LEMMA FollowKeeps ==
    ASSUME GatewayInv, read.at = "answering", NEW next \in Url, Follow(next), UNCHANGED contacts
    PROVE  GatewayInv'
<1>1. GatewayTypes /\ read.at \in Waiting /\ <<"hop">> \in Seq(Entry)
  BY DEF GatewayInv, Waiting, Entry
<1>2. CASE Fails(<<"hop">>, "refused")
  <2>1. Over
    BY <1>1, <1>2, FailsEnds
  <2> QED BY <1>1, <2>1, OverKeeps
<1>3. CASE Broken(<<"hop">>)
  <2>1. Over
    BY <1>1, <1>3, BrokenKeeps DEF Over
  <2> QED BY <1>1, <2>1, OverKeeps
<1>4. CASE read.hops < MaxRedirects /\ UrlAllowed(next) /\ Goes(<<"hop">>, Onward(next))
  <2>1. Grows /\ read' = Onward(next)
    BY <1>1, <1>4, GoesGrows
  <2>2. /\ read' \in ReadType /\ read'.at = "resolving" /\ read'.url = next
        /\ read'.hops = read.hops + 1
    <3>1. read \in ReadType /\ read.hops + 1 \in Nat
      BY <1>1 DEF GatewayTypes, ReadType
    <3>2. read' = [read EXCEPT !.at = "resolving", !.url = next, !.hops = read.hops + 1]
      BY <2>1 DEF Onward
    <3> QED BY <3>1, <3>2 DEF ReadType, Waiting
  <2>3. GatewayTypes'
    BY <1>1, <2>1, <2>2 DEF GatewayTypes, Grows
  <2>4. LetOut'
    BY <1>1, <1>4, <2>1, <2>2 DEF GatewayInv, LetOut, Grows, UrlAllowed
  <2>5. HopsCounted'
    BY <1>1, <1>4, <2>2, GatewayAssumption DEF GatewayInv, HopsCounted, GatewayTypes, ReadType
  <2>6. FirstIsGranted' /\ ContactsVetted'
    BY <1>1, <2>2 DEF GatewayInv, FirstIsGranted, ContactsVetted, GatewayTypes, ReadType
  <2> QED BY <2>3, <2>4, <2>5, <2>6 DEF GatewayInv
<1> QED BY <1>2, <1>3, <1>4 DEF Follow, Onward

(* The request goes on from an answer to its body, or learns of its timer. *)
LEMMA StaysKeeps ==
    ASSUME GatewayInv, read.at \in {"answering", "reading"}, NEW commits \in Seq(Entry),
           NEW aborted \in BOOLEAN,
           Goes(commits, [read EXCEPT !.at = "reading", !.aborted = aborted]),
           UNCHANGED contacts
    PROVE  GatewayInv'
<1>1. GatewayTypes /\ read.at \in Waiting
  BY DEF GatewayInv, Waiting
<1>2. Grows /\ read' = [read EXCEPT !.at = "reading", !.aborted = aborted]
  BY <1>1, GoesGrows
<1>3. read' \in ReadType /\ read'.at = "reading" /\ read'.hops = read.hops
  BY <1>1, <1>2 DEF GatewayTypes, ReadType, Waiting
<1>4. GatewayTypes'
  BY <1>1, <1>2, <1>3 DEF GatewayTypes, Grows
<1>5. LetOut'
  BY <1>1, <1>2, <1>3 DEF GatewayInv, LetOut, Grows
<1>6. HopsCounted' /\ FirstIsGranted' /\ ContactsVetted'
  BY <1>3 DEF GatewayInv, HopsCounted, FirstIsGranted, ContactsVetted
<1> QED BY <1>4, <1>5, <1>6 DEF GatewayInv

LEMMA HopAnswersKeeps ==
    ASSUME GatewayInv, hopAnswers
    PROVE  GatewayInv'
<1>1. /\ GatewayTypes /\ read.at = "answering" /\ read.at \in Waiting
      /\ <<>> \in Seq(Entry) /\ <<"hop">> \in Seq(Entry) /\ UNCHANGED contacts
  BY DEF GatewayInv, hopAnswers, Waiting, Entry
<1>2. CASE Fails(<<>>, "refused") \/ Fails(<<"hop">>, "refused") \/ Succeeds(<<"hop">>)
           \/ Broken(<<"hop">>)
  <2>1. Over
    BY <1>1, <1>2, FailsEnds, SucceedsEnds, BrokenKeeps DEF Over
  <2> QED BY <1>1, <2>1, OverKeeps
<1>3. CASE \E next \in Url : Follow(next)
  BY <1>1, <1>3, FollowKeeps
<1>4. CASE Goes(<<"hop">>, [read EXCEPT !.at = "reading"])
  <2>1. /\ read.aborted \in BOOLEAN
        /\ [read EXCEPT !.at = "reading"]
             = [read EXCEPT !.at = "reading", !.aborted = read.aborted]
    BY <1>1 DEF GatewayTypes, ReadType
  <2> QED BY <1>1, <1>4, <2>1, StaysKeeps
<1> QED BY <1>2, <1>3, <1>4 DEF hopAnswers

LEMMA BodyWasInKeeps ==
    ASSUME GatewayInv, BodyWasIn
    PROVE  GatewayInv'
<1>1. GatewayTypes /\ read.at = "reading" /\ <<>> \in Seq(Entry) /\ UNCHANGED contacts
      /\ Goes(<<>>, [read EXCEPT !.aborted = TRUE])
  BY DEF GatewayInv, BodyWasIn
<1>2. [read EXCEPT !.aborted = TRUE] = [read EXCEPT !.at = "reading", !.aborted = TRUE]
  BY <1>1 DEF GatewayTypes, ReadType
<1> QED BY <1>1, <1>2, StaysKeeps

LEMMA EndingKeeps ==
    ASSUME GatewayInv, transportFails \/ readBoundedBody \/ TimeOut
    PROVE  GatewayInv'
<1>1. GatewayTypes /\ read.at \in Waiting /\ <<>> \in Seq(Entry) /\ UNCHANGED contacts
  BY DEF GatewayInv, transportFails, readBoundedBody, TimeOut, Waiting
<1>2. Over
  BY <1>1, FailsEnds, SucceedsEnds DEF transportFails, readBoundedBody, TimeOut
<1> QED BY <1>1, <1>2, OverKeeps

LEMMA GatewayKeeps ==
    ASSUME GatewayInv, GatewayStep
    PROVE  GatewayInv'
  BY RequestKeeps, OpenHopKeeps, HopAnswersKeeps, BodyWasInKeeps, EndingKeeps DEF GatewayStep

LEMMA GatewayStarts ==
    ASSUME GatewayInit
    PROVE  GatewayInv
<1>1. read \in ReadType /\ read.at = "new" /\ read.hops = 0
  BY HostAssumption DEF GatewayInit, NoRead, ReadType
<1>2. GatewayTypes
  BY <1>1 DEF GatewayInit, GatewayTypes
<1> QED BY <1>1, <1>2, GatewayAssumption
        DEF GatewayInit, GatewayInv, LetOut, HopsCounted, FirstIsGranted, ContactsVetted, Waiting

LEMMA GatewayVets ==
    ASSUME GatewayInv
    PROVE  ContactsOnlyVetted
<1>1. contacts # <<>> => read.at # "new"
  BY DEF GatewayInv, LetOut
<1>2. Len(contacts) <= MaxRedirects + 1
  BY GatewayAssumption DEF GatewayInv, HopsCounted, GatewayTypes, ReadType
<1> QED BY <1>1, <1>2
        DEF GatewayInv, LetOut, FirstIsGranted, ContactsVetted, ContactsOnlyVetted

LEMMA GatewayStutters ==
    ASSUME GatewayInv, UNCHANGED gatewayVars
    PROVE  GatewayInv'
  BY DEF GatewayInv, gatewayVars, GatewayTypes, LetOut, HopsCounted, FirstIsGranted,
         ContactsVetted, Logged

---------------------------------------------------------------------------
(* What is told of the outcome.  While a request is on, nothing in its     *)
(* journal speaks of one; when it is over the journal ends in one of a few *)
(* ways, by where the request was broken off.                              *)
Quiet == {"requested", "granted", "spent", "started", "allowed", "hop"}

Broke == {"denied", "degraded"}
Failed == {<<row, "failed">> : row \in Broke}
Success == <<"observed", "completed">>
Endings == {<<>>, <<"observed">>, Success} \cup {<<row>> : row \in Broke} \cup Failed
             \cup {<<"observed", row, "failed">> : row \in Broke}

EndsIn(t) == \E p \in Seq(Quiet) : journal = p \o t

Untold ==
    read.at \in {"new"} \cup Waiting =>
        /\ journal \in Seq(Quiet)
        /\ read.at = "new" => journal = <<>>

EndTold ==
    read.at \in {"done", "dead"} =>
        \E t \in Endings :
            /\ EndsIn(t)
            /\ read.at = "done" /\ faults = 0 /\ Logged("requested") => t \in Failed \cup {Success}
            /\ read.at = "done" => (answer \in {"body", "rejected"} <=> t = Success)

JournalInv ==
    /\ answer \in {"none", "body", "rejected", "error"}
    /\ faults \in Nat
    /\ Untold /\ EndTold

(* In a journal that ends in `t` the rows and the outcome are those of     *)
(* `t`, at its places.                                                     *)
LEMMA PlacesOfEnding ==
    ASSUME NEW p \in Seq(Quiet), NEW t \in Seq(Entry), journal = p \o t,
           NEW entries, entries \cap Quiet = {}
    PROVE  /\ \A i \in Places(entries) :
                \E m \in DOMAIN t : i = Len(p) + m /\ t[m] \in entries
           /\ \A m \in DOMAIN t : t[m] \in entries => Len(p) + m \in Places(entries)
<1>1. /\ Len(journal) = Len(p) + Len(t)
      /\ \A i \in 1..Len(p) : journal[i] = p[i] /\ p[i] \in Quiet
      /\ \A i \in 1..Len(t) : journal[Len(p) + i] = t[i]
      /\ Len(p) \in Nat /\ Len(t) \in Nat
  OBVIOUS
<1>2. DOMAIN journal = 1..(Len(p) + Len(t)) /\ DOMAIN t = 1..Len(t)
  OBVIOUS
<1>3. ASSUME NEW i \in Places(entries)
      PROVE  \E m \in DOMAIN t : i = Len(p) + m /\ t[m] \in entries
  <2>1. i \in 1..(Len(p) + Len(t)) /\ journal[i] \in entries
    BY <1>2 DEF Places
  <2>2. ~(i \in 1..Len(p))
    BY <1>1, <2>1
  <2>3. i - Len(p) \in 1..Len(t) /\ i = Len(p) + (i - Len(p))
    BY <1>1, <2>1, <2>2
  <2> QED
    BY <1>1, <1>2, <2>1, <2>3
<1>4. ASSUME NEW m \in DOMAIN t, t[m] \in entries
      PROVE  Len(p) + m \in Places(entries)
  BY <1>1, <1>2, <1>4 DEF Places
<1> QED
  BY <1>3, <1>4

LEMMA EndingsAreSequences == Endings \subseteq Seq(Entry)
<1>1. \A row \in Broke : row \in Entry
  BY DEF Broke, Entry
<1>2. \A row \in Broke :
        <<row>> \in Seq(Entry) /\ <<row, "failed">> \in Seq(Entry)
          /\ <<"observed", row, "failed">> \in Seq(Entry)
  BY <1>1 DEF Entry
<1>3. <<>> \in Seq(Entry) /\ <<"observed">> \in Seq(Entry) /\ Success \in Seq(Entry)
  BY DEF Entry, Success
<1> QED
  BY <1>2, <1>3 DEF Endings, Failed

(* One row and one outcome, in the right order, in every ending.           *)
LEMMA EndingsTell ==
    ASSUME NEW t \in Endings
    PROVE  /\ \A m, n \in DOMAIN t : t[m] \in Outcome /\ t[n] \in Outcome => m = n
           /\ \A m \in DOMAIN t : t[m] = "completed" =>
                /\ t = Success
                /\ 1 \in DOMAIN t /\ t[1] = "observed"
                /\ \A n \in DOMAIN t : t[n] \in Row => n = 1
           /\ \A m \in DOMAIN t : t[m] = "failed" =>
                \E n \in DOMAIN t : t[n] \in Broke /\ \A k \in DOMAIN t : t[k] \in Row => k <= n
<1>1. CASE t = <<>>
  BY <1>1
<1>2. CASE t = <<"observed">>
  BY <1>2 DEF Outcome
<1>3. CASE t = Success
  BY <1>3 DEF Outcome, Row, Success
<1>4. CASE \E row \in Broke : t = <<row>>
  BY <1>4 DEF Outcome, Broke
<1>5. ASSUME NEW row \in Broke, t = <<row, "failed">> PROVE
           /\ \A m, n \in DOMAIN t : t[m] \in Outcome /\ t[n] \in Outcome => m = n
           /\ \A m \in DOMAIN t : t[m] # "completed"
           /\ \E n \in DOMAIN t : t[n] \in Broke /\ \A k \in DOMAIN t : t[k] \in Row => k <= n
  <2>1. DOMAIN t = 1..2 /\ t[1] = row /\ t[2] = "failed"
    BY <1>5
  <2> QED
    BY <2>1 DEF Outcome, Row, Broke
<1>6. ASSUME NEW row \in Broke, t = <<"observed", row, "failed">> PROVE
           /\ \A m, n \in DOMAIN t : t[m] \in Outcome /\ t[n] \in Outcome => m = n
           /\ \A m \in DOMAIN t : t[m] # "completed"
           /\ \E n \in DOMAIN t : t[n] \in Broke /\ \A k \in DOMAIN t : t[k] \in Row => k <= n
  <2>1. DOMAIN t = 1..3 /\ t[1] = "observed" /\ t[2] = row /\ t[3] = "failed"
    BY <1>6
  <2> QED
    BY <2>1 DEF Outcome, Row, Broke
<1> QED
  BY <1>1, <1>2, <1>3, <1>4, <1>5, <1>6 DEF Endings, Failed

(* A journal that ends so says of the outcome what OutcomeIsTold asks.     *)
LEMMA EndingIsTold ==
    ASSUME NEW t \in Endings, EndsIn(t)
    PROVE  /\ \A i, j \in Places(Outcome) : i = j
           /\ Logged("completed") <=> t = Success
           /\ Logged("completed") => \E i \in Places({"observed"}) : Places(Row) = {i}
           /\ Logged("failed") =>
                \E i \in Places({"denied", "degraded"}) : \A j \in Places(Row) : j <= i
           /\ t \in Failed \cup {Success} =>
                journal[Len(journal)] \in Outcome
<1>1. PICK p \in Seq(Quiet) : journal = p \o t
  BY DEF EndsIn
<1>2. t \in Seq(Entry) /\ Len(p) \in Nat /\ DOMAIN t = 1..Len(t)
  BY EndingsAreSequences
<1>3. ASSUME NEW entries, entries \cap Quiet = {}
      PROVE  /\ \A i \in Places(entries) :
                  \E m \in DOMAIN t : i = Len(p) + m /\ t[m] \in entries
             /\ \A m \in DOMAIN t : t[m] \in entries => Len(p) + m \in Places(entries)
  BY <1>1, <1>2, <1>3, PlacesOfEnding
<1>4. Outcome \cap Quiet = {} /\ Row \cap Quiet = {} /\ {"observed"} \cap Quiet = {}
      /\ {"completed"} \cap Quiet = {} /\ {"failed"} \cap Quiet = {} /\ Broke \cap Quiet = {}
  BY DEF Outcome, Row, Quiet, Broke
<1>5. \A e : Logged(e) <=> Places({e}) # {}
  BY DEF Logged, Places
<1>6. \A i, j \in Places(Outcome) : i = j
  <2>1. \A i \in Places(Outcome) : \E m \in DOMAIN t : i = Len(p) + m /\ t[m] \in Outcome
    BY <1>3, <1>4
  <2>2. \A m, n \in DOMAIN t : t[m] \in Outcome /\ t[n] \in Outcome => m = n
    BY EndingsTell
  <2> QED
    BY <2>1, <2>2
<1>7. Logged("completed") <=> t = Success
  <2>1. Logged("completed") => t = Success
    <3>1. Places({"completed"}) # {} => \E m \in DOMAIN t : t[m] = "completed"
      BY <1>3, <1>4
    <3> QED
      BY <1>5, <3>1, EndingsTell
  <2>2. t = Success => Logged("completed")
    <3> SUFFICES ASSUME t = Success PROVE Places({"completed"}) # {}
      BY <1>5
    <3>1. 2 \in DOMAIN t /\ t[2] = "completed"
      BY DEF Success
    <3> QED
      BY <1>3, <1>4, <3>1
  <2> QED
    BY <2>1, <2>2
<1>8. ASSUME Logged("completed")
      PROVE  \E i \in Places({"observed"}) : Places(Row) = {i}
  <2>0. Places({"completed"}) # {}
    BY <1>5, <1>8
  <2>1. PICK m \in DOMAIN t : t[m] = "completed"
    BY <1>3, <1>4, <2>0
  <2>2. 1 \in DOMAIN t /\ t[1] = "observed" /\ \A n \in DOMAIN t : t[n] \in Row => n = 1
    BY <2>1, EndingsTell
  <2>3. Len(p) + 1 \in Places({"observed"}) /\ Len(p) + 1 \in Places(Row)
    BY <1>3, <1>4, <2>2 DEF Row
  <2>4. \A i \in Places(Row) : i = Len(p) + 1
    BY <1>3, <1>4, <2>2
  <2> QED
    BY <2>3, <2>4
<1>9. ASSUME Logged("failed")
      PROVE  \E i \in Places({"denied", "degraded"}) : \A j \in Places(Row) : j <= i
  <2>0. Places({"failed"}) # {}
    BY <1>5, <1>9
  <2>1. PICK m \in DOMAIN t : t[m] = "failed"
    BY <1>3, <1>4, <2>0
  <2>2. PICK n \in DOMAIN t : t[n] \in Broke /\ \A k \in DOMAIN t : t[k] \in Row => k <= n
    BY <2>1, EndingsTell
  <2>3. Len(p) + n \in Places(Broke)
    BY <1>3, <1>4, <2>2
  <2>4. ASSUME NEW j \in Places(Row) PROVE j <= Len(p) + n
    <3>1. PICK k \in DOMAIN t : j = Len(p) + k /\ t[k] \in Row
      BY <1>3, <1>4
    <3>2. k <= n
      BY <2>2, <3>1
    <3> QED
      BY <1>2, <3>1, <3>2
  <2> QED
    BY <2>3, <2>4 DEF Broke
<1>10. ASSUME t \in Failed \cup {Success}
       PROVE  journal[Len(journal)] \in Outcome
  <2>1. Len(t) = 2 /\ t[2] \in Outcome
    BY <1>10 DEF Failed, Success, Outcome
  <2>2. Len(journal) = Len(p) + 2
    <3>1. Len(p \o t) = Len(p) + Len(t)
      BY <1>2
    <3> QED
      BY <1>1, <2>1, <3>1
  <2>3. Len(p) + 2 \in Places(Outcome)
    BY <1>2, <1>3, <1>4, <2>1
  <2> QED
    BY <2>2, <2>3 DEF Places
<1> QED
  BY <1>6, <1>7, <1>8, <1>9, <1>10

(* What an invariant about the ending makes of the property.               *)
LEMMA JournalTells ==
    ASSUME JournalInv, TypeOK
    PROVE  OutcomeIsTold
<1>1. CASE read.at \in {"new"} \cup Waiting
  <2>1. journal \in Seq(Quiet) /\ read.at # "done"
    BY <1>1 DEF JournalInv, Untold, Waiting
  <2>2. \A i \in DOMAIN journal : journal[i] \in Quiet
    BY <2>1
  <2>3. Places(Outcome) = {} /\ ~Logged("completed") /\ ~Logged("failed")
    BY <2>2 DEF Places, Outcome, Quiet, Logged
  <2> QED
    BY <2>1, <2>3 DEF OutcomeIsTold
<1>2. CASE read.at \in {"done", "dead"}
  <2>1. PICK t \in Endings :
            /\ EndsIn(t)
            /\ read.at = "done" /\ faults = 0 /\ Logged("requested") => t \in Failed \cup {Success}
            /\ read.at = "done" => (answer \in {"body", "rejected"} <=> t = Success)
    BY <1>2 DEF JournalInv, EndTold
  <2> QED
    BY <2>1, EndingIsTold DEF OutcomeIsTold
<1> QED
  BY <1>1, <1>2 DEF TypeOK

(* A sequence of at most two entries is broken off in one of three ways.   *)
LEMMA ShortBroken ==
    ASSUME NEW a, NEW b
    PROVE  /\ SubSeq(<<a, b>>, 1, 0) = <<>> /\ SubSeq(<<a, b>>, 1, 1) = <<a>>
           /\ SubSeq(<<a, b>>, 1, 2) = <<a, b>>
<1>1. <<a, b>> \in Seq({a, b}) /\ <<a>> \in Seq({a, b}) /\ <<>> \in Seq({a, b})
      /\ Len(<<a, b>>) = 2 /\ <<a, b>>[1] = a
  OBVIOUS
<1> DEFINE t == <<a, b>>
           s == <<a>>
<1>2. t \in Seq({a, b}) /\ Len(t) = 2 /\ t[1] = a /\ s \in Seq({a, b}) /\ Len(s) = 1 /\ s[1] = a
  BY <1>1
<1> HIDE DEF t, s
<1>3. SubSeq(t, 1, 0) = <<>>
  BY <1>2, SubSeqEmpty
<1>4. SubSeq(t, 1, 1) = s
  <2>1. SubSeq(t, 1, 1) \in Seq({a, b}) /\ Len(SubSeq(t, 1, 1)) = 1 /\ SubSeq(t, 1, 1)[1] = t[1]
    BY <1>2
  <2> QED
    BY <1>2, <2>1, SeqEqual
<1>5. SubSeq(t, 1, 2) = t
  BY <1>2, SubSeqFull
<1> QED
  BY <1>3, <1>4, <1>5 DEF t, s

(* A concatenation is broken off in its first part or in its second.       *)
LEMMA BrokenConcat ==
    ASSUME NEW c \in Seq(Quiet), NEW t \in Seq(Entry), NEW k \in 0..(Len(c) + Len(t))
    PROVE  \/ k <= Len(c) /\ SubSeq(c \o t, 1, k) \in Seq(Quiet)
           \/ k > Len(c) /\ SubSeq(c \o t, 1, k) = c \o SubSeq(t, 1, k - Len(c))
<1>1. /\ c \o t \in Seq(Entry) /\ Len(c \o t) = Len(c) + Len(t)
      /\ \A i \in 1..Len(c) : (c \o t)[i] = c[i]
      /\ \A i \in 1..Len(t) : (c \o t)[Len(c) + i] = t[i]
      /\ Len(c) \in Nat /\ Len(t) \in Nat
  <2>1. c \in Seq(Entry)
    BY DEF Quiet, Entry
  <2> QED
    BY <2>1
<1>2. /\ SubSeq(c \o t, 1, k) \in Seq(Entry) /\ Len(SubSeq(c \o t, 1, k)) = k
      /\ \A i \in 1..k : SubSeq(c \o t, 1, k)[i] = (c \o t)[i]
  BY <1>1
<1>3. CASE k <= Len(c)
  <2>1. \A i \in 1..k : SubSeq(c \o t, 1, k)[i] \in Quiet
    BY <1>1, <1>2, <1>3
  <2> DEFINE s == SubSeq(c \o t, 1, k)
  <2>2. s \in Seq(Entry) /\ Len(s) = k /\ \A i \in 1..Len(s) : s[i] \in Quiet
    BY <1>2, <2>1
  <2> HIDE DEF s
  <2>3. s \in Seq(Quiet)
    BY <2>2
  <2> QED
    BY <1>3, <2>3 DEF s
<1>4. CASE k > Len(c)
  <2> DEFINE n == k - Len(c)
  <2>1. n \in 1..Len(t) /\ k = Len(c) + n
    BY <1>1, <1>4
  <2>2. SubSeq(t, 1, n) \in Seq(Entry) /\ Len(SubSeq(t, 1, n)) = n
        /\ \A i \in 1..n : SubSeq(t, 1, n)[i] = t[i]
    BY <2>1
  <2> DEFINE s == SubSeq(c \o t, 1, k)
             u == SubSeq(t, 1, n)
  <2>3. s \in Seq(Entry) /\ Len(s) = Len(c) + n /\ \A i \in 1..(Len(c) + n) : s[i] = (c \o t)[i]
    BY <1>2, <2>1
  <2> HIDE DEF s, u, n
  <2>4. u \in Seq(Entry) /\ Len(u) = n /\ \A i \in 1..n : u[i] = t[i]
    BY <2>2 DEF u
  <2>5. c \in Seq(Entry)
    BY DEF Quiet, Entry
  <2>6. /\ c \o u \in Seq(Entry) /\ Len(c \o u) = Len(c) + n
        /\ \A i \in 1..Len(c) : (c \o u)[i] = c[i]
        /\ \A i \in 1..n : (c \o u)[Len(c) + i] = u[i]
    <3>1. n \in Nat
      BY <2>1
    <3>2. /\ c \o u \in Seq(Entry)
          /\ Len(c \o u) = Len(c) + Len(u)
          /\ \A i \in 1..(Len(c) + Len(u)) : (c \o u)[i] =
                      IF i <= Len(c) THEN c[i] ELSE u[i - Len(c)]
      BY <2>4, <2>5, ConcatProperties
    <3>3. ASSUME NEW i \in 1..n PROVE (c \o u)[Len(c) + i] = u[i]
      <4>1. /\ Len(c) + i \in 1..(Len(c) + Len(u)) /\ ~(Len(c) + i <= Len(c))
            /\ (Len(c) + i) - Len(c) = i
        BY <1>1, <2>4, <3>1
      <4> QED
        BY <3>2, <4>1
    <3>4. ASSUME NEW i \in 1..Len(c) PROVE (c \o u)[i] = c[i]
      BY <1>1, <2>4, <3>1, <3>2
    <3> QED
      BY <2>4, <3>2, <3>3, <3>4
  <2>7. ASSUME NEW i \in 1..(Len(c) + n) PROVE s[i] = (c \o u)[i]
    <3>1. CASE i \in 1..Len(c)
      BY <1>1, <2>3, <2>6, <3>1
    <3>2. CASE i \notin 1..Len(c)
      <4>1. i - Len(c) \in 1..n /\ i = Len(c) + (i - Len(c)) /\ i - Len(c) \in 1..Len(t)
        BY <1>1, <2>1, <3>2
      <4> QED
        <5>1. s[i] = t[i - Len(c)]
          BY <1>1, <2>3, <4>1
        <5>2. (c \o u)[i] = t[i - Len(c)]
          BY <2>4, <2>6, <4>1
        <5> QED
          BY <5>1, <5>2
    <3> QED
      BY <3>1, <3>2
  <2>8. s = c \o u
    BY <2>3, <2>6, <2>7, SeqEqual
  <2> QED
    BY <1>4, <2>8 DEF s, u, n
<1>5. k <= Len(c) \/ k > Len(c)
  BY <1>1
<1> QED
  BY <1>3, <1>4, <1>5

(* What a step that ends the request commits after the quiet entries.      *)
Told0 == {<<>>, <<"denied">>, Success} \cup Failed

LEMMA FailureFails == \A code : Failure(code) \in Failed
  BY DEF Failure, Failed, Broke

LEMMA HeadsEnd ==
    ASSUME NEW t \in Told0
    PROVE  /\ t \in Seq(Entry) /\ t \in Endings /\ Len(t) \in {0, 1, 2}
           /\ \A m \in 1..Len(t) : SubSeq(t, 1, m) \in Endings
           /\ Len(t) = 2 =>
                /\ SubSeq(t, 1, 1) = <<t[1]>>
                /\ (t[1] \in Broke /\ t[2] = "failed") \/ t = Success
<1>1. t \in Endings
  BY DEF Told0, Endings, Broke
<1>2. t \in Seq(Entry)
  BY <1>1, EndingsAreSequences
<1>3. CASE t = <<>> \/ t = <<"denied">>
  <2>1. Len(t) = 0 \/ Len(t) = 1
    BY <1>3
  <2>2. \A m \in 1..Len(t) : m = Len(t)
    BY <2>1
  <2>3. \A m \in 1..Len(t) : SubSeq(t, 1, m) = t
    BY <1>2, <2>2, SubSeqFull
  <2>4. \A m \in 1..Len(t) : SubSeq(t, 1, m) \in Endings
    BY <1>1, <2>3
  <2>5. Len(t) # 2 /\ Len(t) \in {0, 1, 2}
    BY <2>1
  <2> QED
    BY <1>1, <1>2, <2>4, <2>5
<1>4. ASSUME NEW a, NEW b, t = <<a, b>>, <<a>> \in Endings,
             (a \in Broke /\ b = "failed") \/ t = Success
      PROVE  /\ Len(t) = 2
             /\ \A m \in 1..Len(t) : SubSeq(t, 1, m) \in Endings
             /\ SubSeq(t, 1, 1) = <<t[1]>>
             /\ (t[1] \in Broke /\ t[2] = "failed") \/ t = Success
  <2>1. Len(t) = 2 /\ t[1] = a /\ t[2] = b
    BY <1>4
  <2>2. SubSeq(t, 1, 1) = <<a>> /\ SubSeq(t, 1, 2) = t
    BY <1>4, ShortBroken
  <2>3. \A m \in 1..Len(t) : m = 1 \/ m = 2
    BY <2>1
  <2> QED
    BY <1>1, <1>4, <2>1, <2>2, <2>3
<1>5. CASE t = Success
  <2>1. t = <<"observed", "completed">> /\ <<"observed">> \in Endings
    BY <1>5 DEF Success, Endings
  <2> QED
    BY <1>1, <1>2, <1>4, <1>5, <2>1
<1>6. CASE t \in Failed
  <2>1. PICK row \in Broke : t = <<row, "failed">>
    BY <1>6 DEF Failed
  <2>2. <<row>> \in Endings
    BY DEF Endings
  <2> QED
    BY <1>1, <1>2, <1>4, <2>1, <2>2
<1> QED
  BY <1>3, <1>5, <1>6 DEF Told0

(* A journal that grew by quiet entries and an ending ends so.             *)
LEMMA EndsAfter ==
    ASSUME journal \in Seq(Quiet), NEW c \in Seq(Quiet), NEW t \in Endings,
           journal' = journal \o c \o t \/ journal' = journal \o (c \o t)
    PROVE  EndsIn(t)'
<1>1. journal \o c \in Seq(Quiet)
  BY ConcatProperties
<1>2. journal \in Seq(Entry) /\ c \in Seq(Entry) /\ t \in Seq(Entry)
  BY EndingsAreSequences DEF Quiet, Entry
<1>3. (journal \o c) \o t = journal \o (c \o t)
  BY <1>2, ConcatAssociative
<1>4. journal' = (journal \o c) \o t
  BY <1>3
<1> QED
  BY <1>1, <1>4 DEF EndsIn

LEMMA ConcatsOfEntries ==
    \A x, y, z \in Seq(Entry) : (x \o y) \o z = x \o (y \o z)
  BY ConcatAssociative

(* The same when the ending comes in two parts.                            *)
LEMMA EndsAfterBoth ==
    ASSUME journal \in Seq(Quiet), NEW c \in Seq(Quiet), NEW s \in Seq(Entry),
           NEW r \in Seq(Entry), NEW u \in Endings, s \o r = u,
           journal' = journal \o (c \o s) \o r
    PROVE  EndsIn(u)'
<1>1. \A x, y, z \in Seq(Entry) : (x \o y) \o z = x \o (y \o z)
  BY ConcatsOfEntries
<1>2. Seq(Quiet) \subseteq Seq(Entry)
  <2>1. Quiet \subseteq Entry
    BY DEF Quiet, Entry
  <2> QED
    BY <2>1, SeqMonotonic
<1> DEFINE q == journal \o c
<1>3. q \in Seq(Quiet)
  BY ConcatProperties
<1>4. q \o s = journal \o (c \o s)
  BY <1>1, <1>2
<1>5. journal' = (q \o s) \o r
  BY <1>4
<1> HIDE DEF q
<1>6. (q \o s) \o r = q \o (s \o r)
  BY <1>1, <1>2, <1>3
<1>7. journal' = q \o u
  BY <1>5, <1>6
<1> QED
  BY <1>3, <1>7 DEF EndsIn

LEMMA ThreeAreOneAndTwo ==
    ASSUME NEW a \in Entry, NEW b \in Entry, NEW d \in Entry
    PROVE  <<a>> \o <<b, d>> = <<a, b, d>>
<1> DEFINE s == <<a>>
           t == <<b, d>>
           u == <<a, b, d>>
<1>1. /\ s \in Seq(Entry) /\ Len(s) = 1 /\ s[1] = a
      /\ t \in Seq(Entry) /\ Len(t) = 2 /\ t[1] = b /\ t[2] = d
      /\ u \in Seq(Entry) /\ Len(u) = 3 /\ u[1] = a /\ u[2] = b /\ u[3] = d
  OBVIOUS
<1> HIDE DEF s, t, u
<1>2. /\ s \o t \in Seq(Entry) /\ Len(s \o t) = 3
      /\ (s \o t)[1] = a /\ (s \o t)[2] = b /\ (s \o t)[3] = d
  <2>1. /\ s \o t \in Seq(Entry) /\ Len(s \o t) = Len(s) + Len(t)
        /\ \A i \in 1..(Len(s) + Len(t)) :
             (s \o t)[i] = IF i <= Len(s) THEN s[i] ELSE t[i - Len(s)]
    BY <1>1, ConcatProperties
  <2>2. /\ Len(s \o t) = 3
        /\ \A i \in 1..3 : (s \o t)[i] = IF i <= 1 THEN s[i] ELSE t[i - 1]
    BY <1>1, <2>1
  <2> QED
    BY <1>1, <2>1, <2>2
<1>3. s \o t = u
  <2>1. \A i \in 1..3 : (s \o t)[i] = u[i]
    BY <1>1, <1>2
  <2> QED
    BY <1>1, <1>2, <2>1, SeqEqual
<1> QED
  BY <1>3 DEF s, t, u

(* A step that breaks: its request is over with an error or dead, and its  *)
(* journal has an ending, though never the one of a success that was told. *)
LEMMA BrokenIsTold ==
    ASSUME JournalInv, journal \in Seq(Quiet), read \in ReadType,
           NEW c \in Seq(Quiet), NEW t \in Told0, Broken(c \o t)
    PROVE  JournalInv' /\ read'.at \in {"done", "dead"}
<1> DEFINE all == c \o t
<1>1. /\ all \in Seq(Entry) /\ Len(all) = Len(c) + Len(t) /\ DOMAIN all = 1..Len(all)
      /\ \A i \in 1..Len(t) : all[Len(c) + i] = t[i]
      /\ Len(c) \in Nat /\ t \in Seq(Entry) /\ Len(t) \in Nat
  <2>1. c \in Seq(Entry) /\ t \in Seq(Entry)
    BY HeadsEnd DEF Quiet, Entry
  <2> QED
    BY <2>1
<1>2. <<>> \in Endings /\ <<>> # Success
  BY DEF Endings, Success
<1>3. faults \in Nat /\ answer \in {"none", "body", "rejected", "error"}
  BY DEF JournalInv
<1>4. ASSUME NEW u \in Endings, EndsIn(u)', faults' = faults + 1,
             \/ read'.at = "done" /\ u # Success /\ answer' = "error"
             \/ read'.at = "dead" /\ answer' = answer
      PROVE  JournalInv' /\ read'.at \in {"done", "dead"}
  <2>1. faults' \in Nat /\ faults' # 0
    BY <1>3, <1>4
  <2>2. EndTold'
    BY <1>4, <2>1 DEF EndTold
  <2>3. Untold'
    BY <1>4 DEF Untold, Waiting
  <2> QED
    BY <1>3, <1>4, <2>1, <2>2, <2>3 DEF JournalInv
<1>5. CASE Throws(all)
  <2>1. PICK k \in DOMAIN all :
          journal' = journal \o SubSeq(all, 1, k - 1) \o
             (IF all[k] \in {"hop", "observed", "completed"}
              THEN Failure("transport_failed") ELSE <<>>)
    BY <1>5 DEF Throws
  <2>2. read'.at = "done" /\ answer' = "error" /\ faults' = faults + 1
    BY <1>5 DEF Throws, Ends, ReadType
  <2>3. PICK rest \in Endings :
          /\ journal' = journal \o SubSeq(all, 1, k - 1) \o rest
          /\ IF all[k] \in {"hop", "observed", "completed"} THEN rest \in Failed ELSE rest = <<>>
          /\ rest # Success
    <3>1. Failure("transport_failed") \in Failed
      BY FailureFails
    <3>2. \A u \in Failed : u \in Endings /\ u # Success
      BY DEF Failed, Endings, Success
    <3>3. CASE all[k] \in {"hop", "observed", "completed"}
      <4> HIDE DEF all
      <4> QED
        BY <2>1, <3>1, <3>2, <3>3
    <3>4. CASE all[k] \notin {"hop", "observed", "completed"}
      <4> HIDE DEF all
      <4> QED
        BY <1>2, <2>1, <3>4
    <3> QED
      BY <3>3, <3>4
  <2>4. k - 1 \in 0..(Len(c) + Len(t)) /\ k \in 1..(Len(c) + Len(t))
    BY <1>1
  <2>5. CASE k - 1 <= Len(c)
    <3>1. SubSeq(all, 1, k - 1) \in Seq(Quiet)
      BY <1>1, <2>4, <2>5, BrokenConcat
    <3> HIDE DEF all
    <3>2. PICK made \in Seq(Quiet) : journal' = journal \o made \o rest
      BY <2>3, <3>1
    <3>3. EndsIn(rest)'
      BY <2>3, <3>2, EndsAfter
    <3>4. rest # Success
      BY <2>3
    <3> QED
      BY <1>4, <2>2, <3>3, <3>4
  <2>6. CASE k - 1 > Len(c)
    <3>1. SubSeq(all, 1, k - 1) = c \o SubSeq(t, 1, (k - 1) - Len(c))
      <4>1. ~(k - 1 <= Len(c))
        BY <1>1, <2>4, <2>6
      <4> QED
        BY <1>1, <2>4, <4>1, BrokenConcat
    <3>2. Len(t) \in {0, 1, 2}
      BY HeadsEnd
    <3>3. (k - 1) - Len(c) = 1 /\ Len(t) = 2 /\ k = Len(c) + 2
      BY <1>1, <2>4, <2>6, <3>2
    <3>4. SubSeq(t, 1, 1) = <<t[1]>> /\ ((t[1] \in Broke /\ t[2] = "failed") \/ t = Success)
      BY <3>3, HeadsEnd
    <3>5. SubSeq(all, 1, k - 1) = c \o <<t[1]>> /\ all[k] = t[2]
      BY <1>1, <3>1, <3>3, <3>4
    <3> HIDE DEF all
    <3>6. journal' = journal \o (c \o <<t[1]>>) \o rest
      BY <2>3, <3>5
    <3>7. CASE t[1] \in Broke /\ t[2] = "failed"
      <4>1. rest = <<>>
        BY <2>3, <3>5, <3>7
      <4>2. <<t[1]>> \in Endings /\ <<t[1]>> # Success
        BY <3>7 DEF Endings, Success
      <4>3. PICK u \in Endings : journal' = journal \o (c \o u) \o <<>> /\ u # Success
        BY <3>6, <4>1, <4>2
      <4>4. journal \o (c \o u) \in Seq(Entry)
        <5>1. journal \in Seq(Entry) /\ c \in Seq(Entry) /\ u \in Seq(Entry)
          BY <4>3, EndingsAreSequences DEF Quiet, Entry
        <5> QED
          BY <5>1, ConcatProperties
      <4>5. journal' = journal \o (c \o u)
        BY <4>3, <4>4, ConcatEmptySeq
      <4>6. EndsIn(u)'
        BY <4>3, <4>5, EndsAfter
      <4>7. u # Success
        BY <4>3
      <4> QED
        BY <1>4, <2>2, <4>6, <4>7
    <3>8. CASE t = Success
      <4>1. t[1] = "observed" /\ t[2] = "completed"
        BY <3>8 DEF Success
      <4>2. rest \in Failed
        BY <2>3, <3>5, <4>1
      <4>3. PICK row \in Broke : rest = <<row, "failed">>
        BY <4>2 DEF Failed
      <4>4. PICK seen \in Seq(Entry), u \in Endings :
              seen = <<"observed">> /\ seen \o rest = u /\ u # Success
        <5>1. row \in Entry /\ "observed" \in Entry /\ "failed" \in Entry
          BY DEF Entry, Broke
        <5>2. <<"observed">> \o <<row, "failed">> = <<"observed", row, "failed">>
          BY <5>1, ThreeAreOneAndTwo
        <5>3. /\ <<"observed", row, "failed">> \in Endings
              /\ <<"observed", row, "failed">> # Success
          BY DEF Endings, Success
        <5>4. <<"observed">> \in Seq(Entry)
          BY <5>1
        <5> QED
          BY <4>3, <5>2, <5>3, <5>4
      <4>5. journal' = journal \o (c \o seen) \o rest
        BY <3>6, <4>1, <4>4
      <4>6. rest \in Seq(Entry) /\ seen \o rest = u
        BY <4>4, EndingsAreSequences
      <4>10. EndsIn(u)'
        BY <4>5, <4>6, EndsAfterBoth
      <4>11. u # Success
        BY <4>4
      <4> QED
        BY <1>4, <2>2, <4>10, <4>11
    <3> QED
      BY <3>4, <3>7, <3>8
  <2> QED
    BY <1>1, <2>4, <2>5, <2>6
<1>6. CASE Dies(all)
  <2>1. PICK k \in 0..Len(all) : journal' = journal \o SubSeq(all, 1, k)
    BY <1>6 DEF Dies
  <2>2. read'.at = "dead" /\ answer' = answer /\ faults' = faults + 1
    BY <1>6 DEF Dies, ReadType
  <2>3. k \in 0..(Len(c) + Len(t))
    BY <1>1, <2>1
  <2>4. CASE k <= Len(c)
    <3>1. SubSeq(all, 1, k) \in Seq(Quiet)
      BY <1>1, <2>3, <2>4, BrokenConcat
    <3> DEFINE made == SubSeq(all, 1, k)
    <3>2. journal' = journal \o made
      BY <2>1
    <3> HIDE DEF made, all
    <3>3. made \o <<>> = made /\ made \in Seq(Quiet)
      BY <3>1, ConcatEmptySeq DEF made
    <3>4. EndsIn(<<>>)'
      BY <1>2, <3>2, <3>3, EndsAfter
    <3> QED
      BY <1>2, <1>4, <2>2, <3>4
  <2>5. CASE k > Len(c)
    <3>1. SubSeq(all, 1, k) = c \o SubSeq(t, 1, k - Len(c)) /\ k - Len(c) \in 1..Len(t)
      <4>1. ~(k <= Len(c)) /\ k - Len(c) \in 1..Len(t)
        BY <1>1, <2>3, <2>5
      <4> QED
        BY <1>1, <2>3, <4>1, BrokenConcat
    <3> DEFINE u == SubSeq(t, 1, k - Len(c))
    <3>2. u \in Endings
      BY <3>1, HeadsEnd
    <3>3. journal' = journal \o (c \o u)
      BY <2>1, <3>1
    <3> HIDE DEF u, all
    <3>4. EndsIn(u)'
      BY <3>2, <3>3, EndsAfter
    <3> QED
      BY <1>4, <2>2, <3>2, <3>4
  <2> QED
    BY <1>1, <2>3, <2>4, <2>5
<1> QED
  BY <1>5, <1>6 DEF Broken

(* A request that is answered: with an error after a failure, with a body, *)
(* or in place of one, after a success.                                    *)
LEMMA ReturnedIsTold ==
    ASSUME JournalInv, journal \in Seq(Quiet), read \in ReadType,
           NEW c \in Seq(Quiet), NEW t \in Failed \cup {Success},
           NEW told \in {"error", "body", "rejected"}, told = "error" <=> t \in Failed,
           Returns(c \o t, told)
    PROVE  JournalInv' /\ read'.at \in {"done", "dead"}
<1>1. t \in Endings /\ (t = Success <=> t \notin Failed)
  BY DEF Endings, Failed, Success
<1>2. EndsIn(t)'
  BY <1>1, EndsAfter DEF Returns
<1>3. read'.at = "done" /\ answer' = told /\ faults' = faults
  BY DEF Returns, Ends, ReadType
<1>4. EndTold'
  <2>1. answer' \in {"body", "rejected"} <=> t = Success
    BY <1>1, <1>3
  <2> QED
    BY <1>1, <1>2, <1>3, <2>1 DEF EndTold
<1>5. Untold'
  BY <1>3 DEF Untold, Waiting
<1> QED
  BY <1>3, <1>4, <1>5 DEF JournalInv

LEMMA FailsIsTold ==
    ASSUME JournalInv, journal \in Seq(Quiet), read \in ReadType,
           NEW c \in Seq(Quiet), NEW code, Fails(c, code)
    PROVE  JournalInv' /\ read'.at \in {"done", "dead"}
<1>1. PICK t \in Failed : t = Failure(code)
  BY FailureFails
<1>2. Returns(c \o t, "error") \/ Broken(c \o t)
  BY <1>1 DEF Fails
<1>3. CASE Returns(c \o t, "error")
  BY <1>3, ReturnedIsTold
<1>4. CASE Broken(c \o t)
  BY <1>4, BrokenIsTold DEF Told0
<1> QED
  BY <1>2, <1>3, <1>4

LEMMA SucceedsIsTold ==
    ASSUME JournalInv, journal \in Seq(Quiet), read \in ReadType,
           NEW c \in Seq(Quiet), Succeeds(c)
    PROVE  JournalInv' /\ read'.at \in {"done", "dead"}
<1>1. PICK told \in {"body", "rejected"} : told = Told
  BY DEF Told
<1>2. Returns(c \o Success, told) \/ Broken(c \o Success)
  BY <1>1 DEF Succeeds, Success
<1>3. Success \in Told0 /\ Success \notin Failed
  BY DEF Told0, Success, Failed
<1>4. CASE Returns(c \o Success, told)
  BY <1>3, <1>4, ReturnedIsTold
<1>5. CASE Broken(c \o Success)
  BY <1>3, <1>5, BrokenIsTold
<1> QED
  BY <1>2, <1>4, <1>5

(* A step that breaks with nothing but quiet entries to commit.            *)
LEMMA QuietlyBroken ==
    ASSUME JournalInv, journal \in Seq(Quiet), read \in ReadType,
           NEW c \in Seq(Quiet), Broken(c)
    PROVE  JournalInv' /\ read'.at \in {"done", "dead"}
<1>1. c \o <<>> = c
  BY ConcatEmptySeq
<1>2. <<>> \in Told0
  BY DEF Told0
<1>3. Broken(c \o <<>>)
  BY <1>1
<1> QED
  BY <1>2, <1>3, BrokenIsTold

(* A step after which the request goes on.                                 *)
LEMMA GoesIsUntold ==
    ASSUME JournalInv, journal \in Seq(Quiet), NEW c \in Seq(Quiet), NEW next,
           Goes(c, next), read'.at \in Waiting
    PROVE  JournalInv'
<1>1. journal' \in Seq(Quiet)
  BY ConcatProperties DEF Goes
<1>2. Untold' /\ EndTold'
  BY <1>1 DEF Untold, EndTold, Waiting
<1> QED
  BY <1>2 DEF JournalInv, Goes

LEMMA RequestIsTold ==
    ASSUME GatewayInv, JournalInv,
           NEW method \in {"GET", "HEAD"}, NEW tool \in BOOLEAN, NEW url \in Url,
           request(method, tool, url)
    PROVE  JournalInv'
<1>1. read \in ReadType /\ read.at = "new" /\ journal = <<>> /\ journal \in Seq(Quiet)
  BY DEF GatewayInv, GatewayTypes, JournalInv, Untold, request
<1>2. CASE Refuse(<<"denied">>)
  <2> DEFINE t == <<"denied">>
  <2>1. t \in Told0 /\ t \in Endings /\ t # Success /\ t \in Seq(Entry) /\ <<>> \in Seq(Quiet)
    BY DEF Told0, Endings, Broke, Success, Entry
  <2>2. Len(t) = 1 /\ t[1] = "denied"
    OBVIOUS
  <2> HIDE DEF t
  <2>3. <<>> \o t = t
    BY <2>1, ConcatEmptySeq
  <2>4. Returns(t, "error") \/ Broken(<<>> \o t)
    BY <1>2, <2>3 DEF Refuse, t
  <2>5. CASE Broken(<<>> \o t)
    BY <1>1, <2>1, <2>5, BrokenIsTold
  <2>6. CASE Returns(t, "error")
    <3>1. journal' = t
      BY <1>1, <2>3, <2>6 DEF Returns
    <3>2. read'.at = "done" /\ answer' = "error" /\ faults' = faults
      BY <1>1, <2>6 DEF Returns, Ends, ReadType
    <3>3. ~Logged("requested")'
      BY <2>1, <2>2, <3>1 DEF Logged
    <3>4. \E p \in Seq(Quiet) : journal' = p \o t
      BY <2>1, <2>3, <3>1
    <3>5. PICK s \in Endings : s = t /\ s # Success
      BY <2>1
    <3>6. EndsIn(s)'
      BY <3>4, <3>5 DEF EndsIn
    <3>7. EndTold'
      BY <3>2, <3>3, <3>5, <3>6 DEF EndTold
    <3>8. Untold'
      BY <3>2 DEF Untold, Waiting
    <3> QED
      BY <3>2, <3>7, <3>8 DEF JournalInv
  <2> QED
    BY <2>4, <2>5, <2>6
<1>3. CASE Refuse(<<"requested", "denied", "failed">>)
  <2>1. "requested" \in Entry /\ "denied" \in Entry /\ "failed" \in Entry
    BY DEF Entry
  <2>2. <<"requested">> \o <<"denied", "failed">> = <<"requested", "denied", "failed">>
    BY <2>1, ThreeAreOneAndTwo
  <2>3. <<"requested">> \in Seq(Quiet) /\ <<"denied", "failed">> \in Failed
    BY DEF Quiet, Failed, Broke
  <2>4. PICK c \in Seq(Quiet), t \in Failed : Returns(c \o t, "error") \/ Broken(c \o t)
    BY <1>3, <2>2, <2>3 DEF Refuse
  <2>5. CASE Returns(c \o t, "error")
    BY <1>1, <2>5, ReturnedIsTold
  <2>6. CASE Broken(c \o t)
    BY <1>1, <2>6, BrokenIsTold DEF Told0
  <2> QED
    BY <2>4, <2>5, <2>6
<1> DEFINE commits == <<"requested", "granted", "spent", "started", "allowed">>
<1>4. commits \in Seq(Quiet)
  BY DEF Quiet
<1>5. CASE Broken(commits)
  BY <1>1, <1>4, <1>5, QuietlyBroken
<1>6. ASSUME NEW next, Goes(commits, next), read'.at = "resolving"
      PROVE  JournalInv'
  BY <1>1, <1>4, <1>6, GoesIsUntold DEF Waiting
<1>7. CASE Goes(commits, [read EXCEPT !.at = "resolving", !.method = method,
                                      !.tool = tool, !.url = url])
  <2>1. read'.at = "resolving"
    BY <1>1, <1>7 DEF Goes, ReadType
  <2> QED
    BY <1>6, <1>7, <2>1
<1> QED
  BY <1>2, <1>3, <1>5, <1>7 DEF request

LEMMA GatewayTells ==
    ASSUME GatewayInv, JournalInv, GatewayStep
    PROVE  JournalInv'
<1>1. read \in ReadType
  BY DEF GatewayInv, GatewayTypes
<1>2. read.at \in Waiting => journal \in Seq(Quiet)
  BY DEF JournalInv, Untold
<1>3. <<>> \in Seq(Quiet) /\ <<"hop">> \in Seq(Quiet)
  BY DEF Quiet
<1>4. ASSUME read.at \in Waiting, NEW c \in Seq(Quiet),
             \/ \E code : Fails(c, code)
             \/ Succeeds(c)
             \/ Broken(c)
      PROVE  JournalInv'
  BY <1>1, <1>2, <1>4, FailsIsTold, SucceedsIsTold, QuietlyBroken
<1>5. ASSUME read.at \in Waiting, NEW c \in Seq(Quiet), NEW next, Goes(c, next),
             read'.at \in Waiting
      PROVE  JournalInv'
  BY <1>2, <1>5, GoesIsUntold
<1>6. CASE openHop
  <2>1. read.at \in Waiting
    BY <1>6 DEF openHop, Waiting
  <2>2. CASE Fails(<<>>, "refused")
    BY <1>3, <1>4, <2>1, <2>2
  <2>3. ASSUME NEW first \in Address,
               Goes(<<>>, [read EXCEPT !.at = "answering", !.address = first])
        PROVE  JournalInv'
    <3>1. read'.at = "answering"
      BY <1>1, <2>3 DEF Goes, ReadType
    <3> QED
      BY <1>3, <1>5, <2>1, <2>3, <3>1 DEF Waiting
  <2> QED
    BY <1>6, <2>2, <2>3 DEF openHop
<1>7. CASE hopAnswers
  <2>1. read.at \in Waiting
    BY <1>7 DEF hopAnswers, Waiting
  <2>2. CASE Fails(<<>>, "refused") \/ Fails(<<"hop">>, "refused") \/ Succeeds(<<"hop">>)
             \/ Broken(<<"hop">>)
    BY <1>3, <1>4, <2>1, <2>2
  <2>3. CASE Goes(<<"hop">>, [read EXCEPT !.at = "reading"])
    <3>1. read'.at = "reading"
      BY <1>1, <2>3 DEF Goes, ReadType
    <3> QED
      BY <1>3, <1>5, <2>1, <2>3, <3>1 DEF Waiting
  <2>4. ASSUME NEW next \in Url, Goes(<<"hop">>, Onward(next))
        PROVE  JournalInv'
    <3>1. read'.at = "resolving"
      BY <1>1, <2>4 DEF Goes, ReadType, Onward
    <3> QED
      BY <1>3, <1>5, <2>1, <2>4, <3>1 DEF Waiting
  <2>5. ASSUME NEW next \in Url, Follow(next)
        PROVE  JournalInv'
    <3>1. Goes(<<"hop">>, Onward(next)) \/ Broken(<<"hop">>) \/ Fails(<<"hop">>, "refused")
      BY <2>5 DEF Follow, Onward
    <3> QED
      BY <2>2, <2>4, <3>1
  <2> QED
    BY <1>7, <2>2, <2>3, <2>5 DEF hopAnswers
<1>8. CASE BodyWasIn
  <2>1. read.at = "reading" /\ Goes(<<>>, [read EXCEPT !.aborted = TRUE])
    BY <1>8 DEF BodyWasIn
  <2>2. read'.at = "reading"
    BY <1>1, <2>1 DEF Goes, ReadType
  <2> QED
    BY <1>3, <1>5, <2>1, <2>2 DEF Waiting
<1>9. CASE transportFails \/ readBoundedBody \/ TimeOut
  <2>1. read.at \in Waiting /\ (Succeeds(<<>>) \/ \E code : Fails(<<>>, code))
    BY <1>9 DEF transportFails, readBoundedBody, TimeOut, Waiting
  <2> QED
    BY <1>3, <1>4, <2>1
<1> QED
  BY <1>6, <1>7, <1>8, <1>9, RequestIsTold DEF GatewayStep

LEMMA JournalStarts ==
    ASSUME GatewayInit
    PROVE  JournalInv
<1>1. read.at = "new" /\ journal = <<>> /\ journal \in Seq(Quiet)
  BY DEF GatewayInit, NoRead
<1> QED
  BY <1>1 DEF GatewayInit, JournalInv, Untold, EndTold

LEMMA JournalStutters ==
    ASSUME JournalInv, UNCHANGED gatewayVars
    PROVE  JournalInv'
  BY DEF JournalInv, gatewayVars, Untold, EndTold, EndsIn, Logged

---------------------------------------------------------------------------
(* The proxy.  What was established at one wait of a handler still holds   *)
(* after the next.                                                         *)
ConnType ==
    [at : {"new", "resolving", "connecting", "tunnel", "over", "abandoned"},
     known : BOOLEAN, url : Url, address : Address, remote : SUBSET Address,
     client : {"none", "open", "closed"}, upstream : {"none", "connecting", "open", "closed"},
     idle : BOOLEAN]

Established(c) ==
    /\ c.at \in {"resolving", "connecting", "tunnel"} => c.known /\ c.url \in Allowed
    /\ c.at \in {"connecting", "tunnel"} => c.address \in Public
    /\ c.at = "tunnel" => c.remote = {c.address}

EgressInv == conn \in [Conn -> ConnType] /\ \A i \in Conn : Established(conn[i])

LEMMA SetKeeps ==
    ASSUME EgressInv, NEW i \in Conn, NEW c \in ConnType, Established(c), Set(i, c)
    PROVE  EgressInv'
  BY DEF EgressInv, Set

LEMMA RefusedIsSafe ==
    ASSUME NEW c \in ConnType
    PROVE  Refused(c) \in ConnType /\ Established(Refused(c))
  BY DEF ConnType, Refused, Established

LEMMA ConnectionKeeps ==
    ASSUME EgressInv, NEW i \in Conn,
           handleConnect(i) \/ authorize(i) \/ connected(i) \/ connectFails(i)
             \/ Closes(i) \/ Idles(i)
    PROVE  EgressInv'
<1>1. conn[i] \in ConnType /\ Established(conn[i])
  BY DEF EgressInv
<1>2. CASE handleConnect(i)
  <2>1. PICK known \in BOOLEAN, url \in Url :
          LET c == [conn[i] EXCEPT !.known = known, !.url = url, !.client = "open"]
          IN  Set(i, IF known /\ UrlAllowed(url) THEN [c EXCEPT !.at = "resolving"]
                                                  ELSE Refused(c))
    BY <1>2 DEF handleConnect
  <2> DEFINE c == [conn[i] EXCEPT !.known = known, !.url = url, !.client = "open"]
             d == [c EXCEPT !.at = "resolving"]
  <2>2. c \in ConnType /\ c.known = known /\ c.url = url
    BY <1>1 DEF ConnType
  <2>3. d \in ConnType /\ d.at = "resolving" /\ d.known = known /\ d.url = url
    BY <1>1 DEF ConnType
  <2>4. CASE known /\ UrlAllowed(url)
    <3>1. Established(d) /\ Set(i, d)
      BY <2>1, <2>3, <2>4 DEF Established, UrlAllowed
    <3> QED BY <2>3, <3>1, SetKeeps
  <2>5. CASE ~(known /\ UrlAllowed(url))
    <3>1. Set(i, Refused(c))
      BY <2>1, <2>5
    <3> QED BY <2>2, <3>1, RefusedIsSafe, SetKeeps
  <2> QED BY <2>4, <2>5
<1>3. CASE authorize(i)
  <2>1. CASE Set(i, Refused(conn[i]))
    BY <1>1, <2>1, RefusedIsSafe, SetKeeps
  <2>2. ASSUME NEW found \in SUBSET Address, NEW first \in found, Vetted(found),
               Set(i, [conn[i] EXCEPT !.at = "connecting", !.address = first,
                                      !.upstream = "connecting"])
        PROVE  EgressInv'
    <3> DEFINE d == [conn[i] EXCEPT !.at = "connecting", !.address = first,
                                    !.upstream = "connecting"]
    <3>1. conn[i].at = "resolving" /\ first \in Public
      BY <1>3, <2>2 DEF authorize, Vetted
    <3>2. d \in ConnType /\ Established(d)
      BY <1>1, <3>1 DEF ConnType, Established
    <3> QED BY <2>2, <3>2, SetKeeps
  <2> QED BY <1>3, <2>1, <2>2 DEF authorize
<1>4. CASE connected(i)
  <2>1. PICK remote \in Address :
          Set(i, IF remote # conn[i].address THEN Refused(conn[i])
                 ELSE [conn[i] EXCEPT !.at = "tunnel", !.upstream = "open", !.idle = TRUE,
                                      !.remote = {remote}])
    BY <1>4 DEF connected
  <2> DEFINE d == [conn[i] EXCEPT !.at = "tunnel", !.upstream = "open", !.idle = TRUE,
                                  !.remote = {remote}]
  <2>2. CASE remote # conn[i].address
    BY <1>1, <2>1, <2>2, RefusedIsSafe, SetKeeps
  <2>3. CASE remote = conn[i].address
    <3>1. d \in ConnType /\ Established(d)
      BY <1>1, <1>4, <2>3 DEF ConnType, Established, connected
    <3> QED BY <2>1, <2>3, <3>1, SetKeeps
  <2> QED BY <2>2, <2>3
<1>5. CASE connectFails(i)
  BY <1>1, <1>5, RefusedIsSafe, SetKeeps DEF connectFails
<1>6. CASE Closes(i) \/ Idles(i)
  <2>1. PICK d \in {[conn[i] EXCEPT !.client = "closed", !.upstream = "closed"],
                    [conn[i] EXCEPT !.client = "closed"],
                    [conn[i] EXCEPT !.upstream = "closed"]} : Set(i, d)
    BY <1>6 DEF Closes, Idles
  <2>2. d \in ConnType /\ Established(d)
    BY <1>1, <2>1 DEF ConnType, Established
  <2> QED BY <2>1, <2>2, SetKeeps
<1> QED BY <1>2, <1>3, <1>4, <1>5, <1>6

(* The end of the child, and stop, only close sockets and give handlers up.*)
LEMMA EndKeeps ==
    ASSUME EgressInv, ChildExits \/ stop
    PROVE  EgressInv'
<1>1. CASE ChildExits
  <2>1. \A i \in Conn : conn'[i] = [conn[i] EXCEPT !.client = IF @ = "open" THEN "closed" ELSE @]
    BY <1>1 DEF ChildExits
  <2>2. ASSUME NEW i \in Conn PROVE conn'[i] \in ConnType /\ Established(conn'[i])
    <3>1. conn[i] \in ConnType /\ Established(conn[i])
      BY DEF EgressInv
    <3> DEFINE client == IF conn[i].client = "open" THEN "closed" ELSE conn[i].client
    <3>2. conn'[i] = [conn[i] EXCEPT !.client = client]
      BY <2>1
    <3>3. client \in {"none", "closed"}
      BY <3>1 DEF ConnType
    <3> HIDE DEF client
    <3>4. conn'[i] \in ConnType
      BY <3>1, <3>2, <3>3 DEF ConnType
    <3>5. /\ conn'[i].at = conn[i].at /\ conn'[i].known = conn[i].known
          /\ conn'[i].url = conn[i].url /\ conn'[i].address = conn[i].address
          /\ conn'[i].remote = conn[i].remote
      BY <3>1, <3>2 DEF ConnType
    <3> QED BY <3>1, <3>4, <3>5 DEF Established
  <2> QED BY <1>1, <2>2 DEF ChildExits, EgressInv
<1>2. CASE stop
  <2>1. \A i \in Conn : conn'[i] =
          [conn[i] EXCEPT !.upstream = IF @ \in Open THEN "closed" ELSE @,
                          !.client = IF @ = "open" THEN "closed" ELSE @,
                          !.at = IF @ = "connecting" THEN "abandoned" ELSE @]
    BY <1>2 DEF stop
  <2>2. ASSUME NEW i \in Conn PROVE conn'[i] \in ConnType /\ Established(conn'[i])
    <3>1. conn[i] \in ConnType /\ Established(conn[i])
      BY DEF EgressInv
    <3> DEFINE at == IF conn[i].at = "connecting" THEN "abandoned" ELSE conn[i].at
               up == IF conn[i].upstream \in Open THEN "closed" ELSE conn[i].upstream
               client == IF conn[i].client = "open" THEN "closed" ELSE conn[i].client
    <3>2. conn'[i] = [conn[i] EXCEPT !.upstream = up, !.client = client, !.at = at]
      BY <2>1
    <3>3. /\ at \in {"new", "resolving", "tunnel", "over", "abandoned"}
          /\ up \in {"none", "closed"}
          /\ client \in {"none", "closed"}
          /\ at \in {"resolving", "tunnel"} => at = conn[i].at
      BY <3>1 DEF ConnType, Open
    <3> HIDE DEF at, up, client
    <3>4. conn'[i] \in ConnType /\ conn'[i].at = at
      BY <3>1, <3>2, <3>3 DEF ConnType
    <3>5. /\ conn'[i].known = conn[i].known /\ conn'[i].url = conn[i].url
          /\ conn'[i].address = conn[i].address /\ conn'[i].remote = conn[i].remote
      BY <3>1, <3>2 DEF ConnType
    <3> QED BY <3>1, <3>3, <3>4, <3>5 DEF Established
  <2> QED BY <1>2, <2>2 DEF stop, EgressInv
<1> QED BY <1>1, <1>2

LEMMA EgressStarts ==
    ASSUME EgressInit
    PROVE  EgressInv
  BY HostAssumption DEF EgressInit, EgressInv, NoConn, ConnType, Established

LEMMA EgressVets ==
    ASSUME EgressInv
    PROVE  TunnelsOnlyVetted
  BY DEF EgressInv, Established, TunnelsOnlyVetted

---------------------------------------------------------------------------
(* The two together share the host only, of which neither invariant says   *)
(* more than its values.                                                   *)
HostTypes ==
    /\ host \in {"up", "exited", "stopped"}
    /\ session \in {"running", "over"} /\ run \in {"running", "not_running"}

IInv == GatewayInv /\ JournalInv /\ EgressInv /\ HostTypes

LEMMA HostTypesKeep ==
    ASSUME HostTypes, [Next]_vars
    PROVE  HostTypes'
<1>1. CASE UNCHANGED hostVars
  BY <1>1 DEF HostTypes, hostVars
<1>2. CASE ChildExits \/ stop \/ RunMoves
  BY <1>2 DEF HostTypes, ChildExits, stop, RunMoves
<1> QED
  BY <1>1, <1>2 DEF Next, GatewayStep, vars

LEMMA NextKeeps ==
    ASSUME IInv, [Next]_vars
    PROVE  IInv'
<1>1. HostTypes'
  BY HostTypesKeep DEF IInv
<1>2. ASSUME UNCHANGED gatewayVars PROVE GatewayInv' /\ JournalInv'
  BY <1>2, GatewayStutters, JournalStutters DEF IInv
<1>3. CASE GatewayStep /\ UNCHANGED egressVars
  BY <1>1, <1>3, GatewayKeeps, GatewayTells DEF IInv, EgressInv, egressVars
<1>4. CASE EgressStep /\ UNCHANGED <<hostVars, gatewayVars>>
  BY <1>1, <1>2, <1>4, ConnectionKeeps DEF IInv, EgressStep
<1>5. CASE (ChildExits \/ stop) /\ UNCHANGED gatewayVars
  BY <1>1, <1>2, <1>5, EndKeeps DEF IInv
<1>6. CASE RunMoves /\ UNCHANGED <<gatewayVars, egressVars>>
  BY <1>1, <1>2, <1>6 DEF IInv, EgressInv, egressVars
<1>7. CASE UNCHANGED vars
  BY <1>1, <1>2, <1>7 DEF IInv, vars, EgressInv, egressVars
<1> QED
  BY <1>3, <1>4, <1>5, <1>6, <1>7 DEF Next

(* The invariant of both ways out: the types, what a hop relies on, how    *)
(* far the journal speaks, and what a tunnel relies on.                    *)
THEOREM NetworkInvariance == Spec => []IInv
<1>1. Init => IInv
  BY GatewayStarts, JournalStarts, EgressStarts DEF Init, IInv, HostInit, HostTypes
<1>2. IInv /\ [Next]_vars => IInv'
  BY NextKeeps
<1> QED
  BY <1>1, <1>2, PTL DEF Spec

(* Neither the gateway nor the proxy ever reaches anything but a listed    *)
(* target at an address vetted for that very contact, redirects, second    *)
(* looks at DNS and the end of the host at any wait included.              *)
THEOREM OnlyVettedIsEverReached == Spec => []OnlyVettedIsReached
<1>1. IInv => OnlyVettedIsReached
  BY GatewayVets, EgressVets DEF IInv, OnlyVettedIsReached
<1> QED
  BY <1>1, NetworkInvariance, PTL

(* TOLD, whatever commit fails and wherever the daemon dies: a request has *)
(* at most one outcome event, an undisturbed one exactly one and at the    *)
(* end, the last row says the same as the event, and the caller gets a     *)
(* body, or the notice in its place, exactly with "completed".             *)
THEOREM OutcomesAreTold == Spec => []OutcomeIsTold
<1>1. ASSUME IInv PROVE TypeOK
  <2>1. read \in ReadType /\ read.hops \in Nat /\ read.hops <= MaxRedirects
    BY <1>1 DEF IInv, GatewayInv, GatewayTypes, HopsCounted, ReadType
  <2>2. read.hops \in 0..MaxRedirects
    BY <2>1, GatewayAssumption
  <2> QED
    BY <1>1, <2>1, <2>2 DEF IInv, HostTypes, JournalInv, TypeOK, ReadType
<1>2. IInv => OutcomeIsTold
  BY <1>1, JournalTells DEF IInv
<1> QED
  BY <1>2, NetworkInvariance, PTL
=============================================================================
