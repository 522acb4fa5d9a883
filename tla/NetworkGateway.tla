--------------------------- MODULE NetworkGateway ---------------------------
(***************************************************************************)
(* A read of the network on behalf of a hosted model or an API client:     *)
(* checks, a one-time grant that is spent before anything is contacted,    *)
(* then hop after hop, each one looked up, vetted, contacted and compared, *)
(* and one outcome told three times, in a row, in an event and to the      *)
(* caller, while a timer may abort it and its run may end.                 *)
(*                                                                         *)
(* A step is what runs between two awaits.  Its commits are listed in the  *)
(* order in which they are made, and one of them may be the last: it       *)
(* throws, or the daemon dies.                                             *)
(***************************************************************************)
EXTENDS NetworkHost, Naturals, Sequences

CONSTANTS
    Granted,      \* what the policy grants a read of
    MaxRedirects, \* bound of the code: 3
    MaxFault      \* bound: commits that fail and deaths

ASSUME GatewayAssumption == MaxRedirects \in Nat /\ MaxFault \in Nat

VARIABLES
    read,         \* the request: where it is, method, caller, URL, address, hops
    journal,      \* what was committed for it, events and rows in order
    contacts,     \* what was contacted for it
    answer,       \* what its caller was told: "none", "body", "rejected", "error"
    faults

gatewayVars == <<read, journal, contacts, answer, faults>>

Waiting == {"resolving", "answering", "reading"}

NoRead == [at |-> "new", method |-> "GET", tool |-> FALSE, url |-> CHOOSE u \in Url : TRUE,
           address |-> CHOOSE a \in Address : TRUE, hops |-> 0, aborted |-> FALSE]

Logged(entry) == \E i \in DOMAIN journal : journal[i] = entry

(* The catch: the error is told as a timeout once the timer has fired.     *)
Failure(code) ==
    LET told == IF read.aborted THEN "timeout" ELSE code
    IN  <<IF told = "transport_failed" THEN "degraded" ELSE "denied", "failed">>

---------------------------------------------------------------------------
(* Commits.                                                                *)

Ends(told) == read' = [read EXCEPT !.at = "done"] /\ answer' = told

(* All commits of the step are made and the request goes on.               *)
Goes(commits, next) ==
    /\ journal' = journal \o commits
    /\ read' = next
    /\ UNCHANGED <<answer, faults>>

Returns(commits, told) ==
    /\ journal' = journal \o commits
    /\ Ends(told)
    /\ UNCHANGED faults

(* One of them throws.  Before the try, and in the catch, that is the end; *)
(* in the try the catch records a failure.                                 *)
Throws(commits) ==
    /\ faults < MaxFault
    /\ \E k \in DOMAIN commits :
         LET made == SubSeq(commits, 1, k - 1)
         IN  journal' = journal \o made \o
               (IF commits[k] \in {"hop", "observed", "completed"}
                THEN Failure("transport_failed") ELSE <<>>)
    /\ Ends("error")
    /\ faults' = faults + 1

Dies(commits) ==
    /\ faults < MaxFault
    /\ \E k \in 0..Len(commits) : journal' = journal \o SubSeq(commits, 1, k)
    /\ read' = [read EXCEPT !.at = "dead"]
    /\ faults' = faults + 1
    /\ UNCHANGED answer

Broken(commits) == Throws(commits) \/ Dies(commits)

Fails(commits, code) ==
    LET all == commits \o Failure(code)
    IN  Returns(all, "error") \/ Broken(all)

(* A model whose host is gone gets no body.                                *)
Told == IF read.tool /\ Aborted THEN "rejected" ELSE "body"

Succeeds_Bug(commits) ==
    LET all == commits \o <<"completed", "observed">>
    IN  Returns(all, Told) \/ Broken(all)

Succeeds(commits) ==
    LET all == commits \o <<"observed", "completed">>
    IN  Returns(all, Told) \/ Broken(all)

---------------------------------------------------------------------------
(* Everything up to the first look-up is one step.                         *)

MayAsk(url) == session = "running" /\ run = "running" /\ UrlAllowed(url)

PolicyAllows(url) == url \in Granted

Refuse(commits) ==
    /\ Returns(commits, "error") \/ Broken(commits)
    /\ UNCHANGED contacts

request(method, tool, url) ==
    /\ read.at = "new" /\ (tool => ~Aborted)
    /\ \/ /\ ~MayAsk(url)
          /\ Refuse(<<"denied">>)
       \/ /\ MayAsk(url) /\ ~PolicyAllows(url)
          /\ Refuse(<<"requested", "denied", "failed">>)
       \/ /\ MayAsk(url) /\ PolicyAllows(url)
          /\ LET commits == <<"requested", "granted", "spent", "started", "allowed">>
                 opened == [read EXCEPT !.at = "resolving", !.method = method,
                                        !.tool = tool, !.url = url]
             IN  Goes(commits, opened) \/ Broken(commits)
          /\ UNCHANGED contacts

(* The look-up answers; the first address is contacted.                    *)
openHop ==
    /\ read.at = "resolving"
    /\ \E found \in SUBSET Address :
         \/ /\ ~Vetted(found)
            /\ Fails(<<>>, "refused")
            /\ UNCHANGED contacts
         \/ /\ Vetted(found)
            /\ \E first \in found :
                 /\ contacts' = Append(contacts, [url |-> read.url, address |-> first])
                 /\ Goes(<<>>, [read EXCEPT !.at = "answering", !.address = first])

(* The headers are there: a hop, a redirect, or the start of the body.     *)
Follow_Bug(next) ==
    /\ read.hops < MaxRedirects
    /\ LET on == [read EXCEPT !.at = "resolving", !.url = next, !.hops = @ + 1]
       IN  Goes(<<"hop">>, on) \/ Broken(<<"hop">>)

Follow(next) ==
    \/ /\ read.hops < MaxRedirects /\ UrlAllowed(next)
       /\ LET on == [read EXCEPT !.at = "resolving", !.url = next, !.hops = @ + 1]
          IN  Goes(<<"hop">>, on) \/ Broken(<<"hop">>)
    \/ /\ read.hops >= MaxRedirects \/ ~UrlAllowed(next)
       /\ Fails(<<"hop">>, "refused")

hopAnswers ==
    /\ read.at = "answering"
    /\ \E remote \in Address, status \in {"invalid", "redirect", "final", "forbidden"} :
         \/ /\ status = "invalid" \/ remote # read.address
            /\ Fails(<<>>, "refused")
         \/ /\ status = "redirect" /\ remote = read.address
            /\ \E next \in Url : Follow(next)
         \/ /\ status = "final" /\ remote = read.address /\ read.method = "HEAD"
            /\ Succeeds(<<"hop">>)
         \/ /\ status = "final" /\ remote = read.address /\ read.method = "GET"
            /\ Goes(<<"hop">>, [read EXCEPT !.at = "reading"]) \/ Broken(<<"hop">>)
         \/ /\ status = "forbidden" /\ remote = read.address /\ read.method = "GET"
            /\ Fails(<<"hop">>, "refused")   \* encoded, or announced as too large
    /\ UNCHANGED contacts

transportFails ==
    /\ read.at \in {"answering", "reading"}
    /\ Fails(<<>>, "transport_failed")
    /\ UNCHANGED contacts

readBoundedBody ==
    /\ read.at = "reading"
    /\ Succeeds(<<>>) \/ Fails(<<>>, "refused")
    /\ UNCHANGED contacts

(* The timer: a look-up and a connection are given up at once, a body may  *)
(* have been in already.                                                   *)
TimeOut_Bug ==
    /\ read.at \in Waiting /\ ~read.aborted
    /\ IF read.at = "resolving" THEN Goes(<<>>, [read EXCEPT !.aborted = TRUE])
                                ELSE Fails(<<>>, "timeout")
    /\ UNCHANGED contacts

TimeOut ==
    /\ read.at \in Waiting
    /\ Fails(<<>>, "timeout")
    /\ UNCHANGED contacts

BodyWasIn ==
    /\ read.at = "reading" /\ ~read.aborted
    /\ Goes(<<>>, [read EXCEPT !.aborted = TRUE])
    /\ UNCHANGED contacts

---------------------------------------------------------------------------
GatewayInit ==
    /\ read = NoRead
    /\ journal = <<>> /\ contacts = <<>> /\ answer = "none" /\ faults = 0

GatewayStep ==
    /\ \/ \E method \in {"GET", "HEAD"}, tool \in BOOLEAN, url \in Url :
              request(method, tool, url)
       \/ openHop \/ hopAnswers \/ transportFails \/ readBoundedBody
       \/ TimeOut \/ BodyWasIn
    /\ UNCHANGED hostVars

---------------------------------------------------------------------------
(* What the journal says of the outcome, in events and in rows.            *)
Outcome == {"completed", "failed"}
Row == {"observed", "denied", "degraded"}
Places(entries) == {i \in DOMAIN journal : journal[i] \in entries}

(* TYPE.  Every variable keeps to its values.                              *)
TypeOK ==
    /\ host \in {"up", "exited", "stopped"}
    /\ session \in {"running", "over"} /\ run \in {"running", "not_running"}
    /\ read.at \in {"new", "done", "dead"} \cup Waiting
    /\ read.url \in Url /\ read.address \in Address /\ read.hops \in 0..MaxRedirects
    /\ answer \in {"none", "body", "rejected", "error"}

(* VETTED.  Whatever is contacted is on the list, redirects included, at   *)
(* an address that was vetted in this very hop, after a grant was spent    *)
(* and the start recorded, and never oftener than the redirects allow.     *)
ContactsOnlyVetted ==
    /\ \A i \in DOMAIN contacts : contacts[i].url \in Allowed /\ contacts[i].address \in Public
    /\ contacts # <<>> => Logged("spent") /\ Logged("started") /\ contacts[1].url \in Granted
    /\ Len(contacts) <= MaxRedirects + 1

(* TOLD.  Every variable keeps to its values; a request has at most one    *)
(* outcome event, whatever fails; one that started and was not disturbed   *)
(* has exactly one; the last row says the same as the event, and the       *)
(* caller gets a body exactly with "completed".                            *)
OutcomeIsTold ==
    /\ TypeOK
    /\ \A i, j \in Places(Outcome) : i = j
    /\ read.at = "done" /\ faults = 0 /\ Logged("requested") => journal[Len(journal)] \in Outcome
    /\ Logged("completed") => \E i \in Places({"observed"}) : Places(Row) = {i}
    /\ Logged("failed") => \E i \in Places({"denied", "degraded"}) : \A j \in Places(Row) : j <= i
    /\ read.at = "done" => (answer \in {"body", "rejected"} <=> Logged("completed"))

(* ENDS.  A request that was let out ends though the network never says a  *)
(* word: only the timer is relied on.                                      *)
RequestEnds == read.at \in Waiting ~> read.at \in {"done", "dead"}
=============================================================================
