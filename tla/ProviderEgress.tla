--------------------------- MODULE ProviderEgress ---------------------------
(***************************************************************************)
(* The proxy through which a hosted child reaches its provider: a CONNECT  *)
(* is authenticated, looked up, vetted, connected and compared before a    *)
(* tunnel is opened.  Each wait of the handler may last beyond the end of  *)
(* the child and beyond stop, which destroys the sockets it knows of then. *)
(***************************************************************************)
EXTENDS NetworkHost, Naturals

CONSTANTS Conn

VARIABLES conn    \* each connection of the child

egressVars == <<conn>>

(* at: where the handler is; client and upstream: its two sockets; idle:   *)
(* whether the idle timers run.                                            *)
NoConn == [at |-> "new", known |-> FALSE, url |-> CHOOSE u \in Url : TRUE,
           address |-> CHOOSE a \in Address : TRUE, remote |-> {},
           client |-> "none", upstream |-> "none", idle |-> FALSE]

Open == {"connecting", "open"}

(* The failure is audited and written to the client, which then closes.    *)
Refused(c) == [c EXCEPT !.at = "over", !.client = "closed",
                        !.upstream = IF @ = "none" THEN @ ELSE "closed"]

Set(i, c) == conn' = [conn EXCEPT ![i] = c]

---------------------------------------------------------------------------
handleConnect(i) ==
    /\ conn[i].at = "new" /\ host = "up"
    /\ \E known \in BOOLEAN, url \in Url :
         LET c == [conn[i] EXCEPT !.known = known, !.url = url, !.client = "open"]
         IN  Set(i, IF known /\ UrlAllowed(url) THEN [c EXCEPT !.at = "resolving"]
                                                 ELSE Refused(c))

(* After the look-up the handler connects, whoever is still there.         *)
authorize(i) ==
    /\ conn[i].at = "resolving"
    /\ \E found \in SUBSET Address :
         \/ ~Vetted(found) /\ Set(i, Refused(conn[i]))
         \/ /\ Vetted(found)
            /\ \E first \in found :
                 Set(i, [conn[i] EXCEPT !.at = "connecting", !.address = first,
                                        !.upstream = "connecting"])

connected(i) ==
    /\ conn[i].at = "connecting"
    /\ \E remote \in Address :
         Set(i, IF remote # conn[i].address THEN Refused(conn[i])
                ELSE [conn[i] EXCEPT !.at = "tunnel", !.upstream = "open", !.idle = TRUE,
                                     !.remote = {remote}])

(* An error of the connection, or the connect timer.                       *)
connectFails(i) == conn[i].at = "connecting" /\ Set(i, Refused(conn[i]))

(* Either end of a tunnel closes: in order, and the pipe closes the other; *)
(* or by an error, which no pipe passes on.                                *)
Closes(i) ==
    /\ conn[i].at = "tunnel"
    /\ \/ /\ conn[i].client = "open" /\ conn[i].upstream = "open"
          /\ Set(i, [conn[i] EXCEPT !.client = "closed", !.upstream = "closed"])
       \/ conn[i].client = "open" /\ Set(i, [conn[i] EXCEPT !.client = "closed"])
       \/ conn[i].upstream = "open" /\ Set(i, [conn[i] EXCEPT !.upstream = "closed"])

(* The idle timer of a socket over which nothing goes any more.            *)
Idles(i) ==
    /\ conn[i].at = "tunnel" /\ conn[i].idle
    /\ {conn[i].client, conn[i].upstream} = {"open", "closed"}
    /\ Set(i, [conn[i] EXCEPT !.client = "closed", !.upstream = "closed"])

(* The child goes and takes its ends of the connections with it.           *)
ChildExits ==
    /\ host = "up"
    /\ host' = "exited"
    /\ conn' = [i \in Conn |-> [conn[i] EXCEPT !.client = IF @ = "open" THEN "closed" ELSE @]]
    /\ UNCHANGED <<session, run>>

(* A socket destroyed while it connects tells nobody: its handler waits    *)
(* for ever.                                                               *)
stop ==
    /\ host = "exited"
    /\ host' = "stopped"
    /\ conn' = [i \in Conn |->
         [conn[i] EXCEPT !.upstream = IF @ \in Open THEN "closed" ELSE @,
                         !.client = IF @ = "open" THEN "closed" ELSE @,
                         !.at = IF @ = "connecting" THEN "abandoned" ELSE @]]
    /\ UNCHANGED <<session, run>>

---------------------------------------------------------------------------
EgressInit == conn = [i \in Conn |-> NoConn]

EgressStep ==
    \/ \E i \in Conn : handleConnect(i) \/ authorize(i) \/ connected(i) \/ connectFails(i)
                       \/ Closes(i) \/ Idles(i)

---------------------------------------------------------------------------
(* VETTED.  A tunnel exists only for a child that showed the credential,   *)
(* to a listed target, at the address that was vetted and is the one that  *)
(* answered.                                                               *)
TunnelsOnlyVetted ==
    \A i \in Conn : conn[i].at = "tunnel" =>
        /\ conn[i].known /\ conn[i].url \in Allowed
        /\ conn[i].remote = {conn[i].address} /\ conn[i].address \in Public

(* CLOSED.  When the child is gone every upstream socket is closed sooner  *)
(* or later, the ones opened after stop by handlers that were still        *)
(* waiting included.                                                       *)
EgressCloses ==
    \A i \in Conn : host = "stopped" /\ conn[i].upstream \in Open ~> conn[i].upstream = "closed"
=============================================================================
