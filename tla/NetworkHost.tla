---------------------------- MODULE NetworkHost -----------------------------
(***************************************************************************)
(* What the two network boundaries of a hosted run have in common: the     *)
(* App Server child, whose close aborts the calls it made and then stops   *)
(* the egress proxy, and the session and run, which other routes end.      *)
(***************************************************************************)

CONSTANTS
    Url,          \* what may be asked for: scheme, host and port
    Allowed,      \* the allowlist and the ports
    Address,
    Public        \* the addresses that may be contacted

ASSUME HostAssumption ==
    /\ Url # {} /\ Allowed \subseteq Url
    /\ Address # {} /\ Public \subseteq Address

VARIABLES
    host,         \* "up", "exited" (aborted) or "stopped" (proxy stopped)
    session,      \* "running" or "over"
    run           \* "running" or "not_running": waiting, interrupted or over

hostVars == <<host, session, run>>

UrlAllowed(url) == url \in Allowed

(* An answer of DNS is good when there is one and all of it is public.     *)
Vetted(addresses) == addresses # {} /\ addresses \subseteq Public

Aborted == host # "up"

(* Approvals, other routes and the host's own end move session and run.    *)
RunMoves ==
    /\ \/ session = "running" /\ session' = "over" /\ UNCHANGED run
       \/ run' \in {"running", "not_running"} \ {run} /\ UNCHANGED session
    /\ UNCHANGED host

HostInit == host = "up" /\ session = "running" /\ run = "running"
=============================================================================
