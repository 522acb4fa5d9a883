--------------------------- MODULE HostedNetwork ----------------------------
(***************************************************************************)
(* The two ways out of a hosted run side by side: what the model reads     *)
(* through the gateway and what its process sends through the proxy, until *)
(* the child, the proxy and the run are gone.                              *)
(***************************************************************************)
EXTENDS NetworkGateway, ProviderEgress

vars == <<hostVars, gatewayVars, egressVars>>

Init == HostInit /\ GatewayInit /\ EgressInit

Next ==
    \/ GatewayStep /\ UNCHANGED egressVars
    \/ EgressStep /\ UNCHANGED <<hostVars, gatewayVars>>
    \/ (ChildExits \/ stop) /\ UNCHANGED gatewayVars
    \/ RunMoves /\ UNCHANGED <<gatewayVars, egressVars>>

Spec == Init /\ [][Next]_vars

(* Timers fire and a gone child's proxy is stopped.  Nothing is assumed of *)
(* the network, of DNS, of the child or of the run.                        *)
Fairness ==
    /\ WF_vars(TimeOut /\ UNCHANGED <<hostVars, egressVars>>)
    /\ WF_vars(stop /\ UNCHANGED gatewayVars)
    /\ \A i \in Conn :
         /\ WF_vars(connectFails(i) /\ UNCHANGED <<hostVars, gatewayVars>>)
         /\ WF_vars(Idles(i) /\ UNCHANGED <<hostVars, gatewayVars>>)

FairSpec == Spec /\ Fairness

---------------------------------------------------------------------------
(* VETTED.  Neither way out reaches anything but a listed target at a      *)
(* vetted address, redirects and second looks included.                    *)
OnlyVettedIsReached == ContactsOnlyVetted /\ TunnelsOnlyVetted

(* ENDS.  Neither way out hangs on a network that never answers: a read    *)
(* ends by its timer, and no upstream socket outlives its host for ever.   *)
EverythingEnds == RequestEnds /\ EgressCloses

=============================================================================
