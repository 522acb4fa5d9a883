--------------------------- MODULE Authorization ---------------------------
(***************************************************************************)
(* What an approval promises, whatever tables, tokens and handlers are     *)
(* behind it.  A request is asked for once, ruled on at most once, and     *)
(* acted upon at most once, only while it stands granted; once it is       *)
(* closed or spent nothing happens to it any more.  Requests do not        *)
(* constrain each other, so one step may move several of them (expiry      *)
(* closes every request that is due).                                      *)
(***************************************************************************)
EXTENDS Naturals

CONSTANT Request

VARIABLES
  stage,  \* where each request stands
  acts    \* how often each request has been acted upon

Stage == {"new", "open", "granted", "spent", "closed"}

(* Asked, granted, refused or lapsed, acted upon, lapsed after the grant.  *)
Move == {<<"new", "open">>, <<"open", "granted">>, <<"open", "closed">>,
         <<"granted", "spent">>, <<"granted", "closed">>}

Init ==
  /\ stage = [q \in Request |-> "new"]
  /\ acts = [q \in Request |-> 0]

Next ==
  /\ stage' \in [Request -> Stage]
  /\ \A q \in Request : stage'[q] # stage[q] => <<stage[q], stage'[q]>> \in Move
  /\ acts' = [q \in Request |->
                IF stage[q] = "granted" /\ stage'[q] = "spent"
                THEN acts[q] + 1 ELSE acts[q]]

Spec == Init /\ [][Next]_<<stage, acts>>
=============================================================================
