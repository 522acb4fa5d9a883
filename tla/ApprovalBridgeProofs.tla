----------------------- MODULE ApprovalBridgeProofs ------------------------
(***************************************************************************)
(* Proofs about the provider approval bridge, for every number of          *)
(* requests, runs, approvals, grants and digests, every lifetime and every *)
(* number of deaths of the daemon.                                         *)
(*                                                                         *)
(* A handler remembers what the store said while others go on changing it. *)
(* Two facts carry the argument: the store only moves forward, so what a   *)
(* handler remembers of a row stays true of it; and the handler's step     *)
(* says what it may count on (Good).                                       *)
(***************************************************************************)
EXTENDS ApprovalBridge, ApprovalStoreProofs, FiniteSetTheorems

-----------------------------------------------------------------------------
LEMMA ForwardRefreshed ==
  ASSUME NEW d, StoreInv(d)
  PROVE  StoreInv(Refreshed(d)) /\ Forward(d, Refreshed(d))
BY ExpireInv, ForwardExpire, ForwardSame DEF Refreshed

-----------------------------------------------------------------------------
(* What a handler may count on at each of its steps.                       *)

CallState ==
  [step : Step, run : Run \cup {NoRun}, approval : Approval \cup {NoApproval},
   grant : Grant \cup {NoGrant}, digest : Digest \cup {NoDigest},
   left : 0 .. PollTtl, after : DOMAIN Answer]

RowState == [status : RowStatus, grant : Grant \cup {NoGrant}]

(* Steps after the approval has been ruled on. *)
Ruled == {"consume", "answered"} \cup DOMAIN Answer

Held(d, c) == IF c.approval \in Approval THEN d.approval[c.approval].grant ELSE c.grant

HoldsApproval(d, c) ==
  c.approval \in Approval =>
    /\ c.grant = NoGrant
    /\ d.approval[c.approval].status # "absent"
    /\ d.approval[c.approval].run = c.run
    /\ d.approval[c.approval].digest = c.digest
    /\ c.step \in Ruled => d.approval[c.approval].status # "pending"

HoldsGrant(d, c) ==
  c.grant \in Grant =>
    /\ d.grant[c.grant].status # "absent"
    /\ d.grant[c.grant].approval = NoApproval
    /\ d.grant[c.grant].run = c.run
    /\ d.grant[c.grant].digest = c.digest

HasSpent(q, d, c, sp) ==
  c.step = "accept" =>
    /\ Held(d, c) \in Grant
    /\ sp[Held(d, c)] = q
    /\ d.grant[Held(d, c)].status = "consumed"

(* What the row of the request says is so. *)
RowTells(q, d, c, w, sp) ==
  /\ w.status \in UnfinishedStatus => c.step \in Running \cup {"threw"}
  /\ w.status = "accepted" =>
       /\ c.step = "answered"
       /\ w.grant \in Grant
       /\ sp[w.grant] = q
       /\ d.grant[w.grant].status = "consumed"
       /\ d.grant[w.grant].run = c.run
       /\ d.grant[w.grant].digest = c.digest
       /\ d.grant[w.grant].approval = c.approval

Good(q, d, c, w, sp) ==
  /\ c \in CallState /\ c.after # "accept"
  /\ w \in RowState
  /\ HoldsApproval(d, c) /\ HoldsGrant(d, c)
  /\ HasSpent(q, d, c, sp)
  /\ RowTells(q, d, c, w, sp)

(* No consumed grant changes hands. *)
Kept(d, sp, tp) == \A g \in Grant : d.grant[g].status = "consumed" => tp[g] = sp[g]

(* The handler is at step s now, and remembers the same rows. *)
Goes(c, n, s) ==
  /\ n \in CallState /\ n.after # "accept"
  /\ n.step = s
  /\ n.run = c.run /\ n.digest = c.digest
  /\ n.approval = c.approval /\ n.grant = c.grant

LEMMA AnswerValues ==
  /\ DOMAIN Answer = {"accept", "decline", "reject", "expire"}
  /\ \A s \in DOMAIN Answer : /\ Answer[s] \in RowStatus \ UnfinishedStatus
                              /\ s # "accept" => Answer[s] # "accepted"
  /\ DOMAIN Answer \subseteq Running
BY DEF Answer, RowStatus, UnfinishedStatus, Running, Step

(* A handler that does not move keeps what it counts on, whoever moves.    *)
LEMMA GoodStays ==
  ASSUME NEW q, NEW d, NEW e, NEW c, NEW w, NEW sp, NEW tp,
         Good(q, d, c, w, sp), Forward(d, e), Kept(d, sp, tp)
  PROVE  Good(q, e, c, w, tp)
<1>1. HoldsApproval(e, c)
  BY DEF Good, HoldsApproval, Forward, ApprovalForward
<1>2. HoldsGrant(e, c)
  BY DEF Good, HoldsGrant, Forward, GrantForward
<1>3. HasSpent(q, e, c, tp)
  <2>1. SUFFICES ASSUME c.step = "accept"
                 PROVE  HasSpent(q, e, c, tp)
    BY DEF HasSpent
  <2>2. /\ Held(d, c) \in Grant
        /\ sp[Held(d, c)] = q
        /\ d.grant[Held(d, c)].status = "consumed"
    BY <2>1 DEF Good, HasSpent
  <2>3. Held(e, c) = Held(d, c)
    BY <2>1, AnswerValues DEF Good, HoldsApproval, Held, Ruled, Forward, ApprovalForward
  <2>4. e.grant[Held(d, c)].status = "consumed" /\ tp[Held(d, c)] = q
    BY <2>2 DEF Forward, GrantForward, Kept
  <2> QED BY <2>2, <2>3, <2>4 DEF HasSpent
<1>4. RowTells(q, e, c, w, tp)
  BY DEF Good, RowTells, Forward, GrantForward, Kept
<1> QED BY <1>1, <1>2, <1>3, <1>4 DEF Good

(* A handler that moves, without a grant spent or an answer given.         *)
LEMMA GoodMoves ==
  ASSUME NEW q, NEW d, NEW e, NEW c, NEW n, NEW w, NEW v, NEW sp, NEW tp, NEW s,
         Good(q, d, c, w, sp), Forward(d, e),
         Goes(c, n, s), s # "accept",
         s \in Ruled /\ c.approval \in Approval =>
           e.approval[c.approval].status # "pending",
         v \in RowState, v.status # "accepted",
         v.status \in UnfinishedStatus => s \in Running \cup {"threw"}
  PROVE  Good(q, e, n, v, tp)
<1>1. HoldsApproval(e, n)
  BY DEF Good, HoldsApproval, Forward, ApprovalForward, Goes
<1>2. HoldsGrant(e, n)
  BY DEF Good, HoldsGrant, Forward, GrantForward, Goes
<1>3. HasSpent(q, e, n, tp) /\ RowTells(q, e, n, v, tp)
  BY DEF HasSpent, RowTells, Goes
<1> QED BY <1>1, <1>2, <1>3 DEF Good, Goes

(* The ways a handler's memory is updated.                                 *)
LEMMA CallUpdates ==
  ASSUME NEW c \in CallState, NEW s \in Step, NEW k \in 0 .. PollTtl,
         NEW f \in DOMAIN Answer, c.after # "accept", f # "accept"
  PROVE  /\ Goes(c, [c EXCEPT !.step = s], s)
         /\ Goes(c, [c EXCEPT !.step = s, !.left = k], s)
         /\ Goes(c, [c EXCEPT !.step = s, !.after = f], s)
         /\ Goes(c, [c EXCEPT !.step = s, !.after = f, !.left = k], s)
         /\ Goes(c, [c EXCEPT !.left = k], c.step)
<1>1. Goes(c, [c EXCEPT !.step = s], s)
  BY DEF Goes, CallState
<1>2. Goes(c, [c EXCEPT !.step = s, !.left = k], s)
  BY DEF Goes, CallState
<1>3. Goes(c, [c EXCEPT !.step = s, !.after = f], s)
  BY DEF Goes, CallState
<1>4. Goes(c, [c EXCEPT !.step = s, !.after = f, !.left = k], s)
  BY DEF Goes, CallState
<1>5. Goes(c, [c EXCEPT !.left = k], c.step)
  BY DEF Goes, CallState
<1> QED BY <1>1, <1>2, <1>3, <1>4, <1>5

-----------------------------------------------------------------------------
(* The invariant: the tables agree, and every handler is good.             *)

BInv ==
  /\ StoreInv(db)
  /\ row \in [Rpc -> RowState]
  /\ call \in [Rpc -> CallState]
  /\ busy \in Rpc \cup {NoRpc}
  /\ host \in [Run -> {"none", "up", "gone"}]
  /\ spender \in [Grant -> Rpc \cup {NoRpc, Outsider}]
  /\ crashes \in 0 .. MaxCrash
  /\ \A q \in Rpc : Good(q, db, call[q], row[q], spender)

LEMMA BridgeStarts == Init => BInv
<1> SUFFICES ASSUME Init
             PROVE  BInv
  OBVIOUS
<1>1. NoCall \in CallState /\ NoCall.after # "accept"
  BY BridgeAssumption, AnswerValues DEF NoCall, CallState, Step
<1>2. [status |-> "absent", grant |-> NoGrant] \in RowState
  BY DEF RowState, RowStatus
<1>3. /\ NoCall.approval \notin Approval /\ NoCall.grant \notin Grant
      /\ NoCall.step # "accept"
  BY NullAssumption DEF NoCall
<1>4. ASSUME NEW q \in Rpc
      PROVE  Good(q, db, NoCall, [status |-> "absent", grant |-> NoGrant], spender)
  BY <1>1, <1>2, <1>3
  DEF Good, HoldsApproval, HoldsGrant, HasSpent, RowTells, UnfinishedStatus
<1> HIDE DEF NoCall
<1> QED
  BY <1>1, <1>2, <1>4, EmptyInv, BridgeAssumption DEF Init, BInv

LEMMA Settles ==
  ASSUME BInv
  PROVE  /\ StoreInv(settled) /\ Forward(db, settled) /\ Due(settled) = {}
         /\ StoreInv(Refreshed(db)) /\ Forward(db, Refreshed(db))
BY ExpireInv, ForwardExpire, NothingDue, ForwardRefreshed DEF BInv, settled

(* A step of anybody else.                                                 *)
LEMMA OthersKeep ==
  ASSUME BInv, StoreInv(db'), Forward(db, db'), UNCHANGED <<row, call>>,
         busy' \in Rpc \cup {NoRpc},
         host' \in [Run -> {"none", "up", "gone"}],
         spender' \in [Grant -> Rpc \cup {NoRpc, Outsider}],
         Kept(db, spender, spender'),
         crashes' \in 0 .. MaxCrash
  PROVE  BInv'
<1>1. ASSUME NEW q \in Rpc
      PROVE  Good(q, db', call[q], row[q], spender')
  BY GoodStays DEF BInv
<1> QED BY <1>1 DEF BInv

(* A step of the handler of q.                                             *)
LEMMA HandlerKeeps ==
  ASSUME BInv, NEW q \in Rpc, NEW n, NEW v,
         StoreInv(db'), Forward(db, db'), UNCHANGED <<host, crashes>>,
         busy' \in Rpc \cup {NoRpc},
         spender' \in [Grant -> Rpc \cup {NoRpc, Outsider}],
         Kept(db, spender, spender'),
         call' = [call EXCEPT ![q] = n],
         row' = [row EXCEPT ![q] = v],
         Good(q, db', n, v, spender')
  PROVE  BInv'
<1>1. n \in CallState /\ v \in RowState
  BY DEF Good
<1>2. call' \in [Rpc -> CallState] /\ row' \in [Rpc -> RowState]
  BY <1>1 DEF BInv
<1>3. ASSUME NEW p \in Rpc
      PROVE  Good(p, db', call'[p], row'[p], spender')
  <2>1. CASE p = q
    BY <2>1 DEF BInv
  <2>2. CASE p # q
    <3>1. call'[p] = call[p] /\ row'[p] = row[p]
      BY <2>2 DEF BInv
    <3>2. Good(p, db', call[p], row[p], spender')
      BY GoodStays DEF BInv
    <3> QED BY <3>1, <3>2
  <2> QED BY <2>1, <2>2
<1> QED BY <1>2, <1>3 DEF BInv

(* The handler of q goes on, with no grant spent and no answer given.      *)
LEMMA HandlerGoes ==
  ASSUME BInv, NEW q \in Rpc, NEW n, NEW s, Goes(call[q], n, s),
         call[q].step \in Running,
         s \in Running \cup {"threw"}, s # "accept",
         s \in Ruled /\ call[q].approval \in Approval =>
           db'.approval[call[q].approval].status # "pending",
         StoreInv(db'), Forward(db, db'),
         call' = [call EXCEPT ![q] = n],
         busy' \in {q, NoRpc},
         UNCHANGED <<row, host, spender, crashes>>
  PROVE  BInv'
<1>1. Good(q, db, call[q], row[q], spender) /\ row[q] \in RowState
  BY DEF BInv, Good
<1>2. row[q].status # "accepted"
  BY <1>1 DEF Good, RowTells, Running
<1>3. Good(q, db', n, row[q], spender)
  BY <1>1, <1>2, GoodMoves
<1>4. /\ row' = [row EXCEPT ![q] = row[q]]
      /\ spender' \in [Grant -> Rpc \cup {NoRpc, Outsider}]
      /\ Kept(db, spender, spender')
      /\ spender' = spender
  BY DEF BInv, Kept
<1>5. Good(q, db', n, row[q], spender')
  BY <1>3, <1>4
<1>6. UNCHANGED <<host, crashes>>
  OBVIOUS
<1> QED BY <1>4, <1>5, <1>6, HandlerKeeps

LEMMA Proceeds ==
  ASSUME BInv, NEW q \in Rpc, NEW s \in Step,
         call' = [call EXCEPT ![q].step = s, ![q].left = 0]
  PROVE  /\ call' = [call EXCEPT ![q] = [call[q] EXCEPT !.step = s, !.left = 0]]
         /\ Goes(call[q], [call[q] EXCEPT !.step = s, !.left = 0], s)
<1>1. call[q] \in CallState /\ call[q].after # "accept"
  BY DEF BInv, Good
<1>2. call' = [call EXCEPT ![q] = [call[q] EXCEPT !.step = s, !.left = 0]]
  BY DEF BInv, CallState
<1>3. Goes(call[q], [call[q] EXCEPT !.step = s, !.left = 0], s)
  <2>1. 0 \in 0 .. PollTtl /\ "decline" \in DOMAIN Answer
    BY BridgeAssumption, AnswerValues
  <2> QED BY <1>1, <2>1, CallUpdates
<1> QED BY <1>2, <1>3

-----------------------------------------------------------------------------
(* A request comes in: its handler starts at a row that records nothing.   *)
LEMMA NewHandler ==
  ASSUME BInv, NEW q \in Rpc, NEW n,
         call[q].step = "none",
         StoreInv(db'), Forward(db, db'),
         n \in CallState, n.after # "accept",
         n.step \in {"persist", "threw"},
         HoldsApproval(db', n), HoldsGrant(db', n),
         call' = [call EXCEPT ![q] = n],
         busy' \in {q, NoRpc},
         UNCHANGED <<row, host, spender, crashes>>
  PROVE  BInv'
<1>1. Good(q, db, call[q], row[q], spender) /\ row[q] \in RowState
  BY DEF BInv, Good
<1>2. row[q].status \notin UnfinishedStatus \cup {"accepted"}
  BY <1>1 DEF Good, RowTells, Running
<1>3. HasSpent(q, db', n, spender') /\ RowTells(q, db', n, row[q], spender')
  BY <1>2 DEF HasSpent, RowTells
<1>4. Good(q, db', n, row[q], spender')
  BY <1>1, <1>3 DEF Good
<1>5. /\ row' = [row EXCEPT ![q] = row[q]]
      /\ spender' \in [Grant -> Rpc \cup {NoRpc, Outsider}]
      /\ Kept(db, spender, spender')
      /\ UNCHANGED <<host, crashes>>
  BY DEF BInv, Kept
<1> QED BY <1>4, <1>5, HandlerKeeps

(* What a new handler remembers: of a request evaluated, or only its run.  *)
Evaluating(r, dg, a, g) ==
  [NoCall EXCEPT !.step = "persist", !.run = r, !.digest = dg, !.approval = a, !.grant = g]

Failing(t, r) == [NoCall EXCEPT !.step = t, !.run = r]

LEMMA NewCalls ==
  ASSUME NEW r \in Run
  PROVE  /\ \A a \in Approval \cup {NoApproval}, g \in Grant \cup {NoGrant}, dg \in Digest :
              LET n == Evaluating(r, dg, a, g)
              IN  /\ n \in CallState /\ n.after # "accept"
                  /\ n.step = "persist" /\ n.run = r /\ n.digest = dg
                  /\ n.approval = a /\ n.grant = g
         /\ \A t \in {"threw", "answered"} :
              LET n == Failing(t, r)
              IN  /\ n \in CallState /\ n.after # "accept"
                  /\ n.step = t
                  /\ n.approval = NoApproval /\ n.grant = NoGrant
<1>1. /\ NoCall \in CallState /\ NoCall.after # "accept"
      /\ NoCall.approval = NoApproval /\ NoCall.grant = NoGrant
      /\ {"persist", "threw", "answered"} \subseteq Step
  BY BridgeAssumption, AnswerValues DEF NoCall, CallState, Step
<1>2. ASSUME NEW a \in Approval \cup {NoApproval}, NEW g \in Grant \cup {NoGrant},
             NEW dg \in Digest
      PROVE  LET n == Evaluating(r, dg, a, g)
             IN  /\ n \in CallState /\ n.after # "accept"
                 /\ n.step = "persist" /\ n.run = r /\ n.digest = dg
                 /\ n.approval = a /\ n.grant = g
  BY <1>1 DEF Evaluating, CallState
<1>3. ASSUME NEW t \in {"threw", "answered"}
      PROVE  LET n == Failing(t, r)
             IN  /\ n \in CallState /\ n.after # "accept"
                 /\ n.step = t
                 /\ n.approval = NoApproval /\ n.grant = NoGrant
  BY <1>1 DEF Failing, CallState
<1> QED BY <1>2, <1>3

LEMMA ReceiveKeeps ==
  ASSUME BInv, NEW q \in Rpc, NEW r \in Run, Receive(q, r)
  PROVE  BInv'
<1>1. /\ StoreInv(settled) /\ Forward(db, settled)
      /\ settled \in StoreContent
      /\ call[q].step = "none"
      /\ busy = NoRpc
  BY Settles DEF Receive, ReceiveAsk, ReceiveAllow, ReceiveDenied, ReceiveMalformed,
                 ReceiveThrows, MayReceive, StoreInv
<1>2. CASE \E dg \in Digest, a \in Approval : ReceiveAsk(q, r, dg, a)
  <2>1. PICK dg \in Digest, a \in Approval : ReceiveAsk(q, r, dg, a)
    BY <1>2
  <2> DEFINE n == Evaluating(r, dg, a, NoGrant)
  <2>2. /\ call' = [call EXCEPT ![q] = n] /\ busy' = q
        /\ UNCHANGED <<row, host, spender, crashes>>
    BY <2>1 DEF ReceiveAsk, Evaluated, Evaluating
  <2>3. /\ settled.approval[a].status = "absent" /\ CanCreateApproval(settled, a, r)
        /\ db' = CreateApproval(settled, a, r, dg)
    BY <2>1 DEF ReceiveAsk, CanCreateApproval
  <2>4. StoreInv(db') /\ Forward(db, db')
    BY <1>1, <2>3, CreateApprovalInv, ForwardCreateApproval, ForwardChain
  <2>5. /\ db'.approval[a].status = "pending"
        /\ db'.approval[a].run = r /\ db'.approval[a].digest = dg
    BY <1>1, <2>3 DEF CreateApproval, TransitionRun, Record, StoreContent
  <2>6. n \in CallState /\ n.after # "accept"
    BY NewCalls
  <2>7. /\ n.approval = a /\ n.grant = NoGrant /\ n.run = r /\ n.digest = dg
        /\ n.step = "persist"
    BY NewCalls
  <2> HIDE DEF n
  <2>8. HoldsApproval(db', n) /\ HoldsGrant(db', n)
    BY <2>5, <2>7, NullAssumption, AnswerValues DEF HoldsApproval, HoldsGrant, Ruled
  <2> QED BY <1>1, <2>2, <2>4, <2>6, <2>7, <2>8, NewHandler
<1>3. CASE \E dg \in Digest, g \in Grant : ReceiveAllow(q, r, dg, g)
  <2>1. PICK dg \in Digest, g \in Grant : ReceiveAllow(q, r, dg, g)
    BY <1>3
  <2> DEFINE n == Evaluating(r, dg, NoApproval, g)
  <2>2. /\ call' = [call EXCEPT ![q] = n] /\ busy' = q
        /\ UNCHANGED <<row, host, spender, crashes>>
    BY <2>1 DEF ReceiveAllow, Evaluated, Evaluating
  <2>3. /\ db.grant[g].status = "absent"
        /\ db' = InsertGrant(settled, g, NoApproval, r, dg)
    BY <2>1 DEF ReceiveAllow, FreshGrant
  <2>4. settled.grant[g].status = "absent"
    BY <2>3, ExpireRows DEF BInv, StoreInv, settled
  <2>5. StoreInv(db') /\ Forward(db, db')
    BY <1>1, <2>3, <2>4, PolicyGrantInv, ForwardInsertGrant, ForwardChain
  <2>6. /\ db'.grant[g].status = "active" /\ db'.grant[g].approval = NoApproval
        /\ db'.grant[g].run = r /\ db'.grant[g].digest = dg
    BY <1>1, <2>3 DEF InsertGrant, StoreContent
  <2>7. n \in CallState /\ n.after # "accept"
    BY NewCalls
  <2>8. /\ n.approval = NoApproval /\ n.grant = g /\ n.run = r /\ n.digest = dg
        /\ n.step = "persist"
    BY NewCalls
  <2> HIDE DEF n
  <2>9. HoldsApproval(db', n) /\ HoldsGrant(db', n)
    BY <2>6, <2>8, NullAssumption DEF HoldsApproval, HoldsGrant
  <2> QED BY <1>1, <2>2, <2>5, <2>7, <2>8, <2>9, NewHandler
<1>4. CASE \E dg \in Digest : ReceiveDenied(q, r, dg)
  <2>1. PICK dg \in Digest : ReceiveDenied(q, r, dg)
    BY <1>4
  <2> DEFINE n == Evaluating(r, dg, NoApproval, NoGrant)
  <2>2. /\ call' = [call EXCEPT ![q] = n] /\ busy' = q /\ db' = settled
        /\ UNCHANGED <<row, host, spender, crashes>>
    BY <2>1 DEF ReceiveDenied, Evaluated, Evaluating
  <2>3. /\ n \in CallState /\ n.after # "accept" /\ n.step = "persist"
        /\ HoldsApproval(db', n) /\ HoldsGrant(db', n)
    BY NewCalls, NullAssumption DEF HoldsApproval, HoldsGrant
  <2> HIDE DEF n
  <2> QED BY <1>1, <2>2, <2>3, NewHandler
<1>5. CASE ReceiveThrows(q, r)
  <2> DEFINE n == Failing("threw", r)
  <2>1. /\ call' = [call EXCEPT ![q] = n] /\ busy' = NoRpc /\ db' = settled
        /\ UNCHANGED <<row, host, spender, crashes>>
    BY <1>1, <1>5 DEF ReceiveThrows, Failing
  <2>2. /\ n \in CallState /\ n.after # "accept" /\ n.step = "threw"
        /\ HoldsApproval(db', n) /\ HoldsGrant(db', n)
    BY NewCalls, NullAssumption DEF HoldsApproval, HoldsGrant
  <2> HIDE DEF n
  <2> QED BY <1>1, <2>1, <2>2, NewHandler
<1>6. CASE ReceiveMalformed(q, r)
  <2> DEFINE n == Failing("answered", r)
             v == [row[q] EXCEPT !.status = "rejected"]
  <2>1. /\ call' = [call EXCEPT ![q] = n] /\ row' = [row EXCEPT ![q] = v]
        /\ busy' = NoRpc /\ UNCHANGED <<db, host, spender, crashes>>
    BY <1>1, <1>6 DEF ReceiveMalformed, Failing
  <2>2. /\ n \in CallState /\ n.after # "accept" /\ n.step = "answered"
        /\ HoldsApproval(db', n) /\ HoldsGrant(db', n)
    BY NewCalls, NullAssumption DEF HoldsApproval, HoldsGrant
  <2>3. v \in RowState /\ v.status = "rejected"
    BY DEF BInv, RowState, RowStatus
  <2> HIDE DEF n, v
  <2>4. Good(q, db', n, v, spender')
    BY <2>2, <2>3 DEF Good, HasSpent, RowTells, UnfinishedStatus
  <2>5. /\ StoreInv(db') /\ Forward(db, db') /\ Kept(db, spender, spender')
        /\ spender' \in [Grant -> Rpc \cup {NoRpc, Outsider}]
        /\ UNCHANGED <<host, crashes>> /\ busy' \in {q, NoRpc}
    BY <2>1, ForwardSame DEF BInv, Kept
  <2> QED BY <2>1, <2>4, <2>5, HandlerKeeps
<1> QED BY <1>2, <1>3, <1>4, <1>5, <1>6 DEF Receive

-----------------------------------------------------------------------------
(* The request is recorded; its handler waits, denies, spends or refuses.  *)
LEMMA PersistKeeps ==
  ASSUME BInv, NEW q \in Rpc, Persist(q)
  PROVE  BInv'
<1> DEFINE c == call[q]
<1>1. /\ c \in CallState /\ c.after # "accept" /\ c.step = "persist"
      /\ Good(q, db, c, row[q], spender)
  BY DEF BInv, Good, Persist
<1>2. /\ {"poll", "deny", "consume", "decline", "reject"} \subseteq Step \cap Running
      /\ "decline" \in DOMAIN Answer /\ PollTtl \in 0 .. PollTtl
      /\ {"poll", "deny"} \cap Ruled = {}
  BY BridgeAssumption, AnswerValues DEF Step, Ruled, Running
<1>3. PICK v : row' = [row EXCEPT ![q] = v] /\ v \in RowState /\ v.status \in UnfinishedStatus
  <2> DEFINE status == IF c.approval \in Approval THEN "waiting_approval" ELSE "evaluating"
  <2>1. row' = [row EXCEPT ![q] = [row[q] EXCEPT !.status = status]]
    BY DEF Persist, BInv, RowState
  <2>2. status \in UnfinishedStatus /\ status \in RowStatus
    BY DEF UnfinishedStatus, RowStatus
  <2> HIDE DEF status
  <2>3. /\ [row[q] EXCEPT !.status = status] \in RowState
        /\ [row[q] EXCEPT !.status = status].status = status
    BY <2>2 DEF BInv, RowState
  <2> QED BY <2>1, <2>2, <2>3
<1>4. ASSUME NEW s \in {"poll", "deny", "consume", "decline", "reject"}, NEW n,
             Goes(c, n, s), call' = [call EXCEPT ![q] = n],
             s \in {"poll", "deny"} \/ c.approval \notin Approval
      PROVE  BInv'
  <2>1. UNCHANGED <<db, busy, host, spender, crashes>>
    BY DEF Persist
  <2>2. /\ Forward(db, db') /\ Kept(db, spender, spender') /\ StoreInv(db')
        /\ spender' \in [Grant -> Rpc \cup {NoRpc, Outsider}]
    BY <2>1, ForwardSame DEF Kept, BInv
  <2>3. s \in Ruled => c.approval \notin Approval
    BY <1>2, <1>4
  <2>4. s # "accept" /\ s \in Running \cup {"threw"} /\ v.status # "accepted"
    BY <1>2, <1>3 DEF UnfinishedStatus
  <2>5. Good(q, db', n, v, spender')
    BY <1>1, <1>3, <1>4, <2>2, <2>3, <2>4, GoodMoves
  <2> QED BY <1>3, <1>4, <2>1, <2>2, <2>5, HandlerKeeps DEF BInv
<1>5. CASE c.approval \in Approval
  <2>1. \/ call' = [call EXCEPT ![q] = [c EXCEPT !.step = "poll", !.left = PollTtl]]
        \/ call' = [call EXCEPT ![q] = [c EXCEPT !.step = "deny", !.after = "decline"]]
    BY <1>5 DEF Persist
  <2>2. /\ Goes(c, [c EXCEPT !.step = "poll", !.left = PollTtl], "poll")
        /\ Goes(c, [c EXCEPT !.step = "deny", !.after = "decline"], "deny")
    BY <1>1, <1>2, CallUpdates
  <2> QED BY <1>4, <2>1, <2>2
<1>6. CASE c.approval \notin Approval
  <2>1. \/ call' = [call EXCEPT ![q] = [c EXCEPT !.step = "consume"]]
        \/ call' = [call EXCEPT ![q] = [c EXCEPT !.step = "decline"]]
        \/ call' = [call EXCEPT ![q] = [c EXCEPT !.step = "reject"]]
        \/ call' = [call EXCEPT ![q] = [c EXCEPT !.step = "deny", !.after = "decline"]]
    BY <1>6 DEF Persist, Refusal
  <2>2. /\ Goes(c, [c EXCEPT !.step = "consume"], "consume")
        /\ Goes(c, [c EXCEPT !.step = "decline"], "decline")
        /\ Goes(c, [c EXCEPT !.step = "reject"], "reject")
        /\ Goes(c, [c EXCEPT !.step = "deny", !.after = "decline"], "deny")
    <3>1. \A s \in Step : Goes(c, [c EXCEPT !.step = s], s)
      BY <1>1 DEF Goes, CallState
    <3>2. Goes(c, [c EXCEPT !.step = "deny", !.after = "decline"], "deny")
      BY <1>1, <1>2, CallUpdates
    <3> QED BY <1>2, <3>1, <3>2
  <2> QED BY <1>4, <1>6, <2>1, <2>2
<1> QED BY <1>5, <1>6

(* A turn of the loop, or its end.                                         *)
LEMMA PollKeeps ==
  ASSUME BInv, NEW q \in Rpc, Poll(q) \/ StopWaiting(q)
  PROVE  BInv'
<1> DEFINE c == call[q]
           status == settled.approval[c.approval].status
<1>1. /\ c \in CallState /\ c.after # "accept" /\ c.step = "poll"
      /\ Good(q, db, c, row[q], spender)
      /\ db' = settled /\ UNCHANGED <<row, host, spender, crashes>>
  BY DEF BInv, Good, Poll, StopWaiting, MayPoll
<1>2. StoreInv(db') /\ Forward(db, db')
  BY <1>1, Settles
<1>3. /\ {"poll", "consume", "decline", "reject", "expire", "deny"} \subseteq Step \cap Running
      /\ "decline" \in DOMAIN Answer /\ "reject" \in DOMAIN Answer
      /\ "expire" \in DOMAIN Answer
      /\ 0 \in 0 .. PollTtl /\ "deny" \notin Ruled
  BY BridgeAssumption, AnswerValues DEF Step, Running, Ruled
<1>4. CASE Poll(q)
  <2>1. /\ Turn(status) \in {"poll", "consume", "decline", "reject", "expire"}
        /\ Turn(status) # "poll" => status # "pending"
    BY DEF Turn
  <2> HIDE DEF status
  <2>2. CASE Turn(status) = "poll"
    <3>1. call' = call /\ busy' = NoRpc
      BY <1>4, <2>2 DEF Poll, Pause, status
    <3>2. Kept(db, spender, spender')
      BY <1>1 DEF Kept
    <3> QED BY <1>1, <1>2, <3>1, <3>2, OthersKeep DEF BInv
  <2>3. CASE Turn(status) # "poll"
    <3>1. /\ call' = [call EXCEPT ![q].step = Turn(status), ![q].left = 0]
          /\ busy' = q
      BY <1>4, <2>3 DEF Poll, Proceed, status
    <3>2. Turn(status) \in Step \cap Running /\ Turn(status) # "accept"
      BY <1>3, <2>1
    <3>3. /\ call' = [call EXCEPT ![q] = [c EXCEPT !.step = Turn(status), !.left = 0]]
          /\ Goes(c, [c EXCEPT !.step = Turn(status), !.left = 0], Turn(status))
      BY <3>1, <3>2, Proceeds
    <3>4. db'.approval[c.approval].status # "pending"
      BY <1>1, <2>1, <2>3 DEF status
    <3> QED BY <1>1, <1>2, <1>3, <3>1, <3>2, <3>3, <3>4, HandlerGoes
  <2> QED BY <2>2, <2>3
<1>5. CASE StopWaiting(q)
  <2> DEFINE over == IF Late(q) THEN "expire" ELSE "reject"
  <2>1. over \in {"expire", "reject"}
    OBVIOUS
  <2>2. /\ busy' = q
        /\ call' = [call EXCEPT ![q] =
             IF status = "pending"
             THEN [c EXCEPT !.step = "deny", !.after = over, !.left = 0]
             ELSE [c EXCEPT !.step = over, !.left = 0]]
    BY <1>5 DEF StopWaiting, BInv
  <2> HIDE DEF over, status
  <2>3. /\ Goes(c, [c EXCEPT !.step = "deny", !.after = over, !.left = 0], "deny")
        /\ Goes(c, [c EXCEPT !.step = over, !.left = 0], over)
    BY <1>1, <1>3, <2>1, CallUpdates
  <2>4. CASE status = "pending"
    <3>1. call' = [call EXCEPT ![q] = [c EXCEPT !.step = "deny", !.after = over, !.left = 0]]
      BY <2>2, <2>4
    <3> QED BY <1>1, <1>2, <1>3, <2>2, <2>3, <3>1, HandlerGoes
  <2>5. CASE status # "pending"
    <3>1. call' = [call EXCEPT ![q] = [c EXCEPT !.step = over, !.left = 0]]
      BY <2>2, <2>5
    <3>2. db'.approval[c.approval].status # "pending"
      BY <1>1, <2>5 DEF status
    <3> QED BY <1>1, <1>2, <1>3, <2>1, <2>2, <2>3, <3>1, <3>2, HandlerGoes
  <2> QED BY <2>4, <2>5
<1> QED BY <1>4, <1>5

(* The bridge denies the request itself, or drops the grant of the policy. *)
LEMMA DenyKeeps ==
  ASSUME BInv, NEW q \in Rpc, DenyApproval(q) \/ DropGrant(q)
  PROVE  BInv'
<1> DEFINE c == call[q]
<1>1. /\ c \in CallState /\ c.after # "accept" /\ c.step = "deny"
      /\ Good(q, db, c, row[q], spender)
      /\ UNCHANGED <<row, host, spender, crashes>>
  BY DEF BInv, Good, DenyApproval, DropGrant
<1>2. /\ c.after \in Step \cap Running /\ c.step \in Running
      /\ "threw" \in Step /\ "threw" \notin Ruled
  BY <1>1, AnswerValues DEF CallState, Step, Running, Ruled
<1>3. CASE DropGrant(q)
  <2>1. /\ c.grant \in Grant /\ db' = ExpireExecutionGrant(db, c.grant)
        /\ call' = [call EXCEPT ![q].step = c.after, ![q].left = 0] /\ busy' = q
    BY <1>3 DEF DropGrant, Proceed
  <2>2. db.grant[c.grant].approval \notin Approval /\ c.approval \notin Approval
    BY <1>1, <2>1, NullAssumption DEF Good, HoldsGrant, HoldsApproval
  <2>3. StoreInv(db') /\ Forward(db, db')
    BY <2>1, <2>2, ExpireOwnGrantInv, ForwardExpireGrant DEF BInv
  <2>4. /\ call' = [call EXCEPT ![q] = [c EXCEPT !.step = c.after, !.left = 0]]
        /\ Goes(c, [c EXCEPT !.step = c.after, !.left = 0], c.after)
    BY <1>2, <2>1, Proceeds
  <2> QED BY <1>1, <1>2, <2>1, <2>2, <2>3, <2>4, HandlerGoes
<1>4. CASE DenyApproval(q) /\ MayDeny(q)
  <2>1. /\ c.approval \in Approval
        /\ CanDecideApproval(settled, c.approval, "denied", NoGrant)
        /\ settled.approval[c.approval].status = "pending"
        /\ db' = DecideApproval(settled, c.approval, "denied", NoGrant)
        /\ call' = [call EXCEPT ![q].step = c.after, ![q].left = 0] /\ busy' = q
    BY <1>4 DEF DenyApproval, MayDeny, CanDecideApproval, Proceed
  <2>2. /\ StoreInv(db') /\ Forward(db, db')
        /\ db'.approval[c.approval].status # "pending"
    BY <2>1, Settles, DecideInv, ForwardDecide, ForwardChain
  <2>3. /\ call' = [call EXCEPT ![q] = [c EXCEPT !.step = c.after, !.left = 0]]
        /\ Goes(c, [c EXCEPT !.step = c.after, !.left = 0], c.after)
    BY <1>2, <2>1, Proceeds
  <2> QED BY <1>1, <1>2, <2>1, <2>2, <2>3, HandlerGoes
<1>5. CASE DenyApproval(q) /\ ~MayDeny(q)
  <2>1. /\ db' = Refreshed(db)
        /\ call' = [call EXCEPT ![q].step = "threw", ![q].left = 0] /\ busy' = NoRpc
    BY <1>5 DEF DenyApproval, Throw
  <2>2. StoreInv(db') /\ Forward(db, db')
    BY <2>1, Settles
  <2>3. /\ call' = [call EXCEPT ![q] = [c EXCEPT !.step = "threw", !.left = 0]]
        /\ Goes(c, [c EXCEPT !.step = "threw", !.left = 0], "threw")
    BY <1>2, <2>1, Proceeds
  <2> QED BY <1>1, <1>2, <2>1, <2>2, <2>3, HandlerGoes
<1> QED BY <1>3, <1>4, <1>5

(* A grant that cannot be spent is expired.  No approval expires with it:  *)
(* an approval of the request that is still approved has a grant that can  *)
(* be spent.                                                               *)
LEMMA RefusedKeeps ==
  ASSUME BInv, NEW q \in Rpc, ConsumeRefused(q)
  PROVE  BInv'
<1> DEFINE c == call[q]
           g == GrantFor(q)
<1>1. /\ c \in CallState /\ c.after # "accept" /\ c.step = "consume"
      /\ Good(q, db, c, row[q], spender)
      /\ UNCHANGED <<row, host, spender, crashes>>
      /\ call' = [call EXCEPT ![q].step = "threw", ![q].left = 0] /\ busy' = NoRpc
  BY DEF BInv, Good, ConsumeRefused, Throw
<1>2. /\ c.step \in Running /\ "threw" \in Step /\ "threw" \notin Ruled
  BY <1>1, AnswerValues DEF Step, Running, Ruled
<1>3. /\ call' = [call EXCEPT ![q] = [c EXCEPT !.step = "threw", !.left = 0]]
      /\ Goes(c, [c EXCEPT !.step = "threw", !.left = 0], "threw")
  BY <1>1, <1>2, Proceeds
<1>4. CASE CanExpireDueApprovals(db) /\ g \in Grant
  <2>1. db' = ExpireExecutionGrant(settled, g)
    BY <1>4 DEF ConsumeRefused
  <2>2. Good(q, settled, c, row[q], spender)
    BY <1>1, Settles, GoodStays DEF Kept
  <2>3. settled.grant[g].status = "active" => settled.grant[g].approval \notin Approval
    <3>1. SUFFICES ASSUME settled.grant[g].status = "active",
                          settled.grant[g].approval \in Approval
                   PROVE  FALSE
      OBVIOUS
    <3> DEFINE a == settled.grant[g].approval
    <3>2. /\ settled.approval[a].grant = g /\ settled.approval[a].status = "approved"
          /\ settled.approval[a].run = settled.grant[g].run
          /\ settled.approval[a].digest = settled.grant[g].digest
      BY <1>4, <3>1, Settles DEF StoreInv, TablesAgree, GrantTellsItsApproval
    <3>3. settled.grant[g].left > 0
      <4>1. settled.grant[g].left # 0
        BY <1>4, <3>1, <3>2, Settles DEF Due, GrantOf
      <4>2. settled.grant[g].left \in Nat
        BY <1>4, Settles DEF StoreInv, StoreContent, GrantRow
      <4> QED BY <4>1, <4>2
    <3>4. CanRecord(settled, "approval.consumed", g)
      BY <1>4, <3>1, Settles DEF StoreInv, AuditAgrees, Recorded
    <3>5. c.approval \in Approval
      <4>1. c.approval \notin Approval => g = c.grant
        BY DEF GrantFor
      <4> QED BY <1>4, <2>2, <3>1, <4>1, NullAssumption DEF Good, HoldsGrant
    <3>6. g = settled.approval[c.approval].grant
      BY <3>5 DEF GrantFor
    <3>7. c.approval = a
      BY <1>4, <3>5, <3>6, Settles DEF StoreInv, TablesAgree, ApprovalHasItsGrant
    <3>8. settled.grant[g].run = c.run /\ settled.grant[g].digest = c.digest
      BY <2>2, <3>2, <3>5, <3>7 DEF Good, HoldsApproval
    <3>9. MayConsume(q)
      BY <1>4, <3>1, <3>2, <3>3, <3>4, <3>7, <3>8 DEF MayConsume, CanConsumeGrant
    <3> QED BY <3>9 DEF ConsumeRefused
  <2>4. StoreInv(db') /\ Forward(db, db')
    BY <1>4, <2>1, <2>3, Settles, ExpireOwnGrantInv, ForwardExpireGrant, ForwardChain
  <2> QED BY <1>1, <1>2, <1>3, <2>4, HandlerGoes
<1>5. CASE ~(CanExpireDueApprovals(db) /\ g \in Grant)
  <2>1. db' = Refreshed(db)
    BY <1>5 DEF ConsumeRefused
  <2>2. StoreInv(db') /\ Forward(db, db')
    BY <2>1, Settles
  <2> QED BY <1>1, <1>2, <1>3, <2>2, HandlerGoes
<1> QED BY <1>4, <1>5

(* The grant is spent, by this request and by no other.                    *)
LEMMA ConsumeKeeps ==
  ASSUME BInv, NEW q \in Rpc, ConsumeGrant(q)
  PROVE  BInv'
<1> DEFINE c == call[q]
           g == GrantFor(q)
           n == [c EXCEPT !.step = "accept", !.left = 0]
<1>1. /\ c \in CallState /\ c.after # "accept" /\ c.step = "consume"
      /\ row[q] \in RowState
      /\ Good(q, settled, c, row[q], spender)
  BY Settles, GoodStays DEF BInv, Good, ConsumeGrant, Kept
<1>2. /\ g \in Grant /\ settled.grant[g].status = "active"
      /\ c.approval \in Approval => settled.approval[c.approval].status = "approved"
      /\ db' = ConsumeExecutionGrant(settled, g)
      /\ spender' = [spender EXCEPT ![g] = q]
      /\ call' = [call EXCEPT ![q].step = "accept", ![q].left = 0]
      /\ busy' = q /\ UNCHANGED <<row, host, crashes>>
  BY DEF ConsumeGrant, MayConsume, CanConsumeGrant, Proceed
<1>3. /\ "accept" \in Step \cap Running /\ "accept" \in Ruled
  BY AnswerValues DEF Step, Running, Ruled
<1>4. call' = [call EXCEPT ![q] = n] /\ Goes(c, n, "accept")
  BY <1>2, <1>3, Proceeds
<1> HIDE DEF g, n
<1>5. /\ Forward(settled, db') /\ StoreInv(db')
      /\ db'.grant[g].status = "consumed"
      /\ \A a \in Approval : db'.approval[a].grant = settled.approval[a].grant
      /\ c.approval \in Approval => db'.approval[c.approval].status # "pending"
  BY <1>2, Settles, ConsumeInv, ForwardConsume
<1>6. Forward(db, db')
  BY <1>5, Settles, ForwardChain
<1>7. HoldsApproval(db', n)
  BY <1>1, <1>4, <1>5 DEF Good, HoldsApproval, Forward, ApprovalForward, Goes
<1>8. HoldsGrant(db', n)
  BY <1>1, <1>4, <1>5 DEF Good, HoldsGrant, Forward, GrantForward, Goes
<1>9. spender' \in [Grant -> Rpc \cup {NoRpc, Outsider}] /\ spender'[g] = q
  BY <1>2 DEF BInv
<1>10. HasSpent(q, db', n, spender')
  <2>1. Held(db', n) = g
    BY <1>4, <1>5 DEF Held, Goes, g, GrantFor
  <2> QED BY <1>2, <1>5, <1>9, <2>1 DEF HasSpent
<1>11. RowTells(q, db', n, row[q], spender')
  BY <1>1, <1>3, <1>4 DEF Good, RowTells, Goes
<1>12. Good(q, db', n, row[q], spender')
  BY <1>1, <1>4, <1>7, <1>8, <1>10, <1>11 DEF Good, Goes
<1>13. Kept(db, spender, spender')
  <2>1. db.grant[g].status # "consumed"
    BY <1>2, Settles DEF Forward, GrantForward
  <2> QED BY <1>2, <2>1 DEF Kept, BInv
<1>14. /\ row' = [row EXCEPT ![q] = row[q]]
       /\ UNCHANGED <<host, crashes>> /\ busy' \in Rpc \cup {NoRpc}
  BY <1>2 DEF BInv
<1> QED BY <1>4, <1>5, <1>6, <1>9, <1>12, <1>13, <1>14, HandlerKeeps

(* The answer: an accepted row names the grant its handler has spent.      *)
LEMMA ResolveKeeps ==
  ASSUME BInv, NEW q \in Rpc, Resolve(q)
  PROVE  BInv'
<1> DEFINE c == call[q]
           s == c.step
           g == IF s = "accept" THEN HeldGrant(q) ELSE NoGrant
           n == [c EXCEPT !.step = "answered"]
           v == [status |-> Answer[s], grant |-> g]
<1>1. /\ c \in CallState /\ c.after # "accept" /\ s \in DOMAIN Answer
      /\ Good(q, db, c, row[q], spender)
      /\ s = "accept" => BoundAndConsumed(q, g)
      /\ busy' = NoRpc /\ UNCHANGED <<db, host, spender, crashes>>
  BY DEF BInv, Good, Resolve
<1>2. row' = [row EXCEPT ![q] = v]
  BY DEF Resolve
<1>3. call' = [call EXCEPT ![q] = n]
  BY DEF Resolve, BInv, CallState
<1>4. Goes(c, n, "answered")
  BY <1>1 DEF Goes, CallState, Step
<1>5. /\ v \in RowState /\ v.status \notin UnfinishedStatus
      /\ v.grant = g /\ (v.status = "accepted" => s = "accept")
  <2>1. g \in Grant \cup {NoGrant}
    BY <1>1 DEF BoundAndConsumed
  <2> HIDE DEF g
  <2>2. Answer[s] \in RowStatus \ UnfinishedStatus /\ (s # "accept" => Answer[s] # "accepted")
    BY <1>1, AnswerValues
  <2> QED BY <2>1, <2>2 DEF RowState
<1>6. s = "accept" => g = Held(db, c)
  BY DEF HeldGrant, Held
<1> HIDE DEF g, n, v
<1>7. s \in Ruled
  BY <1>1 DEF Ruled
<1>8. HoldsApproval(db, n) /\ HoldsGrant(db, n)
  BY <1>1, <1>4, <1>7 DEF Good, HoldsApproval, HoldsGrant, Goes
<1>9. RowTells(q, db, n, v, spender)
  BY <1>1, <1>4, <1>5, <1>6 DEF Good, HasSpent, RowTells, Goes, BoundAndConsumed
<1>10. Good(q, db', n, v, spender')
  BY <1>1, <1>4, <1>5, <1>8, <1>9 DEF Good, HasSpent, Goes
<1>11. /\ StoreInv(db') /\ Forward(db, db') /\ Kept(db, spender, spender')
       /\ spender' \in [Grant -> Rpc \cup {NoRpc, Outsider}]
       /\ UNCHANGED <<host, crashes>> /\ busy' \in Rpc \cup {NoRpc}
  BY <1>1, ForwardSame DEF BInv, Kept
<1> QED BY <1>2, <1>3, <1>10, <1>11, HandlerKeeps

-----------------------------------------------------------------------------
(* Runs, hosts, people and the holders of tokens.                          *)
LEMMA RunsKeep ==
  ASSUME BInv, NEW r \in Run,
         StartHost(r) \/ ResumeHost(r) \/ HostExits(r) \/ EndRun(r)
  PROVE  BInv'
<1>1. /\ UNCHANGED <<row, call, busy, spender, crashes>>
      /\ host' \in [Run -> {"none", "up", "gone"}]
  BY DEF BInv, StartHost, ResumeHost, HostExits, EndRun
<1>2. {"running", "failed"} \subseteq RunStatus
  BY DEF RunStatus
<1>3. StoreInv(db') /\ Forward(db, db')
  <2>1. CASE StartHost(r)
    <3>1. db' = TransitionRun(CreateRun(db, r), r, "running")
      BY <2>1 DEF StartHost
    <3>2. StoreInv(CreateRun(db, r)) /\ Forward(db, CreateRun(db, r))
      BY RunsOnlyInv, ForwardRuns DEF BInv
    <3>3. StoreInv(db') /\ Forward(CreateRun(db, r), db')
      BY <1>2, <3>1, <3>2, RunsOnlyInv, ForwardRuns
    <3> QED BY <3>2, <3>3, ForwardChain
  <2>2. CASE ResumeHost(r) \/ EndRun(r)
    BY <1>2, <2>2, RunsOnlyInv, ForwardRuns DEF ResumeHost, EndRun, BInv
  <2>3. CASE HostExits(r)
    BY <2>3, ForwardSame DEF HostExits, BInv
  <2> QED BY <2>1, <2>2, <2>3
<1>4. /\ Kept(db, spender, spender') /\ busy' \in Rpc \cup {NoRpc}
      /\ spender' \in [Grant -> Rpc \cup {NoRpc, Outsider}]
      /\ crashes' \in 0 .. MaxCrash /\ UNCHANGED <<row, call>>
  BY <1>1 DEF BInv, Kept
<1> QED BY <1>1, <1>3, <1>4, OthersKeep

LEMMA PeopleKeep ==
  ASSUME BInv,
         \/ ListApprovals
         \/ \E a \in Approval, g \in Grant : Approve(a, g)
         \/ \E a \in Approval : Deny(a)
         \/ \E g \in Grant : ConsumeOutside(g)
  PROVE  BInv'
<1>1. /\ UNCHANGED <<row, call>> /\ busy' \in Rpc \cup {NoRpc}
      /\ host' \in [Run -> {"none", "up", "gone"}] /\ crashes' \in 0 .. MaxCrash
  BY DEF BInv, ListApprovals, Approve, Deny, ConsumeOutside, Others
<1>2. ASSUME StoreInv(db'), Forward(settled, db'), spender' = spender
      PROVE  BInv'
  <2>1. Forward(db, db')
    BY <1>2, Settles, ForwardChain
  <2>2. Kept(db, spender, spender') /\ spender' \in [Grant -> Rpc \cup {NoRpc, Outsider}]
    BY <1>2 DEF Kept, BInv
  <2> QED BY <1>1, <1>2, <2>1, <2>2, OthersKeep
<1>3. CASE ListApprovals
  BY <1>2, <1>3, Settles, ForwardSame DEF ListApprovals
<1>4. ASSUME NEW a \in Approval, NEW g \in Grant, Approve(a, g)
      PROVE  BInv'
  <2>1. settled.grant[g].status = "absent"
    BY <1>4, ExpireRows DEF Approve, FreshGrant, settled, BInv, StoreInv
  <2>2. /\ CanDecideApproval(settled, a, "approved", g)
        /\ settled.approval[a].status = "pending"
        /\ db' = DecideApproval(settled, a, "approved", g) /\ spender' = spender
    BY <1>4 DEF Approve, CanDecideApproval
  <2>3. StoreInv(db') /\ Forward(settled, db')
    BY <2>1, <2>2, Settles, DecideInv, ForwardDecide
  <2> QED BY <1>2, <2>2, <2>3
<1>5. ASSUME NEW a \in Approval, Deny(a)
      PROVE  BInv'
  <2>1. /\ CanDecideApproval(settled, a, "denied", NoGrant)
        /\ settled.approval[a].status = "pending"
        /\ db' = DecideApproval(settled, a, "denied", NoGrant) /\ spender' = spender
    BY <1>5 DEF Deny, CanDecideApproval
  <2>2. StoreInv(db') /\ Forward(settled, db')
    BY <2>1, Settles, DecideInv, ForwardDecide
  <2> QED BY <1>2, <2>1, <2>2
<1>6. ASSUME NEW g \in Grant, ConsumeOutside(g)
      PROVE  BInv'
  <2>1. /\ settled.grant[g].status = "active"
        /\ db' = ConsumeExecutionGrant(settled, g)
        /\ spender' = [spender EXCEPT ![g] = Outsider]
    BY <1>6 DEF ConsumeOutside, CanConsumeGrant
  <2>2. StoreInv(db') /\ Forward(settled, db')
    BY <2>1, Settles, ConsumeInv, ForwardConsume
  <2>3. Forward(db, db')
    BY <2>2, Settles, ForwardChain
  <2>4. Kept(db, spender, spender')
    <3>1. db.grant[g].status # "consumed"
      BY <2>1, Settles DEF Forward, GrantForward
    <3> QED BY <2>1, <3>1 DEF Kept, BInv
  <2>5. spender' \in [Grant -> Rpc \cup {NoRpc, Outsider}]
    BY <2>1 DEF BInv
  <2> QED BY <1>1, <2>2, <2>3, <2>4, <2>5, OthersKeep
<1> QED BY <1>3, <1>4, <1>5, <1>6

(* Time passes for every handler; the death of the daemon ends them all.   *)
LEMMA EveryHandler ==
  ASSUME BInv, StoreInv(db'), Forward(db, db'), spender' = spender,
         NEW n, NEW v,
         call' = [q \in Rpc |-> n[q]], row' = [q \in Rpc |-> v[q]],
         \A q \in Rpc : Good(q, db', n[q], v[q], spender'),
         busy' \in Rpc \cup {NoRpc},
         host' \in [Run -> {"none", "up", "gone"}],
         crashes' \in 0 .. MaxCrash
  PROVE  BInv'
<1>1. \A q \in Rpc : n[q] \in CallState /\ v[q] \in RowState
  BY DEF Good
<1> QED BY <1>1 DEF BInv

LEMMA TickKeeps ==
  ASSUME BInv, Tick
  PROVE  BInv'
<1> DEFINE n == [q \in Rpc |-> [call[q] EXCEPT !.left = Less(@)]]
<1>1. StoreInv(db') /\ Forward(db, db')
  BY ElapseInv, ForwardElapse DEF Tick, BInv
<1>2. UNCHANGED <<row, busy, host, spender, crashes>>
  BY DEF Tick
<1>3. ASSUME NEW q \in Rpc
      PROVE  Good(q, db', n[q], row[q], spender')
  <2> DEFINE c == call[q]
  <2>1. Good(q, db, c, row[q], spender) /\ c \in CallState /\ c.after # "accept"
    BY DEF BInv, Good
  <2>2. Good(q, db', c, row[q], spender')
    BY <1>1, <1>2, <2>1, GoodStays DEF Kept
  <2>3. Less(c.left) \in 0 .. PollTtl
    BY <2>1, BridgeAssumption DEF CallState, Less
  <2>4. n[q] = [c EXCEPT !.left = Less(c.left)]
    OBVIOUS
  <2> HIDE DEF n
  <2>5. Goes(c, n[q], c.step)
    BY <2>1, <2>3, <2>4 DEF Goes, CallState
  <2> QED BY <2>2, <2>5
    DEF Good, Goes, HoldsApproval, HoldsGrant, HasSpent, RowTells, Held
<1>4. call' = [q \in Rpc |-> n[q]] /\ row' = [q \in Rpc |-> row[q]]
  BY <1>2 DEF Tick, BInv
<1>5. /\ busy' \in Rpc \cup {NoRpc} /\ host' \in [Run -> {"none", "up", "gone"}]
      /\ crashes' \in 0 .. MaxCrash /\ spender' = spender
  BY <1>2 DEF BInv
<1> HIDE DEF n
<1> QED BY <1>1, <1>3, <1>4, <1>5, EveryHandler

LEMMA RestartKeeps ==
  ASSUME BInv, NEW hosted \in SUBSET Run, Restart(hosted)
  PROVE  BInv'
<1> DEFINE n == [q \in Rpc |-> IF call[q].step \in Running
                               THEN [call[q] EXCEPT !.step = "lost", !.left = 0] ELSE call[q]]
           v == [q \in Rpc |-> [row[q] EXCEPT !.status = Recovered(@)]]
<1>1. StoreInv(db') /\ Forward(db, db')
  BY RunsOnlyInv, ForwardRuns DEF Restart, BInv
<1>2. /\ busy' \in Rpc \cup {NoRpc} /\ host' \in [Run -> {"none", "up", "gone"}]
      /\ crashes' \in 0 .. MaxCrash /\ spender' = spender
  <2>1. crashes' \in 0 .. MaxCrash
    <3>1. crashes \in 0 .. MaxCrash
      BY DEF BInv
    <3>2. crashes < MaxCrash /\ crashes' = crashes + 1
      BY DEF Restart
    <3> QED BY <3>1, <3>2, BridgeAssumption
  <2>2. host' \in [Run -> {"none", "up", "gone"}]
    BY DEF Restart, BInv
  <2>3. busy' \in Rpc \cup {NoRpc} /\ spender' = spender
    BY DEF Restart
  <2> QED BY <2>1, <2>2, <2>3
<1>3. ASSUME NEW q \in Rpc
      PROVE  Good(q, db', n[q], v[q], spender')
  <2> DEFINE c == call[q]
             w == row[q]
  <2>1. /\ Good(q, db, c, w, spender) /\ c \in CallState /\ c.after # "accept"
        /\ w \in RowState
    BY DEF BInv, Good
  <2>2. Good(q, db', c, w, spender')
    BY <1>1, <1>2, <2>1, GoodStays DEF Kept
  <2>3. v[q] = [w EXCEPT !.status = Recovered(w.status)]
    OBVIOUS
  <2>4. n[q] = IF c.step \in Running THEN [c EXCEPT !.step = "lost", !.left = 0] ELSE c
    OBVIOUS
  <2> HIDE DEF n, v
  <2>5. /\ v[q] \in RowState /\ v[q].status \notin UnfinishedStatus
        /\ v[q].status = "accepted" => w.status = "accepted"
        /\ v[q].grant = w.grant
    BY <2>1, <2>3 DEF RowState, RowStatus, Recovered, UnfinishedStatus
  <2>6. CASE c.step \in Running
    <3>1. n[q] = [c EXCEPT !.step = "lost", !.left = 0]
      BY <2>4, <2>6
    <3>2. "lost" \in Step /\ "lost" \notin Ruled /\ 0 \in 0 .. PollTtl
      BY AnswerValues, BridgeAssumption DEF Step, Ruled
    <3>3. Goes(c, n[q], "lost")
      BY <2>1, <3>1, <3>2 DEF Goes, CallState
    <3>4. v[q].status # "accepted"
      BY <2>1, <2>5, <2>6 DEF Good, RowTells, Running
    <3> QED BY <2>1, <2>5, <1>1, <3>2, <3>3, <3>4, GoodMoves
  <2>7. CASE c.step \notin Running
    <3>1. n[q] = c
      BY <2>4, <2>7
    <3>2. RowTells(q, db', c, v[q], spender')
      BY <2>2, <2>5 DEF Good, RowTells
    <3> QED BY <2>2, <2>5, <3>1, <3>2 DEF Good
  <2> QED BY <2>6, <2>7
<1>4. call' = [q \in Rpc |-> n[q]] /\ row' = [q \in Rpc |-> v[q]]
  BY DEF Restart
<1> HIDE DEF n, v
<1> QED BY <1>1, <1>2, <1>3, <1>4, EveryHandler

-----------------------------------------------------------------------------
LEMMA BridgeKeeps ==
  ASSUME BInv, [Next]_vars
  PROVE  BInv'
<1>1. CASE UNCHANGED vars
  BY <1>1 DEF vars, BInv, Good, HoldsApproval, HoldsGrant, HasSpent, RowTells, Held
<1>2. CASE Next
  BY <1>2, ReceiveKeeps, PersistKeeps, PollKeeps, DenyKeeps, RefusedKeeps, ConsumeKeeps,
     ResolveKeeps, RunsKeep, PeopleKeep, TickKeeps, RestartKeeps
  DEF Next, HandlerStep
<1> QED BY <1>1, <1>2

LEMMA BridgeInvariance == Spec => []BInv
BY BridgeStarts, BridgeKeeps, PTL DEF Spec

(* An accepted request has spent a grant of its own, issued for its run,   *)
(* its action and its approval, and a request that is answered leaves      *)
(* nobody anything to decide: however the handlers, the people, the other  *)
(* holders of tokens, the clock and the deaths of the daemon interleave.   *)
THEOREM AnswersAlwaysMatch == Spec => []AnswersMatchApprovals
<1>1. BInv => TypeOK
  BY DEF BInv, StoreInv, TypeOK, CallState, RowState
<1>2. BInv => AcceptSpendsItsGrant
  BY DEF BInv, Good, RowTells, AcceptSpendsItsGrant
<1>3. BInv => NoOrphanApproval
  BY DEF BInv, Good, HoldsApproval, Ruled, NoOrphanApproval
<1>4. BInv => AnswersMatchApprovals
  BY <1>1, <1>2, <1>3 DEF AnswersMatchApprovals
<1> QED BY <1>4, BridgeInvariance, PTL

(* No request waits in the table for an answer nobody will give, after any *)
(* number of deaths of the daemon.                                         *)
THEOREM NoRowIsAbandoned == Spec => []UnfinishedRowsHaveAHandler
<1>1. BInv => UnfinishedRowsHaveAHandler
  BY DEF BInv, Good, RowTells, UnfinishedRowsHaveAHandler
<1> QED BY <1>1, BridgeInvariance, PTL

-----------------------------------------------------------------------------
(* Every step moves each approval by one move of its table at most.        *)

LEMMA MovesRefreshed ==
  ASSUME NEW d \in StoreContent
  PROVE  Moves(d, Refreshed(d))
BY ExpireMoves, SameMoves DEF Refreshed

LEMMA BridgeMoves ==
  ASSUME BInv, [Next]_vars
  PROVE  Moves(db, db')
<1>1. /\ db \in StoreContent /\ settled \in StoreContent /\ StoreInv(settled)
  BY Settles DEF BInv, StoreInv
<1>2. ASSUME Moves(settled, db')
      PROVE  Moves(db, db')
  BY <1>1, <1>2, HandlerMoves DEF settled
<1>3. ASSUME db'.approval = db.approval
      PROVE  Moves(db, db')
  BY <1>3, SameMoves
<1>4. ASSUME db'.approval = settled.approval
      PROVE  Moves(db, db')
  BY <1>2, <1>4, SameMoves
<1>5. ASSUME NEW a \in Approval, NEW g \in Grant \cup {NoGrant},
             NEW decision \in {"approved", "denied"}, decision = "approved" => g \in Grant,
             CanDecideApproval(settled, a, decision, g),
             db' = DecideApproval(settled, a, decision, g)
      PROVE  Moves(db, db')
  <2>1. settled.approval[a].status = "pending"
    BY <1>5 DEF CanDecideApproval
  <2>2. Moves(settled, db')
    BY <1>1, <1>5, <2>1, DecideMoves
  <2> QED BY <1>2, <2>2
<1>6. ASSUME NEW g \in Grant, db' = ConsumeExecutionGrant(settled, g)
      PROVE  Moves(db, db')
  BY <1>1, <1>2, <1>6, ConsumeMoves
<1>7. ASSUME db' = Refreshed(db)
      PROVE  Moves(db, db')
  BY <1>1, <1>7, MovesRefreshed
<1>8. ASSUME NEW q \in Rpc, NEW r \in Run, Receive(q, r)
      PROVE  Moves(db, db')
  <2>1. ASSUME NEW dg \in Digest, NEW a \in Approval, ReceiveAsk(q, r, dg, a)
        PROVE  Moves(db, db')
    <3>1. settled.approval[a].status = "absent" /\ db' = CreateApproval(settled, a, r, dg)
      BY <2>1 DEF ReceiveAsk, CanCreateApproval
    <3>2. Moves(settled, db')
      BY <1>1, <3>1, CreateApprovalMoves
    <3> QED BY <1>2, <3>2
  <2>2. ASSUME NEW dg \in Digest, NEW g \in Grant, ReceiveAllow(q, r, dg, g)
        PROVE  Moves(db, db')
    BY <1>1, <1>4, <2>2 DEF ReceiveAllow, InsertGrant, StoreContent
  <2>3. ASSUME \/ \E dg \in Digest : ReceiveDenied(q, r, dg)
               \/ ReceiveMalformed(q, r) \/ ReceiveThrows(q, r)
        PROVE  Moves(db, db')
    BY <1>3, <1>4, <2>3 DEF ReceiveDenied, ReceiveMalformed, ReceiveThrows
  <2> QED BY <1>8, <2>1, <2>2, <2>3 DEF Receive
<1>9. ASSUME NEW q \in Rpc, HandlerStep(q)
      PROVE  Moves(db, db')
  <2>1. ASSUME Persist(q) \/ Resolve(q) \/ Poll(q) \/ StopWaiting(q)
        PROVE  Moves(db, db')
    BY <1>3, <1>4, <2>1 DEF Persist, Resolve, Poll, StopWaiting
  <2>2. ASSUME DenyApproval(q)
        PROVE  Moves(db, db')
    BY <1>5, <1>7, <2>2 DEF DenyApproval, MayDeny
  <2>3. ASSUME DropGrant(q)
        PROVE  Moves(db, db')
    BY <1>1, <2>3, ExpireGrantMoves DEF DropGrant
  <2>4. ASSUME ConsumeGrant(q)
        PROVE  Moves(db, db')
    BY <1>6, <2>4 DEF ConsumeGrant, MayConsume
  <2>5. ASSUME ConsumeRefused(q)
        PROVE  Moves(db, db')
    <3>1. CASE CanExpireDueApprovals(db) /\ GrantFor(q) \in Grant
      BY <1>1, <1>2, <2>5, <3>1, ExpireGrantMoves DEF ConsumeRefused
    <3>2. CASE ~(CanExpireDueApprovals(db) /\ GrantFor(q) \in Grant)
      BY <1>7, <2>5, <3>2 DEF ConsumeRefused
    <3> QED BY <3>1, <3>2
  <2> QED BY <1>9, <2>1, <2>2, <2>3, <2>4, <2>5 DEF HandlerStep
<1>10. ASSUME NEW r \in Run, StartHost(r) \/ ResumeHost(r) \/ HostExits(r) \/ EndRun(r)
       PROVE  Moves(db, db')
  BY <1>1, <1>3, <1>10
  DEF StartHost, ResumeHost, HostExits, EndRun, TransitionRun, CreateRun, StoreContent
<1>11. ASSUME ListApprovals
       PROVE  Moves(db, db')
  BY <1>4, <1>11 DEF ListApprovals
<1>12. ASSUME NEW a \in Approval, NEW g \in Grant, Approve(a, g)
       PROVE  Moves(db, db')
  BY <1>5, <1>12 DEF Approve
<1>13. ASSUME NEW a \in Approval, Deny(a)
       PROVE  Moves(db, db')
  BY <1>5, <1>13 DEF Deny
<1>14. ASSUME NEW g \in Grant, ConsumeOutside(g)
       PROVE  Moves(db, db')
  BY <1>6, <1>14 DEF ConsumeOutside
<1>15. ASSUME Tick
       PROVE  Moves(db, db')
  BY <1>1, <1>15, ElapseMoves DEF Tick
<1>16. ASSUME NEW hosted \in SUBSET Run, Restart(hosted)
       PROVE  Moves(db, db')
  BY <1>1, <1>3, <1>16 DEF Restart, RecoverProviderSessions, StoreContent
<1>17. ASSUME UNCHANGED vars
       PROVE  Moves(db, db')
  BY <1>3, <1>17 DEF vars
<1> QED
  BY <1>8, <1>9, <1>10, <1>11, <1>12, <1>13, <1>14, <1>15, <1>16, <1>17 DEF Next

-----------------------------------------------------------------------------
(* What a step may do to a handler and its row, as far as the approval of  *)
(* the request is concerned: it takes a new approval only when the request *)
(* comes in, spends only one that stands approved, accepts only what it    *)
(* has spent, and no answer is taken back.                                 *)
HandlerMove(d, c, w, n, v) ==
  /\ n.approval # c.approval =>
       /\ c.step = "none"
       /\ n.approval \in Approval =>
            n.step = "persist" /\ d.approval[n.approval].status = "absent"
  /\ n.step = "none" => c.step = "none" /\ n.approval = c.approval
  /\ n.step = "accept" /\ c.step # "accept" /\ n.approval \in Approval =>
       d.approval[n.approval].status = "approved"
  /\ v.status = "accepted" /\ w.status # "accepted" => c.step = "accept"
  /\ w.status = "accepted" => v.status = "accepted"

Handled(q) == HandlerMove(db, call[q], row[q], call'[q], row'[q])

(* One handler at most takes an approval in a step. *)
OneMoves == \E q \in Rpc \cup {NoRpc} :
  \A p \in Rpc \ {q} : call'[p].approval = call[p].approval

(* A step that leaves the approvals of all requests and their answers, and *)
(* starts no handler and no accept.                                        *)
LEMMA Aside ==
  ASSUME NEW d, NEW c, NEW w, NEW n, NEW v,
         n.approval = c.approval,
         n.step = c.step \/ n.step \notin {"none", "accept"},
         w.status = "accepted" <=> v.status = "accepted"
  PROVE  HandlerMove(d, c, w, n, v)
BY DEF HandlerMove

LEMMA OneHandles ==
  ASSUME BInv, NEW q \in Rpc, NEW n, NEW v, n \in CallState, v \in RowState,
         call' = [call EXCEPT ![q] = n], row' = [row EXCEPT ![q] = v],
         HandlerMove(db, call[q], row[q], n, v)
  PROVE  (\A p \in Rpc : Handled(p)) /\ OneMoves
<1>1. \A p \in Rpc \ {q} : call'[p] = call[p] /\ row'[p] = row[p]
  BY DEF BInv
<1>2. call'[q] = n /\ row'[q] = v
  BY DEF BInv
<1>3. \A p \in Rpc \ {q} : Handled(p)
  BY <1>1, Aside DEF Handled
<1>4. Handled(q)
  BY <1>2 DEF Handled
<1> QED BY <1>1, <1>3, <1>4 DEF OneMoves

LEMMA ReceiveHandles ==
  ASSUME BInv, NEW q \in Rpc, NEW r \in Run, Receive(q, r)
  PROVE  (\A p \in Rpc : Handled(p)) /\ OneMoves
<1>1. /\ call[q].step = "none" /\ row[q] \in RowState
      /\ Good(q, db, call[q], row[q], spender)
  BY DEF BInv, Good, Receive, ReceiveAsk, ReceiveAllow, ReceiveDenied, ReceiveMalformed,
         ReceiveThrows, MayReceive
<1>2. row[q].status # "accepted"
  BY <1>1 DEF Good, RowTells
<1>3. ASSUME NEW n, NEW v, n \in CallState, v \in RowState, v.status # "accepted",
             call' = [call EXCEPT ![q] = n], row' = [row EXCEPT ![q] = v],
             n.step \notin {"none", "accept"},
             n.approval \in Approval =>
               n.step = "persist" /\ db.approval[n.approval].status = "absent"
      PROVE  (\A p \in Rpc : Handled(p)) /\ OneMoves
  <2>1. HandlerMove(db, call[q], row[q], n, v)
    BY <1>1, <1>2, <1>3 DEF HandlerMove
  <2> QED BY <1>3, <2>1, OneHandles
<1>4. ASSUME NEW dg \in Digest, NEW a \in Approval, ReceiveAsk(q, r, dg, a)
      PROVE  (\A p \in Rpc : Handled(p)) /\ OneMoves
  <2> DEFINE n == Evaluating(r, dg, a, NoGrant)
  <2>1. /\ call' = [call EXCEPT ![q] = n] /\ row' = [row EXCEPT ![q] = row[q]]
        /\ db.approval[a].status = "absent"
    BY <1>4 DEF ReceiveAsk, Evaluated, Evaluating, FreshApproval, BInv
  <2>2. n \in CallState /\ n.approval = a /\ n.step = "persist"
    BY NewCalls
  <2> HIDE DEF n
  <2> QED BY <1>1, <1>2, <1>3, <2>1, <2>2
<1>5. ASSUME NEW dg \in Digest, NEW g \in Grant \cup {NoGrant},
             call' = [call EXCEPT ![q] = Evaluating(r, dg, NoApproval, g)], row' = row
      PROVE  (\A p \in Rpc : Handled(p)) /\ OneMoves
  <2> DEFINE n == Evaluating(r, dg, NoApproval, g)
  <2>1. call' = [call EXCEPT ![q] = n] /\ row' = [row EXCEPT ![q] = row[q]]
    BY <1>5 DEF BInv
  <2>2. n \in CallState /\ n.approval \notin Approval /\ n.step = "persist"
    BY NewCalls, NullAssumption
  <2> HIDE DEF n
  <2> QED BY <1>1, <1>2, <1>3, <2>1, <2>2
<1>6. ASSUME ReceiveMalformed(q, r) \/ ReceiveThrows(q, r)
      PROVE  (\A p \in Rpc : Handled(p)) /\ OneMoves
  <2>1. PICK t \in {"threw", "answered"}, v \in RowState :
          /\ call' = [call EXCEPT ![q] = Failing(t, r)]
          /\ row' = [row EXCEPT ![q] = v] /\ v.status # "accepted"
    <3>1. CASE ReceiveMalformed(q, r)
      <4>1. /\ call' = [call EXCEPT ![q] = Failing("answered", r)]
            /\ row' = [row EXCEPT ![q] = [row[q] EXCEPT !.status = "rejected"]]
        BY <3>1 DEF ReceiveMalformed, Failing, BInv
      <4>2. /\ [row[q] EXCEPT !.status = "rejected"] \in RowState
            /\ [row[q] EXCEPT !.status = "rejected"].status # "accepted"
        BY <1>1 DEF RowState, RowStatus
      <4> QED BY <4>1, <4>2
    <3>2. CASE ReceiveThrows(q, r)
      <4>1. /\ call' = [call EXCEPT ![q] = Failing("threw", r)]
            /\ row' = [row EXCEPT ![q] = row[q]]
        BY <3>2 DEF ReceiveThrows, Failing, BInv
      <4> QED BY <1>1, <1>2, <4>1
    <3> QED BY <1>6, <3>1, <3>2
  <2> DEFINE n == Failing(t, r)
  <2>2. n \in CallState /\ n.approval \notin Approval /\ n.step = t
    BY NewCalls, NullAssumption
  <2>3. call' = [call EXCEPT ![q] = n]
    BY <2>1
  <2> HIDE DEF n
  <2> QED BY <1>1, <1>2, <1>3, <2>1, <2>2, <2>3
<1>7. ASSUME NEW dg \in Digest, NEW g \in Grant, ReceiveAllow(q, r, dg, g)
      PROVE  (\A p \in Rpc : Handled(p)) /\ OneMoves
  BY <1>5, <1>7 DEF ReceiveAllow, Evaluated, Evaluating
<1>8. ASSUME NEW dg \in Digest, ReceiveDenied(q, r, dg)
      PROVE  (\A p \in Rpc : Handled(p)) /\ OneMoves
  BY <1>5, <1>8 DEF ReceiveDenied, Evaluated, Evaluating
<1> QED BY <1>4, <1>6, <1>7, <1>8 DEF Receive

(* The handler of q goes on to step t with the row v, its approval kept.   *)
LEMMA GoesOn ==
  ASSUME BInv, NEW q \in Rpc, NEW n, NEW v, NEW t, Goes(call[q], n, t),
         v \in RowState, call[q].step # "none", t # "none",
         call' = [call EXCEPT ![q] = n], row' = [row EXCEPT ![q] = v],
         t = "accept" /\ call[q].approval \in Approval =>
           db.approval[call[q].approval].status = "approved",
         v.status = "accepted" => call[q].step = "accept",
         row[q].status # "accepted"
  PROVE  (\A p \in Rpc : Handled(p)) /\ OneMoves
<1>1. HandlerMove(db, call[q], row[q], n, v)
  BY DEF Goes, HandlerMove
<1> QED BY <1>1, OneHandles DEF Goes

LEMMA HandlerStepHandles ==
  ASSUME BInv, NEW q \in Rpc, HandlerStep(q)
  PROVE  (\A p \in Rpc : Handled(p)) /\ OneMoves
<1> DEFINE c == call[q]
<1>1. c \in CallState /\ c.after # "accept" /\ row[q] \in RowState
  BY DEF BInv, Good
<1>2. c.step \in Running /\ c.step # "none"
  BY AnswerValues DEF HandlerStep, Persist, Poll, StopWaiting, MayPoll, DenyApproval, DropGrant,
     ConsumeGrant, ConsumeRefused, Resolve, Running, Step
<1>3. row[q].status # "accepted"
  BY <1>2 DEF BInv, Good, RowTells, Running
<1>4. /\ {"poll", "deny", "consume", "accept", "decline", "reject", "expire",
          "threw", "answered"} \subseteq Step
      /\ DOMAIN Answer = {"accept", "decline", "reject", "expire"}
      /\ 0 \in 0 .. PollTtl /\ PollTtl \in 0 .. PollTtl
      /\ c.after \in Step /\ c.after \notin {"none", "accept"}
  BY <1>1, BridgeAssumption, AnswerValues DEF Step, CallState
<1>5. ASSUME NEW n, NEW v, NEW t, Goes(c, n, t), v \in RowState, t # "none",
             call' = [call EXCEPT ![q] = n], row' = [row EXCEPT ![q] = v],
             v.status # "accepted",
             t # "accept"
      PROVE  (\A p \in Rpc : Handled(p)) /\ OneMoves
  BY <1>2, <1>3, <1>5, GoesOn
<1>6. ASSUME NEW t \in Step, t \notin {"none", "accept"}, row' = row,
             call' = [call EXCEPT ![q].step = t, ![q].left = 0]
      PROVE  (\A p \in Rpc : Handled(p)) /\ OneMoves
  <2>1. /\ call' = [call EXCEPT ![q] = [c EXCEPT !.step = t, !.left = 0]]
        /\ Goes(c, [c EXCEPT !.step = t, !.left = 0], t)
    BY <1>6, Proceeds
  <2>2. row' = [row EXCEPT ![q] = row[q]]
    BY <1>6 DEF BInv
  <2> QED BY <1>1, <1>3, <1>5, <1>6, <2>1, <2>2
<1>7. ASSUME Persist(q)
      PROVE  (\A p \in Rpc : Handled(p)) /\ OneMoves
  <2>1. PICK v : row' = [row EXCEPT ![q] = v] /\ v \in RowState /\ v.status # "accepted"
    <3> DEFINE status == IF c.approval \in Approval THEN "waiting_approval" ELSE "evaluating"
    <3>1. row' = [row EXCEPT ![q] = [row[q] EXCEPT !.status = status]]
      BY <1>7 DEF Persist, BInv, RowState
    <3>2. status \in RowStatus /\ status # "accepted"
      BY DEF RowStatus
    <3> HIDE DEF status
    <3>3. /\ [row[q] EXCEPT !.status = status] \in RowState
          /\ [row[q] EXCEPT !.status = status].status = status
      BY <1>1, <3>2 DEF RowState
    <3> QED BY <3>1, <3>2, <3>3
  <2>2. \/ call' = [call EXCEPT ![q] = [c EXCEPT !.step = "poll", !.left = PollTtl]]
        \/ call' = [call EXCEPT ![q] = [c EXCEPT !.step = "deny", !.after = "decline"]]
        \/ \E s \in {"consume", "decline", "reject"} :
             call' = [call EXCEPT ![q] = [c EXCEPT !.step = s]]
    BY <1>7 DEF Persist, Refusal
  <2>3. /\ Goes(c, [c EXCEPT !.step = "poll", !.left = PollTtl], "poll")
        /\ Goes(c, [c EXCEPT !.step = "deny", !.after = "decline"], "deny")
        /\ \A s \in Step : Goes(c, [c EXCEPT !.step = s], s)
    <3>1. \A s \in Step : Goes(c, [c EXCEPT !.step = s], s)
      BY <1>1 DEF Goes, CallState
    <3>2. /\ Goes(c, [c EXCEPT !.step = "poll", !.left = PollTtl], "poll")
          /\ Goes(c, [c EXCEPT !.step = "deny", !.after = "decline"], "deny")
      BY <1>1, <1>4, CallUpdates
    <3> QED BY <3>1, <3>2
  <2>4. ASSUME NEW s \in {"consume", "decline", "reject"},
               call' = [call EXCEPT ![q] = [c EXCEPT !.step = s]]
        PROVE  (\A p \in Rpc : Handled(p)) /\ OneMoves
    BY <1>4, <1>5, <2>1, <2>3, <2>4
  <2>5. ASSUME NEW n, NEW t \in {"poll", "deny"}, Goes(c, n, t),
               call' = [call EXCEPT ![q] = n]
        PROVE  (\A p \in Rpc : Handled(p)) /\ OneMoves
    BY <1>5, <2>1, <2>5
  <2> QED BY <2>2, <2>3, <2>4, <2>5
<1>8. ASSUME Poll(q)
      PROVE  (\A p \in Rpc : Handled(p)) /\ OneMoves
  <2> DEFINE status == settled.approval[c.approval].status
  <2>1. Turn(status) \in {"poll", "consume", "decline", "reject", "expire"}
    BY DEF Turn
  <2>2. row' = row /\ (call' = call \/
          call' = [call EXCEPT ![q].step = Turn(status), ![q].left = 0])
    BY <1>8 DEF Poll, Pause, Proceed
  <2> HIDE DEF status
  <2>3. CASE call' = call
    BY <2>2, <2>3, Aside DEF Handled, OneMoves
  <2> QED BY <1>4, <1>6, <2>1, <2>2, <2>3
<1>9. ASSUME StopWaiting(q)
      PROVE  (\A p \in Rpc : Handled(p)) /\ OneMoves
  <2> DEFINE over == IF Late(q) THEN "expire" ELSE "reject"
             status == settled.approval[c.approval].status
  <2>1. over \in {"expire", "reject"}
    OBVIOUS
  <2>2. /\ row' = [row EXCEPT ![q] = row[q]]
        /\ call' = [call EXCEPT ![q] =
             IF status = "pending"
             THEN [c EXCEPT !.step = "deny", !.after = over, !.left = 0]
             ELSE [c EXCEPT !.step = over, !.left = 0]]
    BY <1>9 DEF StopWaiting, BInv
  <2> HIDE DEF over, status
  <2>3. /\ Goes(c, [c EXCEPT !.step = "deny", !.after = over, !.left = 0], "deny")
        /\ Goes(c, [c EXCEPT !.step = over, !.left = 0], over)
    BY <1>1, <1>4, <2>1, CallUpdates
  <2>4. CASE status = "pending"
    BY <1>1, <1>3, <1>5, <2>2, <2>3, <2>4
  <2>5. CASE status # "pending"
    BY <1>1, <1>3, <1>5, <2>1, <2>2, <2>3, <2>5
  <2> QED BY <2>4, <2>5
<1>10. ASSUME DenyApproval(q) \/ DropGrant(q) \/ ConsumeRefused(q)
       PROVE  (\A p \in Rpc : Handled(p)) /\ OneMoves
  BY <1>4, <1>6, <1>10 DEF DenyApproval, DropGrant, ConsumeRefused, Proceed, Throw
<1>11. ASSUME ConsumeGrant(q)
       PROVE  (\A p \in Rpc : Handled(p)) /\ OneMoves
  <2>1. /\ call' = [call EXCEPT ![q].step = "accept", ![q].left = 0]
        /\ row' = [row EXCEPT ![q] = row[q]]
        /\ c.approval \in Approval => settled.approval[c.approval].status = "approved"
    BY <1>11 DEF ConsumeGrant, MayConsume, Proceed, BInv
  <2>2. c.approval \in Approval => db.approval[c.approval].status = "approved"
    BY <2>1, ExpireRows DEF settled, BInv, StoreInv
  <2>3. /\ call' = [call EXCEPT ![q] = [c EXCEPT !.step = "accept", !.left = 0]]
        /\ Goes(c, [c EXCEPT !.step = "accept", !.left = 0], "accept")
    BY <1>4, <2>1, Proceeds
  <2> QED BY <1>1, <1>2, <1>3, <2>1, <2>2, <2>3, GoesOn
<1>12. ASSUME Resolve(q)
       PROVE  (\A p \in Rpc : Handled(p)) /\ OneMoves
  <2> DEFINE g == IF c.step = "accept" THEN HeldGrant(q) ELSE NoGrant
             v == [status |-> Answer[c.step], grant |-> g]
             n == [c EXCEPT !.step = "answered"]
  <2>1. /\ row' = [row EXCEPT ![q] = v] /\ c.step \in DOMAIN Answer
        /\ c.step = "accept" => BoundAndConsumed(q, g)
    BY <1>12 DEF Resolve
  <2>2. call' = [call EXCEPT ![q] = n]
    BY <1>12 DEF Resolve, BInv, CallState
  <2>3. Goes(c, n, "answered")
    BY <1>1, <1>4 DEF Goes, CallState
  <2>4. g \in Grant \cup {NoGrant}
    BY <2>1 DEF BoundAndConsumed
  <2> HIDE DEF g
  <2>5. v \in RowState /\ (v.status = "accepted" => c.step = "accept")
    BY <2>1, <2>4, AnswerValues DEF RowState
  <2> HIDE DEF n, v
  <2> QED BY <1>2, <1>3, <2>1, <2>2, <2>3, <2>5, GoesOn
<1> QED BY <1>7, <1>8, <1>9, <1>10, <1>11, <1>12 DEF HandlerStep

LEMMA EveryoneHandles ==
  ASSUME BInv, [Next]_vars
  PROVE  (\A p \in Rpc : Handled(p)) /\ OneMoves
<1>1. ASSUME UNCHANGED <<row, call>>
      PROVE  (\A p \in Rpc : Handled(p)) /\ OneMoves
  <2>1. \A p \in Rpc : Handled(p)
    BY <1>1, Aside DEF Handled
  <2> QED BY <1>1, <2>1 DEF OneMoves
<1>2. ASSUME Tick
      PROVE  (\A p \in Rpc : Handled(p)) /\ OneMoves
  <2>1. \A p \in Rpc : call'[p].approval = call[p].approval /\ call'[p].step = call[p].step
    BY <1>2 DEF Tick, BInv, CallState
  <2>2. row' = row
    BY <1>2 DEF Tick
  <2>3. \A p \in Rpc : Handled(p)
    BY <2>1, <2>2, Aside DEF Handled
  <2> QED BY <2>1, <2>3 DEF OneMoves
<1>3. ASSUME NEW hosted \in SUBSET Run, Restart(hosted)
      PROVE  (\A p \in Rpc : Handled(p)) /\ OneMoves
  <2>1. ASSUME NEW p \in Rpc
        PROVE  /\ call'[p].approval = call[p].approval
               /\ call'[p].step = call[p].step \/ call'[p].step \notin {"none", "accept"}
    <3>1. call[p] \in CallState
      BY DEF BInv
    <3>2. call'[p] = IF call[p].step \in Running
                     THEN [call[p] EXCEPT !.step = "lost", !.left = 0] ELSE call[p]
      BY <1>3 DEF Restart
    <3> QED BY <3>1, <3>2 DEF CallState
  <2>2. ASSUME NEW p \in Rpc
        PROVE  row[p].status = "accepted" <=> row'[p].status = "accepted"
    <3>1. row[p] \in RowState
      BY DEF BInv
    <3>2. row'[p] = [row[p] EXCEPT !.status = Recovered(row[p].status)]
      BY <1>3 DEF Restart
    <3> QED BY <3>1, <3>2 DEF RowState, Recovered, UnfinishedStatus
  <2>3. \A p \in Rpc : Handled(p)
    BY <2>1, <2>2, Aside DEF Handled
  <2> QED BY <2>1, <2>3 DEF OneMoves
<1>4. ASSUME \/ \E r \in Run : StartHost(r) \/ ResumeHost(r) \/ HostExits(r) \/ EndRun(r)
             \/ ListApprovals
             \/ \E a \in Approval, g \in Grant : Approve(a, g)
             \/ \E a \in Approval : Deny(a)
             \/ \E g \in Grant : ConsumeOutside(g)
             \/ UNCHANGED vars
      PROVE  UNCHANGED <<row, call>>
  BY <1>4 DEF StartHost, ResumeHost, HostExits, EndRun, ListApprovals, Approve, Deny,
              ConsumeOutside, Others, vars
<1> QED BY <1>1, <1>2, <1>3, <1>4, ReceiveHandles, HandlerStepHandles DEF Next

-----------------------------------------------------------------------------
(* An approval is of one request at most.                                  *)

OwnedOnce ==
  \A p, q \in Rpc :
    call[p].approval \in Approval /\ call[p].approval = call[q].approval => p = q

NoneAsked == \A q \in Rpc : call[q].step = "none" => call[q].approval = NoApproval

OInv == BInv /\ OwnedOnce /\ NoneAsked

LEMMA OwnersStart == Init => OInv
<1>1. Init => OwnedOnce /\ NoneAsked
  BY NullAssumption DEF Init, OwnedOnce, NoneAsked, NoCall
<1> QED BY <1>1, BridgeStarts DEF OInv

LEMMA OwnersKeep ==
  ASSUME OInv, [Next]_vars
  PROVE  OInv'
<1>1. (\A p \in Rpc : Handled(p)) /\ OneMoves
  BY EveryoneHandles DEF OInv
<1>2. \A q \in Rpc : call[q].approval \in Approval =>
        db.approval[call[q].approval].status # "absent"
  BY DEF OInv, BInv, Good, HoldsApproval
<1>3. NoneAsked'
  BY <1>1 DEF OInv, NoneAsked, Handled, HandlerMove
<1>4. ASSUME NEW p \in Rpc, NEW q \in Rpc, p # q,
             call'[p].approval \in Approval, call'[p].approval = call'[q].approval
      PROVE  FALSE
  <2>1. \/ call'[p].approval = call[p].approval
        \/ call'[q].approval = call[q].approval
    BY <1>1, <1>4 DEF OneMoves
  <2>2. ASSUME NEW x \in Rpc, NEW y \in Rpc, call'[x].approval = call'[y].approval,
               call'[x].approval \in Approval,
               call'[x].approval = call[x].approval, call'[y].approval # call[y].approval
        PROVE  FALSE
    <3>1. db.approval[call'[y].approval].status = "absent"
      BY <1>1, <2>2 DEF Handled, HandlerMove
    <3> QED BY <1>2, <2>2, <3>1
  <2>3. call'[p].approval = call[p].approval /\ call'[q].approval = call[q].approval
    BY <1>4, <2>1, <2>2
  <2> QED BY <1>4, <2>3 DEF OInv, OwnedOnce
<1>5. OwnedOnce'
  BY <1>4 DEF OwnedOnce
<1> QED BY <1>3, <1>5, BridgeKeeps DEF OInv

LEMMA OwnersInvariance == Spec => []OInv
BY OwnersStart, OwnersKeep, PTL DEF Spec

-----------------------------------------------------------------------------
(* The abstract authorization                                              *)

(* Where an approval stands, by its row, its handler and its answer.       *)
Stands(status, step, answer) ==
  CASE status = "absent"   -> "new"
    [] status = "pending"  -> "open"
    [] status = "approved" -> "granted"
    [] status = "consumed" -> IF answer = "accepted" THEN "spent"
                              ELSE IF step = "accept" THEN "granted" ELSE "closed"
    [] OTHER -> "closed"

Acted(answer) == IF answer = "accepted" THEN 1 ELSE 0

(* Only a spent approval is accepted, and only one that stands approved is *)
(* spent for its request.                                                  *)
LEMMA OwnerSpends ==
  ASSUME BInv, NEW q \in Rpc, call[q].approval \in Approval,
         call[q].step = "accept" \/ row[q].status = "accepted"
  PROVE  db.approval[call[q].approval].status = "consumed"
<1> DEFINE a == call[q].approval
<1>1. Good(q, db, call[q], row[q], spender) /\ TablesAgree(db)
  BY DEF BInv, StoreInv
<1>2. /\ ApprovalHasItsGrant(db, a)
      /\ \A g \in Grant : GrantTellsItsApproval(db, g)
  BY <1>1 DEF TablesAgree
<1>3. CASE call[q].step = "accept"
  <2>1. db.approval[a].grant \in Grant /\ db.grant[db.approval[a].grant].status = "consumed"
    BY <1>1, <1>3 DEF Good, HasSpent, Held
  <2> QED BY <1>2, <2>1 DEF ApprovalHasItsGrant, GrantTellsItsApproval
<1>4. CASE row[q].status = "accepted"
  <2>1. PICK g \in Grant : db.grant[g].status = "consumed" /\ db.grant[g].approval = a
    BY <1>1, <1>4 DEF Good, RowTells
  <2> QED BY <1>2, <2>1 DEF GrantTellsItsApproval
<1> QED BY <1>3, <1>4

LEMMA OwnedStands ==
  ASSUME NEW a \in Approval, NEW q \in Rpc,
         \A p \in Rpc : call[p].approval = a <=> p = q
  PROVE  /\ stageOf[a] = Stands(db.approval[a].status, call[q].step, row[q].status)
         /\ actsOf[a] = Acted(row[q].status)
<1>1. ownerOf(a) = {q}
  BY DEF ownerOf
<1>2. stageOf[a] = Stands(db.approval[a].status, call[q].step, row[q].status)
  BY <1>1 DEF stageOf, Stands
<1>3. actsOf[a] = Cardinality({p \in {q} : row[p].status = "accepted"})
  BY <1>1 DEF actsOf
<1>4. CASE row[q].status = "accepted"
  <2>1. {p \in {q} : row[p].status = "accepted"} = {q}
    BY <1>4
  <2>2. Cardinality({q}) = 1
    BY FS_Singleton
  <2> QED BY <1>2, <1>3, <1>4, <2>1, <2>2 DEF Acted
<1>5. CASE row[q].status # "accepted"
  <2>1. {p \in {q} : row[p].status = "accepted"} = {}
    BY <1>5
  <2>2. Cardinality({}) = 0
    BY FS_EmptySet
  <2> QED BY <1>2, <1>3, <1>5, <2>1, <2>2 DEF Acted
<1> QED BY <1>4, <1>5

LEMMA OrphanStands ==
  ASSUME NEW a \in Approval, \A p \in Rpc : call[p].approval # a
  PROVE  /\ stageOf[a] = Stands(db.approval[a].status, "none", "absent")
         /\ actsOf[a] = Acted("absent")
<1>1. ownerOf(a) = {}
  BY DEF ownerOf
<1>2. stageOf[a] = Stands(db.approval[a].status, "none", "absent")
  BY <1>1 DEF stageOf, Stands
<1>3. actsOf[a] = Cardinality({p \in {} : row[p].status = "accepted"})
  BY <1>1 DEF actsOf
<1>4. {p \in {} : row[p].status = "accepted"} = {}
  OBVIOUS
<1>5. Cardinality({}) = 0
  BY FS_EmptySet
<1> QED BY <1>2, <1>3, <1>4, <1>5 DEF Acted

(* What the lemmas above say, as a formula that holds at every moment.     *)
StandsTold ==
  \A a \in Approval :
    /\ (\A p \in Rpc : call[p].approval # a) =>
         /\ stageOf[a] = Stands(db.approval[a].status, "none", "absent")
         /\ actsOf[a] = Acted("absent")
    /\ \A q \in Rpc : (\A p \in Rpc : call[p].approval = a <=> p = q) =>
         /\ stageOf[a] = Stands(db.approval[a].status, call[q].step, row[q].status)
         /\ actsOf[a] = Acted(row[q].status)
    /\ \A q \in Rpc :
         /\ BInv /\ call[q].approval = a
         /\ call[q].step = "accept" \/ row[q].status = "accepted"
         => db.approval[a].status = "consumed"

LEMMA StandsAlways == StandsTold
BY OrphanStands, OwnedStands, OwnerSpends DEF StandsTold

LEMMA StandsNext == StandsTold'
BY StandsAlways, PTL

(* One step of one approval and its handler.                               *)
LEMMA StandsMoves ==
  ASSUME NEW s, NEW t, NEW w, NEW s2, NEW t2, NEW w2,
         s2 # s => <<s, s2>> \in RowMove,
         t = "accept" \/ w = "accepted" => s = "consumed",
         t2 = "accept" \/ w2 = "accepted" => s2 = "consumed",
         t2 = "accept" /\ t # "accept" => s = "approved",
         w2 = "accepted" /\ w # "accepted" => t = "accept",
         w = "accepted" => w2 = "accepted"
  PROVE  LET b == Stands(s, t, w)
             f == Stands(s2, t2, w2)
         IN  /\ f \in Authorized!Stage
             /\ f # b => <<b, f>> \in Authorized!Move
             /\ Acted(w2) = IF b = "granted" /\ f = "spent" THEN Acted(w) + 1 ELSE Acted(w)
<1>1. Stands(s2, t2, w2) \in Authorized!Stage
  BY DEF Stands, Authorized!Stage
<1>2. CASE w2 = "accepted" /\ w # "accepted"
  BY <1>1, <1>2 DEF Stands, Acted, RowMove, Authorized!Move
<1>3. CASE w2 = "accepted" /\ w = "accepted"
  BY <1>1, <1>3 DEF Stands, Acted, RowMove, Authorized!Move
<1>4. CASE w2 # "accepted"
  BY <1>1, <1>4 DEF Stands, Acted, RowMove, Authorized!Move
<1> QED BY <1>2, <1>3, <1>4

LEMMA StageMoves ==
  ASSUME OInv, OInv', [Next]_vars, NEW a \in Approval
  PROVE  /\ stageOf'[a] \in Authorized!Stage
         /\ stageOf'[a] # stageOf[a] => <<stageOf[a], stageOf'[a]>> \in Authorized!Move
         /\ actsOf'[a] = IF stageOf[a] = "granted" /\ stageOf'[a] = "spent"
                         THEN actsOf[a] + 1 ELSE actsOf[a]
<1> DEFINE s  == db.approval[a].status
           s2 == db'.approval[a].status
<1>1. s2 # s => <<s, s2>> \in RowMove
  BY BridgeMoves DEF OInv, Moves
<1>2. \A p \in Rpc : Handled(p)
  BY EveryoneHandles DEF OInv
<1>3. \A p \in Rpc : call[p].approval = a => call'[p].approval = a
  BY <1>2, NullAssumption DEF OInv, NoneAsked, Handled, HandlerMove
<1>4. CASE \A p \in Rpc : call'[p].approval # a
  <2>1. \A p \in Rpc : call[p].approval # a
    BY <1>3, <1>4
  <2>2. /\ stageOf[a] = Stands(s, "none", "absent")
        /\ actsOf[a] = Acted("absent")
    BY <2>1, OrphanStands
  <2>3. /\ stageOf'[a] = Stands(s2, "none", "absent")
        /\ actsOf'[a] = Acted("absent")
    BY <1>4, StandsNext DEF StandsTold
  <2> HIDE DEF s, s2
  <2> QED BY <1>1, <2>2, <2>3, StandsMoves
<1>5. CASE \E q \in Rpc : call'[q].approval = a
  <2>1. PICK q \in Rpc : call'[q].approval = a
    BY <1>5
  <2> DEFINE t2 == call'[q].step
             w2 == row'[q].status
  <2>2. \A p \in Rpc : call'[p].approval = a <=> p = q
    BY <2>1 DEF OInv, OwnedOnce
  <2>3. stageOf'[a] = Stands(s2, t2, w2) /\ actsOf'[a] = Acted(w2)
    BY <2>2, StandsNext DEF StandsTold
  <2>4. t2 = "accept" \/ w2 = "accepted" => s2 = "consumed"
    BY <2>1, StandsNext DEF StandsTold, OInv
  <2>5. CASE call[q].approval = a
    <3> DEFINE t == call[q].step
               w == row[q].status
    <3>1. \A p \in Rpc : call[p].approval = a <=> p = q
      BY <1>3, <2>2, <2>5
    <3>2. stageOf[a] = Stands(s, t, w) /\ actsOf[a] = Acted(w)
      BY <3>1, OwnedStands
    <3>3. t = "accept" \/ w = "accepted" => s = "consumed"
      BY <2>5, OwnerSpends DEF OInv
    <3>4. /\ t2 = "accept" /\ t # "accept" => s = "approved"
          /\ w2 = "accepted" /\ w # "accepted" => t = "accept"
          /\ w = "accepted" => w2 = "accepted"
      BY <1>2, <2>1 DEF Handled, HandlerMove
    <3> HIDE DEF s, s2, t, w, t2, w2
    <3> QED BY <1>1, <2>3, <2>4, <3>2, <3>3, <3>4, StandsMoves
  <2>6. CASE call[q].approval # a
    <3>1. \A p \in Rpc : call[p].approval # a
      BY <1>3, <2>2, <2>6
    <3>2. stageOf[a] = Stands(s, "none", "absent") /\ actsOf[a] = Acted("absent")
      BY <3>1, OrphanStands
    <3>3. call[q].step = "none" /\ t2 = "persist"
      BY <1>2, <2>1, <2>6 DEF Handled, HandlerMove
    <3>4. w2 # "accepted"
      <4>1. row[q].status # "accepted"
        BY <3>3 DEF OInv, BInv, Good, RowTells
      <4> QED BY <1>2, <3>3, <4>1 DEF Handled, HandlerMove
    <3> HIDE DEF s, s2, t2, w2
    <3> QED BY <1>1, <2>3, <2>4, <3>2, <3>3, <3>4, StandsMoves
  <2> QED BY <2>5, <2>6
<1> QED BY <1>4, <1>5

(* The bridge implements the abstract authorization: it tells the provider *)
(* to go ahead once at most for an approval, only while the approval       *)
(* stands granted, and a grant spent without an answer, by a daemon that   *)
(* died or by another holder of the token, allows nothing afterwards.      *)
THEOREM BridgeIsAuthorization == Spec => AcceptsOnlyWithLeave
<1>1. Init => Authorized!Init
  <2> SUFFICES ASSUME Init
               PROVE  Authorized!Init
    OBVIOUS
  <2>1. ASSUME NEW a \in Approval
        PROVE  stageOf[a] = "new" /\ actsOf[a] = 0
    <3>1. \A p \in Rpc : call[p].approval # a
      BY NullAssumption DEF Init, NoCall
    <3>2. db.approval[a].status = "absent"
      BY DEF Init, EmptyStore
    <3> QED BY <3>1, <3>2, OrphanStands DEF Stands, Acted
  <2>2. stageOf = [a \in Approval |-> "new"] /\ actsOf = [a \in Approval |-> 0]
    BY <2>1 DEF stageOf, actsOf
  <2> QED BY <2>2 DEF Authorized!Init
<1>2. ASSUME OInv, OInv', [Next]_vars
      PROVE  [Authorized!Next]_<<stageOf, actsOf>>
  <2>1. stageOf' \in [Approval -> Authorized!Stage]
    BY <1>2, StageMoves DEF stageOf
  <2>2. \A a \in Approval : stageOf'[a] # stageOf[a] =>
          <<stageOf[a], stageOf'[a]>> \in Authorized!Move
    BY <1>2, StageMoves
  <2>3. actsOf' = [a \in Approval |->
                     IF stageOf[a] = "granted" /\ stageOf'[a] = "spent"
                     THEN actsOf[a] + 1 ELSE actsOf[a]]
    BY <1>2, StageMoves DEF actsOf
  <2> QED BY <2>1, <2>2, <2>3 DEF Authorized!Next
<1> QED
  BY <1>1, <1>2, OwnersInvariance, PTL DEF Spec, AcceptsOnlyWithLeave, Authorized!Spec
=============================================================================
