------------------------ MODULE ApprovalStoreProofs -------------------------
(***************************************************************************)
(* Lemmas about the transactions of the approval store, for every number   *)
(* of runs, approvals, grants and digests and every lifetime: the type of  *)
(* what each leaves, the rows it changes, and what it preserves.  The      *)
(* theorems about the components that use the store rest on them.          *)
(***************************************************************************)
EXTENDS ApprovalStore, TLAPS

-----------------------------------------------------------------------------
(* Every transaction of the store takes content to content.                *)

LEMMA ApprovalRowType ==
  ASSUME NEW d \in StoreContent, NEW a \in Approval, NEW row \in ApprovalRow
  PROVE  [d EXCEPT !.approval[a] = row] \in StoreContent
BY DEF StoreContent

LEMMA GrantRowType ==
  ASSUME NEW d \in StoreContent, NEW g \in Grant, NEW row \in GrantRow
  PROVE  [d EXCEPT !.grant[g] = row] \in StoreContent
BY DEF StoreContent

LEMMA RecordType ==
  ASSUME NEW d \in StoreContent, NEW type, NEW id,
         [type |-> type, id |-> id] \in AuditKey
  PROVE  Record(d, type, id) \in StoreContent
BY DEF Record, StoreContent

LEMMA TransitionType ==
  ASSUME NEW d \in StoreContent, NEW r \in Run, NEW to \in RunStatus
  PROVE  TransitionRun(d, r, to) \in StoreContent
<1>1. <<r, d.run[r], to>> \in Run \X RunStatus \X RunStatus
  BY DEF StoreContent
<1> QED
  BY <1>1 DEF TransitionRun, StoreContent

LEMMA ResumeType ==
  ASSUME NEW d \in StoreContent, NEW r \in Run
  PROVE  ResumeRunWithoutPendingApprovals(d, r) \in StoreContent
BY TransitionType DEF ResumeRunWithoutPendingApprovals, RunStatus

LEMMA RecoverType ==
  ASSUME NEW d \in StoreContent, NEW hosted \in SUBSET Run
  PROVE  RecoverProviderSessions(d, hosted) \in StoreContent
<1>1. \A s \in RunStatus : Interrupted(s) \in RunStatus
  BY DEF Interrupted, RunStatus
<1>2. \A r \in hosted :
        <<r, d.run[r], Interrupted(d.run[r])>> \in Run \X RunStatus \X RunStatus
  BY <1>1 DEF StoreContent
<1> DEFINE moved == {r \in hosted : Interrupted(d.run[r]) # d.run[r]}
           runs  == [r \in Run |-> IF r \in moved THEN Interrupted(d.run[r]) ELSE d.run[r]]
           keys  == {<<r, d.run[r], Interrupted(d.run[r])>> : r \in moved}
<1>3. runs \in [Run -> RunStatus]
  BY <1>1 DEF StoreContent
<1>4. keys \subseteq Run \X RunStatus \X RunStatus
  BY <1>2
<1>5. RecoverProviderSessions(d, hosted) = [d EXCEPT !.run = runs, !.stamped = @ \cup keys]
  BY DEF RecoverProviderSessions
<1> HIDE DEF runs, keys
<1> QED
  BY <1>3, <1>4, <1>5 DEF StoreContent

LEMMA MarkExpiredType ==
  ASSUME NEW d \in StoreContent
  PROVE  MarkExpired(d) \in StoreContent
<1>1. Due(d) \subseteq Approval
  BY DEF Due
<1>2. \A a \in Approval : [d.approval[a] EXCEPT !.status = "expired"] \in ApprovalRow
  BY DEF StoreContent, ApprovalRow
<1>3. \A g \in Grant : [d.grant[g] EXCEPT !.status = "expired"] \in GrantRow
  BY DEF StoreContent, GrantRow
<1>4. [type : {"approval.expired"}, id : Due(d)] \subseteq AuditKey
  BY <1>1 DEF AuditKey
<1> QED
  BY <1>2, <1>3, <1>4 DEF MarkExpired, StoreContent

LEMMA ExpireType ==
  ASSUME NEW d \in StoreContent
  PROVE  ExpireDueApprovals(d) \in StoreContent
<1>1. ResumedByExpiry(d) \subseteq Run
  BY DEF ResumedByExpiry
<1>2. \A r \in Run :
        <<r, "waiting_approval", "running">> \in Run \X RunStatus \X RunStatus
  BY DEF RunStatus
<1> DEFINE runs == [r \in Run |-> IF r \in ResumedByExpiry(d) THEN "running" ELSE d.run[r]]
           keys == {<<r, "waiting_approval", "running">> : r \in ResumedByExpiry(d)}
<1>3. runs \in [Run -> RunStatus]
  BY DEF StoreContent, RunStatus
<1>4. keys \subseteq Run \X RunStatus \X RunStatus
  BY <1>1, <1>2
<1>5. ExpireDueApprovals(d) = [MarkExpired(d) EXCEPT !.run = runs, !.stamped = @ \cup keys]
  BY DEF ExpireDueApprovals
<1> HIDE DEF runs, keys
<1> QED
  BY <1>3, <1>4, <1>5, MarkExpiredType DEF StoreContent

LEMMA ExpireGrantType ==
  ASSUME NEW d \in StoreContent, NEW g \in Grant
  PROVE  ExpireExecutionGrant(d, g) \in StoreContent
<1> DEFINE rows == [a \in Approval |->
                      IF a = d.grant[g].approval /\ d.approval[a].status = "approved"
                      THEN [d.approval[a] EXCEPT !.status = "expired"]
                      ELSE d.approval[a]]
           closed == [d EXCEPT !.grant[g].status = "expired"]
<1>1. rows \in [Approval -> ApprovalRow]
  BY DEF StoreContent, ApprovalRow
<1>2. closed \in StoreContent
  <2>1. closed = [d EXCEPT !.grant[g] = [d.grant[g] EXCEPT !.status = "expired"]]
    BY DEF StoreContent, GrantRow
  <2>2. [d.grant[g] EXCEPT !.status = "expired"] \in GrantRow
    BY DEF StoreContent, GrantRow
  <2> HIDE DEF rows, closed
  <2> QED
    BY <2>1, <2>2, GrantRowType
<1>3. ExpireExecutionGrant(d, g) \in {d, [closed EXCEPT !.approval = rows]}
  BY DEF ExpireExecutionGrant
<1> HIDE DEF rows, closed
<1> QED
  BY <1>1, <1>2, <1>3 DEF StoreContent

LEMMA CreateApprovalType ==
  ASSUME NEW d \in StoreContent, NEW a \in Approval, NEW r \in Run, NEW dg \in Digest
  PROVE  CreateApproval(d, a, r, dg) \in StoreContent
<1> DEFINE row == [status |-> "pending", run |-> r, digest |-> dg,
                   left |-> ApprovalTtl, grant |-> NoGrant]
           asked == [Record(d, "approval.requested", a) EXCEPT !.approval[a] = row]
<1>1. row \in ApprovalRow
  BY TtlAssumption DEF ApprovalRow
<1>2. asked \in StoreContent
  <2>1. Record(d, "approval.requested", a) \in StoreContent
    BY RecordType DEF AuditKey
  <2> QED
    BY <1>1, <2>1 DEF StoreContent
<1>3. TransitionRun(asked, r, "waiting_approval") \in StoreContent
  BY <1>2, TransitionType DEF RunStatus
<1> QED
  BY <1>2, <1>3 DEF CreateApproval

LEMMA InsertGrantType ==
  ASSUME NEW d \in StoreContent, NEW g \in Grant, NEW a \in Approval \cup {NoApproval},
         NEW r \in Run \cup {NoRun}, NEW dg \in Digest \cup {NoDigest}
  PROVE  InsertGrant(d, g, a, r, dg) \in StoreContent
BY TtlAssumption DEF InsertGrant, StoreContent, GrantRow

LEMMA DecidedType ==
  ASSUME NEW d \in StoreContent, NEW a \in Approval, NEW g \in Grant \cup {NoGrant},
         NEW decision \in {"approved", "denied"}, decision = "approved" => g \in Grant
  PROVE  Decided(d, a, decision, g) \in StoreContent
<1> DEFINE ruled == [Record(d, "approval.decided", a) EXCEPT
                       !.approval[a] = [@ EXCEPT !.status = decision, !.grant = g]]
<1>1. Record(d, "approval.decided", a) \in StoreContent
  BY RecordType DEF AuditKey
<1>2. ruled \in StoreContent
  <2> DEFINE recorded == Record(d, "approval.decided", a)
  <2>1. recorded \in StoreContent
    BY <1>1
  <2> HIDE DEF recorded
  <2>2. recorded.approval[a] \in ApprovalRow
    BY <2>1 DEF StoreContent
  <2>3. \A row \in ApprovalRow : [row EXCEPT !.status = decision] \in ApprovalRow
    BY DEF ApprovalRow
  <2>4. \A row \in ApprovalRow : [row EXCEPT !.grant = g] \in ApprovalRow
    BY DEF ApprovalRow
  <2>5. [recorded.approval[a] EXCEPT !.status = decision, !.grant = g] \in ApprovalRow
    BY <2>2, <2>3, <2>4
  <2> QED
    BY <2>1, <2>5, ApprovalRowType DEF recorded
<1>3. /\ d.approval[a].run \in Run \cup {NoRun}
      /\ d.approval[a].digest \in Digest \cup {NoDigest}
  BY DEF StoreContent, ApprovalRow
<1>4. decision = "approved" =>
        InsertGrant(ruled, g, a, d.approval[a].run, d.approval[a].digest) \in StoreContent
  BY <1>2, <1>3, InsertGrantType
<1> QED
  BY <1>2, <1>4 DEF Decided

LEMMA DecideType ==
  ASSUME NEW d \in StoreContent, NEW a \in Approval, NEW g \in Grant \cup {NoGrant},
         NEW decision \in {"approved", "denied"}, decision = "approved" => g \in Grant,
         d.approval[a].run \in Run
  PROVE  DecideApproval(d, a, decision, g) \in StoreContent
<1> DEFINE r == d.approval[a].run
           after == Decided(d, a, decision, g)
<1>1. after \in StoreContent
  BY DecidedType
<1>2. r \in Run => ResumeRunWithoutPendingApprovals(after, r) \in StoreContent
  BY <1>1, ResumeType
<1> QED
  BY <1>1, <1>2 DEF DecideApproval

LEMMA ConsumeType ==
  ASSUME NEW d \in StoreContent, NEW g \in Grant
  PROVE  ConsumeExecutionGrant(d, g) \in StoreContent
<1>1. Record(d, "approval.consumed", g) \in StoreContent
  BY RecordType DEF AuditKey
<1> DEFINE recorded == Record(d, "approval.consumed", g)
           rows == [a \in Approval |->
                      IF a = d.grant[g].approval /\ d.approval[a].status = "approved"
                      THEN [d.approval[a] EXCEPT !.status = "consumed"]
                      ELSE d.approval[a]]
           spent == [recorded EXCEPT !.grant[g].status = "consumed"]
<1>2. rows \in [Approval -> ApprovalRow]
  BY DEF StoreContent, ApprovalRow
<1>3. recorded \in StoreContent
  BY <1>1
<1>4. ConsumeExecutionGrant(d, g) = [spent EXCEPT !.approval = rows]
  BY DEF ConsumeExecutionGrant
<1> HIDE DEF rows, recorded
<1>5. spent \in StoreContent
  <2>1. spent = [recorded EXCEPT !.grant[g] = [recorded.grant[g] EXCEPT !.status = "consumed"]]
    BY <1>3 DEF StoreContent, GrantRow
  <2>2. [recorded.grant[g] EXCEPT !.status = "consumed"] \in GrantRow
    BY <1>3 DEF StoreContent, GrantRow
  <2> QED
    BY <1>3, <2>1, <2>2, GrantRowType
<1> HIDE DEF spent
<1> QED
  BY <1>2, <1>4, <1>5 DEF StoreContent

LEMMA ElapseType ==
  ASSUME NEW d \in StoreContent
  PROVE  Elapse(d) \in StoreContent
<1>1. \A n \in Nat : Less(n) \in Nat
  BY DEF Less
<1>2. \A a \in Approval : [d.approval[a] EXCEPT !.left = Less(@)] \in ApprovalRow
  BY <1>1 DEF StoreContent, ApprovalRow
<1>3. \A g \in Grant : [d.grant[g] EXCEPT !.left = Less(@)] \in GrantRow
  BY <1>1 DEF StoreContent, GrantRow
<1> QED
  BY <1>2, <1>3 DEF Elapse, StoreContent

-----------------------------------------------------------------------------
(* What every transaction does to the rows of approvals and grants, and to *)
(* the audit trail, said column by column.                                 *)

KeepsColumns(d, e) ==
  /\ \A a \in Approval : /\ e.approval[a].run = d.approval[a].run
                         /\ e.approval[a].digest = d.approval[a].digest
                         /\ e.approval[a].grant = d.approval[a].grant
  /\ \A g \in Grant : /\ e.grant[g].approval = d.grant[g].approval
                      /\ e.grant[g].run = d.grant[g].run
                      /\ e.grant[g].digest = d.grant[g].digest

LEMMA ApprovalStatusOnly ==
  \A s : \A row \in ApprovalRow :
    LET new == [row EXCEPT !.status = s] IN
    /\ new.status = s
    /\ new.run = row.run /\ new.digest = row.digest
    /\ new.left = row.left /\ new.grant = row.grant
BY DEF ApprovalRow

LEMMA GrantStatusOnly ==
  \A s : \A row \in GrantRow :
    LET new == [row EXCEPT !.status = s] IN
    /\ new.status = s
    /\ new.approval = row.approval /\ new.run = row.run
    /\ new.digest = row.digest /\ new.left = row.left
BY DEF GrantRow

LEMMA ResumeRows ==
  ASSUME NEW d \in StoreContent, NEW r \in Run
  PROVE  LET e == ResumeRunWithoutPendingApprovals(d, r) IN
         e.approval = d.approval /\ e.grant = d.grant /\ e.audit = d.audit
BY DEF ResumeRunWithoutPendingApprovals, TransitionRun, StoreContent

LEMMA ExpireRows ==
  ASSUME NEW d \in StoreContent
  PROVE  LET e == ExpireDueApprovals(d) IN
         /\ KeepsColumns(d, e)
         /\ \A a \in Approval :
              e.approval[a].status =
                IF a \in Due(d) THEN "expired" ELSE d.approval[a].status
         /\ \A g \in Grant :
              e.grant[g].status =
                IF d.grant[g].status = "active" /\ \E a \in Due(d) : d.approval[a].grant = g
                THEN "expired" ELSE d.grant[g].status
         /\ \A a \in Approval : e.approval[a].left = d.approval[a].left
         /\ \A g \in Grant : e.grant[g].left = d.grant[g].left
         /\ e.audit = d.audit \cup [type : {"approval.expired"}, id : Due(d)]
<1> DEFINE e == ExpireDueApprovals(d)
<1>1. /\ \A a \in Approval :
           e.approval[a] = IF a \in Due(d)
                           THEN [d.approval[a] EXCEPT !.status = "expired"]
                           ELSE d.approval[a]
      /\ \A g \in Grant :
           e.grant[g] = IF /\ d.grant[g].status = "active"
                           /\ \E a \in Due(d) : d.approval[a].grant = g
                        THEN [d.grant[g] EXCEPT !.status = "expired"]
                        ELSE d.grant[g]
      /\ e.audit = d.audit \cup [type : {"approval.expired"}, id : Due(d)]
  BY DEF ExpireDueApprovals, MarkExpired, StoreContent
<1> HIDE DEF e
<1>2. /\ \A a \in Approval : d.approval[a] \in ApprovalRow
      /\ \A g \in Grant : d.grant[g] \in GrantRow
  BY DEF StoreContent
<1>3. ASSUME NEW a \in Approval
      PROVE  /\ e.approval[a].run = d.approval[a].run
             /\ e.approval[a].digest = d.approval[a].digest
             /\ e.approval[a].grant = d.approval[a].grant
             /\ e.approval[a].left = d.approval[a].left
             /\ e.approval[a].status =
                  IF a \in Due(d)
                  THEN "expired" ELSE d.approval[a].status
  <2>1. /\ d.approval[a] \in ApprovalRow
        /\ e.approval[a] = IF a \in Due(d)
                           THEN [d.approval[a] EXCEPT !.status = "expired"]
                           ELSE d.approval[a]
    BY <1>1, <1>2
  <2> QED
    BY <2>1, ApprovalStatusOnly
<1>4. ASSUME NEW h \in Grant
      PROVE  /\ e.grant[h].approval = d.grant[h].approval
             /\ e.grant[h].run = d.grant[h].run
             /\ e.grant[h].digest = d.grant[h].digest
             /\ e.grant[h].left = d.grant[h].left
             /\ e.grant[h].status =
                  IF d.grant[h].status = "active" /\ \E a \in Due(d) : d.approval[a].grant = h
                  THEN "expired" ELSE d.grant[h].status
  <2>1. /\ d.grant[h] \in GrantRow
        /\ e.grant[h] = IF d.grant[h].status = "active" /\ \E a \in Due(d) : d.approval[a].grant = h
                        THEN [d.grant[h] EXCEPT !.status = "expired"]
                        ELSE d.grant[h]
    BY <1>1, <1>2
  <2> QED
    BY <2>1, GrantStatusOnly
<1> QED
  BY <1>1, <1>3, <1>4 DEF KeepsColumns, e

LEMMA ExpireGrantRows ==
  ASSUME NEW d \in StoreContent, NEW g \in Grant, d.grant[g].status = "active"
  PROVE  LET e == ExpireExecutionGrant(d, g) IN
         /\ KeepsColumns(d, e)
         /\ \A a \in Approval :
              e.approval[a].status =
                IF a = d.grant[g].approval /\ d.approval[a].status = "approved"
                THEN "expired" ELSE d.approval[a].status
         /\ \A h \in Grant :
              e.grant[h].status = IF h = g THEN "expired" ELSE d.grant[h].status
         /\ e.audit = d.audit
<1> DEFINE e == ExpireExecutionGrant(d, g)
<1>1. /\ \A a \in Approval :
           e.approval[a] = IF a = d.grant[g].approval /\ d.approval[a].status = "approved"
                           THEN [d.approval[a] EXCEPT !.status = "expired"]
                           ELSE d.approval[a]
      /\ \A h \in Grant :
           e.grant[h] = IF h = g THEN [d.grant[g] EXCEPT !.status = "expired"]
                        ELSE d.grant[h]
      /\ e.audit = d.audit
  BY DEF ExpireExecutionGrant, StoreContent
<1> HIDE DEF e
<1>2. /\ \A a \in Approval : d.approval[a] \in ApprovalRow
      /\ \A h \in Grant : d.grant[h] \in GrantRow
  BY DEF StoreContent
<1>3. ASSUME NEW a \in Approval
      PROVE  /\ e.approval[a].run = d.approval[a].run
             /\ e.approval[a].digest = d.approval[a].digest
             /\ e.approval[a].grant = d.approval[a].grant
             /\ e.approval[a].left = d.approval[a].left
             /\ e.approval[a].status =
                  IF a = d.grant[g].approval /\ d.approval[a].status = "approved"
                  THEN "expired" ELSE d.approval[a].status
  <2>1. /\ d.approval[a] \in ApprovalRow
        /\ e.approval[a] = IF a = d.grant[g].approval /\ d.approval[a].status = "approved"
                           THEN [d.approval[a] EXCEPT !.status = "expired"]
                           ELSE d.approval[a]
    BY <1>1, <1>2
  <2> QED
    BY <2>1, ApprovalStatusOnly
<1>4. ASSUME NEW h \in Grant
      PROVE  /\ e.grant[h].approval = d.grant[h].approval
             /\ e.grant[h].run = d.grant[h].run
             /\ e.grant[h].digest = d.grant[h].digest
             /\ e.grant[h].left = d.grant[h].left
             /\ e.grant[h].status =
                  IF h = g
                  THEN "expired" ELSE d.grant[h].status
  <2>1. /\ d.grant[h] \in GrantRow
        /\ e.grant[h] = IF h = g
                        THEN [d.grant[h] EXCEPT !.status = "expired"]
                        ELSE d.grant[h]
    BY <1>1, <1>2
  <2> QED
    BY <2>1, GrantStatusOnly
<1> QED
  BY <1>1, <1>3, <1>4 DEF KeepsColumns, e

LEMMA CreateApprovalRows ==
  ASSUME NEW d \in StoreContent, NEW a \in Approval, NEW r \in Run, NEW dg \in Digest
  PROVE  LET e == CreateApproval(d, a, r, dg) IN
         /\ e.approval[a] = [status |-> "pending", run |-> r, digest |-> dg,
                             left |-> ApprovalTtl, grant |-> NoGrant]
         /\ \A b \in Approval \ {a} : e.approval[b] = d.approval[b]
         /\ e.grant = d.grant
         /\ e.audit = d.audit \cup {[type |-> "approval.requested", id |-> a]}
BY DEF CreateApproval, TransitionRun, Record, StoreContent

LEMMA InsertGrantRows ==
  ASSUME NEW d \in StoreContent, NEW g \in Grant, NEW a, NEW r, NEW dg
  PROVE  LET e == InsertGrant(d, g, a, r, dg) IN
         /\ e.approval = d.approval
         /\ e.grant[g] = [status |-> "active", approval |-> a, run |-> r,
                          digest |-> dg, left |-> GrantTtl]
         /\ \A h \in Grant \ {g} : e.grant[h] = d.grant[h]
         /\ e.audit = d.audit
BY DEF InsertGrant, StoreContent

(* e is d with approval a ruled on, and grant g inserted when approved.    *)
RuledOn(d, e, a, decision, g) ==
  /\ e.approval[a].status = decision
  /\ e.approval[a].grant = g
  /\ e.approval[a].run = d.approval[a].run
  /\ e.approval[a].digest = d.approval[a].digest
  /\ \A b \in Approval \ {a} : e.approval[b] = d.approval[b]
  /\ decision = "approved" => /\ e.grant[g].status = "active"
                             /\ e.grant[g].approval = a
                             /\ e.grant[g].run = d.approval[a].run
                             /\ e.grant[g].digest = d.approval[a].digest
  /\ \A h \in Grant : h # g \/ decision = "denied" => e.grant[h] = d.grant[h]
  /\ e.audit = d.audit \cup {[type |-> "approval.decided", id |-> a]}

LEMMA DecideRows ==
  ASSUME NEW d \in StoreContent, NEW a \in Approval, NEW g \in Grant \cup {NoGrant},
         NEW decision \in {"approved", "denied"}, decision = "approved" => g \in Grant,
         d.approval[a].run \in Run
  PROVE  RuledOn(d, DecideApproval(d, a, decision, g), a, decision, g)
<1> DEFINE after == Decided(d, a, decision, g)
           row == [d.approval[a] EXCEPT !.status = decision, !.grant = g]
           made == [status |-> "active", approval |-> a, run |-> d.approval[a].run,
                    digest |-> d.approval[a].digest, left |-> GrantTtl]
<1>1. after \in StoreContent
  BY DecidedType
<1>2. /\ after.approval[a] = row
      /\ \A b \in Approval \ {a} : after.approval[b] = d.approval[b]
  BY DEF Decided, InsertGrant, Record, StoreContent
<1>3. /\ decision = "approved" => after.grant[g] = made
      /\ \A h \in Grant : h # g \/ decision = "denied" => after.grant[h] = d.grant[h]
  BY DEF Decided, InsertGrant, Record, StoreContent
<1>4. after.audit = d.audit \cup {[type |-> "approval.decided", id |-> a]}
  BY DEF Decided, InsertGrant, Record, StoreContent
<1>5. /\ row.status = decision
      /\ row.grant = g
      /\ row.run = d.approval[a].run
      /\ row.digest = d.approval[a].digest
  BY DEF StoreContent, ApprovalRow
<1>6. /\ made.status = "active"
      /\ made.approval = a
      /\ made.run = d.approval[a].run
      /\ made.digest = d.approval[a].digest
  OBVIOUS
<1> HIDE DEF after, row, made
<1>7. RuledOn(d, after, a, decision, g)
  BY <1>2, <1>3, <1>4, <1>5, <1>6 DEF RuledOn
<1>8. /\ DecideApproval(d, a, decision, g).approval = after.approval
      /\ DecideApproval(d, a, decision, g).grant = after.grant
      /\ DecideApproval(d, a, decision, g).audit = after.audit
  BY <1>1, ResumeRows DEF DecideApproval, after
<1> QED
  BY <1>7, <1>8 DEF RuledOn

LEMMA ConsumeRows ==
  ASSUME NEW d \in StoreContent, NEW g \in Grant
  PROVE  LET e == ConsumeExecutionGrant(d, g) IN
         /\ KeepsColumns(d, e)
         /\ \A a \in Approval :
              e.approval[a].status =
                IF a = d.grant[g].approval /\ d.approval[a].status = "approved"
                THEN "consumed" ELSE d.approval[a].status
         /\ \A h \in Grant :
              e.grant[h].status = IF h = g THEN "consumed" ELSE d.grant[h].status
         /\ e.audit = d.audit \cup {[type |-> "approval.consumed", id |-> g]}
<1> DEFINE e == ConsumeExecutionGrant(d, g)
<1>1. /\ \A a \in Approval :
           e.approval[a] = IF a = d.grant[g].approval /\ d.approval[a].status = "approved"
                           THEN [d.approval[a] EXCEPT !.status = "consumed"]
                           ELSE d.approval[a]
      /\ \A h \in Grant :
           e.grant[h] = IF h = g THEN [d.grant[g] EXCEPT !.status = "consumed"]
                        ELSE d.grant[h]
      /\ e.audit = d.audit \cup {[type |-> "approval.consumed", id |-> g]}
  BY DEF ConsumeExecutionGrant, Record, StoreContent
<1> HIDE DEF e
<1>2. /\ \A a \in Approval : d.approval[a] \in ApprovalRow
      /\ \A h \in Grant : d.grant[h] \in GrantRow
  BY DEF StoreContent
<1>3. ASSUME NEW a \in Approval
      PROVE  /\ e.approval[a].run = d.approval[a].run
             /\ e.approval[a].digest = d.approval[a].digest
             /\ e.approval[a].grant = d.approval[a].grant
             /\ e.approval[a].left = d.approval[a].left
             /\ e.approval[a].status =
                  IF a = d.grant[g].approval /\ d.approval[a].status = "approved"
                  THEN "consumed" ELSE d.approval[a].status
  <2>1. /\ d.approval[a] \in ApprovalRow
        /\ e.approval[a] = IF a = d.grant[g].approval /\ d.approval[a].status = "approved"
                           THEN [d.approval[a] EXCEPT !.status = "consumed"]
                           ELSE d.approval[a]
    BY <1>1, <1>2
  <2> QED
    BY <2>1, ApprovalStatusOnly
<1>4. ASSUME NEW h \in Grant
      PROVE  /\ e.grant[h].approval = d.grant[h].approval
             /\ e.grant[h].run = d.grant[h].run
             /\ e.grant[h].digest = d.grant[h].digest
             /\ e.grant[h].left = d.grant[h].left
             /\ e.grant[h].status =
                  IF h = g
                  THEN "consumed" ELSE d.grant[h].status
  <2>1. /\ d.grant[h] \in GrantRow
        /\ e.grant[h] = IF h = g
                        THEN [d.grant[h] EXCEPT !.status = "consumed"]
                        ELSE d.grant[h]
    BY <1>1, <1>2
  <2> QED
    BY <2>1, GrantStatusOnly
<1> QED
  BY <1>1, <1>3, <1>4 DEF KeepsColumns, e

-----------------------------------------------------------------------------
(* What every transaction preserves.                                       *)

StoreInv(d) == d \in StoreContent /\ NotNull(d) /\ TablesAgree(d) /\ AuditAgrees(d)

LEMMA SameRows ==
  ASSUME NEW d, StoreInv(d), NEW e \in StoreContent,
         e.approval = d.approval, e.grant = d.grant, e.audit = d.audit
  PROVE  StoreInv(e)
BY DEF StoreInv, NotNull, TablesAgree, GrantTellsItsApproval, ApprovalHasItsGrant,
       AuditAgrees, Recorded, CanRecord

LEMMA ExpireInv ==
  ASSUME NEW d, StoreInv(d)
  PROVE  StoreInv(ExpireDueApprovals(d))
<1> DEFINE e == ExpireDueApprovals(d)
           hasDue(g) == \E a \in Due(d) : d.approval[a].grant = g
<1>1. d \in StoreContent /\ e \in StoreContent
  BY ExpireType DEF StoreInv
<1>2. KeepsColumns(d, e)
  BY <1>1, ExpireRows
<1>3. \A a \in Approval :
        e.approval[a].status = IF a \in Due(d) THEN "expired" ELSE d.approval[a].status
  BY <1>1, ExpireRows
<1>4. \A g \in Grant :
        e.grant[g].status = IF d.grant[g].status = "active" /\ hasDue(g)
                            THEN "expired" ELSE d.grant[g].status
  BY <1>1, ExpireRows
<1>5. e.audit = d.audit \cup [type : {"approval.expired"}, id : Due(d)]
  BY <1>1, ExpireRows
<1>6. \A a \in Due(d) :
        /\ a \in Approval
        /\ \/ d.approval[a].status = "pending"
           \/ /\ d.approval[a].status = "approved"
              /\ d.approval[a].grant \in Grant
              /\ d.grant[d.approval[a].grant].status = "active"
  BY DEF Due, GrantOf
<1> HIDE DEF e
<1>7. NotNull(e)
  BY <1>2, <1>3, <1>4, <1>6 DEF StoreInv, KeepsColumns, NotNull
<1>8. TablesAgree(e)
  <2>1. ASSUME NEW g \in Grant, d.grant[g].approval \in Approval
        PROVE  hasDue(g) <=> d.grant[g].approval \in Due(d)
    BY <2>1, <1>6 DEF StoreInv, TablesAgree, GrantTellsItsApproval, ApprovalHasItsGrant
  <2> HIDE DEF hasDue
  <2>2. ASSUME NEW g \in Grant
        PROVE  GrantTellsItsApproval(e, g)
    <3> DEFINE a == e.grant[g].approval
    <3>1. SUFFICES ASSUME a \in Approval
                   PROVE  GrantTellsItsApproval(e, g)
      BY DEF GrantTellsItsApproval
    <3>2. /\ a = d.grant[g].approval
          /\ e.approval[a].grant = d.approval[a].grant
          /\ e.approval[a].run = d.approval[a].run
          /\ e.approval[a].digest = d.approval[a].digest
          /\ e.grant[g].run = d.grant[g].run
          /\ e.grant[g].digest = d.grant[g].digest
      BY <1>2, <3>1 DEF KeepsColumns
    <3>3. GrantTellsItsApproval(d, g)
      BY DEF StoreInv, TablesAgree
    <3>4. e.approval[a].status = IF a \in Due(d) THEN "expired" ELSE d.approval[a].status
      BY <1>3, <3>1
    <3>5. e.grant[g].status = IF d.grant[g].status = "active" /\ a \in Due(d)
                              THEN "expired" ELSE d.grant[g].status
      BY <1>4, <2>1, <3>1, <3>2
    <3>6. a \in Due(d) => d.approval[a].status \in {"pending", "approved"}
      BY <1>6
    <3>7. d.approval[a].status # "pending"
      <4>1. d.approval[a].grant = g
        BY <3>1, <3>2, <3>3 DEF GrantTellsItsApproval
      <4>2. ApprovalHasItsGrant(d, a)
        BY <3>1 DEF StoreInv, TablesAgree
      <4> QED
        BY <4>1, <4>2, NullAssumption DEF ApprovalHasItsGrant
    <3> HIDE DEF a
    <3> QED
      BY <3>1, <3>2, <3>3, <3>4, <3>5, <3>6, <3>7 DEF GrantTellsItsApproval, a
  <2>3. ASSUME NEW a \in Approval
        PROVE  ApprovalHasItsGrant(e, a)
    BY <1>2, <1>3, <1>6 DEF StoreInv, KeepsColumns, TablesAgree, ApprovalHasItsGrant
  <2> QED
    BY <2>2, <2>3 DEF TablesAgree
<1>9. AuditAgrees(e)
  <2>1. ASSUME NEW a \in Approval
        PROVE  /\ Recorded(e, "approval.requested", a) <=> Recorded(d, "approval.requested", a)
               /\ Recorded(e, "approval.decided", a) <=> Recorded(d, "approval.decided", a)
               /\ Recorded(e, "approval.expired", a) <=>
                    Recorded(d, "approval.expired", a) \/ a \in Due(d)
    BY <1>5 DEF Recorded, CanRecord
  <2>2. ASSUME NEW g \in Grant
        PROVE  Recorded(e, "approval.consumed", g) <=> Recorded(d, "approval.consumed", g)
    BY <1>5 DEF Recorded, CanRecord
  <2>3. \A a \in Due(d) : d.approval[a].grant = NoGrant <=> d.approval[a].status = "pending"
    BY <1>6, NullAssumption DEF StoreInv, TablesAgree, ApprovalHasItsGrant
  <2>4. AuditAgrees(d)
    BY DEF StoreInv
  <2>5. \A a \in Approval : e.approval[a].grant = d.approval[a].grant
    BY <1>2 DEF KeepsColumns
  <2> QED
    BY <1>3, <1>4, <1>6, <2>1, <2>2, <2>3, <2>4, <2>5 DEF AuditAgrees
<1> QED
  BY <1>1, <1>7, <1>8, <1>9 DEF StoreInv, e

(* Nothing is due any more once expireDueApprovals has run.                *)
LEMMA NothingDue ==
  ASSUME NEW d, StoreInv(d)
  PROVE  Due(ExpireDueApprovals(d)) = {}
<1> DEFINE e == ExpireDueApprovals(d)
<1>1. d \in StoreContent
  BY DEF StoreInv
<1>2. /\ KeepsColumns(d, e)
      /\ \A a \in Approval :
           e.approval[a].status = IF a \in Due(d) THEN "expired" ELSE d.approval[a].status
      /\ \A a \in Approval : e.approval[a].left = d.approval[a].left
      /\ \A g \in Grant : e.grant[g].left = d.grant[g].left
      /\ \A g \in Grant : e.grant[g].status = "active" => d.grant[g].status = "active"
  BY <1>1, ExpireRows
<1> HIDE DEF e
<1>3. Due(e) = {}
  BY <1>2 DEF Due, GrantOf, KeepsColumns
<1> QED
  BY <1>3 DEF e

LEMMA CreateApprovalInv ==
  ASSUME NEW d, StoreInv(d), NEW a \in Approval, NEW r \in Run, NEW dg \in Digest,
         CanCreateApproval(d, a, r)
  PROVE  StoreInv(CreateApproval(d, a, r, dg))
<1> DEFINE e == CreateApproval(d, a, r, dg)
<1>1. d \in StoreContent /\ e \in StoreContent
  BY CreateApprovalType DEF StoreInv
<1>2. /\ e.approval[a].status = "pending"
      /\ e.approval[a].run = r
      /\ e.approval[a].digest = dg
      /\ e.approval[a].grant = NoGrant
      /\ \A b \in Approval \ {a} : e.approval[b] = d.approval[b]
      /\ e.grant = d.grant
      /\ e.audit = d.audit \cup {[type |-> "approval.requested", id |-> a]}
  <2>1. /\ e.approval[a] = [status |-> "pending", run |-> r, digest |-> dg,
                            left |-> ApprovalTtl, grant |-> NoGrant]
        /\ \A b \in Approval \ {a} : e.approval[b] = d.approval[b]
        /\ e.grant = d.grant
        /\ e.audit = d.audit \cup {[type |-> "approval.requested", id |-> a]}
    BY <1>1, CreateApprovalRows
  <2> HIDE DEF e
  <2> QED
    BY <2>1
<1>3. d.approval[a].status = "absent"
  BY DEF CanCreateApproval
<1> HIDE DEF e
<1>4. NotNull(e)
  BY <1>2 DEF StoreInv, NotNull
<1>5. d.approval[a].grant = NoGrant
  BY <1>3 DEF StoreInv, TablesAgree, ApprovalHasItsGrant
<1>6. \A g \in Grant : d.grant[g].approval # a
  BY <1>5, NullAssumption DEF StoreInv, TablesAgree, GrantTellsItsApproval
<1>7. TablesAgree(e)
  <2>1. ASSUME NEW g \in Grant
        PROVE  GrantTellsItsApproval(e, g)
    BY <1>2, <1>6 DEF StoreInv, TablesAgree, GrantTellsItsApproval
  <2>2. ASSUME NEW b \in Approval
        PROVE  ApprovalHasItsGrant(e, b)
    BY <1>2, NullAssumption DEF StoreInv, TablesAgree, ApprovalHasItsGrant
  <2> QED
    BY <2>1, <2>2 DEF TablesAgree
<1>8. AuditAgrees(e)
  <2>1. AuditAgrees(d)
    BY DEF StoreInv
  <2>2. ASSUME NEW b \in Approval
        PROVE  /\ Recorded(e, "approval.requested", b) <=>
                    Recorded(d, "approval.requested", b) \/ b = a
               /\ Recorded(e, "approval.decided", b) <=> Recorded(d, "approval.decided", b)
               /\ Recorded(e, "approval.expired", b) <=> Recorded(d, "approval.expired", b)
    BY <1>2 DEF Recorded, CanRecord
  <2>3. ASSUME NEW g \in Grant
        PROVE  Recorded(e, "approval.consumed", g) <=> Recorded(d, "approval.consumed", g)
    BY <1>2 DEF Recorded, CanRecord
  <2> QED
    BY <1>2, <1>3, <2>1, <2>2, <2>3 DEF AuditAgrees
<1> QED
  BY <1>1, <1>4, <1>7, <1>8 DEF StoreInv, e

LEMMA PolicyGrantInv ==
  ASSUME NEW d, StoreInv(d), NEW g \in Grant, NEW r \in Run, NEW dg \in Digest,
         d.grant[g].status = "absent"
  PROVE  StoreInv(InsertGrant(d, g, NoApproval, r, dg))
<1> DEFINE e == InsertGrant(d, g, NoApproval, r, dg)
<1>1. d \in StoreContent /\ e \in StoreContent
  BY InsertGrantType DEF StoreInv
<1>2. /\ e.approval = d.approval
      /\ e.grant[g].status = "active"
      /\ e.grant[g].approval = NoApproval
      /\ e.grant[g].run = r
      /\ e.grant[g].digest = dg
      /\ \A h \in Grant \ {g} : e.grant[h] = d.grant[h]
      /\ e.audit = d.audit
  <2>1. /\ e.approval = d.approval
        /\ e.grant[g] = [status |-> "active", approval |-> NoApproval, run |-> r,
                         digest |-> dg, left |-> GrantTtl]
        /\ \A h \in Grant \ {g} : e.grant[h] = d.grant[h]
        /\ e.audit = d.audit
    BY <1>1, InsertGrantRows
  <2> HIDE DEF e
  <2> QED
    BY <2>1
<1> HIDE DEF e
<1>3. NotNull(e)
  BY <1>2 DEF StoreInv, NotNull
<1>4. \A a \in Approval : d.approval[a].grant # g
  BY DEF StoreInv, TablesAgree, GrantTellsItsApproval, ApprovalHasItsGrant
<1>5. TablesAgree(e)
  <2>1. ASSUME NEW h \in Grant
        PROVE  GrantTellsItsApproval(e, h)
    BY <1>2, NullAssumption DEF StoreInv, TablesAgree, GrantTellsItsApproval
  <2>2. ASSUME NEW b \in Approval
        PROVE  ApprovalHasItsGrant(e, b)
    BY <1>2, <1>4 DEF StoreInv, TablesAgree, ApprovalHasItsGrant
  <2> QED
    BY <2>1, <2>2 DEF TablesAgree
<1>6. AuditAgrees(e)
  BY <1>2 DEF StoreInv, AuditAgrees, Recorded, CanRecord
<1> QED
  BY <1>1, <1>3, <1>5, <1>6 DEF StoreInv, e

LEMMA DecideInv ==
  ASSUME NEW d, StoreInv(d), NEW a \in Approval, NEW g \in Grant \cup {NoGrant},
         NEW decision \in {"approved", "denied"},
         decision = "approved" => g \in Grant /\ d.grant[g].status = "absent",
         decision = "denied" => g = NoGrant,
         CanDecideApproval(d, a, decision, g)
  PROVE  StoreInv(DecideApproval(d, a, decision, g))
<1> DEFINE e == DecideApproval(d, a, decision, g)
<1>1. d.approval[a].status = "pending"
  BY DEF CanDecideApproval
<1>2. d.approval[a].run \in Run /\ d.approval[a].digest \in Digest
  BY <1>1 DEF StoreInv, NotNull
<1>3. d \in StoreContent /\ e \in StoreContent
  BY <1>2, DecideType DEF StoreInv
<1>4. RuledOn(d, e, a, decision, g)
  BY <1>2, <1>3, DecideRows
<1> HIDE DEF e
<1>5. NotNull(e)
  BY <1>2, <1>4 DEF StoreInv, NotNull, RuledOn
<1>6. d.approval[a].grant = NoGrant
  BY <1>1 DEF StoreInv, TablesAgree, ApprovalHasItsGrant
<1>7. \A h \in Grant : d.grant[h].approval # a
  BY <1>6, NullAssumption DEF StoreInv, TablesAgree, GrantTellsItsApproval
<1>8. decision = "approved" => \A b \in Approval : d.approval[b].grant # g
  BY DEF StoreInv, TablesAgree, GrantTellsItsApproval, ApprovalHasItsGrant
<1>9. TablesAgree(e)
  <2>1. ASSUME NEW h \in Grant
        PROVE  GrantTellsItsApproval(e, h)
    BY <1>4, <1>7 DEF RuledOn, StoreInv, TablesAgree, GrantTellsItsApproval
  <2>2. ASSUME NEW b \in Approval
        PROVE  ApprovalHasItsGrant(e, b)
    BY <1>4, <1>8, NullAssumption DEF RuledOn, StoreInv, TablesAgree, ApprovalHasItsGrant
  <2> QED
    BY <2>1, <2>2 DEF TablesAgree
<1>10. AuditAgrees(e)
  <2>1. AuditAgrees(d)
    BY DEF StoreInv
  <2>2. ASSUME NEW b \in Approval
        PROVE  /\ Recorded(e, "approval.requested", b) <=> Recorded(d, "approval.requested", b)
               /\ Recorded(e, "approval.decided", b) <=>
                    Recorded(d, "approval.decided", b) \/ b = a
               /\ Recorded(e, "approval.expired", b) <=> Recorded(d, "approval.expired", b)
    BY <1>4 DEF RuledOn, Recorded, CanRecord
  <2>3. ASSUME NEW h \in Grant
        PROVE  /\ Recorded(e, "approval.consumed", h) <=> Recorded(d, "approval.consumed", h)
               /\ e.grant[h].status = "consumed" <=> d.grant[h].status = "consumed"
    BY <1>4 DEF RuledOn, Recorded, CanRecord
  <2> QED
    BY <1>1, <1>4, <2>1, <2>2, <2>3 DEF RuledOn, AuditAgrees
<1> QED
  BY <1>3, <1>5, <1>9, <1>10 DEF StoreInv, e

(* A grant without an approval may be expired at any time: no approval     *)
(* changes and no event is missing.                                        *)
LEMMA ExpireOwnGrantInv ==
  ASSUME NEW d, StoreInv(d), NEW g \in Grant,
         d.grant[g].status = "active" => d.grant[g].approval \notin Approval
  PROVE  StoreInv(ExpireExecutionGrant(d, g))
<1> DEFINE e == ExpireExecutionGrant(d, g)
<1>1. CASE d.grant[g].status # "active"
  BY <1>1 DEF ExpireExecutionGrant
<1>2. CASE d.grant[g].status = "active"
  <2>1. d \in StoreContent /\ e \in StoreContent
    BY ExpireGrantType DEF StoreInv
  <2>2. d.grant[g].approval \notin Approval
    BY <1>2
  <2>3. /\ KeepsColumns(d, e)
        /\ \A a \in Approval : e.approval[a].status = d.approval[a].status
        /\ \A h \in Grant : e.grant[h].status = IF h = g THEN "expired" ELSE d.grant[h].status
        /\ e.audit = d.audit
    BY <1>2, <2>1, <2>2, ExpireGrantRows
  <2> HIDE DEF e
  <2>4. NotNull(e)
    BY <1>2, <2>3 DEF StoreInv, NotNull, KeepsColumns
  <2>5. TablesAgree(e)
    <3>1. ASSUME NEW h \in Grant
          PROVE  GrantTellsItsApproval(e, h)
      BY <2>2, <2>3 DEF StoreInv, TablesAgree, GrantTellsItsApproval, KeepsColumns
    <3>2. ASSUME NEW a \in Approval
          PROVE  ApprovalHasItsGrant(e, a)
      BY <2>3 DEF StoreInv, TablesAgree, ApprovalHasItsGrant, KeepsColumns
    <3> QED
      BY <3>1, <3>2 DEF TablesAgree
  <2>6. AuditAgrees(e)
    BY <1>2, <2>3 DEF StoreInv, AuditAgrees, Recorded, CanRecord, KeepsColumns
  <2> QED
    BY <2>1, <2>4, <2>5, <2>6 DEF StoreInv, e
<1> QED
  BY <1>1, <1>2

(* Once everything due has expired, so may a grant that is over: one with  *)
(* an approval would have been due.                                        *)
LEMMA ExpireGrantInv ==
  ASSUME NEW d, StoreInv(d), NEW g \in Grant, Due(d) = {}, d.grant[g].left = 0
  PROVE  StoreInv(ExpireExecutionGrant(d, g))
<1>1. d.grant[g].status = "active" => d.grant[g].approval \notin Approval
  BY DEF StoreInv, TablesAgree, GrantTellsItsApproval, Due, GrantOf
<1> QED
  BY <1>1, ExpireOwnGrantInv

LEMMA ConsumeInv ==
  ASSUME NEW d, StoreInv(d), NEW g \in Grant, d.grant[g].status = "active"
  PROVE  StoreInv(ConsumeExecutionGrant(d, g))
<1> DEFINE e == ConsumeExecutionGrant(d, g)
           its(a) == a = d.grant[g].approval /\ d.approval[a].status = "approved"
<1>1. d \in StoreContent /\ e \in StoreContent
  BY ConsumeType DEF StoreInv
<1>2. KeepsColumns(d, e)
  BY <1>1, ConsumeRows
<1>3. \A a \in Approval :
        e.approval[a].status = IF its(a) THEN "consumed" ELSE d.approval[a].status
  BY <1>1, ConsumeRows
<1>4. \A h \in Grant : e.grant[h].status = IF h = g THEN "consumed" ELSE d.grant[h].status
  BY <1>1, ConsumeRows
<1>5. e.audit = d.audit \cup {[type |-> "approval.consumed", id |-> g]}
  BY <1>1, ConsumeRows
<1>6. \A h \in Grant : d.grant[h].approval \in Approval =>
        (its(d.grant[h].approval) <=> h = g)
  BY DEF StoreInv, TablesAgree, GrantTellsItsApproval
<1>7. \A a \in Approval : its(a) =>
        d.approval[a].status = "approved" /\ d.approval[a].grant = g
  BY DEF StoreInv, TablesAgree, GrantTellsItsApproval
<1> HIDE DEF e, its
<1>8. NotNull(e)
  BY <1>2, <1>3, <1>4, <1>7 DEF StoreInv, NotNull, KeepsColumns
<1>9. TablesAgree(e)
  <2>1. ASSUME NEW h \in Grant
        PROVE  GrantTellsItsApproval(e, h)
    BY <1>2, <1>3, <1>4, <1>6, <1>7
    DEF StoreInv, TablesAgree, GrantTellsItsApproval, KeepsColumns
  <2>2. ASSUME NEW a \in Approval
        PROVE  ApprovalHasItsGrant(e, a)
    BY <1>2, <1>3, <1>7 DEF StoreInv, TablesAgree, ApprovalHasItsGrant, KeepsColumns
  <2> QED
    BY <2>1, <2>2 DEF TablesAgree
<1>10. AuditAgrees(e)
  <2>1. AuditAgrees(d)
    BY DEF StoreInv
  <2>2. ASSUME NEW a \in Approval
        PROVE  /\ Recorded(e, "approval.requested", a) <=> Recorded(d, "approval.requested", a)
               /\ Recorded(e, "approval.decided", a) <=> Recorded(d, "approval.decided", a)
               /\ Recorded(e, "approval.expired", a) <=> Recorded(d, "approval.expired", a)
    BY <1>5 DEF Recorded, CanRecord
  <2>3. ASSUME NEW h \in Grant
        PROVE  Recorded(e, "approval.consumed", h) <=>
                 Recorded(d, "approval.consumed", h) \/ h = g
    BY <1>5 DEF Recorded, CanRecord
  <2> QED
    BY <1>2, <1>3, <1>4, <1>7, <2>1, <2>2, <2>3 DEF AuditAgrees, KeepsColumns
<1> QED
  BY <1>1, <1>8, <1>9, <1>10 DEF StoreInv, e

LEMMA ElapseInv ==
  ASSUME NEW d, StoreInv(d)
  PROVE  StoreInv(Elapse(d))
<1> DEFINE e == Elapse(d)
<1>1. d \in StoreContent /\ e \in StoreContent
  BY ElapseType DEF StoreInv
<1>2. /\ KeepsColumns(d, e)
      /\ \A a \in Approval : e.approval[a].status = d.approval[a].status
      /\ \A g \in Grant : e.grant[g].status = d.grant[g].status
      /\ e.audit = d.audit
  <2>1. /\ \A a \in Approval : e.approval[a] =
             [d.approval[a] EXCEPT !.left = Less(d.approval[a].left)]
        /\ \A g \in Grant : e.grant[g] = [d.grant[g] EXCEPT !.left = Less(d.grant[g].left)]
        /\ e.audit = d.audit
    BY <1>1 DEF Elapse, StoreContent
  <2>2. /\ \A a \in Approval : d.approval[a] \in ApprovalRow
        /\ \A g \in Grant : d.grant[g] \in GrantRow
    BY <1>1 DEF StoreContent
  <2> HIDE DEF e
  <2>3. ASSUME NEW a \in Approval
        PROVE  /\ e.approval[a].status = d.approval[a].status
               /\ e.approval[a].run = d.approval[a].run
               /\ e.approval[a].digest = d.approval[a].digest
               /\ e.approval[a].grant = d.approval[a].grant
    <3>1. /\ d.approval[a] \in ApprovalRow
          /\ e.approval[a] = [d.approval[a] EXCEPT !.left = Less(d.approval[a].left)]
      BY <2>1, <2>2
    <3> QED
      BY <3>1 DEF ApprovalRow
  <2>4. ASSUME NEW g \in Grant
        PROVE  /\ e.grant[g].status = d.grant[g].status
               /\ e.grant[g].approval = d.grant[g].approval
               /\ e.grant[g].run = d.grant[g].run
               /\ e.grant[g].digest = d.grant[g].digest
    <3>1. /\ d.grant[g] \in GrantRow
          /\ e.grant[g] = [d.grant[g] EXCEPT !.left = Less(d.grant[g].left)]
      BY <2>1, <2>2
    <3> QED
      BY <3>1 DEF GrantRow
  <2> QED
    BY <2>1, <2>3, <2>4 DEF KeepsColumns
<1> HIDE DEF e
<1>3. NotNull(e)
  BY <1>2 DEF StoreInv, NotNull, KeepsColumns
<1>4. TablesAgree(e)
  <2>1. ASSUME NEW g \in Grant
        PROVE  GrantTellsItsApproval(e, g)
    <3>1. GrantTellsItsApproval(d, g)
      BY DEF StoreInv, TablesAgree
    <3> QED
      BY <1>2, <3>1 DEF GrantTellsItsApproval, KeepsColumns
  <2>2. ASSUME NEW a \in Approval
        PROVE  ApprovalHasItsGrant(e, a)
    BY <1>2 DEF StoreInv, TablesAgree, ApprovalHasItsGrant, KeepsColumns
  <2> QED
    BY <2>1, <2>2 DEF TablesAgree
<1>5. AuditAgrees(e)
  BY <1>2 DEF StoreInv, AuditAgrees, Recorded, CanRecord, KeepsColumns
<1> QED
  BY <1>1, <1>3, <1>4, <1>5 DEF StoreInv, e

LEMMA RunsOnlyInv ==
  ASSUME NEW d, StoreInv(d)
  PROVE  /\ \A r \in Run : StoreInv(CreateRun(d, r))
         /\ \A r \in Run, to \in RunStatus : StoreInv(TransitionRun(d, r, to))
         /\ \A hosted \in SUBSET Run : StoreInv(RecoverProviderSessions(d, hosted))
<1>1. ASSUME NEW r \in Run
      PROVE  StoreInv(CreateRun(d, r))
  <2>1. CreateRun(d, r) \in StoreContent
    BY DEF StoreInv, CreateRun, StoreContent, RunStatus
  <2>2. LET e == CreateRun(d, r) IN
        e.approval = d.approval /\ e.grant = d.grant /\ e.audit = d.audit
    BY DEF StoreInv, CreateRun, StoreContent
  <2> QED
    BY <2>1, <2>2, SameRows
<1>2. ASSUME NEW r \in Run, NEW to \in RunStatus
      PROVE  StoreInv(TransitionRun(d, r, to))
  <2>1. TransitionRun(d, r, to) \in StoreContent
    BY TransitionType DEF StoreInv
  <2>2. LET e == TransitionRun(d, r, to) IN
        e.approval = d.approval /\ e.grant = d.grant /\ e.audit = d.audit
    BY DEF StoreInv, TransitionRun, StoreContent
  <2> QED
    BY <2>1, <2>2, SameRows
<1>3. ASSUME NEW hosted \in SUBSET Run
      PROVE  StoreInv(RecoverProviderSessions(d, hosted))
  <2>1. RecoverProviderSessions(d, hosted) \in StoreContent
    BY RecoverType DEF StoreInv
  <2>2. LET e == RecoverProviderSessions(d, hosted) IN
        e.approval = d.approval /\ e.grant = d.grant /\ e.audit = d.audit
    BY DEF StoreInv, RecoverProviderSessions, StoreContent
  <2> QED
    BY <2>1, <2>2, SameRows
<1> QED
  BY <1>1, <1>2, <1>3

LEMMA EmptyInv == StoreInv(EmptyStore)
<1>1. EmptyStore \in StoreContent
  <2> DEFINE a0 == [status |-> "absent", run |-> NoRun, digest |-> NoDigest,
                    left |-> 0, grant |-> NoGrant]
             g0 == [status |-> "absent", approval |-> NoApproval, run |-> NoRun,
                    digest |-> NoDigest, left |-> 0]
  <2>1. a0 \in ApprovalRow /\ g0 \in GrantRow
    BY DEF ApprovalRow, GrantRow
  <2>2. EmptyStore = [run |-> [r \in Run |-> "absent"],
                      approval |-> [a \in Approval |-> a0],
                      grant |-> [g \in Grant |-> g0],
                      audit |-> {}, stamped |-> {}]
    BY DEF EmptyStore
  <2> HIDE DEF a0, g0
  <2> QED
    BY <2>1, <2>2 DEF StoreContent, RunStatus
<1>2. /\ \A a \in Approval : /\ EmptyStore.approval[a].status = "absent"
                            /\ EmptyStore.approval[a].grant = NoGrant
      /\ \A g \in Grant : /\ EmptyStore.grant[g].status = "absent"
                         /\ EmptyStore.grant[g].approval = NoApproval
      /\ EmptyStore.audit = {}
  BY DEF EmptyStore
<1>3. NotNull(EmptyStore)
  BY <1>2 DEF NotNull
<1>4. TablesAgree(EmptyStore)
  BY <1>2, NullAssumption DEF TablesAgree, GrantTellsItsApproval, ApprovalHasItsGrant
<1>5. AuditAgrees(EmptyStore)
  BY <1>2 DEF AuditAgrees, Recorded, CanRecord
<1> QED
  BY <1>1, <1>3, <1>4, <1>5 DEF StoreInv

-----------------------------------------------------------------------------
(* The store only moves forward: a row that exists keeps existing and      *)
(* keeps its columns, a ruled approval is never open again, and a consumed *)
(* grant stays consumed.  A row nobody has written yet stays as it is.     *)

ApprovalForward(d, e, a) ==
  /\ d.approval[a].status # "absent" =>
       /\ e.approval[a].status # "absent"
       /\ e.approval[a].run = d.approval[a].run
       /\ e.approval[a].digest = d.approval[a].digest
       /\ d.approval[a].status # "pending" =>
            /\ e.approval[a].status # "pending"
            /\ e.approval[a].grant = d.approval[a].grant
  /\ e.approval[a].status = "absent" => e.approval[a].run = d.approval[a].run

GrantForward(d, e, g) ==
  d.grant[g].status # "absent" =>
    /\ e.grant[g].status # "absent"
    /\ e.grant[g].approval = d.grant[g].approval
    /\ e.grant[g].run = d.grant[g].run
    /\ e.grant[g].digest = d.grant[g].digest
    /\ d.grant[g].status = "consumed" => e.grant[g].status = "consumed"

Forward(d, e) ==
  /\ \A a \in Approval : ApprovalForward(d, e, a)
  /\ \A g \in Grant : GrantForward(d, e, g)

LEMMA ForwardChain ==
  ASSUME NEW d, NEW e, NEW f, Forward(d, e), Forward(e, f)
  PROVE  Forward(d, f)
BY DEF Forward, ApprovalForward, GrantForward

LEMMA ForwardSame ==
  ASSUME NEW d, NEW e, e.approval = d.approval, e.grant = d.grant
  PROVE  Forward(d, e)
BY DEF Forward, ApprovalForward, GrantForward

LEMMA ForwardExpire ==
  ASSUME NEW d, StoreInv(d)
  PROVE  Forward(d, ExpireDueApprovals(d))
<1> DEFINE e == ExpireDueApprovals(d)
<1>1. d \in StoreContent
  BY DEF StoreInv
<1>2. /\ KeepsColumns(d, e)
      /\ \A a \in Approval : e.approval[a].status \in {"expired", d.approval[a].status}
      /\ \A g \in Grant : \/ e.grant[g].status = d.grant[g].status
                          \/ d.grant[g].status = "active" /\ e.grant[g].status = "expired"
  BY <1>1, ExpireRows
<1> HIDE DEF e
<1>3. Forward(d, e)
  BY <1>2 DEF KeepsColumns, Forward, ApprovalForward, GrantForward
<1> QED BY <1>3 DEF e

LEMMA ForwardExpireGrant ==
  ASSUME NEW d, StoreInv(d), NEW g \in Grant
  PROVE  Forward(d, ExpireExecutionGrant(d, g))
<1> DEFINE e == ExpireExecutionGrant(d, g)
<1>1. CASE d.grant[g].status # "active"
  BY <1>1, ForwardSame DEF ExpireExecutionGrant
<1>2. CASE d.grant[g].status = "active"
  <2>1. d \in StoreContent
    BY DEF StoreInv
  <2>2. /\ KeepsColumns(d, e)
        /\ \A a \in Approval : e.approval[a].status \in {"expired", d.approval[a].status}
        /\ \A h \in Grant : \/ e.grant[h].status = d.grant[h].status
                            \/ h = g /\ e.grant[h].status = "expired"
    BY <1>2, <2>1, ExpireGrantRows
  <2> HIDE DEF e
  <2>3. Forward(d, e)
    BY <1>2, <2>2 DEF KeepsColumns, Forward, ApprovalForward, GrantForward
  <2> QED BY <2>3 DEF e
<1> QED BY <1>1, <1>2

LEMMA ForwardCreateApproval ==
  ASSUME NEW d, StoreInv(d), NEW a \in Approval, NEW r \in Run, NEW dg \in Digest,
         d.approval[a].status = "absent"
  PROVE  Forward(d, CreateApproval(d, a, r, dg))
<1> DEFINE e == CreateApproval(d, a, r, dg)
<1>0. d \in StoreContent
  BY DEF StoreInv
<1>1. /\ e.approval[a] = [status |-> "pending", run |-> r, digest |-> dg,
                          left |-> ApprovalTtl, grant |-> NoGrant]
      /\ \A b \in Approval \ {a} : e.approval[b] = d.approval[b]
      /\ e.grant = d.grant
  BY <1>0, CreateApprovalRows
<1> HIDE DEF e
<1>2. e.approval[a].status # "absent"
  BY <1>1
<1>3. Forward(d, e)
  BY <1>1, <1>2 DEF Forward, ApprovalForward, GrantForward
<1> QED BY <1>3 DEF e

LEMMA ForwardInsertGrant ==
  ASSUME NEW d, StoreInv(d), NEW g \in Grant, NEW a, NEW r, NEW dg,
         d.grant[g].status = "absent"
  PROVE  Forward(d, InsertGrant(d, g, a, r, dg))
<1> DEFINE e == InsertGrant(d, g, a, r, dg)
<1>0. d \in StoreContent
  BY DEF StoreInv
<1>1. /\ e.approval = d.approval
      /\ \A h \in Grant \ {g} : e.grant[h] = d.grant[h]
  BY <1>0 DEF InsertGrant, StoreContent
<1> HIDE DEF e
<1>2. \A b \in Approval : ApprovalForward(d, e, b)
  BY <1>1 DEF ApprovalForward
<1>3. \A h \in Grant : GrantForward(d, e, h)
  BY <1>1 DEF GrantForward
<1>4. Forward(d, e)
  BY <1>2, <1>3 DEF Forward
<1> QED BY <1>4 DEF e

LEMMA ForwardDecide ==
  ASSUME NEW d, StoreInv(d), NEW a \in Approval, NEW g \in Grant \cup {NoGrant},
         NEW decision \in {"approved", "denied"},
         decision = "approved" => g \in Grant /\ d.grant[g].status = "absent",
         d.approval[a].status = "pending"
  PROVE  /\ Forward(d, DecideApproval(d, a, decision, g))
         /\ DecideApproval(d, a, decision, g).approval[a].status = decision
<1> DEFINE e == DecideApproval(d, a, decision, g)
<1>1. RuledOn(d, e, a, decision, g)
  BY DecideRows DEF StoreInv, NotNull
<1> HIDE DEF e
<1>2. Forward(d, e) /\ e.approval[a].status = decision
  BY <1>1 DEF RuledOn, Forward, ApprovalForward, GrantForward
<1> QED BY <1>2 DEF e

LEMMA ForwardConsume ==
  ASSUME NEW d, StoreInv(d), NEW g \in Grant, d.grant[g].status = "active"
  PROVE  LET e == ConsumeExecutionGrant(d, g) IN
         /\ Forward(d, e)
         /\ e.grant[g].status = "consumed"
         /\ \A a \in Approval : e.approval[a].grant = d.approval[a].grant
         /\ \A a \in Approval : d.approval[a].status = "approved" =>
              e.approval[a].status # "pending"
<1> DEFINE e == ConsumeExecutionGrant(d, g)
<1>1. /\ KeepsColumns(d, e)
      /\ \A a \in Approval : e.approval[a].status \in {"consumed", d.approval[a].status}
      /\ \A h \in Grant : e.grant[h].status = IF h = g THEN "consumed" ELSE d.grant[h].status
  BY ConsumeRows DEF StoreInv
<1> HIDE DEF e
<1>2. /\ Forward(d, e)
      /\ e.grant[g].status = "consumed"
      /\ \A a \in Approval : e.approval[a].grant = d.approval[a].grant
      /\ \A a \in Approval : d.approval[a].status = "approved" =>
           e.approval[a].status # "pending"
  BY <1>1 DEF KeepsColumns, Forward, ApprovalForward, GrantForward
<1> QED BY <1>2 DEF e

LEMMA ForwardElapse ==
  ASSUME NEW d, StoreInv(d)
  PROVE  Forward(d, Elapse(d))
<1> DEFINE e == Elapse(d)
<1>1. /\ \A a \in Approval : d.approval[a] \in ApprovalRow
      /\ \A g \in Grant : d.grant[g] \in GrantRow
      /\ \A a \in Approval : e.approval[a] =
           [d.approval[a] EXCEPT !.left = Less(d.approval[a].left)]
      /\ \A g \in Grant : e.grant[g] = [d.grant[g] EXCEPT !.left = Less(d.grant[g].left)]
  BY DEF StoreInv, StoreContent, Elapse
<1> HIDE DEF e
<1>2. ASSUME NEW a \in Approval PROVE ApprovalForward(d, e, a)
  BY <1>1 DEF ApprovalRow, ApprovalForward
<1>3. ASSUME NEW g \in Grant PROVE GrantForward(d, e, g)
  BY <1>1 DEF GrantRow, GrantForward
<1>4. Forward(d, e)
  BY <1>2, <1>3 DEF Forward
<1> QED BY <1>4 DEF e

LEMMA ForwardRuns ==
  ASSUME NEW d, StoreInv(d)
  PROVE  /\ \A r \in Run : Forward(d, CreateRun(d, r))
         /\ \A r \in Run, to \in RunStatus : Forward(d, TransitionRun(d, r, to))
         /\ \A hosted \in SUBSET Run : Forward(d, RecoverProviderSessions(d, hosted))
<1>1. d \in StoreContent
  BY DEF StoreInv
<1>2. ASSUME NEW r \in Run PROVE Forward(d, CreateRun(d, r))
  BY <1>1, ForwardSame DEF CreateRun, StoreContent
<1>3. ASSUME NEW r \in Run, NEW to \in RunStatus PROVE Forward(d, TransitionRun(d, r, to))
  <2>1. LET e == TransitionRun(d, r, to) IN e.approval = d.approval /\ e.grant = d.grant
    BY <1>1 DEF TransitionRun, StoreContent
  <2> QED BY <2>1, ForwardSame
<1>4. ASSUME NEW hosted \in SUBSET Run PROVE Forward(d, RecoverProviderSessions(d, hosted))
  <2>1. LET e == RecoverProviderSessions(d, hosted) IN
        e.approval = d.approval /\ e.grant = d.grant
    BY <1>1 DEF RecoverProviderSessions, StoreContent
  <2> QED BY <2>1, ForwardSame
<1> QED BY <1>2, <1>3, <1>4

-----------------------------------------------------------------------------
(* How the status of an approval may change in one step.                   *)
RowMove == {<<"absent", "pending">>, <<"pending", "approved">>, <<"pending", "denied">>,
            <<"pending", "expired">>, <<"approved", "consumed">>, <<"approved", "expired">>}

Moves(d, e) ==
  \A a \in Approval :
    e.approval[a].status # d.approval[a].status =>
      <<d.approval[a].status, e.approval[a].status>> \in RowMove

LEMMA SameMoves ==
  ASSUME NEW d, NEW e, e.approval = d.approval
  PROVE  Moves(d, e)
BY DEF Moves

LEMMA ExpireMoves ==
  ASSUME NEW d \in StoreContent
  PROVE  Moves(d, ExpireDueApprovals(d))
BY ExpireRows DEF Moves, RowMove, Due

(* An expired approval does not move any more: an expiry and a transaction *)
(* together change a status at most once.                                  *)
LEMMA HandlerMoves ==
  ASSUME NEW d \in StoreContent, NEW e, Moves(ExpireDueApprovals(d), e)
  PROVE  Moves(d, e)
<1> DEFINE s == ExpireDueApprovals(d)
<1>1. \A a \in Approval :
        \/ s.approval[a].status = d.approval[a].status
        \/ d.approval[a].status \in {"pending", "approved"} /\ s.approval[a].status = "expired"
  BY ExpireRows DEF Due
<1>2. Moves(s, e)
  OBVIOUS
<1> HIDE DEF s
<1> SUFFICES ASSUME NEW a \in Approval, e.approval[a].status # d.approval[a].status
             PROVE  <<d.approval[a].status, e.approval[a].status>> \in RowMove
  BY DEF Moves
<1>3. CASE s.approval[a].status = d.approval[a].status
  BY <1>2, <1>3 DEF Moves
<1>4. CASE d.approval[a].status \in {"pending", "approved"} /\ s.approval[a].status = "expired"
  <2>1. e.approval[a].status = "expired"
    BY <1>2, <1>4 DEF Moves, RowMove
  <2> QED
    BY <1>4, <2>1 DEF RowMove
<1> QED
  BY <1>1, <1>3, <1>4

LEMMA CreateApprovalMoves ==
  ASSUME NEW d \in StoreContent, NEW a \in Approval, NEW r \in Run, NEW dg \in Digest,
         d.approval[a].status = "absent"
  PROVE  Moves(d, CreateApproval(d, a, r, dg))
<1> DEFINE e == CreateApproval(d, a, r, dg)
<1>1. /\ e.approval[a] = [status |-> "pending", run |-> r, digest |-> dg,
                          left |-> ApprovalTtl, grant |-> NoGrant]
      /\ \A b \in Approval \ {a} : e.approval[b] = d.approval[b]
  BY CreateApprovalRows
<1> HIDE DEF e
<1>2. e.approval[a].status = "pending"
  BY <1>1
<1>3. Moves(d, e)
  BY <1>1, <1>2 DEF Moves, RowMove
<1> QED
  BY <1>3 DEF e

LEMMA DecideMoves ==
  ASSUME NEW d, StoreInv(d), NEW a \in Approval, NEW g \in Grant \cup {NoGrant},
         NEW decision \in {"approved", "denied"}, decision = "approved" => g \in Grant,
         d.approval[a].status = "pending"
  PROVE  Moves(d, DecideApproval(d, a, decision, g))
<1>1. RuledOn(d, DecideApproval(d, a, decision, g), a, decision, g)
  BY DecideRows DEF StoreInv, NotNull
<1> QED
  BY <1>1 DEF RuledOn, Moves, RowMove

LEMMA ConsumeMoves ==
  ASSUME NEW d \in StoreContent, NEW g \in Grant
  PROVE  Moves(d, ConsumeExecutionGrant(d, g))
BY ConsumeRows DEF Moves, RowMove

LEMMA ExpireGrantMoves ==
  ASSUME NEW d \in StoreContent, NEW g \in Grant
  PROVE  Moves(d, ExpireExecutionGrant(d, g))
<1>1. CASE d.grant[g].status # "active"
  BY <1>1, SameMoves DEF ExpireExecutionGrant
<1>2. CASE d.grant[g].status = "active"
  BY <1>2, ExpireGrantRows DEF Moves, RowMove
<1> QED
  BY <1>1, <1>2

LEMMA ElapseMoves ==
  ASSUME NEW d \in StoreContent
  PROVE  Moves(d, Elapse(d))
<1> DEFINE e == Elapse(d)
<1>1. \A a \in Approval :
        /\ d.approval[a] \in ApprovalRow
        /\ e.approval[a] = [d.approval[a] EXCEPT !.left = Less(d.approval[a].left)]
  BY DEF Elapse, StoreContent
<1> HIDE DEF e
<1>2. \A a \in Approval : e.approval[a].status = d.approval[a].status
  BY <1>1 DEF ApprovalRow
<1>3. Moves(d, e)
  BY <1>2 DEF Moves
<1> QED
  BY <1>3 DEF e

-----------------------------------------------------------------------------
(* Approvals start and stop runs, but neither make nor end one.            *)
NoRunEnds(d, e) ==
  \A r \in Run :
    /\ e.run[r] = "absent" <=> d.run[r] = "absent"
    /\ e.run[r] \in TerminalRunStatus => e.run[r] = d.run[r]

LEMMA NoRunEndsChain ==
  ASSUME NEW d, NEW e, NEW f, NoRunEnds(d, e), NoRunEnds(e, f)
  PROVE  NoRunEnds(d, f)
BY DEF NoRunEnds

LEMMA ExpireEndsNoRun ==
  ASSUME NEW d \in StoreContent
  PROVE  NoRunEnds(d, ExpireDueApprovals(d))
<1> DEFINE e == ExpireDueApprovals(d)
<1>1. /\ \A r \in Run : e.run[r] = IF r \in ResumedByExpiry(d) THEN "running" ELSE d.run[r]
      /\ MarkExpired(d).run = d.run
  BY MarkExpiredType DEF ExpireDueApprovals, MarkExpired, StoreContent
<1>2. \A r \in ResumedByExpiry(d) : d.run[r] = "waiting_approval"
  BY <1>1 DEF ResumedByExpiry, ResumesRun
<1> HIDE DEF e
<1>3. NoRunEnds(d, e)
  BY <1>1, <1>2 DEF NoRunEnds, TerminalRunStatus
<1> QED
  BY <1>3 DEF e

LEMMA CreateApprovalEndsNoRun ==
  ASSUME NEW d \in StoreContent, NEW a \in Approval, NEW r \in Run, NEW dg \in Digest
  PROVE  NoRunEnds(d, CreateApproval(d, a, r, dg))
<1>1. \A q \in Run :
        CreateApproval(d, a, r, dg).run[q] =
          IF q = r /\ d.run[r] \in {"running", "created"} THEN "waiting_approval" ELSE d.run[q]
  BY DEF CreateApproval, Record, TransitionRun, StoreContent
<1> QED
  BY <1>1 DEF NoRunEnds, TerminalRunStatus

LEMMA DecideEndsNoRun ==
  ASSUME NEW d \in StoreContent, NEW a \in Approval, NEW g \in Grant \cup {NoGrant},
         NEW decision \in {"approved", "denied"}, decision = "approved" => g \in Grant,
         d.approval[a].run \in Run
  PROVE  NoRunEnds(d, DecideApproval(d, a, decision, g))
<1> DEFINE m == Decided(d, a, decision, g)
           e == DecideApproval(d, a, decision, g)
           r == d.approval[a].run
<1>1. m \in StoreContent
  BY DecidedType
<1>2. m.run = d.run
  BY DEF Decided, InsertGrant, Record, StoreContent
<1>3. \A q \in Run : e.run[q] = IF q = r /\ ResumesRun(m, r) THEN "running" ELSE m.run[q]
  BY <1>1 DEF DecideApproval, ResumeRunWithoutPendingApprovals, TransitionRun, StoreContent
<1> HIDE DEF m, e
<1>4. NoRunEnds(d, e)
  BY <1>2, <1>3 DEF NoRunEnds, ResumesRun, TerminalRunStatus
<1> QED
  BY <1>4 DEF e

LEMMA OthersEndNoRun ==
  ASSUME NEW d \in StoreContent
  PROVE  /\ \A g \in Grant : NoRunEnds(d, ConsumeExecutionGrant(d, g))
         /\ NoRunEnds(d, Elapse(d))
<1>1. \A g \in Grant : ConsumeExecutionGrant(d, g).run = d.run
  BY DEF ConsumeExecutionGrant, Record, StoreContent
<1>2. Elapse(d).run = d.run
  BY DEF Elapse, StoreContent
<1> QED
  BY <1>1, <1>2 DEF NoRunEnds
=============================================================================
