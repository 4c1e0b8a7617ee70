----------------------- MODULE ComplianceDecision_proofs -----------------------
(***************************************************************************)
(* Proofs about ComplianceDecision, for any decisions, requests, payloads  *)
(* and callers.                                                            *)
(***************************************************************************)
EXTENDS DecisionInvariant, TLAPS

\* Every call a client can make is well formed, names only roles that call, and
\* an update or transition names a version within RunAhead of the stored one.
LEMMA CallsWellFormed ==
  ASSUME TypeOK, NEW who \in Callers, NEW d \in Decision, NEW call \in Calls(who, d)
  PROVE  /\ call \in Call
         /\ call.op \in {"update", "transition"} =>
              call.expected <= decisions[call.decision].version + RunAhead
<1> USE CallersAssumption, RunAheadAssumption
<1> decisions[d] \in Row
  BY DEF TypeOK
<1>v. \A v \in ExpectedVersions(d) : v \in Nat /\ v <= decisions[d].version + RunAhead
  BY DEF ExpectedVersions, Row
<1>1. CASE call \in CreateCalls(who, d)
  BY <1>1 DEF CreateCalls, NewCall, Call, DecisionState
<1>2. CASE call \in UpdateCalls(who, d)
  BY <1>2, <1>v DEF UpdateCalls, NewCall, Call, DecisionState
<1>3. CASE call \in TransitionCalls(who, d)
  BY <1>3, <1>v DEF TransitionCalls, NewCall, Call, DecisionState
<1>4. CASE call \in PlainCalls(who, d)
  BY <1>4 DEF PlainCalls, NewCall, Call, DecisionState
<1> QED
  BY <1>1, <1>2, <1>3, <1>4 DEF Calls

\* The initial database satisfies TypeOK.
LEMMA InitTyped == Init => TypeOK
<1> SUFFICES ASSUME Init PROVE TypeOK
  OBVIOUS
<1>1. SeededRow \cup {AbsentRow} \subseteq Row
  BY DEF SeededRow, AbsentRow, Row, DecisionState
<1>2. decisions \in [Decision -> Row]
  BY <1>1 DEF Init
<1>3. revisions \subseteq DecisionRevision
  <2> SUFFICES ASSUME NEW d \in Decision
               PROVE  SeedRevision(d, decisions[d]) \in DecisionRevision
    BY DEF Init
  <2> QED
    BY <1>2 DEF SeedRevision, DecisionRevision, Row
<1>4. AbsentRow \in Row
  BY <1>1
<1> QED
  BY <1>2, <1>3, <1>4 DEF Init, TypeOK, Locus, Answer

-----------------------------------------------------------------------------
(* What one commit does to the two decision tables.                        *)

\* The stored row and revision are well formed and agree.
LEMMA StoredWellFormed ==
  ASSUME TypeOK, Routed, NEW r \in Request, pc[r] = "writing",
         input[r].op \in {"create", "update", "transition"}
  PROVE  LET row == Written(input[r], current[r])
             new == newDecisionRevision(r, input[r], row)
         IN /\ input[r] \in Call
            /\ row \in Row /\ row.phase = "live"
            /\ row.version = IF input[r].op = "create" THEN 1 ELSE input[r].expected + 1
            /\ new \in DecisionRevision
            /\ new.decision = input[r].decision /\ new.version = row.version
            /\ new.state = row.status /\ new.fields = row.fields
            /\ new.request = r /\ new.actor = input[r].role
<1> DEFINE call == input[r]
           row == Written(call, current[r])
<1>1. call \in Call
  BY DEF Routed
<1>2. current[r] \in Row
  BY DEF TypeOK
<1>3. /\ row \in Row /\ row.phase = "live"
      /\ row.version = IF call.op = "create" THEN 1 ELSE call.expected + 1
  <2>1. CASE call.op = "create"
    BY <1>1, <2>1 DEF Written, LiveRow, Row, Call, ComplianceDecisionInitialStatus, DecisionState
  <2>2. CASE call.op = "update"
    BY <1>1, <1>2, <2>2 DEF Written, LiveRow, Row, Call
  <2>3. CASE call.op = "transition"
    BY <1>1, <1>2, <2>3 DEF Written, LiveRow, Row, Call
  <2> QED
    BY <2>1, <2>2, <2>3
<1> HIDE DEF row
<1>4. newDecisionRevision(r, call, row) \in DecisionRevision
  BY <1>1, <1>3 DEF newDecisionRevision, DecisionRevision, Call, Row
<1> QED
  BY <1>1, <1>3, <1>4 DEF newDecisionRevision, row

\* What CreateWithRevision and UpdateWithRevision do when they store something.
Commit(r) ==
  LET call == input[r]
      row == Written(call, current[r])
      new == newDecisionRevision(r, call, row)
  IN /\ pc[r] = "writing" /\ call.op \in {"create", "update", "transition"}
     /\ IF call.op = "create"
        THEN decisions[call.decision].phase = "absent"
        ELSE OptimisticLockHolds(decisions[call.decision], call.expected)
     /\ ~RevisionTaken(revisions, new)
     /\ decisions' = [decisions EXCEPT ![call.decision] = row]
     /\ revisions' = revisions \cup {new}

\* Both transactions either commit or leave the two tables alone.
LEMMA WriteCommitsOrNot ==
  ASSUME NEW r \in Request, CreateWithRevision(r) \/ UpdateWithRevision(r)
  PROVE  UNCHANGED <<decisions, revisions>> \/ Commit(r)
<1>1. CASE CreateWithRevision(r)
  BY <1>1 DEF CreateWithRevision, StoreWithRevision, Commit
<1>2. CASE UpdateWithRevision(r)
  BY <1>2 DEF UpdateWithRevision, StoreWithRevision, Commit
<1> QED
  BY <1>1, <1>2

\* A write ends in an answer or goes on to the audit.
LEMMA WriteControl ==
  ASSUME NEW r \in Request, CreateWithRevision(r) \/ UpdateWithRevision(r)
  PROVE  /\ pc[r] = "writing" /\ input[r].op \in {"create", "update", "transition"}
         /\ UNCHANGED <<auditLog, input, current, history>>
         /\ \/ \E status \in {"internal_error", "version_conflict"} : Reply(r, status)
            \/ Continue(r, "auditing")
<1>1. CASE CreateWithRevision(r)
  BY <1>1 DEF CreateWithRevision, StoreWithRevision, Committed
<1>2. CASE UpdateWithRevision(r)
  BY <1>2 DEF UpdateWithRevision, StoreWithRevision, Committed
<1> QED
  BY <1>1, <1>2

-----------------------------------------------------------------------------
(* Types and control.                                                      *)

\* Moving one request on keeps pc and answer typed.
LEMMA ControlTyped ==
  ASSUME TypeOK, NEW r \in Request,
         \/ \E status \in Answer : Reply(r, status)
         \/ \E next \in Locus : Continue(r, next)
  PROVE  /\ pc' \in [Request -> Locus]
         /\ answer' \in [Request -> Answer]
         /\ \A s \in Request : s # r => pc'[s] = pc[s]
BY DEF TypeOK, Reply, Continue, Locus

\* An answered request is at no statement.
LEMMA ReplyRouted ==
  ASSUME TypeOK, Routed, NEW r \in Request, NEW status, Reply(r, status),
         \A s \in Request : s # r => input'[s] = input[s] /\ current'[s] = current[s],
         input'[r] \in Call
  PROVE  Routed'
<1>1. \A s \in Request : s # r => pc'[s] = pc[s]
  BY DEF Reply, TypeOK
<1>2. pc'[r] = "done"
  BY DEF Reply, TypeOK
<1> QED
  BY <1>1, <1>2 DEF Routed, Changes

\* Going on to a statement past the write keeps Routed.
LEMMA LaterRouted ==
  ASSUME TypeOK, Routed, NEW r \in Request, NEW next \in {"auditing", "reloading", "preloading"},
         Continue(r, next), UNCHANGED input,
         pc[r] # "idle", next = "auditing" => pc[r] = "writing",
         \A s \in Request : s # r => current'[s] = current[s]
  PROVE  Routed'
<1>1. \A s \in Request : s # r => pc'[s] = pc[s]
  BY DEF Continue, TypeOK
<1>2. pc'[r] = next
  BY DEF Continue, TypeOK
<1> QED
  BY <1>1, <1>2 DEF Routed, Changes

\* An arriving call keeps types, and binding and validation route it (Routed).
LEMMA ArriveTyped ==
  ASSUME TypeOK, Routed, NEW r \in Request, Arrive(r)
  PROVE  TypeOK' /\ Routed'
<1>0. PICK who \in Callers, d \in Decision : \E call \in Calls(who, d) :
        /\ input' = [input EXCEPT ![r] = call]
        /\ \/ \E status \in {"forbidden", "invalid_request", "business_rule"} : Reply(r, status)
           \/ call.op = "create" /\ call.fields # Blank /\ Continue(r, "writing")
           \/ call.op \in {"update", "transition", "delete"} /\ Continue(r, "reading")
           \/ call.op = "get" /\ Continue(r, "reloading")
  BY DEF Arrive
<1>1. PICK call \in Calls(who, d) :
        /\ input' = [input EXCEPT ![r] = call]
        /\ \/ \E status \in {"forbidden", "invalid_request", "business_rule"} : Reply(r, status)
           \/ call.op = "create" /\ call.fields # Blank /\ Continue(r, "writing")
           \/ call.op \in {"update", "transition", "delete"} /\ Continue(r, "reading")
           \/ call.op = "get" /\ Continue(r, "reloading")
  BY <1>0
<1>2. call \in Call
  BY CallsWellFormed
<1>3. input' \in [Request -> Call \cup {NoCall}] /\ input'[r] = call
  BY <1>1, <1>2 DEF TypeOK
<1>4. \A s \in Request : s # r => input'[s] = input[s] /\ current'[s] = current[s]
  BY <1>1 DEF TypeOK, Arrive
<1>5. \/ \E status \in Answer : Reply(r, status)
      \/ \E next \in Locus : Continue(r, next)
  BY <1>1 DEF Answer, Locus
<1>6. TypeOK'
  BY <1>3, <1>5, ControlTyped DEF TypeOK, Arrive, database
<1>7. CASE \E status \in {"forbidden", "invalid_request", "business_rule"} : Reply(r, status)
  BY <1>2, <1>3, <1>4, <1>6, <1>7, ReplyRouted
<1>8. CASE \E next \in {"writing", "reading", "reloading"} :
             /\ Continue(r, next)
             /\ next = "writing" => call.op = "create" /\ call.fields # Blank
             /\ next = "reading" => call.op \in {"update", "transition", "delete"}
  <2>1. PICK next \in {"writing", "reading", "reloading"} :
             /\ Continue(r, next)
             /\ next = "writing" => call.op = "create" /\ call.fields # Blank
             /\ next = "reading" => call.op \in {"update", "transition", "delete"}
    BY <1>8
  <2>2. pc'[r] = next /\ \A s \in Request : s # r => pc'[s] = pc[s]
    BY <2>1 DEF Continue, TypeOK
  <2>3. next = "writing" => call.fields \in Fields
    BY <1>2, <2>1 DEF Call
  <2> QED
    BY <1>2, <1>3, <1>4, <1>6, <2>1, <2>2, <2>3 DEF Routed, Changes
<1> QED
  BY <1>1, <1>6, <1>7, <1>8

\* Reading the row keeps types; a request goes on to write only an unrefused copy.
LEMMA LoadTyped ==
  ASSUME TypeOK, Routed, NEW r \in Request, Load(r)
  PROVE  TypeOK' /\ Routed'
<1> DEFINE row == decisions[input[r].decision]
<1>1. pc[r] = "reading" /\ input[r] \in Call /\ input[r].op \in {"update", "transition", "delete"}
  BY DEF Load, Routed
<1>2. row \in Row
  BY <1>1 DEF TypeOK, Call
<1>3. \/ \E status \in {"not_found", "business_rule"} : Reply(r, status)
      \/ Continue(r, "writing")
  BY DEF Load
<1>4. /\ current' \in [Request -> Row]
      /\ \A s \in Request : s # r => current'[s] = current[s]
      /\ UNCHANGED <<database, input, history>>
  BY <1>2 DEF Load, TypeOK
<1>5. TypeOK'
  <2> \/ \E status \in Answer : Reply(r, status)
      \/ \E next \in Locus : Continue(r, next)
    BY <1>3 DEF Answer, Locus
  <2> QED
    BY <1>4, ControlTyped DEF TypeOK, database
<1>6. CASE \E status \in {"not_found", "business_rule"} : Reply(r, status)
  BY <1>1, <1>4, <1>5, <1>6, ReplyRouted
<1>7. CASE Continue(r, "writing")
  <2>1. pc'[r] = "writing" /\ \A s \in Request : s # r => pc'[s] = pc[s]
    BY <1>7 DEF Continue, TypeOK
  <2>2. current'[r] = row /\ row.phase = "live" /\ ~Refused(input[r], row)
    BY <1>7, <2>1 DEF Load, Reply, TypeOK
  <2> QED
    BY <1>1, <1>4, <1>5, <2>1, <2>2 DEF Routed, Changes
<1> QED
  BY <1>3, <1>5, <1>6, <1>7

\* Both transactions keep types and control.
LEMMA WriteTyped ==
  ASSUME TypeOK, Routed, NEW r \in Request, CreateWithRevision(r) \/ UpdateWithRevision(r)
  PROVE  TypeOK' /\ Routed'
<1>1. /\ pc[r] = "writing" /\ input[r].op \in {"create", "update", "transition"}
      /\ UNCHANGED <<auditLog, input, current, history>>
      /\ \/ \E status \in {"internal_error", "version_conflict"} : Reply(r, status)
         \/ Continue(r, "auditing")
  BY WriteControl
<1>2. input[r] \in Call
  BY <1>1 DEF Routed
<1>3. decisions' \in [Decision -> Row] /\ revisions' \subseteq DecisionRevision
  <2>1. CASE UNCHANGED <<decisions, revisions>>
    BY <2>1 DEF TypeOK
  <2>2. CASE Commit(r)
    BY <1>1, <2>2, StoredWellFormed DEF Commit, TypeOK
  <2> QED
    BY <2>1, <2>2, WriteCommitsOrNot
<1>4. TypeOK'
  <2> \/ \E status \in Answer : Reply(r, status)
      \/ \E next \in Locus : Continue(r, next)
    BY <1>1 DEF Answer, Locus
  <2> QED
    BY <1>1, <1>3, ControlTyped DEF TypeOK
<1>5. CASE \E status \in {"internal_error", "version_conflict"} : Reply(r, status)
  BY <1>1, <1>2, <1>4, <1>5, ReplyRouted
<1>6. CASE Continue(r, "auditing")
  BY <1>1, <1>4, <1>6, LaterRouted
<1> QED
  BY <1>1, <1>5, <1>6

\* The soft delete keeps types and control.
LEMMA DeleteTyped ==
  ASSUME TypeOK, Routed, NEW r \in Request, Delete(r)
  PROVE  TypeOK' /\ Routed'
<1>1. /\ pc[r] = "writing" /\ input[r] \in Call
      /\ UNCHANGED <<revisions, auditLog, input, current, history>>
      /\ \/ \E status \in {"internal_error", "not_found"} : Reply(r, status)
         \/ Continue(r, "auditing")
  BY DEF Delete, Committed, Routed
<1>2. decisions' \in [Decision -> Row]
  <2> input[r].decision \in Decision
    BY <1>1 DEF Call
  <2> SoftDeleted(decisions[input[r].decision]) \in Row
    BY DEF TypeOK, SoftDeleted, Row
  <2> QED
    BY DEF Delete, TypeOK
<1>3. TypeOK'
  <2> \/ \E status \in Answer : Reply(r, status)
      \/ \E next \in Locus : Continue(r, next)
    BY <1>1 DEF Answer, Locus
  <2> QED
    BY <1>1, <1>2, ControlTyped DEF TypeOK
<1>4. CASE \E status \in {"internal_error", "not_found"} : Reply(r, status)
  BY <1>1, <1>3, <1>4, ReplyRouted
<1>5. CASE Continue(r, "auditing")
  BY <1>1, <1>3, <1>5, LaterRouted
<1> QED
  BY <1>1, <1>4, <1>5

\* An audit row is well formed, and the audit is followed by a read or an answer.
LEMMA AuditTyped ==
  ASSUME TypeOK, Routed, NEW r \in Request, Audit(r)
  PROVE  TypeOK' /\ Routed'
<1>1. /\ pc[r] = "auditing" /\ input[r] \in Call
      /\ input[r].op \in {"create", "update", "transition", "delete"}
      /\ UNCHANGED <<decisions, revisions, input, current, history>>
      /\ \/ \E status \in {"internal_error", "ok"} : Reply(r, status)
         \/ Continue(r, "reloading")
  BY DEF Audit, Audited, AfterAudit, Routed
<1>2. AuditRow(r, input[r], current[r]) \in AuditLog
  BY <1>1 DEF AuditRow, AuditLog, TypeOK, Call, Row, ComplianceDecisionInitialStatus,
              DecisionState
<1>3. auditLog' \subseteq AuditLog
  BY <1>2 DEF Audit, TypeOK
<1>4. TypeOK'
  <2> \/ \E status \in Answer : Reply(r, status)
      \/ \E next \in Locus : Continue(r, next)
    BY <1>1 DEF Answer, Locus
  <2> QED
    BY <1>1, <1>3, ControlTyped DEF TypeOK
<1>5. CASE \E status \in {"internal_error", "ok"} : Reply(r, status)
  BY <1>1, <1>4, <1>5, ReplyRouted
<1>6. CASE Continue(r, "reloading")
  BY <1>1, <1>4, <1>6, LaterRouted
<1> QED
  BY <1>1, <1>5, <1>6

\* The final read of the row keeps types and control.
LEMMA ReloadTyped ==
  ASSUME TypeOK, Routed, NEW r \in Request, Reload(r)
  PROVE  TypeOK' /\ Routed'
<1>1. /\ pc[r] = "reloading" /\ input[r] \in Call
      /\ UNCHANGED <<database, input, history>>
      /\ Reply(r, "not_found") \/ Continue(r, "preloading")
  BY DEF Reload, Routed
<1>2. /\ current' \in [Request -> Row]
      /\ \A s \in Request : s # r => current'[s] = current[s]
  <2> decisions[input[r].decision] \in Row
    BY <1>1 DEF TypeOK, Call
  <2> QED
    BY DEF Reload, TypeOK
<1>3. TypeOK'
  <2> \/ \E status \in Answer : Reply(r, status)
      \/ \E next \in Locus : Continue(r, next)
    BY <1>1 DEF Answer, Locus
  <2> QED
    BY <1>1, <1>2, ControlTyped DEF TypeOK, database
<1>4. CASE Reply(r, "not_found")
  BY <1>1, <1>2, <1>3, <1>4, ReplyRouted
<1>5. CASE Continue(r, "preloading")
  BY <1>1, <1>2, <1>3, <1>5, LaterRouted
<1> QED
  BY <1>1, <1>4, <1>5

\* The final read of the revisions keeps types and control.
LEMMA PreloadTyped ==
  ASSUME TypeOK, Routed, NEW r \in Request, Preload(r)
  PROVE  TypeOK' /\ Routed'
<1>1. /\ pc[r] = "preloading" /\ input[r] \in Call
      /\ UNCHANGED <<database, input, current>>
      /\ Reply(r, "ok")
  BY DEF Preload, Routed
<1>2. history' \in [Request -> SUBSET DecisionRevision]
  BY DEF Preload, TypeOK
<1>3. TypeOK'
  <2> \E status \in Answer : Reply(r, status)
    BY <1>1 DEF Answer
  <2> QED
    BY <1>1, <1>2, ControlTyped DEF TypeOK, database
<1> QED
  BY <1>1, <1>3, ReplyRouted

\* A failing statement answers and changes nothing else.
LEMMA DatabaseFailsTyped ==
  ASSUME TypeOK, Routed, NEW r \in Request, DatabaseFails(r)
  PROVE  TypeOK' /\ Routed'
<1>1. /\ input[r] \in Call
      /\ UNCHANGED <<database, input, current, history>>
      /\ Reply(r, "internal_error")
  BY DEF DatabaseFails, Routed
<1>2. TypeOK'
  <2> \E status \in Answer : Reply(r, status)
    BY <1>1 DEF Answer
  <2> QED
    BY <1>1, ControlTyped DEF TypeOK, database
<1> QED
  BY <1>1, <1>2, ReplyRouted

\* A crash loses the requests in flight and changes nothing else.
LEMMA CrashTyped ==
  ASSUME TypeOK, Routed, Crash
  PROVE  TypeOK' /\ Routed'
<1>1. \A r \in Request : pc'[r] = pc[r] \/ (pc'[r] = "lost" /\ pc[r] # "idle")
  BY DEF Crash, InFlight
<1>2. pc' \in [Request -> Locus]
  BY DEF Crash, TypeOK, Locus
<1> QED
  BY <1>1, <1>2 DEF Crash, TypeOK, Routed, Changes, database

\* Every step of the service keeps types and control.
LEMMA TypingStep == TypeOK /\ Routed /\ [Next]_vars => TypeOK' /\ Routed'
<1> SUFFICES ASSUME TypeOK, Routed, [Next]_vars PROVE TypeOK' /\ Routed'
  OBVIOUS
<1>1. CASE Crash
  BY <1>1, CrashTyped
<1>2. ASSUME NEW r \in Request, Handle(r) PROVE TypeOK' /\ Routed'
  BY <1>2, ArriveTyped, LoadTyped, WriteTyped, DeleteTyped, AuditTyped, ReloadTyped,
     PreloadTyped, DatabaseFailsTyped DEF Handle
<1>3. CASE UNCHANGED vars
  BY <1>3 DEF vars, TypeOK, Routed, Changes
<1> QED
  BY <1>1, <1>2, <1>3 DEF Next

\* No request is at a statement initially.
LEMMA InitRouted == Init => Routed
BY DEF Init, Routed

\* Every reachable state of the service is well typed, whatever the number of
\* decisions, requests and payloads: the control state of a handler always fits
\* the call it serves.
THEOREM TypeCorrect == Spec => []TypeOK
<1>1. Init => TypeOK /\ Routed
  BY InitTyped, InitRouted
<1> QED
  BY <1>1, TypingStep, PTL DEF Spec

-----------------------------------------------------------------------------
(* The row and its history stay in step, for any RunAhead.                 *)

Tables == OnlyAbsentUnversioned /\ RevisionsBounded /\ RevisionsGapless
            /\ RevisionsUnique /\ HeadIsRow

\* A commit stores, for one decision, the version after the stored one.
LEMMA CommitNextVersion ==
  ASSUME LedgerInv, NEW r \in Request, Commit(r)
  PROVE  \E d \in Decision, row \in Row, new \in DecisionRevision :
           /\ d = input[r].decision /\ row = Written(input[r], current[r])
           /\ new.actor = input[r].role /\ new.request = r
           /\ decisions[d].phase # "deleted"
           /\ decisions' = [decisions EXCEPT ![d] = row]
           /\ revisions' = revisions \cup {new}
           /\ row.phase = "live" /\ row.version = decisions[d].version + 1
           /\ new.decision = d /\ new.version = row.version
           /\ new.state = row.status /\ new.fields = row.fields
<1> DEFINE call == input[r]
           d == call.decision
           row == Written(call, current[r])
           new == newDecisionRevision(r, call, row)
<1>1. TypeOK /\ Routed /\ OnlyAbsentUnversioned
  BY DEF LedgerInv
<1>2. pc[r] = "writing" /\ call.op \in {"create", "update", "transition"}
  BY DEF Commit
<1>3. /\ call \in Call
      /\ row \in Row /\ row.phase = "live"
      /\ row.version = IF call.op = "create" THEN 1 ELSE call.expected + 1
      /\ new \in DecisionRevision
      /\ new.decision = d /\ new.version = row.version
      /\ new.state = row.status /\ new.fields = row.fields
      /\ new.request = r /\ new.actor = call.role
  BY <1>1, <1>2, StoredWellFormed
<1>4. d \in Decision
  BY <1>3 DEF Call
<1>5. /\ decisions' = [decisions EXCEPT ![d] = row]
      /\ revisions' = revisions \cup {new}
  BY DEF Commit
<1>6. row.version = decisions[d].version + 1 /\ decisions[d].phase # "deleted"
  <2>1. CASE call.op = "create"
    <3> decisions[d].phase = "absent"
      BY <2>1 DEF Commit
    <3> QED
      BY <1>1, <1>3, <1>4, <2>1 DEF OnlyAbsentUnversioned
  <2>2. CASE call.op # "create"
    BY <1>3, <2>2 DEF Commit, OptimisticLockHolds
  <2> QED
    BY <2>1, <2>2
<1> HIDE DEF row, new
<1>7. row = Written(call, current[r])
  BY DEF row
<1> QED
  BY <1>3, <1>4, <1>5, <1>6, <1>7

\* A transaction that commits the next version keeps row and revisions in step.
LEMMA CommitKeepsTables ==
  ASSUME LedgerInv, NEW r \in Request, Commit(r)
  PROVE  Tables'
<1>1. PICK d \in Decision, row \in Row, new \in DecisionRevision :
           /\ decisions[d].phase # "deleted"
           /\ decisions' = [decisions EXCEPT ![d] = row]
           /\ revisions' = revisions \cup {new}
           /\ row.phase = "live" /\ row.version = decisions[d].version + 1
           /\ new.decision = d /\ new.version = row.version
           /\ new.state = row.status /\ new.fields = row.fields
  BY CommitNextVersion
<1>2. /\ decisions \in [Decision -> Row] /\ revisions \subseteq DecisionRevision
      /\ OnlyAbsentUnversioned /\ RevisionsBounded /\ RevisionsGapless
      /\ RevisionsUnique /\ HeadIsRow
  BY DEF LedgerInv, TypeOK
<1>3. /\ decisions'[d] = row
      /\ \A e \in Decision : e # d => decisions'[e] = decisions[e]
      /\ \A e \in Decision : decisions[e].version \in Nat
      /\ \A v \in revisions' : v.decision \in Decision /\ v.version \in Nat
  BY <1>1, <1>2 DEF Row, DecisionRevision
<1>4. OnlyAbsentUnversioned'
  BY <1>1, <1>2, <1>3 DEF OnlyAbsentUnversioned
<1>5. RevisionsBounded'
  BY <1>1, <1>2, <1>3 DEF RevisionsBounded
<1>6. RevisionsGapless'
  <2> SUFFICES ASSUME NEW e \in Decision, NEW n \in 1 .. decisions'[e].version
               PROVE  \E v \in revisions' : v.decision = e /\ v.version = n
    BY DEF RevisionsGapless
  <2>1. CASE e = d /\ n = row.version
    BY <1>1, <2>1
  <2>2. CASE e # d \/ n # row.version
    <3> n \in 1 .. decisions[e].version
      BY <1>1, <1>3, <2>2
    <3> QED
      BY <1>1, <1>2 DEF RevisionsGapless
  <2> QED
    BY <2>1, <2>2
<1>7. RevisionsUnique'
  <2> \A v \in revisions : v.decision = d => v.version # new.version
    BY <1>1, <1>2, <1>3 DEF RevisionsBounded
  <2> QED
    BY <1>1, <1>2 DEF RevisionsUnique
<1>8. HeadIsRow'
  <2> SUFFICES ASSUME NEW v \in revisions', v.version = decisions'[v.decision].version
               PROVE  /\ v.state = decisions'[v.decision].status
                      /\ v.fields = decisions'[v.decision].fields
    BY DEF HeadIsRow
  <2>1. CASE v = new
    BY <1>1, <1>3, <2>1
  <2>2. CASE v \in revisions /\ v.decision = d
    BY <1>1, <1>2, <1>3, <2>2 DEF RevisionsBounded
  <2>3. CASE v \in revisions /\ v.decision # d
    BY <1>2, <1>3, <2>3 DEF HeadIsRow
  <2> QED
    BY <1>1, <2>1, <2>2, <2>3
<1> QED
  BY <1>4, <1>5, <1>6, <1>7, <1>8 DEF Tables

\* The soft delete changes neither version, status nor fields.
LEMMA DeleteKeepsTables ==
  ASSUME LedgerInv, NEW r \in Request, Delete(r)
  PROVE  Tables'
<1>1. input[r].decision \in Decision /\ UNCHANGED revisions
  BY DEF Delete, LedgerInv, Routed, Call
<1>2. \A e \in Decision : /\ decisions'[e].version = decisions[e].version
                          /\ decisions'[e].status = decisions[e].status
                          /\ decisions'[e].fields = decisions[e].fields
                          /\ decisions'[e].phase = "absent" <=> decisions[e].phase = "absent"
  BY <1>1 DEF Delete, SoftDeleted, LedgerInv, TypeOK, Row
<1>3. \A v \in revisions : v.decision \in Decision
  BY DEF LedgerInv, TypeOK, DecisionRevision
<1> QED
  BY <1>1, <1>2, <1>3 DEF Tables, LedgerInv, OnlyAbsentUnversioned, RevisionsBounded,
       RevisionsGapless, RevisionsUnique, HeadIsRow

\* What is said of the tables holds as long as they do not change.
LEMMA SameTables ==
  ASSUME LedgerInv, UNCHANGED <<decisions, revisions>>
  PROVE  Tables'
BY DEF Tables, LedgerInv, OnlyAbsentUnversioned, RevisionsBounded, RevisionsGapless,
       RevisionsUnique, HeadIsRow

\* The statements that are not writes leave both tables alone.
LEMMA ReadsKeepTables ==
  ASSUME NEW r \in Request,
         Arrive(r) \/ Load(r) \/ Audit(r) \/ Reload(r) \/ Preload(r) \/ DatabaseFails(r)
  PROVE  UNCHANGED <<decisions, revisions>>
BY DEF Arrive, Load, Audit, Reload, Preload, DatabaseFails, database

\* LedgerInv is inductive.
LEMMA LedgerStep == LedgerInv /\ [Next]_vars => LedgerInv'
<1> SUFFICES ASSUME LedgerInv, [Next]_vars PROVE LedgerInv'
  OBVIOUS
<1>1. TypeOK' /\ Routed'
  BY TypingStep DEF LedgerInv
<1>2. Tables'
  <2>1. CASE Crash \/ UNCHANGED vars
    BY <2>1, SameTables DEF Crash, database, vars
  <2>2. ASSUME NEW r \in Request, Handle(r) PROVE Tables'
    <3>1. CASE CreateWithRevision(r) \/ UpdateWithRevision(r)
      BY <3>1, WriteCommitsOrNot, CommitKeepsTables, SameTables
    <3>2. CASE Delete(r)
      BY <3>2, DeleteKeepsTables
    <3> QED
      BY <2>2, <3>1, <3>2, ReadsKeepTables, SameTables DEF Handle
  <2> QED
    BY <2>1, <2>2 DEF Next
<1> QED
  BY <1>1, <1>2 DEF LedgerInv, Tables

\* The seeded database satisfies LedgerInv.
LEMMA InitLedger == Init => LedgerInv
<1> SUFFICES ASSUME Init PROVE LedgerInv
  OBVIOUS
<1>1. TypeOK /\ Routed
  BY InitTyped, InitRouted
<1>2. \A d \in Decision :
        \/ decisions[d].phase = "absent" /\ decisions[d].version = 0
        \/ decisions[d].phase = "live" /\ decisions[d].version = 1
  BY DEF Init, SeededRow, AbsentRow
<1>3. \A v \in revisions : \E d \in Decision :
        decisions[d].phase = "live" /\ v = SeedRevision(d, decisions[d])
  BY DEF Init
<1>4. \A d \in Decision :
        decisions[d].phase = "live" => SeedRevision(d, decisions[d]) \in revisions
  BY DEF Init
<1>5. OnlyAbsentUnversioned
  BY <1>2 DEF OnlyAbsentUnversioned
<1>6. RevisionsBounded /\ RevisionsUnique /\ HeadIsRow
  BY <1>2, <1>3 DEF RevisionsBounded, RevisionsUnique, HeadIsRow, SeedRevision
<1>7. RevisionsGapless
  <2> SUFFICES ASSUME NEW d \in Decision, NEW n \in 1 .. decisions[d].version
               PROVE  \E v \in revisions : v.decision = d /\ v.version = n
    BY DEF RevisionsGapless
  <2>1. decisions[d].phase = "live" /\ decisions[d].version = 1 /\ n = 1
    BY <1>2
  <2> QED
    BY <1>4, <2>1 DEF SeedRevision
<1> QED
  BY <1>1, <1>5, <1>6, <1>7 DEF LedgerInv

\* LedgerInv is an invariant.
LEMMA LedgerInvariant == Spec => []LedgerInv
BY InitLedger, LedgerStep, PTL DEF Spec

\* The facts of LedgerInv are the property the runs check.
LEMMA LedgerInvImplies == LedgerInv => LedgerComplete
<1> SUFFICES ASSUME LedgerInv, NEW d \in Decision
             PROVE  /\ {v.version : v \in RevisionsOf(d)} = 1 .. decisions[d].version
                    /\ \A v, w \in RevisionsOf(d) : v.version = w.version => v = w
                    /\ \A v \in RevisionsOf(d) : v.version = decisions[d].version =>
                         /\ v.state = decisions[d].status
                         /\ v.fields = decisions[d].fields
  BY DEF LedgerComplete
<1>1. \A v \in RevisionsOf(d) : v \in revisions /\ v.decision = d /\ v.version \in Nat
  BY DEF RevisionsOf, LedgerInv, TypeOK, DecisionRevision
<1>2. decisions[d].version \in Nat
  BY DEF LedgerInv, TypeOK, Row
<1>3. {v.version : v \in RevisionsOf(d)} \subseteq 1 .. decisions[d].version
  BY <1>1, <1>2 DEF LedgerInv, RevisionsBounded
<1>4. 1 .. decisions[d].version \subseteq {v.version : v \in RevisionsOf(d)}
  BY DEF LedgerInv, RevisionsGapless, RevisionsOf
<1> QED
  BY <1>1, <1>3, <1>4 DEF LedgerInv, RevisionsUnique, HeadIsRow

\* Whatever versions clients name, however requests interleave, fail or are cut
\* off, a decision at version n has exactly the revisions 1..n and the last one
\* is its row.
THEOREM LedgerAlwaysComplete == Spec => []LedgerComplete
BY LedgerInvariant, LedgerInvImplies, PTL

-----------------------------------------------------------------------------
(* With clients that name only versions they have seen, no stale copy is   *)
(* ever written.                                                           *)

\* Rows only move forward; at an unchanged version they keep status and fields.
LEMMA VersionsGrow ==
  ASSUME LedgerInv, [Next]_vars, NEW d \in Decision
  PROVE  /\ decisions[d].version <= decisions'[d].version
         /\ decisions'[d].version = decisions[d].version =>
              /\ decisions'[d].status = decisions[d].status
              /\ decisions'[d].fields = decisions[d].fields
<1> DEFINE Forward == /\ decisions[d].version <= decisions'[d].version
                      /\ decisions'[d].version = decisions[d].version =>
                           /\ decisions'[d].status = decisions[d].status
                           /\ decisions'[d].fields = decisions[d].fields
<1>0. decisions[d].version \in Nat /\ decisions \in [Decision -> Row]
  BY DEF LedgerInv, TypeOK, Row
<1>1. CASE UNCHANGED decisions
  BY <1>0, <1>1
<1>2. ASSUME NEW r \in Request, Commit(r) PROVE Forward
  <2>1. PICK e \in Decision, row \in Row, new \in DecisionRevision :
          /\ decisions' = [decisions EXCEPT ![e] = row]
          /\ row.version = decisions[e].version + 1
    BY <1>2, CommitNextVersion
  <2> QED
    BY <1>0, <2>1
<1>3. ASSUME NEW r \in Request, Delete(r) PROVE Forward
  BY <1>0, <1>3 DEF Delete, SoftDeleted, Row
<1>4. CASE Crash \/ UNCHANGED vars
  BY <1>1, <1>4 DEF Crash, database, vars
<1>5. ASSUME NEW r \in Request, Handle(r) PROVE Forward
  BY <1>1, <1>2, <1>3, <1>5, WriteCommitsOrNot, ReadsKeepTables DEF Handle
<1> QED
  BY <1>4, <1>5 DEF Next

\* Where a request that is about to read or write comes from.
LEMMA BeforeWrite ==
  ASSUME TypeOK, [Next]_vars, NEW s \in Request, pc'[s] \in {"reading", "writing"}
  PROVE  \/ Arrive(s)
         \/ Load(s)
         \/ pc'[s] = pc[s] /\ input'[s] = input[s] /\ current'[s] = current[s]
<1>1. CASE Crash \/ UNCHANGED vars
  BY <1>1 DEF Crash, vars
<1>2. ASSUME NEW r \in Request, Handle(r), r # s
      PROVE  pc'[s] = pc[s] /\ input'[s] = input[s] /\ current'[s] = current[s]
  <2>1. pc'[s] = pc[s]
    BY <1>2 DEF Handle, Arrive, Load, CreateWithRevision, UpdateWithRevision, Delete,
          StoreWithRevision, Committed, Audit, Audited, Reload, Preload, DatabaseFails,
          Reply, Continue, TypeOK
  <2>2. input'[s] = input[s] /\ current'[s] = current[s]
    BY <1>2, WriteControl DEF Handle, Arrive, Load, Delete, Audit, Reload, Preload,
          DatabaseFails, TypeOK
  <2> QED
    BY <2>1, <2>2
<1>3. ASSUME Handle(s) PROVE Arrive(s) \/ Load(s)
  <2>1. CASE CreateWithRevision(s) \/ UpdateWithRevision(s)
    BY <2>1, WriteControl DEF Reply, Continue, TypeOK
  <2>2. CASE Delete(s) \/ Audit(s) \/ Reload(s) \/ Preload(s) \/ DatabaseFails(s)
    BY <2>2 DEF Delete, Committed, Audit, Audited, AfterAudit, Reload, Preload,
          DatabaseFails, Reply, Continue, TypeOK
  <2> QED
    BY <1>3, <2>1, <2>2 DEF Handle
<1> QED
  BY <1>1, <1>2, <1>3 DEF Next

\* What an arriving call leaves in input and pc.
LEMMA ArriveFacts ==
  ASSUME TypeOK, NEW r \in Request, Arrive(r)
  PROVE  /\ UNCHANGED <<database, current>>
         /\ input'[r] \in Call
         /\ Changes(r)' => input'[r].expected
                             <= decisions[input'[r].decision].version + RunAhead
         /\ pc'[r] = "writing" => input'[r].op = "create"
<1>1. PICK who \in Callers, d \in Decision : \E call \in Calls(who, d) :
        /\ input' = [input EXCEPT ![r] = call]
        /\ \/ \E status \in {"forbidden", "invalid_request", "business_rule"} : Reply(r, status)
           \/ call.op = "create" /\ Continue(r, "writing")
           \/ Continue(r, "reading")
           \/ Continue(r, "reloading")
  BY DEF Arrive
<1>2. PICK call \in Calls(who, d) :
        /\ input' = [input EXCEPT ![r] = call]
        /\ \/ \E status \in {"forbidden", "invalid_request", "business_rule"} : Reply(r, status)
           \/ call.op = "create" /\ Continue(r, "writing")
           \/ Continue(r, "reading")
           \/ Continue(r, "reloading")
  BY <1>1
<1>3. input'[r] = call
  BY <1>2 DEF TypeOK
<1>4. pc'[r] = "writing" => call.op = "create"
  BY <1>2 DEF Reply, Continue, TypeOK
<1> QED
  BY <1>3, <1>4, CallsWellFormed DEF Arrive, Changes

\* Versions never go back, so a version a client has seen stays one.
LEMMA ExpectationsStep ==
  ASSUME RunAhead = 0, FreshInv, [Next]_vars
  PROVE  ExpectationsSeen'
<1> SUFFICES ASSUME NEW s \in Request, pc'[s] \in {"reading", "writing"}, Changes(s)'
             PROVE  input'[s].expected <= decisions'[input'[s].decision].version
  BY DEF ExpectationsSeen
<1>1. LedgerInv /\ TypeOK /\ Routed /\ ExpectationsSeen /\ TypeOK' /\ Routed'
  BY TypingStep DEF FreshInv, LedgerInv
<1>2. input'[s] \in Call
  BY <1>1 DEF Routed
<1>3. /\ decisions[input'[s].decision].version <= decisions'[input'[s].decision].version
      /\ decisions[input'[s].decision].version \in Nat
      /\ decisions'[input'[s].decision].version \in Nat
      /\ input'[s].expected \in Nat
  BY <1>1, <1>2, VersionsGrow DEF Call, TypeOK, Row
<1>4. input'[s].expected <= decisions[input'[s].decision].version
  <2>1. CASE Arrive(s)
    BY <1>1, <1>3, <2>1, ArriveFacts
  <2>2. CASE Load(s)
    BY <1>1, <2>2 DEF Load, ExpectationsSeen, Changes
  <2>3. CASE pc'[s] = pc[s] /\ input'[s] = input[s]
    BY <1>1, <2>3 DEF ExpectationsSeen, Changes
  <2> QED
    BY <1>1, <2>1, <2>2, <2>3, BeforeWrite
<1> QED
  BY <1>3, <1>4

\* A copy stays a version of the row it was read from, no newer than the row.
LEMMA CopiesStep ==
  ASSUME RunAhead = 0, FreshInv, [Next]_vars
  PROVE  CopiesFresh'
<1> SUFFICES ASSUME NEW s \in Request, pc'[s] = "writing", Changes(s)'
             PROVE  /\ input'[s].expected <= current'[s].version
                    /\ current'[s].version <= decisions'[input'[s].decision].version
                    /\ current'[s].version = decisions'[input'[s].decision].version =>
                         /\ current'[s].status = decisions'[input'[s].decision].status
                         /\ current'[s].fields = decisions'[input'[s].decision].fields
  BY DEF CopiesFresh
<1> DEFINE d == input'[s].decision
<1>1. /\ LedgerInv /\ TypeOK /\ Routed /\ ExpectationsSeen /\ CopiesFresh
      /\ TypeOK' /\ Routed'
  BY TypingStep DEF FreshInv, LedgerInv
<1>2. d \in Decision
  BY <1>1 DEF Routed, Call
<1>3. CASE Arrive(s)
  BY <1>1, <1>3, ArriveFacts DEF Changes
<1>4. CASE Load(s)
  <2>1. /\ pc[s] = "reading" /\ UNCHANGED <<decisions, input>>
        /\ current'[s] = decisions[d]
    BY <1>1, <1>4 DEF Load, Reply, TypeOK, database
  <2>2. input[s].expected <= decisions[d].version
    BY <1>1, <2>1 DEF ExpectationsSeen, Changes
  <2> QED
    BY <1>1, <1>2, <2>1, <2>2 DEF TypeOK, Row
<1>5. CASE pc'[s] = pc[s] /\ input'[s] = input[s] /\ current'[s] = current[s]
  <2>1. /\ decisions[d].version <= decisions'[d].version
        /\ decisions'[d].version = decisions[d].version =>
             /\ decisions'[d].status = decisions[d].status
             /\ decisions'[d].fields = decisions[d].fields
    BY <1>1, <1>2, VersionsGrow
  <2>2. /\ input[s].expected <= current[s].version
        /\ current[s].version <= decisions[d].version
        /\ current[s].version = decisions[d].version =>
             /\ current[s].status = decisions[d].status
             /\ current[s].fields = decisions[d].fields
    BY <1>1, <1>5 DEF CopiesFresh, Changes
  <2>3. /\ decisions[d].version \in Nat /\ decisions'[d].version \in Nat
        /\ current[s].version \in Nat
    BY <1>1, <1>2 DEF TypeOK, Row
  <2> QED
    BY <1>5, <2>1, <2>2, <2>3
<1> QED
  BY <1>1, <1>3, <1>4, <1>5, BeforeWrite

\* A commit extends its decision's history by a legal entry: this is where the
\* optimistic lock turns checks made on a copy into checks on the row.
LEMMA CommitExtends ==
  ASSUME FreshInv, NEW r \in Request, Commit(r)
  PROVE  \E new \in DecisionRevision :
           /\ revisions' = revisions \cup {new}
           /\ new.request = r
           /\ new.version = decisions[new.decision].version + 1
           /\ new.version = 1 => new.state = "draft"
           /\ \A v \in revisions :
                v.decision = new.decision /\ new.version = v.version + 1 =>
                  \/ v.state = "draft" /\ new.state = "draft"
                  \/ /\ CanTransition(ComplianceDecisionTransitions, v.state, new.state)
                     /\ new.fields = v.fields
                     /\ ~ReviewerRequired(new.state, new.actor)
<1> DEFINE call == input[r]
           copy == current[r]
<1>1. PICK d \in Decision, row \in Row, new \in DecisionRevision :
           /\ d = input[r].decision /\ row = Written(input[r], current[r])
           /\ new.actor = input[r].role /\ new.request = r
           /\ revisions' = revisions \cup {new}
           /\ row.version = decisions[d].version + 1
           /\ new.decision = d /\ new.version = row.version
           /\ new.state = row.status /\ new.fields = row.fields
  BY CommitNextVersion DEF FreshInv
<1>2. TypeOK /\ Routed /\ RevisionsBounded /\ HeadIsRow /\ CopiesFresh /\ OnlyAbsentUnversioned
  BY DEF FreshInv, LedgerInv
<1>3. /\ pc[r] = "writing" /\ call \in Call /\ copy \in Row
      /\ call.op \in {"create", "update", "transition"}
      /\ decisions[d].version \in Nat
      /\ \A v \in revisions : v.version \in Nat
  BY <1>1, <1>2 DEF Commit, Routed, TypeOK, Row, DecisionRevision
<1>4. CASE call.op = "create"
  <2>1. decisions[d].version = 0 /\ new.state = "draft" /\ new.version = 1
    BY <1>1, <1>2, <1>3, <1>4
       DEF Commit, OnlyAbsentUnversioned, Written, LiveRow, ComplianceDecisionInitialStatus
  <2>2. \A v \in revisions : ~(v.decision = new.decision /\ new.version = v.version + 1)
    BY <1>1, <1>2, <1>3, <2>1 DEF RevisionsBounded
  <2> QED
    BY <1>1, <2>1, <2>2
<1>5. CASE call.op \in {"update", "transition"}
  <2>1. decisions[d].phase = "live" /\ decisions[d].version = call.expected
    BY <1>1, <1>5 DEF Commit, OptimisticLockHolds
  <2>2. copy.status = decisions[d].status /\ copy.fields = decisions[d].fields
    BY <1>1, <1>2, <1>3, <1>5, <2>1 DEF CopiesFresh, Changes, Row
  <2>3. new.version # 1
    BY <1>1, <1>2, <1>3, <2>1 DEF OnlyAbsentUnversioned
  <2>4. \A v \in revisions :
          v.decision = new.decision /\ new.version = v.version + 1 =>
            v.state = copy.status /\ v.fields = copy.fields
    BY <1>1, <1>2, <1>3, <2>2 DEF HeadIsRow
  <2>5. ~Refused(call, copy)
    BY <1>2, <1>3, <1>5 DEF Routed, Changes
  <2>6. CASE call.op = "update"
    <3> copy.status = "draft" /\ new.state = "draft"
      BY <1>1, <2>5, <2>6 DEF Refused, UpdateRefused, Written, LiveRow
    <3> QED
      BY <1>1, <2>3, <2>4
  <2>7. CASE call.op = "transition"
    <3> /\ CanTransition(ComplianceDecisionTransitions, copy.status, new.state)
        /\ new.fields = copy.fields
        /\ ~ReviewerRequired(new.state, new.actor)
      BY <1>1, <2>5, <2>7 DEF Refused, TransitionRefused, Written, LiveRow
    <3> QED
      BY <1>1, <2>3, <2>4
  <2> QED
    BY <1>5, <2>6, <2>7
<1> QED
  BY <1>3, <1>4, <1>5

Histories == Origins /\ HistoryFollowsGraph /\ IndependentReview

\* A commit that extends the row by a legal step keeps every history legal.
LEMMA CommitKeepsHistories ==
  ASSUME FreshInv, NEW r \in Request, Commit(r)
  PROVE  Histories'
<1>1. PICK new \in DecisionRevision :
           /\ revisions' = revisions \cup {new}
           /\ new.request = r
           /\ new.version = decisions[new.decision].version + 1
           /\ new.version = 1 => new.state = "draft"
           /\ \A v \in revisions :
                v.decision = new.decision /\ new.version = v.version + 1 =>
                  \/ v.state = "draft" /\ new.state = "draft"
                  \/ /\ CanTransition(ComplianceDecisionTransitions, v.state, new.state)
                     /\ new.fields = v.fields
                     /\ ~ReviewerRequired(new.state, new.actor)
  BY CommitExtends
<1>2. /\ Origins /\ HistoryFollowsGraph /\ IndependentReview
      /\ RevisionsBounded /\ RevisionsGapless /\ revisions \subseteq DecisionRevision
      /\ new.decision \in Decision /\ decisions[new.decision].version \in Nat
      /\ new.request # "seed"
      /\ new.version \in Nat /\ \A v \in revisions : v.version \in Nat
  BY <1>1, RequestAssumption DEF FreshInv, LedgerInv, TypeOK, DecisionRevision, Row
<1>3. Origins'
  BY <1>1, <1>2 DEF Origins
<1>4. HistoryFollowsGraph'
  <2>1. \A w \in revisions : ~(w.decision = new.decision /\ w.version = new.version + 1)
    BY <1>1, <1>2 DEF RevisionsBounded
  <2>2. \A v \in revisions :
          v.decision = new.decision /\ new.version = v.version + 1 => Follows(new, v)
    BY <1>1 DEF Follows
  <2>3. new.version # new.version + 1
    BY <1>2
  <2> QED
    BY <1>1, <1>2, <2>1, <2>2, <2>3 DEF HistoryFollowsGraph, Follows
<1>5. IndependentReview'
  <2>1. ASSUME new.state \in {"accepted", "escalated"}
        PROVE  /\ new.actor \in {"reviewer", "admin"}
               /\ \E v \in revisions :
                    /\ v.decision = new.decision /\ v.version < new.version
                    /\ v.state = "review" \/ (v.request = "seed" /\ v.state = "accepted")
    <3>1. decisions[new.decision].version \in 1 .. decisions[new.decision].version
      BY <1>1, <1>2, <2>1
    <3>2. PICK v \in revisions : /\ v.decision = new.decision
                                 /\ v.version = decisions[new.decision].version
      BY <1>2, <3>1 DEF RevisionsGapless
    <3>3. /\ CanTransition(ComplianceDecisionTransitions, v.state, new.state)
          /\ ~ReviewerRequired(new.state, new.actor)
      BY <1>1, <2>1, <3>2
    <3>4. v.state \in {"review", "accepted", "escalated"}
      BY <1>2, <2>1, <3>3 DEF CanTransition, ComplianceDecisionTransitions
    <3>5. v.version < new.version
      BY <1>1, <1>2, <3>2
    <3>6. CASE v.state = "review" \/ (v.request = "seed" /\ v.state = "accepted")
      BY <2>1, <3>2, <3>3, <3>5, <3>6 DEF ReviewerRequired
    <3>7. CASE v.state \in {"accepted", "escalated"} /\ v.request # "seed"
      <4>1. PICK u \in revisions :
              /\ u.decision = v.decision /\ u.version < v.version
              /\ u.state = "review" \/ (u.request = "seed" /\ u.state = "accepted")
        BY <1>2, <3>7 DEF IndependentReview
      <4>2. u.version < new.version
        BY <1>2, <3>5, <4>1
      <4> QED
        BY <2>1, <3>2, <3>3, <4>1, <4>2 DEF ReviewerRequired
    <3> QED
      BY <1>2, <3>4, <3>6, <3>7 DEF Origins
  <2> QED
    BY <1>1, <1>2, <2>1 DEF IndependentReview
<1> QED
  BY <1>3, <1>4, <1>5 DEF Histories

\* Only commits touch the histories.
LEMMA RevisionsStep ==
  ASSUME [Next]_vars
  PROVE  UNCHANGED revisions \/ \E r \in Request : Commit(r)
<1>1. CASE Crash \/ UNCHANGED vars
  BY <1>1 DEF Crash, database, vars
<1>2. ASSUME NEW r \in Request, Handle(r)
      PROVE  UNCHANGED revisions \/ Commit(r)
  BY <1>2, WriteCommitsOrNot, ReadsKeepTables DEF Handle, Delete
<1> QED
  BY <1>1, <1>2 DEF Next

\* FreshInv is inductive when clients name versions they have seen.
LEMMA FreshStep ==
  ASSUME RunAhead = 0
  PROVE  FreshInv /\ [Next]_vars => FreshInv'
<1> SUFFICES ASSUME FreshInv, [Next]_vars PROVE FreshInv'
  OBVIOUS
<1>1. LedgerInv'
  BY LedgerStep DEF FreshInv
<1>2. ExpectationsSeen' /\ CopiesFresh'
  BY ExpectationsStep, CopiesStep
<1>3. Histories'
  <2>1. CASE UNCHANGED revisions
    BY <2>1 DEF FreshInv, Histories, Origins, HistoryFollowsGraph, IndependentReview, Follows
  <2> QED
    BY <2>1, RevisionsStep, CommitKeepsHistories
<1> QED
  BY <1>1, <1>2, <1>3 DEF FreshInv, Histories

\* The seeded database satisfies FreshInv.
LEMMA InitFresh == Init => FreshInv
<1> SUFFICES ASSUME Init PROVE FreshInv
  OBVIOUS
<1>1. \A v \in revisions : /\ v.version = 1 /\ v.request = "seed"
                           /\ v.state \in {"draft", "review", "accepted"}
  BY DEF Init, SeededRow, AbsentRow, SeedRevision
<1>2. Origins /\ HistoryFollowsGraph /\ IndependentReview
  BY <1>1 DEF Origins, HistoryFollowsGraph, IndependentReview
<1>3. ExpectationsSeen /\ CopiesFresh
  BY DEF Init, ExpectationsSeen, CopiesFresh
<1> QED
  BY <1>2, <1>3, InitLedger DEF FreshInv

\* FreshInv is an invariant when clients name versions they have seen.
LEMMA FreshInvariant ==
  ASSUME RunAhead = 0
  PROVE  Spec => []FreshInv
BY InitFresh, FreshStep, PTL DEF Spec

\* If clients name only versions they have seen, the recorded history of every
\* decision is a run of the state machine and evidence changes only in draft,
\* although the service checks copies it read earlier.
THEOREM HistoryAlwaysFollowsGraph ==
  ASSUME RunAhead = 0
  PROVE  Spec => []HistoryFollowsGraph
<1>1. FreshInv => HistoryFollowsGraph
  BY DEF FreshInv
<1> QED
  BY <1>1, FreshInvariant, PTL

\* Under the same assumption nobody below reviewer ever accepts or escalates a
\* decision, and none is accepted or escalated without having been in review.
THEOREM ReviewAlwaysIndependent ==
  ASSUME RunAhead = 0
  PROVE  Spec => []IndependentReview
<1>1. FreshInv => IndependentReview
  BY DEF FreshInv
<1> QED
  BY <1>1, FreshInvariant, PTL

-----------------------------------------------------------------------------
(* Nothing recorded is ever changed, for any RunAhead.                     *)

\* Every step from LedgerInv only appends.
LEMMA StepOnlyAppends == LedgerInv /\ [Next]_vars => [OnlyAppends]_vars
<1> SUFFICES ASSUME LedgerInv, Next PROVE OnlyAppends
  BY DEF vars
<1>1. CASE Crash
  BY <1>1 DEF Crash, database, OnlyAppends
<1>2. ASSUME NEW r \in Request, Handle(r) PROVE OnlyAppends
  <2>1. CASE Commit(r) /\ auditLog' = auditLog
    <3>1. PICK d \in Decision, row \in Row, new \in DecisionRevision :
             /\ decisions[d].phase # "deleted"
             /\ decisions' = [decisions EXCEPT ![d] = row]
             /\ revisions' = revisions \cup {new}
             /\ row.phase = "live" /\ row.version = decisions[d].version + 1
      BY <2>1, CommitNextVersion
    <3> QED
      BY <2>1, <3>1 DEF OnlyAppends, LedgerInv, TypeOK
  <2>2. CASE Delete(r)
    <3>1. UNCHANGED <<revisions, auditLog>>
      BY <2>2 DEF Delete
    <3>2. \A d \in Decision :
            \/ decisions'[d] = decisions[d]
            \/ /\ decisions[d].phase # "deleted"
               /\ decisions'[d] = [decisions[d] EXCEPT !.phase = "deleted"]
      BY <2>2 DEF Delete, SoftDeleted, LedgerInv, TypeOK
    <3> QED
      BY <3>1, <3>2 DEF OnlyAppends
  <2>3. CASE UNCHANGED <<decisions, revisions>> /\ auditLog \subseteq auditLog'
    BY <2>3 DEF OnlyAppends
  <2>4. CASE CreateWithRevision(r) \/ UpdateWithRevision(r)
    BY <2>1, <2>3, <2>4, WriteCommitsOrNot, WriteControl
  <2>5. CASE Arrive(r) \/ Load(r) \/ Audit(r) \/ Reload(r) \/ Preload(r) \/ DatabaseFails(r)
    <3> auditLog \subseteq auditLog'
      BY <2>5 DEF Arrive, Load, Audit, Reload, Preload, DatabaseFails, database
    <3> QED
      BY <2>3, <2>5, ReadsKeepTables
  <2> QED
    BY <1>2, <2>2, <2>4, <2>5 DEF Handle
<1> QED
  BY <1>1, <1>2 DEF Next

\* No interleaving, failure or crash rewrites a revision or an audit row, moves a
\* row's version back or by more than one, or brings a deleted row back.
THEOREM HistoryNeverRewritten == Spec => HistoryImmutable
BY LedgerInvariant, StepOnlyAppends, PTL DEF Spec, HistoryImmutable
=============================================================================
