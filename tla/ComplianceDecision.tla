------------------------- MODULE ComplianceDecision -------------------------
(***************************************************************************)
(* The compliance-decision service: handler, service and repository of     *)
(* backend/internal/*/compliance_decision.go over a shared database.       *)
(*                                                                         *)
(* A request is one HTTP call.  Its handler runs in a goroutine of its own *)
(* and talks to the database statement by statement, so requests           *)
(* interleave between statements: one action below is one statement (or    *)
(* one transaction) together with the Go code up to the next one.  `pc`    *)
(* says which statement comes next:                                        *)
(*                                                                         *)
(*   idle       the call has not been made                                 *)
(*   reading    repository.Get at the start of Update, Transition, Delete  *)
(*   writing    CreateWithRevision, UpdateWithRevision or Delete           *)
(*   auditing   SecurityService.Audit                                      *)
(*   reloading  the row of the final repository.Get                        *)
(*   preloading the revisions of the final repository.Get                  *)
(*   done       answered with answer[r]                                    *)
(*   lost       the process died before it answered                        *)
(*                                                                         *)
(* A decision is named by its code, which is immutable and unique over     *)
(* deleted rows too.  An actor is its role (the seeded users have one role *)
(* each and no operation adds users).  A business payload is one value of  *)
(* Fields; Blank is a payload whose name, facility or owner is only space. *)
(***************************************************************************)
EXTENDS Naturals, FiniteSets, StatusGraph, AccessControl

CONSTANTS
  Decision,   \* codes of decisions
  Request,    \* HTTP calls (a call names the rows it writes, whatever its X-Request-ID)
  Fields,     \* payloads that pass validation (with their evidence)
  Blank,      \* a payload that does not
  Callers,    \* roles of the callers that are active
  RunAhead    \* how far a client's expectedVersion may exceed the stored version

ASSUME CallersAssumption  == Callers \subseteq Role
ASSUME PayloadAssumption  == Blank \notin Fields
ASSUME RunAheadAssumption == RunAhead \in Nat
\* A seeded revision (request ID "seed-<code>") was written by no call.
ASSUME RequestAssumption  == "seed" \notin Request

VARIABLES
  decisions,  \* table compliance_decisions: code -> row
  revisions,  \* table decision_revisions
  auditLog,   \* table audit_logs, the rows about decisions
  pc,         \* request -> the statement it executes next
  input,      \* request -> what the client sent
  current,    \* request -> the row its handler read last
  history,    \* request -> the revisions of its reply
  answer      \* request -> its reply's status

database == <<decisions, revisions, auditLog>>
vars == <<decisions, revisions, auditLog, pc, input, current, history, answer>>

-----------------------------------------------------------------------------
(* Rows, calls and replies                                                 *)

ComplianceDecisionInitialStatus == "draft"

Row == [phase   : {"absent", "live", "deleted"},
        status  : DecisionState,
        version : Nat,
        fields  : Fields \cup {Blank}]

AbsentRow == [phase |-> "absent", status |-> "draft", version |-> 0, fields |-> Blank]

DecisionRevision == [decision : Decision,
                     version  : Nat,
                     state    : DecisionState,
                     fields   : Fields \cup {Blank},
                     actor    : Role \cup {"system"},
                     request  : Request \cup {"seed"}]

AuditLog == [request  : Request,
             actor    : Role,
             action   : {"create", "update", "transition", "delete"},
             decision : Decision,
             before   : DecisionState \cup {""},
             after    : DecisionState \cup {"deleted"}]

Call == [op       : {"create", "update", "transition", "delete", "get"},
         role     : Role,
         decision : Decision,
         expected : Nat,
         target   : DecisionState,
         fields   : Fields \cup {Blank}]

Answer == {"none", "ok", "forbidden", "invalid_request", "business_rule",
           "not_found", "version_conflict", "internal_error"}

Locus == {"idle", "reading", "writing", "auditing", "reloading", "preloading",
          "done", "lost"}

NoCall == [op |-> "none"]

NewCall(op, who, d, expected, target, fields) ==
  [op |-> op, role |-> who, decision |-> d,
   expected |-> expected, target |-> target, fields |-> fields]

\* What a client may send.  expectedVersion is a version the client has seen or,
\* with RunAhead > 0, one it expects its own unanswered requests to produce.
ExpectedVersions(d) == 0 .. (decisions[d].version + RunAhead)

CreateCalls(who, d) ==
  {NewCall("create", who, d, 0, "draft", f) : f \in Fields \cup {Blank}}
UpdateCalls(who, d) ==
  {NewCall("update", who, d, v, "draft", f) :
     v \in ExpectedVersions(d), f \in Fields \cup {Blank}}
TransitionCalls(who, d) ==
  {NewCall("transition", who, d, v, t, Blank) :
     v \in ExpectedVersions(d), t \in DecisionState}
PlainCalls(who, d) ==
  {NewCall(op, who, d, 0, "draft", Blank) : op \in {"delete", "get"}}

Calls(who, d) ==
  CreateCalls(who, d) \cup UpdateCalls(who, d) \cup TransitionCalls(who, d)
    \cup PlainCalls(who, d)

-----------------------------------------------------------------------------
(* Init: the database after Seed (database.go) and any request not yet     *)
(* made.  The seed holds a draft, a decision in review and an accepted one;*)
(* any other code is still free.                                           *)

SeededRow == [phase   : {"live"},
              status  : {"draft", "review", "accepted"},
              version : {1},
              fields  : Fields]

SeedRevision(d, row) ==
  [decision |-> d, version |-> row.version, state |-> row.status,
   fields |-> row.fields, actor |-> "system", request |-> "seed"]

Init ==
  /\ decisions \in [Decision -> SeededRow \cup {AbsentRow}]
  /\ revisions = {SeedRevision(d, decisions[d]) :
                    d \in {e \in Decision : decisions[e].phase = "live"}}
  /\ auditLog = {}
  /\ pc = [r \in Request |-> "idle"]
  /\ input = [r \in Request |-> NoCall]
  /\ current = [r \in Request |-> AbsentRow]
  /\ history = [r \in Request |-> {}]
  /\ answer = [r \in Request |-> "none"]

-----------------------------------------------------------------------------
(* The decisions of the Go code, one operator per condition                *)

\* Register: which role may call which route.
Permitted(call) ==
  CASE call.op = "delete" -> RequireRoles(call.role, {"admin"})
    [] call.op = "get"    -> TRUE
    [] OTHER              -> RequireMinimumRole(call.role, "operator")

\* binding:"required" of expectedVersion rejects zero.
Malformed(call) == call.op \in {"update", "transition"} /\ call.expected = 0

ReviewerRequired(target, role) ==
  target \in {"accepted", "escalated"} /\ role \notin {"reviewer", "admin"}

\* Why Update, Transition and Delete refuse the row they have read.
UpdateRefusedUnlocked(row, fields) == fields = Blank                   \* mutant
UpdateRefused(row, fields) == row.status # "draft" \/ fields = Blank
TransitionRefusedByGraph(row, target, role) ==                          \* mutant
  ~CanTransition(ComplianceDecisionTransitions, row.status, target)
TransitionRefusedByRole(row, target, role) ==                           \* mutant
  ReviewerRequired(target, role)
TransitionRefused(row, target, role) ==
  \/ ~CanTransition(ComplianceDecisionTransitions, row.status, target)
  \/ ReviewerRequired(target, role)
DeleteRefused(row) == row.status # ComplianceDecisionInitialStatus

Refused(call, row) ==
  \/ call.op = "update" /\ UpdateRefused(row, call.fields)
  \/ call.op = "transition" /\ TransitionRefused(row, call.target, call.role)
  \/ call.op = "delete" /\ DeleteRefused(row)

\* WHERE id = ? AND version = ?, with GORM's deleted_at IS NULL.
LockByIdOnly(row, expected) == row.phase = "live"                      \* mutant
LockOnNewVersion(row, expected) ==                                      \* mutant
  row.phase = "live" /\ row.version = expected + 1
OptimisticLockHolds(row, expected) ==
  row.phase = "live" /\ row.version = expected

\* The row a write stores: the copy that was read, with the client's changes.
\* The version is computed from the client's expectedVersion.
LiveRow(status, version, fields) ==
  [phase |-> "live", status |-> status, version |-> version, fields |-> fields]

Written(call, copy) ==
  CASE call.op = "create" -> LiveRow(ComplianceDecisionInitialStatus, 1, call.fields)
    [] call.op = "update" -> LiveRow(copy.status, call.expected + 1, call.fields)
    [] OTHER              -> LiveRow(call.target, call.expected + 1, copy.fields)

newDecisionRevision(r, call, row) ==
  [decision |-> call.decision, version |-> row.version, state |-> row.status,
   fields |-> row.fields, actor |-> call.role, request |-> r]

\* The unique index idx_decision_revision_version.
RevisionTaken(revs, new) ==
  \E v \in revs : v.decision = new.decision /\ v.version = new.version

\* DELETE sets deleted_at; every other column stays.
HardDeleted(row) == AbsentRow                                          \* mutant
MarkedDeleted(row) == [row EXCEPT !.phase = "deleted", !.status = "deleted"] \* mutant
SoftDeleted(row) == [row EXCEPT !.phase = "deleted"]

AuditRowAfterAssignment(r, call, copy) ==                               \* mutant
  [request |-> r, actor |-> call.role, action |-> call.op, decision |-> call.decision,
   before |-> IF call.op = "transition" THEN call.target ELSE copy.status,
   after |-> IF call.op = "transition" THEN call.target ELSE copy.status]
AuditRow(r, call, copy) ==
  [request |-> r, actor |-> call.role, action |-> call.op, decision |-> call.decision,
   before |-> IF call.op = "create" THEN "" ELSE copy.status,
   after |-> CASE call.op = "create"     -> ComplianceDecisionInitialStatus
               [] call.op = "transition" -> call.target
               [] call.op = "delete"     -> "deleted"
               [] OTHER                  -> copy.status]

\* Create and Update drop the error of Audit, Transition and Delete return it.
AuditErrorDropped(op) == FALSE                                         \* mutant
AuditErrorReturned(op) == op \in {"transition", "delete"}

AfterAudit(op) == IF op = "delete" THEN "done" ELSE "reloading"

-----------------------------------------------------------------------------
(* Steps of a request                                                      *)

Reply(r, status) ==
  /\ pc' = [pc EXCEPT ![r] = "done"]
  /\ answer' = [answer EXCEPT ![r] = status]

Continue(r, next) ==
  /\ pc' = [pc EXCEPT ![r] = next]
  /\ UNCHANGED answer

\* The client's call passes authentication and reaches its route: the role
\* check, the binding of the body, and for Create the validation.
Arrive(r) ==
  /\ pc[r] = "idle"
  /\ \E who \in Callers, d \in Decision :
       \E call \in Calls(who, d) :
         /\ input' = [input EXCEPT ![r] = call]
         /\ \/ ~Permitted(call) /\ Reply(r, "forbidden")
            \/ Permitted(call) /\ Malformed(call) /\ Reply(r, "invalid_request")
            \/ /\ Permitted(call) /\ call.op = "create" /\ call.fields = Blank
               /\ Reply(r, "business_rule")
            \/ /\ Permitted(call) /\ call.op = "create" /\ call.fields # Blank
               /\ Continue(r, "writing")
            \/ /\ Permitted(call) /\ ~Malformed(call)
               /\ call.op \in {"update", "transition", "delete"}
               /\ Continue(r, "reading")
            \/ call.op = "get" /\ Continue(r, "reloading")
  /\ UNCHANGED <<database, current, history>>

\* repository.Get and the checks of Update, Transition or Delete on its result.
Load(r) ==
  LET call == input[r]
      row == decisions[call.decision]
  IN /\ pc[r] = "reading"
     /\ \/ /\ row.phase # "live"
           /\ Reply(r, "not_found")
           /\ UNCHANGED current
        \/ /\ row.phase = "live"
           /\ current' = [current EXCEPT ![r] = row]
           /\ IF Refused(call, row) THEN Reply(r, "business_rule")
                                    ELSE Continue(r, "writing")
     /\ UNCHANGED <<database, input, history>>

\* The write commits.  Unless acked, the connection fails after the commit and
\* the handler sees an error.
Committed(r, acked) ==
  IF acked THEN Continue(r, "auditing") ELSE Reply(r, "internal_error")

StoreWithRevision(r, acked) ==
  LET call == input[r]
      row == Written(call, current[r])
      new == newDecisionRevision(r, call, row)
  IN IF RevisionTaken(revisions, new)
     THEN /\ Reply(r, "internal_error")     \* the transaction rolls back
          /\ UNCHANGED <<decisions, revisions>>
     ELSE /\ decisions' = [decisions EXCEPT ![call.decision] = row]
          /\ revisions' = revisions \cup {new}
          /\ Committed(r, acked)

CreateWithRevision(r) ==
  /\ pc[r] = "writing" /\ input[r].op = "create"
  /\ IF decisions[input[r].decision].phase # "absent"
     THEN /\ Reply(r, "internal_error")     \* the unique index on code
          /\ UNCHANGED <<decisions, revisions>>
     ELSE \E acked \in BOOLEAN : StoreWithRevision(r, acked)
  /\ UNCHANGED <<auditLog, input, current, history>>

UpdateWithRevisionUncounted(r) ==                                       \* mutant
  /\ pc[r] = "writing" /\ input[r].op \in {"update", "transition"}
  /\ IF OptimisticLockHolds(decisions[input[r].decision], input[r].expected)
     THEN \E acked \in BOOLEAN : StoreWithRevision(r, acked)
     ELSE /\ Committed(r, TRUE)              \* RowsAffected is not looked at
          /\ UNCHANGED <<decisions, revisions>>
  /\ UNCHANGED <<auditLog, input, current, history>>
UpdateWithRevision(r) ==
  /\ pc[r] = "writing" /\ input[r].op \in {"update", "transition"}
  /\ IF OptimisticLockHolds(decisions[input[r].decision], input[r].expected)
     THEN \E acked \in BOOLEAN : StoreWithRevision(r, acked)
     ELSE /\ Reply(r, "version_conflict")   \* RowsAffected == 0
          /\ UNCHANGED <<decisions, revisions>>
  /\ UNCHANGED <<auditLog, input, current, history>>

\* Delete does not compare versions.
Delete(r) ==
  LET d == input[r].decision
  IN /\ pc[r] = "writing" /\ input[r].op = "delete"
     /\ IF decisions[d].phase = "live"
        THEN /\ decisions' = [decisions EXCEPT ![d] = SoftDeleted(decisions[d])]
             /\ \E acked \in BOOLEAN : Committed(r, acked)
        ELSE /\ Reply(r, "not_found")
             /\ UNCHANGED decisions
     /\ UNCHANGED <<revisions, auditLog, input, current, history>>

\* The rest of the operation once Audit has returned.
Audited(r, failed) ==
  LET op == input[r].op
  IN IF failed /\ AuditErrorReturned(op) THEN Reply(r, "internal_error")
     ELSE IF AfterAudit(op) = "done"     THEN Reply(r, "ok")
     ELSE Continue(r, AfterAudit(op))

\* The audit row is written outside the transaction of the change: it may be
\* stored, stored with the acknowledgement lost, or not stored.
Audit(r) ==
  /\ pc[r] = "auditing"
  /\ \E stored, failed \in BOOLEAN :
       /\ stored \/ failed
       /\ auditLog' = IF stored
                      THEN auditLog \cup {AuditRow(r, input[r], current[r])}
                      ELSE auditLog
       /\ Audited(r, failed)
  /\ UNCHANGED <<decisions, revisions, input, current, history>>

\* The final repository.Get: First ...
Reload(r) ==
  LET row == decisions[input[r].decision]
  IN /\ pc[r] = "reloading"
     /\ IF row.phase = "live"
        THEN /\ current' = [current EXCEPT ![r] = row]
             /\ Continue(r, "preloading")
        ELSE /\ Reply(r, "not_found")
             /\ UNCHANGED current
     /\ UNCHANGED <<database, input, history>>

\* ... and Preload("Revisions"), a second query.
PreloadEarlier(r) ==                                                    \* mutant
  /\ pc[r] = "preloading"
  /\ history' = [history EXCEPT ![r] =
                   {v \in revisions : /\ v.decision = input[r].decision
                                     /\ v.version < current[r].version}]
  /\ Reply(r, "ok")
  /\ UNCHANGED <<database, input, current>>
Preload(r) ==
  /\ pc[r] = "preloading"
  /\ history' = [history EXCEPT ![r] =
                   {v \in revisions : v.decision = input[r].decision}]
  /\ Reply(r, "ok")
  /\ UNCHANGED <<database, input, current>>

\* A statement fails without effect: a lost connection, a timeout, a request
\* context cancelled because the client went away.
DatabaseFails(r) ==
  /\ pc[r] \in {"reading", "writing", "reloading", "preloading"}
  /\ Reply(r, "internal_error")
  /\ UNCHANGED <<database, input, current, history>>

InFlight(r) == pc[r] \notin {"idle", "done", "lost"}

\* The server process dies; docker compose restarts it.  Seed finds decisions
\* and adds nothing, so only the handlers in flight are gone.
Crash ==
  /\ \E r \in Request : InFlight(r)
  /\ pc' = [r \in Request |-> IF InFlight(r) THEN "lost" ELSE pc[r]]
  /\ UNCHANGED <<database, input, current, history, answer>>

Handle(r) ==
  \/ Arrive(r) \/ Load(r)
  \/ CreateWithRevision(r) \/ UpdateWithRevision(r) \/ Delete(r)
  \/ Audit(r) \/ Reload(r) \/ Preload(r) \/ DatabaseFails(r)

Next == Crash \/ \E r \in Request : Handle(r)

Spec == Init /\ [][Next]_vars

-----------------------------------------------------------------------------
(* Properties                                                              *)

RevisionsOf(d) == {v \in revisions : v.decision = d}
RevisionsBy(r) == {v \in revisions : v.request = r}
Writes(r) == input[r].op \in {"create", "update", "transition"}
Answered(r, status) == pc[r] = "done" /\ answer[r] = status

\* Every table row, request and reply has its shape.
TypeOK ==
  /\ decisions \in [Decision -> Row]
  /\ revisions \subseteq DecisionRevision
  /\ auditLog \subseteq AuditLog
  /\ pc \in [Request -> Locus]
  /\ input \in [Request -> Call \cup {NoCall}]
  /\ current \in [Request -> Row]
  /\ history \in [Request -> SUBSET DecisionRevision]
  /\ answer \in [Request -> Answer]

\* A decision at version n has exactly the revisions 1..n, one each, and the
\* last one is what the row says, however requests interleave, fail or crash:
\* the transactions of CreateWithRevision and UpdateWithRevision keep the row
\* and its append-only history in step.
LedgerComplete ==
  \A d \in Decision :
    /\ {v.version : v \in RevisionsOf(d)} = 1 .. decisions[d].version
    /\ \A v, w \in RevisionsOf(d) : v.version = w.version => v = w
    /\ \A v \in RevisionsOf(d) :
         v.version = decisions[d].version =>
           v.state = decisions[d].status /\ v.fields = decisions[d].fields

\* What a decision's history records is a run of the state machine: each
\* version either amends a draft or moves along the graph leaving the evidence
\* alone.  Update and Transition check a copy read earlier, so this needs the
\* optimistic lock to reject every copy that has gone stale.
Follows(w, v) ==
  \/ v.state = "draft" /\ w.state = "draft"
  \/ /\ CanTransition(ComplianceDecisionTransitions, v.state, w.state)
     /\ w.fields = v.fields
HistoryFollowsGraph ==
  /\ \A v \in revisions : v.version = 1 /\ v.request # "seed" => v.state = "draft"
  /\ \A v, w \in revisions :
       v.decision = w.decision /\ w.version = v.version + 1 => Follows(w, v)

\* Nobody below reviewer puts a decision into accepted or escalated, and no
\* decision gets there without having been in review (or seeded as accepted).
IndependentReview ==
  \A w \in revisions :
    w.state \in {"accepted", "escalated"} /\ w.request # "seed" =>
      /\ w.actor \in {"reviewer", "admin"}
      /\ \E v \in revisions :
           /\ v.decision = w.decision /\ v.version < w.version
           /\ v.state = "review" \/ (v.request = "seed" /\ v.state = "accepted")

\* The reply tells the client what happened to its write.  A refusal (4xx before
\* the write) means nothing was stored; a success means exactly one revision,
\* the one after the version the client named, and a reply that shows that
\* version or a later one; not_found after a stored write means the decision has
\* been deleted since.  Only internal_error leaves the outcome open.
AnswersHonest ==
  \A r \in Request :
    /\ \/ Answered(r, "forbidden") \/ Answered(r, "invalid_request")
       \/ Answered(r, "business_rule") \/ Answered(r, "version_conflict")
       => RevisionsBy(r) = {} /\ \A a \in auditLog : a.request # r
    /\ Answered(r, "ok") /\ Writes(r) =>
         \E v \in revisions :
           /\ RevisionsBy(r) = {v}
           /\ v.decision = input[r].decision
           /\ v.version = input[r].expected + 1
           /\ v.version <= current[r].version
    /\ Answered(r, "not_found") /\ RevisionsBy(r) # {} =>
         decisions[input[r].decision].phase = "deleted"
    /\ Answered(r, "ok") /\ input[r].op = "delete" =>
         decisions[input[r].decision].phase = "deleted"

\* The reply's item and its revisions come from two queries.  Whatever commits
\* between them, the revisions cover the item's version, so the client always
\* finds the evidence of the state it is shown.
SnapshotCoversItem ==
  \A r \in Request :
    Answered(r, "ok") /\ input[r].op # "delete" =>
      /\ 1 .. current[r].version \subseteq {v.version : v \in history[r]}
      /\ \E v \in history[r] : /\ v.version = current[r].version
                               /\ v.state = current[r].status
                               /\ v.fields = current[r].fields

\* An audit row, although written after the commit and from the handler's copy,
\* agrees with the revision of the same request: its after-state is what that
\* revision stored and its before-state is what the previous revision stored.
AuditTruthful ==
  \A a \in auditLog :
    IF a.action = "delete" THEN decisions[a.decision].phase = "deleted"
    ELSE \E w \in RevisionsOf(a.decision) :
           /\ w.request = a.request /\ w.actor = a.actor /\ a.after = w.state
           /\ \/ a.action = "create" /\ w.version = 1 /\ a.before = ""
              \/ /\ a.action # "create"
                 /\ \E v \in RevisionsOf(a.decision) :
                      v.version + 1 = w.version /\ a.before = v.state

\* A transition or a deletion answered with success has its audit row.
AcknowledgedTransitionsAudited ==
  \A r \in Request :
    Answered(r, "ok") /\ input[r].op \in {"transition", "delete"} =>
      \E a \in auditLog : a.request = r

\* version_conflict ("record changed; refresh and retry") is never spurious:
\* another request has stored the version this one wanted to store, or the
\* decision has been deleted.
ConflictHasCause ==
  \A r \in Request :
    Answered(r, "version_conflict") =>
      \/ decisions[input[r].decision].phase = "deleted"
      \/ \E v \in RevisionsOf(input[r].decision) :
           v.version = input[r].expected + 1 /\ v.request # r

\* Revisions and audit rows are never changed or removed; a row changes only by
\* storing its next version or by being deleted, and a deleted row, which keeps
\* its code taken, never changes again.
OnlyAppends ==
  /\ revisions \subseteq revisions'
  /\ auditLog \subseteq auditLog'
  /\ \A d \in Decision :
       \/ decisions'[d] = decisions[d]
       \/ /\ decisions[d].phase # "deleted"
          /\ \/ /\ decisions'[d].version = decisions[d].version + 1
                /\ decisions'[d].phase = "live"
             \/ decisions'[d] = [decisions[d] EXCEPT !.phase = "deleted"]
HistoryImmutable == [][OnlyAppends]_vars
=============================================================================
