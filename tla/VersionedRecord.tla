--------------------------- MODULE VersionedRecord ---------------------------
(***************************************************************************)
(* Capture units, permit rules and emission samples: three services with   *)
(* the same code over the generic Store of repository/base.go, each with   *)
(* its own status graph.  They have no revision table, no locked fields and*)
(* no reviewer rule; the optimistic lock is all that orders their writers. *)
(*                                                                         *)
(* A row belongs to the table of its kind and is named by its code.  As in *)
(* ComplianceDecision, one action is one database statement, pc names the  *)
(* next one, and an actor is its role.                                     *)
(***************************************************************************)
EXTENDS RecordKinds, AccessControl

CONSTANTS
  Record,     \* codes of records
  Request,    \* HTTP calls
  Callers,    \* roles of the callers that are active
  RunAhead    \* how far a client's expectedVersion may exceed the stored version

ASSUME RecordCallersAssumption  == Callers \subseteq Role
ASSUME RecordRunAheadAssumption == RunAhead \in Nat

VARIABLES
  rows,       \* tables capture_units, permit_rules, emission_samples: code -> row
  auditLog,   \* table audit_logs, the rows about these records
  pc,         \* request -> the statement it executes next
  input,      \* request -> what the client sent
  current,    \* request -> the row its handler read last
  answer      \* request -> its reply's status

vars == <<rows, auditLog, pc, input, current, answer>>

-----------------------------------------------------------------------------
AuditLog == [request : Request,
             actor   : Role,
             action  : {"create", "update", "transition", "delete"},
             record  : Record,
             before  : State \cup {""},
             after   : State \cup {"deleted"}]

Call == [op       : {"create", "update", "transition", "delete", "get"},
         role     : Role,
         record   : Record,
         expected : Nat,
         target   : State,
         fields   : Fields \cup {Blank}]

NoCall == [op |-> "none"]

NewCall(op, who, rec, expected, target, fields) ==
  [op |-> op, role |-> who, record |-> rec,
   expected |-> expected, target |-> target, fields |-> fields]

\* What a client may send: a version it has seen, or one it runs ahead to, and a
\* status of the record's own kind.
Calls(who, rec) ==
  LET seen == 0 .. (rows[rec].version + RunAhead)
      any  == InitialStatus[rows[rec].kind]
      targets == DOMAIN Transitions[rows[rec].kind]
  IN {NewCall("create", who, rec, 0, any, f) : f \in Fields \cup {Blank}}
     \cup {NewCall("update", who, rec, v, any, f) : v \in seen, f \in Fields \cup {Blank}}
     \cup {NewCall("transition", who, rec, v, t, Blank) : v \in seen, t \in targets}
     \cup {NewCall(op, who, rec, 0, any, Blank) : op \in {"delete", "get"}}

Init ==
  /\ rows \in [Record -> StoredAtStart]
  /\ auditLog = {}
  /\ pc = [r \in Request |-> "idle"]
  /\ input = [r \in Request |-> NoCall]
  /\ current \in [Request -> {AbsentRow("CaptureUnit")}]
  /\ answer = [r \in Request |-> "none"]

-----------------------------------------------------------------------------
(* The decisions of the Go code                                            *)

Permitted(call) ==
  CASE call.op = "delete" -> RequireRoles(call.role, {"admin"})
    [] call.op = "get"    -> TRUE
    [] OTHER              -> RequireMinimumRole(call.role, "operator")

Malformed(call) == call.op \in {"update", "transition"} /\ call.expected = 0

\* Update and Delete accept every status, Transition every role.
RefusedAnyTransition(call, row) == call.op = "update" /\ call.fields = Blank \* mutant
Refused(call, row) ==
  \/ call.op = "update" /\ call.fields = Blank
  \/ /\ call.op = "transition"
     /\ ~CanTransition(Transitions[row.kind], row.status, call.target)

\* Store.Update: WHERE id = ? AND version = ? of a row that is not deleted.
LockByIdOnly(row, expected) == row.phase = "live"                      \* mutant
LockAtLeast(row, expected) == row.phase = "live" /\ row.version >= expected  \* mutant
OptimisticLockHolds(row, expected) ==
  row.phase = "live" /\ row.version = expected

Written(call, copy) ==
  CASE call.op = "create" ->
         LiveRow(copy.kind, InitialStatus[copy.kind], 1, call.fields)
    [] call.op = "update" ->
         LiveRow(copy.kind, copy.status, call.expected + 1, call.fields)
    [] OTHER ->
         LiveRow(copy.kind, call.target, call.expected + 1, copy.fields)

MarkedDeleted(row) == [row EXCEPT !.phase = "deleted", !.status = "deleted"] \* mutant
SoftDeleted(row) == [row EXCEPT !.phase = "deleted"]

AuditRow(r, call, copy) ==
  [request |-> r, actor |-> call.role, action |-> call.op, record |-> call.record,
   before |-> IF call.op = "create" THEN "" ELSE copy.status,
   after |-> CASE call.op = "create"     -> InitialStatus[copy.kind]
               [] call.op = "transition" -> call.target
               [] call.op = "delete"     -> "deleted"
               [] OTHER                  -> copy.status]

AuditErrorReturned(op) == op \in {"transition", "delete"}

\* Create answers with the item it built, Update and Transition read it again.
AfterAudit(op) == IF op \in {"create", "delete"} THEN "done" ELSE "reloading"

-----------------------------------------------------------------------------
(* Steps of a request                                                      *)

Reply(r, status) ==
  /\ pc' = [pc EXCEPT ![r] = "done"]
  /\ answer' = [answer EXCEPT ![r] = status]

Continue(r, next) ==
  /\ pc' = [pc EXCEPT ![r] = next]
  /\ UNCHANGED answer

Arrive(r) ==
  /\ pc[r] = "idle"
  /\ \E who \in Callers, rec \in Record :
       \E call \in Calls(who, rec) :
         /\ input' = [input EXCEPT ![r] = call]
         /\ current' = [current EXCEPT ![r] = AbsentRow(rows[rec].kind)]
         /\ \/ ~Permitted(call) /\ Reply(r, "forbidden")
            \/ Permitted(call) /\ Malformed(call) /\ Reply(r, "invalid_request")
            \/ /\ Permitted(call) /\ call.op = "create" /\ call.fields = Blank
               /\ Reply(r, "business_rule")
            \/ /\ Permitted(call) /\ call.op = "create" /\ call.fields # Blank
               /\ Continue(r, "writing")
            \/ /\ Permitted(call) /\ ~Malformed(call)
               /\ call.op \in {"update", "transition", "delete"}
               /\ Continue(r, "reading")
            \/ call.op = "get" /\ Continue(r, "reloading")
  /\ UNCHANGED <<rows, auditLog>>

Load(r) ==
  LET row == rows[input[r].record]
  IN /\ pc[r] = "reading"
     /\ \/ /\ row.phase # "live"
           /\ Reply(r, "not_found")
           /\ UNCHANGED current
        \/ /\ row.phase = "live"
           /\ current' = [current EXCEPT ![r] = row]
           /\ IF Refused(input[r], row) THEN Reply(r, "business_rule")
                                        ELSE Continue(r, "writing")
     /\ UNCHANGED <<rows, auditLog, input>>

Committed(r, acked) ==
  IF acked THEN Continue(r, "auditing") ELSE Reply(r, "internal_error")

\* Store.Create; a code that exists, deleted or not, violates the unique index.
Create(r) ==
  LET rec == input[r].record
      item == Written(input[r], current[r])
  IN /\ pc[r] = "writing" /\ input[r].op = "create"
     /\ IF rows[rec].phase # "absent"
        THEN Reply(r, "internal_error") /\ UNCHANGED <<rows, current>>
        ELSE /\ rows' = [rows EXCEPT ![rec] = item]
             /\ current' = [current EXCEPT ![r] = item]
             /\ \E acked \in BOOLEAN : Committed(r, acked)
     /\ UNCHANGED <<auditLog, input>>

Update(r) ==
  LET rec == input[r].record
  IN /\ pc[r] = "writing" /\ input[r].op \in {"update", "transition"}
     /\ IF OptimisticLockHolds(rows[rec], input[r].expected)
        THEN /\ rows' = [rows EXCEPT ![rec] = Written(input[r], current[r])]
             /\ \E acked \in BOOLEAN : Committed(r, acked)
        ELSE Reply(r, "version_conflict") /\ UNCHANGED rows
     /\ UNCHANGED <<auditLog, input, current>>

Delete(r) ==
  LET rec == input[r].record
  IN /\ pc[r] = "writing" /\ input[r].op = "delete"
     /\ IF rows[rec].phase = "live"
        THEN /\ rows' = [rows EXCEPT ![rec] = SoftDeleted(rows[rec])]
             /\ \E acked \in BOOLEAN : Committed(r, acked)
        ELSE Reply(r, "not_found") /\ UNCHANGED rows
     /\ UNCHANGED <<auditLog, input, current>>

Audited(r, failed) ==
  LET op == input[r].op
  IN IF failed /\ AuditErrorReturned(op) THEN Reply(r, "internal_error")
     ELSE IF AfterAudit(op) = "done"     THEN Reply(r, "ok")
     ELSE Continue(r, AfterAudit(op))

Audit(r) ==
  /\ pc[r] = "auditing"
  /\ \E stored, failed \in BOOLEAN :
       /\ stored \/ failed
       /\ auditLog' = IF stored
                      THEN auditLog \cup {AuditRow(r, input[r], current[r])}
                      ELSE auditLog
       /\ Audited(r, failed)
  /\ UNCHANGED <<rows, input, current>>

\* The final Store.Get, one query.
ReplyWithCopy(r) ==                                                     \* mutant
  /\ pc[r] = "reloading"
  /\ Reply(r, "ok")
  /\ UNCHANGED <<rows, auditLog, input, current>>
Reload(r) ==
  LET row == rows[input[r].record]
  IN /\ pc[r] = "reloading"
     /\ IF row.phase = "live"
        THEN current' = [current EXCEPT ![r] = row] /\ Reply(r, "ok")
        ELSE UNCHANGED current /\ Reply(r, "not_found")
     /\ UNCHANGED <<rows, auditLog, input>>

DatabaseFails(r) ==
  /\ pc[r] \in {"reading", "writing", "reloading"}
  /\ Reply(r, "internal_error")
  /\ UNCHANGED <<rows, auditLog, input, current>>

InFlight(r) == pc[r] \notin {"idle", "done", "lost"}

Crash ==
  /\ \E r \in Request : InFlight(r)
  /\ pc' = [r \in Request |-> IF InFlight(r) THEN "lost" ELSE pc[r]]
  /\ UNCHANGED <<rows, auditLog, input, current, answer>>

Handle(r) ==
  \/ Load(r) \/ Create(r) \/ Update(r) \/ Delete(r)
  \/ Audit(r) \/ Reload(r) \/ DatabaseFails(r)

\* Each service runs the same handlers on the rows of its own kind.
Serving(kind, r) == pc[r] # "idle" /\ rows[input[r].record].kind = kind /\ Handle(r)

CaptureUnitService(r)    == Serving("CaptureUnit", r)
PermitRuleService(r)     == Serving("PermitRule", r)
EmissionSampleService(r) == Serving("EmissionSample", r)

Next ==
  \/ Crash
  \/ \E r \in Request :
       Arrive(r) \/ CaptureUnitService(r) \/ PermitRuleService(r) \/ EmissionSampleService(r)

Spec == Init /\ [][Next]_vars

-----------------------------------------------------------------------------
(* Properties                                                              *)

Answered(r, status) == pc[r] = "done" /\ answer[r] = status
Changes(r) == input[r].op \in {"update", "transition"}

\* Every row, audit row, request and reply has its shape, and a status is always
\* one of the record's own kind.
TypeOK ==
  /\ rows \in [Record -> Row]
  /\ \A rec \in Record : rows[rec].status \in DOMAIN Transitions[rows[rec].kind]
  /\ auditLog \subseteq AuditLog
  /\ pc \in [Request -> {"idle", "reading", "writing", "auditing", "reloading", "done", "lost"}]
  /\ input \in [Request -> Call \cup {NoCall}]
  /\ current \in [Request -> Row]
  /\ answer \in [Request -> {"none", "ok", "forbidden", "invalid_request", "business_rule",
                             "not_found", "version_conflict", "internal_error"}]

\* However the calls interleave, the stored rows change only as RecordService
\* allows: one statement of a handler is one of its steps or changes no row.
Service == INSTANCE RecordService
ImplementsRecordService == Service!Spec

\* No update is lost: the copy a handler writes back (and whose status it reports
\* to the audit log as the one before) is the row it replaces, although the
\* service compares versions only inside the final statement.
NoStaleCopyWritten ==
  [][\A r \in Request :
       pc[r] = "writing" /\ Changes(r) /\ rows' # rows /\ pc'[r] # "writing" =>
         current[r] = rows[input[r].record]]_vars

\* Of all clients that started from the same version of a record, one succeeds.
SuccessExclusive ==
  \A r, s \in Request :
    /\ r # s /\ Changes(r) /\ Changes(s)
    /\ Answered(r, "ok") /\ Answered(s, "ok")
    /\ input[r].record = input[s].record
    => input[r].expected # input[s].expected

\* A successful reply shows the client's own change or a later version: never the
\* state before it.
ReplyShowsWrite ==
  \A r \in Request :
    Answered(r, "ok") /\ Changes(r) =>
      /\ current[r].version > input[r].expected
      /\ current[r].version = input[r].expected + 1 =>
           IF input[r].op = "transition" THEN current[r].status = input[r].target
                                         ELSE current[r].fields = input[r].fields

\* version_conflict is never spurious: the record has moved past the version the
\* client named, or is gone.
ConflictHasCause ==
  \A r \in Request :
    Answered(r, "version_conflict") =>
      \/ rows[input[r].record].phase = "deleted"
      \/ rows[input[r].record].version > input[r].expected

\* These records keep no revisions, so the audit row is the only trace of a
\* transition: one answered with success has it.
AcknowledgedTransitionsAudited ==
  \A r \in Request :
    Answered(r, "ok") /\ input[r].op \in {"transition", "delete"} =>
      \E a \in auditLog : a.request = r /\ a.record = input[r].record
=============================================================================
