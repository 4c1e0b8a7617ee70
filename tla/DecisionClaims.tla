--------------------------- MODULE DecisionClaims ---------------------------
(***************************************************************************)
(* What the repository's documentation and guards say of compliance        *)
(* decisions and the code does not keep.  Each statement is checked by a   *)
(* run that expects TLC to refute it.                                      *)
(***************************************************************************)
EXTENDS ComplianceDecision

\* README.md:36, every status change writes an audit row.  Transition commits the
\* change before it calls Audit, and answers internal_error if Audit fails.
EveryStatusChangeAudited ==
  \A r \in Request :
    pc[r] = "done" /\ input[r].op = "transition" /\ RevisionsBy(r) # {} =>
      \E a \in auditLog : a.request = r

\* README.md:36, every state change uses the optimistic lock, and the guard of
\* Delete (service/compliance_decision.go:129) that lets only a draft be deleted.
\* Delete checks a copy and then deletes by id alone.
OnlyDraftsDeleted ==
  \A d \in Decision :
    decisions[d].phase = "deleted" => decisions[d].status = "draft"

\* README.md:35, once a decision has entered review its business fields are
\* locked.  Update checks the status of the copy it read but locks on the
\* client's expectedVersion, which may name a version committed after that read.
FieldsLockedAfterReview ==
  \A v, w \in revisions :
    v.decision = w.decision /\ w.version = v.version + 1 /\ v.state # "draft" =>
      w.fields = v.fields
=============================================================================
