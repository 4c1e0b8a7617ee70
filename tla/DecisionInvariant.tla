------------------------- MODULE DecisionInvariant -------------------------
(***************************************************************************)
(* The inductive invariants behind the theorems of                         *)
(* ComplianceDecision_proofs and ComplianceDecision_promises.  LedgerInv   *)
(* and ReplyInv need no assumption on what version a client names;         *)
(* FreshInv and TruthInv hold when clients name only versions they have    *)
(* seen (RunAhead = 0).                                                    *)
(***************************************************************************)
EXTENDS ComplianceDecision

Changes(r) == input[r].op \in {"update", "transition"}

\* What a handler has established by the time it reaches each statement.
Routed ==
  \A r \in Request :
    /\ pc[r] # "idle" => input[r] \in Call
    /\ pc[r] = "reading" => input[r].op \in {"update", "transition", "delete"}
    /\ pc[r] = "writing" => input[r].op \in {"create", "update", "transition", "delete"}
    /\ pc[r] = "auditing" => input[r].op \in {"create", "update", "transition", "delete"}
    /\ pc[r] = "writing" /\ input[r].op = "create" => input[r].fields \in Fields
    /\ pc[r] = "writing" /\ Changes(r) => /\ current[r].phase = "live"
                                          /\ ~Refused(input[r], current[r])

\* LedgerComplete, one first-order conjunct per fact.
OnlyAbsentUnversioned ==
  \A d \in Decision : decisions[d].phase = "absent" <=> decisions[d].version = 0
RevisionsBounded ==
  \A v \in revisions : 1 <= v.version /\ v.version <= decisions[v.decision].version
RevisionsGapless ==
  \A d \in Decision : \A n \in 1 .. decisions[d].version :
    \E v \in revisions : v.decision = d /\ v.version = n
RevisionsUnique ==
  \A v, w \in revisions : v.decision = w.decision /\ v.version = w.version => v = w
HeadIsRow ==
  \A v \in revisions :
    v.version = decisions[v.decision].version =>
      /\ v.state = decisions[v.decision].status
      /\ v.fields = decisions[v.decision].fields

LedgerInv ==
  /\ TypeOK
  /\ Routed
  /\ OnlyAbsentUnversioned
  /\ RevisionsBounded
  /\ RevisionsGapless
  /\ RevisionsUnique
  /\ HeadIsRow

\* A version a client has seen stays a version of the decision.
ExpectationsSeen ==
  \A r \in Request :
    pc[r] \in {"reading", "writing"} /\ Changes(r) =>
      input[r].expected <= decisions[input[r].decision].version

\* A copy is at least as new as the version the client named, and a copy that is
\* not stale is the row.  The optimistic lock therefore lets only the row's own
\* copy be written.
CopiesFresh ==
  \A r \in Request :
    pc[r] = "writing" /\ Changes(r) =>
      /\ input[r].expected <= current[r].version
      /\ current[r].version <= decisions[input[r].decision].version
      /\ current[r].version = decisions[input[r].decision].version =>
           /\ current[r].status = decisions[input[r].decision].status
           /\ current[r].fields = decisions[input[r].decision].fields

\* The first revision of a decision is a draft unless it was seeded, and seeded
\* revisions are first.
Origins ==
  \A v \in revisions :
    /\ v.version = 1 /\ v.request # "seed" => v.state = "draft"
    /\ v.request = "seed" => v.version = 1 /\ v.state # "escalated"

FreshInv ==
  /\ LedgerInv
  /\ ExpectationsSeen
  /\ CopiesFresh
  /\ Origins
  /\ HistoryFollowsGraph
  /\ IndependentReview

-----------------------------------------------------------------------------
(* What a request has left in the tables, and what its reply says of it.   *)

Refusal == {"forbidden", "invalid_request", "business_rule", "version_conflict"}

Unrevised(r) == \A v \in revisions : v.request # r
Unwritten(r) == Unrevised(r) /\ \A a \in auditLog : a.request # r

IsRevisionOf(w, r) ==
  w.request = r /\ w.decision = input[r].decision /\ w.version = input[r].expected + 1

Wrote(r) == \E w \in revisions : IsRevisionOf(w, r)

\* The item of a reply is a version of the decision, the request's own or a later one.
ItemRecorded(r) ==
  /\ \E v \in revisions : /\ v.decision = input[r].decision
                          /\ v.version = current[r].version
                          /\ v.state = current[r].status
                          /\ v.fields = current[r].fields
  /\ Writes(r) => input[r].expected < current[r].version

Covered(r) ==
  /\ 1 .. current[r].version \subseteq {v.version : v \in history[r]}
  /\ \E v \in history[r] : /\ v.version = current[r].version
                           /\ v.state = current[r].status
                           /\ v.fields = current[r].fields

ToldAt(r) ==
  LET op    == input[r].op
      phase == decisions[input[r].decision].phase
      ended == pc[r] \in {"reloading", "preloading"} \/ Answered(r, "ok")
  IN /\ pc[r] \in {"idle", "reading", "writing"} \/ (\E s \in Refusal : Answered(r, s)) =>
          Unwritten(r)
     /\ pc[r] # "idle" => /\ ~Writes(r) => Unrevised(r)
                          /\ op = "create" => input[r].expected = 0
     /\ pc[r] = "writing" /\ Changes(r) => phase # "absent"
     /\ pc[r] = "auditing" /\ Writes(r) => Wrote(r)
     /\ pc[r] = "auditing" /\ op = "delete" => phase = "deleted"
     /\ pc[r] \in {"reloading", "preloading"} => op # "delete"
     /\ ended /\ Writes(r) => Wrote(r)
     /\ ended /\ op \in {"transition", "delete"} => \E a \in auditLog : a.request = r
     /\ pc[r] = "preloading" => ItemRecorded(r)
     /\ Answered(r, "ok") /\ op # "delete" => ItemRecorded(r) /\ Covered(r)
     /\ Answered(r, "ok") /\ op = "delete" => phase = "deleted"
     /\ Answered(r, "not_found") => Unrevised(r) \/ phase = "deleted"

Told == \A r \in Request : ToldAt(r)

\* A request adds at most one revision.
OneRevision ==
  \A v, w \in revisions : v.request = w.request /\ v.request # "seed" => v = w

ReplyInv == Told /\ OneRevision

-----------------------------------------------------------------------------
(* What the tables say of a request's audit row and of its conflict.       *)

\* The revisions agree with the audit row the request is about to add.
Accountable(r) ==
  LET entry == AuditRow(r, input[r], current[r])
  IN \E w \in revisions :
       /\ IsRevisionOf(w, r) /\ w.actor = entry.actor /\ w.state = entry.after
       /\ input[r].op # "create" =>
            \E v \in revisions : /\ v.decision = w.decision
                                 /\ v.version + 1 = w.version
                                 /\ v.state = entry.before

\* Another request stored the version this one wanted to store, or the decision is
\* gone.
Overtaken(r) ==
  \/ decisions[input[r].decision].phase = "deleted"
  \/ \E v \in revisions : /\ v.decision = input[r].decision
                          /\ v.version = input[r].expected + 1
                          /\ v.request # r

JustifiedAt(r) ==
  /\ pc[r] = "auditing" /\ Writes(r) => Accountable(r)
  /\ Answered(r, "version_conflict") => Overtaken(r)

Justified == \A r \in Request : JustifiedAt(r)

TruthInv == Justified /\ AuditTruthful
=============================================================================
