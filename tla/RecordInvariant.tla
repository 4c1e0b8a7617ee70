--------------------------- MODULE RecordInvariant ---------------------------
(***************************************************************************)
(* The inductive invariants behind the theorems of VersionedRecord_proofs. *)
(* TypedInv and Replied need no assumption on what version a client names; *)
(* RecordInv holds when clients name only versions they have seen          *)
(* (RunAhead = 0).                                                         *)
(***************************************************************************)
EXTENDS VersionedRecord

\* What a handler has established by the time it reaches each statement.
RoutedAt(r) ==
  /\ pc[r] # "idle" => input[r] \in Call
  /\ pc[r] = "reading" => input[r].op \in {"update", "transition", "delete"}
  /\ pc[r] \in {"writing", "auditing"} =>
       input[r].op \in {"create", "update", "transition", "delete"}
  /\ pc[r] = "writing" => current[r].kind = rows[input[r].record].kind
  /\ pc[r] = "writing" /\ input[r].op = "create" => input[r].fields \in Fields
  /\ pc[r] = "writing" /\ Changes(r) =>
       /\ current[r].status \in DOMAIN Transitions[current[r].kind]
       /\ ~Refused(input[r], current[r])

Routed == \A r \in Request : RoutedAt(r)

\* A code that was never used has version 0.
Unopened == \A rec \in Record : rows[rec].phase = "absent" => rows[rec].version = 0

\* A version a client has seen stays a version of the record.
ExpectationsSeen ==
  \A r \in Request :
    pc[r] \in {"reading", "writing"} /\ Changes(r) =>
      input[r].expected <= rows[input[r].record].version

\* A copy is at least as new as the version the client named, and a copy that is
\* not stale is the row.
CopiesFresh ==
  \A r \in Request :
    pc[r] = "writing" /\ Changes(r) =>
      LET row == rows[input[r].record]
      IN /\ input[r].expected <= current[r].version
         /\ current[r].version <= row.version
         /\ row.phase = "live" /\ current[r].version = row.version => current[r] = row

TypedInv == TypeOK /\ Routed /\ Unopened
RecordInv == TypedInv /\ ExpectationsSeen /\ CopiesFresh

-----------------------------------------------------------------------------
(* What replies say.                                                       *)

ShowsChange(r, row) ==
  IF input[r].op = "transition" THEN row.status = input[r].target
                                ELSE row.fields = input[r].fields

Traced(r) == \E a \in auditLog : a.request = r /\ a.record = input[r].record

\* From its commit on, the row a request has changed is its change or a later one;
\* what it reads again and answers is such a row.
RepliedAt(r) ==
  LET call == input[r]
      row == rows[call.record]
  IN /\ pc[r] \in {"writing", "auditing", "reloading"} /\ Changes(r) => row.phase # "absent"
     /\ pc[r] \in {"auditing", "reloading"} /\ Changes(r) =>
          /\ row.version > call.expected
          /\ (row.phase = "live" /\ row.version = call.expected + 1 => ShowsChange(r, row))
     /\ Answered(r, "ok") /\ Changes(r) =>
          /\ current[r].version > call.expected
          /\ (current[r].version = call.expected + 1 => ShowsChange(r, current[r]))
     /\ (pc[r] = "reloading" \/ Answered(r, "ok")) =>
          (call.op \in {"transition", "delete"} => Traced(r))

Replied == \A r \in Request : RepliedAt(r)
=============================================================================
