---------------------------- MODULE RecordService ----------------------------
(***************************************************************************)
(* What the service of capture units, permit rules and emission samples    *)
(* promises about a record, whoever calls it and however the calls         *)
(* interleave: a record is opened once, and each later change is an edit   *)
(* that keeps its status or a move along its kind's graph that keeps its   *)
(* fields, each to the next version, until it is withdrawn for good.       *)
(***************************************************************************)
EXTENDS RecordKinds

CONSTANT Record   \* codes of records

VARIABLE rows     \* code -> row

Init == rows \in [Record -> StoredAtStart]

Live(rec) == rows[rec].phase = "live"

Replace(rec, status, version, fields) ==
  rows' = [rows EXCEPT ![rec] = LiveRow(rows[rec].kind, status, version, fields)]

Open(rec, fields) ==
  /\ rows[rec].phase = "absent"
  /\ Replace(rec, InitialStatus[rows[rec].kind], 1, fields)

Amend(rec, fields) ==
  /\ Live(rec)
  /\ Replace(rec, rows[rec].status, rows[rec].version + 1, fields)

Move(rec, target) ==
  /\ Live(rec)
  /\ CanTransition(Transitions[rows[rec].kind], rows[rec].status, target)
  /\ Replace(rec, target, rows[rec].version + 1, rows[rec].fields)

Withdraw(rec) ==
  /\ Live(rec)
  /\ rows' = [rows EXCEPT ![rec].phase = "deleted"]

Next ==
  \E rec \in Record :
    \/ \E fields \in Fields : Open(rec, fields) \/ Amend(rec, fields)
    \/ \E target \in State : Move(rec, target)
    \/ Withdraw(rec)

Spec == Init /\ [][Next]_rows
=============================================================================
