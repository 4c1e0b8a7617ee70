----------------------------- MODULE RecordKinds -----------------------------
(***************************************************************************)
(* The three kinds of versioned records, their rows and where a row starts.*)
(***************************************************************************)
EXTENDS Naturals, StatusGraph

CONSTANTS
  Fields,     \* payloads that pass validation
  Blank       \* a payload that does not

ASSUME RecordPayloadAssumption == Blank \notin Fields

Kind == {"CaptureUnit", "PermitRule", "EmissionSample"}

Transitions == [CaptureUnit    |-> CaptureUnitTransitions,
                PermitRule     |-> PermitRuleTransitions,
                EmissionSample |-> EmissionSampleTransitions]

InitialStatus == [CaptureUnit    |-> "standby",
                  PermitRule     |-> "draft",
                  EmissionSample |-> "collected"]

\* The statuses of the three rows Seed adds to each table.
SeededStatus == [CaptureUnit    |-> {"standby", "running", "limited"},
                 PermitRule     |-> {"draft", "active", "superseded"},
                 EmissionSample |-> {"collected", "testing", "verified"}]

State == UnitState \cup RuleState \cup SampleState

Row == [kind    : Kind,
        phase   : {"absent", "live", "deleted"},
        status  : State,
        version : Nat,
        fields  : Fields \cup {Blank}]

AbsentRow(kind) ==
  [kind |-> kind, phase |-> "absent", status |-> InitialStatus[kind],
   version |-> 0, fields |-> Blank]

LiveRow(kind, status, version, fields) ==
  [kind |-> kind, phase |-> "live", status |-> status,
   version |-> version, fields |-> fields]

SeededRows == {LiveRow(k, s, 1, f) : k \in Kind, s \in State, f \in Fields}

StoredAtStart == {AbsentRow(k) : k \in Kind}
                 \cup {row \in SeededRows : row.status \in SeededStatus[row.kind]}
=============================================================================
