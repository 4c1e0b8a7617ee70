---------------------------- MODULE StatusGraph ----------------------------
(***************************************************************************)
(* The four status machines of backend/internal/constants/status.go.  A    *)
(* graph maps a state to the set of states a Transition request may move   *)
(* it to; the Go code holds the same relation as map[string]map[string]bool*)
(***************************************************************************)

UnitState     == {"standby", "running", "limited", "stopped"}
RuleState     == {"draft", "active", "superseded", "retired"}
SampleState   == {"collected", "testing", "verified", "invalid"}
DecisionState == {"draft", "review", "accepted", "escalated"}

CaptureUnitTransitions ==
  [standby |-> {"running", "limited"},
   running |-> {"limited", "stopped", "standby"},
   limited |-> {"stopped", "running"},
   stopped |-> {"limited"}]

PermitRuleTransitions ==
  [draft      |-> {"active", "superseded"},
   active     |-> {"superseded", "retired", "draft"},
   superseded |-> {"retired", "active"},
   retired    |-> {"superseded"}]

EmissionSampleTransitions ==
  [collected |-> {"testing", "verified"},
   testing   |-> {"verified", "invalid", "collected"},
   verified  |-> {"invalid", "testing"},
   invalid   |-> {"verified"}]

ComplianceDecisionTransitions ==
  [draft     |-> {"review"},
   review    |-> {"accepted", "escalated", "draft"},
   accepted  |-> {"escalated", "review"},
   escalated |-> {"accepted"}]

\* An unknown source state has no targets, as a missing key of the Go map.
CanTransition(graph, from, to) ==
  /\ from \in DOMAIN graph
  /\ to \in graph[from]
=============================================================================
