--------------------------- MODULE DecisionLedger ---------------------------
(***************************************************************************)
(* What the compliance-decision service promises, without requests,        *)
(* versions, locks or failures: every decision has a ledger to which only  *)
(* authorised people add entries, one at a time, along the status graph.   *)
(* The evidence changes only between two entries in draft.                 *)
(***************************************************************************)
EXTENDS Naturals, Sequences, StatusGraph, AccessControl

CONSTANTS Decision, Fields

VARIABLES
  ledger,     \* decision -> the entries made so far
  withdrawn   \* the decisions an administrator has removed

Entry == [state : DecisionState, fields : Fields, by : Role \cup {"system"}]

Writers   == {who \in Role : RequireMinimumRole(who, "operator")}
Reviewers == {"reviewer", "admin"}

Last(d) == ledger[d][Len(ledger[d])]
Standing(d) == ledger[d] # << >> /\ d \notin withdrawn

Seeded == {<<e>> : e \in [state : {"draft", "review", "accepted"},
                          fields : Fields, by : {"system"}]}

Init ==
  /\ ledger \in [Decision -> Seeded \cup {<< >>}]
  /\ withdrawn = {}

Enter(d, entry) ==
  /\ ledger' = [ledger EXCEPT ![d] = Append(@, entry)]
  /\ UNCHANGED withdrawn

Open(d, f, who) ==
  /\ ledger[d] = << >> /\ d \notin withdrawn
  /\ Enter(d, [state |-> "draft", fields |-> f, by |-> who])

Amend(d, f, who) ==
  /\ Standing(d) /\ Last(d).state = "draft"
  /\ Enter(d, [state |-> "draft", fields |-> f, by |-> who])

Move(d, to, who) ==
  /\ Standing(d)
  /\ CanTransition(ComplianceDecisionTransitions, Last(d).state, to)
  /\ to \in {"accepted", "escalated"} => who \in Reviewers
  /\ Enter(d, [state |-> to, fields |-> Last(d).fields, by |-> who])

\* The ledger of a withdrawn decision stays as it is, for good.
Withdraw(d) ==
  /\ Standing(d)
  /\ withdrawn' = withdrawn \cup {d}
  /\ UNCHANGED ledger

Next ==
  \E d \in Decision :
    \/ \E f \in Fields, who \in Writers : Open(d, f, who) \/ Amend(d, f, who)
    \/ \E to \in DecisionState, who \in Writers : Move(d, to, who)
    \/ Withdraw(d)

Spec == Init /\ [][Next]_<<ledger, withdrawn>>
=============================================================================
