-------------------------- MODULE LedgerRefinement --------------------------
(***************************************************************************)
(* The table decision_revisions, read in version order, is the ledger of   *)
(* DecisionLedger: the service with its stale copies, optimistic lock,     *)
(* failures and crashes implements the plain ledger.                       *)
(***************************************************************************)
EXTENDS ComplianceDecision, Sequences

RevisionAt(d, n) == CHOOSE v \in RevisionsOf(d) : v.version = n

EntryAt(d, n) ==
  LET v == RevisionAt(d, n)
  IN [state |-> v.state, fields |-> v.fields, by |-> v.actor]

ledgerOf == [d \in Decision |-> [n \in 1 .. decisions[d].version |-> EntryAt(d, n)]]

withdrawnOf == {d \in Decision : decisions[d].phase = "deleted"}

Ledger == INSTANCE DecisionLedger WITH ledger <- ledgerOf, withdrawn <- withdrawnOf

\* Every behaviour of the service is a behaviour of the ledger: each commit of
\* CreateWithRevision, UpdateWithRevision and Delete is one Open, Amend, Move or
\* Withdraw that the ledger allows in the state it commits to, not only in the
\* state that was read, and every other step leaves the ledger alone.
ImplementsLedger == Ledger!Spec
=============================================================================
