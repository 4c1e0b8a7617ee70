--------------------- MODULE ComplianceDecision_promises ---------------------
(***************************************************************************)
(* Proofs about what the decision service promises, for any decisions,     *)
(* requests, payloads and callers: what a client may conclude from its     *)
(* reply, whatever versions clients name; and, when they name versions     *)
(* they have seen, what an auditor may conclude from the audit log, what a *)
(* conflict means, and that the service implements DecisionLedger.         *)
(*                                                                         *)
(* ReplyInv follows a request past its commit: it writes one revision at   *)
(* most, the one after the version it named, and later commits of others   *)
(* only add to the tables.  TruthInv adds what needs the handler's copy to *)
(* be the row it replaced.                                                 *)
(***************************************************************************)
EXTENDS ComplianceDecision_proofs, LedgerRefinement, SequenceTheorems

-----------------------------------------------------------------------------
(* Frames                                                                  *)

\* What Reply and Continue make of pc and answer.
LEMMA Moves ==
  ASSUME TypeOK, NEW r \in Request
  PROVE  /\ \A status : Reply(r, status) => pc'[r] = "done" /\ answer'[r] = status
         /\ \A next : Continue(r, next) => pc'[r] = next /\ answer' = answer
         /\ \A status, next : Reply(r, status) \/ Continue(r, next) =>
              \A s \in Request : s # r => pc'[s] = pc[s] /\ answer'[s] = answer[s]
BY DEF TypeOK, Reply, Continue

Still(s) == /\ pc'[s] = pc[s] /\ input'[s] = input[s] /\ current'[s] = current[s]
            /\ history'[s] = history[s] /\ answer'[s] = answer[s]

\* A handler moves no other request.
LEMMA OthersStill ==
  ASSUME TypeOK, NEW r \in Request, Handle(r), NEW s \in Request, s # r
  PROVE  Still(s)
<1>1. (\E status : Reply(r, status)) \/ (\E next : Continue(r, next))
  <2>1. CASE CreateWithRevision(r) \/ UpdateWithRevision(r)
    BY <2>1, WriteControl
  <2>2. CASE ~(CreateWithRevision(r) \/ UpdateWithRevision(r))
    BY <2>2 DEF Handle, Arrive, Load, Delete, Committed, Audit, Audited, Reload, Preload,
       DatabaseFails
  <2> QED
    BY <2>1, <2>2
<1>2. input'[s] = input[s] /\ current'[s] = current[s] /\ history'[s] = history[s]
  BY WriteControl DEF Handle, Arrive, Load, Delete, Audit, Reload, Preload,
     DatabaseFails, TypeOK
<1> QED
  BY <1>1, <1>2, Moves DEF Still

\* What a request adds to the tables bears its name.
LEMMA OwnRowsOnly ==
  ASSUME TypeOK, Routed, NEW r \in Request, Handle(r)
  PROVE  /\ \A v \in revisions' : v \in revisions \/ v.request = r
         /\ \A a \in auditLog' : a \in auditLog \/ a.request = r
<1>1. CASE CreateWithRevision(r) \/ UpdateWithRevision(r)
  <2>1. UNCHANGED auditLog
    BY <1>1, WriteControl
  <2>2. CASE Commit(r)
    BY <2>1, <2>2 DEF Commit, newDecisionRevision
  <2> QED
    BY <1>1, <2>1, <2>2, WriteCommitsOrNot
<1>2. CASE Audit(r)
  <2>1. AuditRow(r, input[r], current[r]).request = r
    BY DEF AuditRow
  <2> QED
    BY <1>2, <2>1 DEF Audit
<1>3. CASE Arrive(r) \/ Load(r) \/ Delete(r) \/ Reload(r) \/ Preload(r) \/ DatabaseFails(r)
  BY <1>3 DEF Arrive, Load, Delete, Reload, Preload, DatabaseFails, database
<1> QED
  BY <1>1, <1>2, <1>3 DEF Handle

\* A decision that exists goes on existing, and one that is deleted stays deleted.
LEMMA PhaseKept ==
  ASSUME LedgerInv, OnlyAppends, NEW d \in Decision
  PROVE  /\ decisions[d].phase = "deleted" => decisions'[d].phase = "deleted"
         /\ decisions[d].phase # "absent" => decisions'[d].phase # "absent"
<1>1. decisions[d] \in Row
  BY DEF LedgerInv, TypeOK
<1>2. decisions'[d] = [decisions[d] EXCEPT !.phase = "deleted"]
        => decisions'[d].phase = "deleted"
  BY <1>1 DEF Row
<1> QED
  BY <1>1, <1>2 DEF OnlyAppends

\* What is said of a request that does not move stays true while others add to the
\* tables.
LEMMA StillTold ==
  ASSUME LedgerInv, OnlyAppends, NEW s \in Request, Still(s), ToldAt(s),
         \A v \in revisions' : v \in revisions \/ v.request # s,
         \A a \in auditLog' : a \in auditLog \/ a.request # s
  PROVE  ToldAt(s)'
<1>1. CASE pc[s] = "idle"
  BY <1>1 DEF Still, ToldAt, Answered, Unwritten, Unrevised
<1>2. CASE pc[s] # "idle"
  <2>1. input[s] \in Call
    BY <1>2 DEF LedgerInv, Routed
  <2>2. input[s].decision \in Decision
    BY <2>1 DEF Call
  <2> DEFINE phase == decisions[input[s].decision].phase
  <2>3. /\ phase = "deleted" => phase' = "deleted"
        /\ phase # "absent" => phase' # "absent"
    BY <2>2, PhaseKept DEF Still
  <2>4. /\ Unrevised(s) => Unrevised(s)'
        /\ Unwritten(s) => Unwritten(s)'
    BY DEF Unwritten, Unrevised
  <2>5. revisions \subseteq revisions' /\ auditLog \subseteq auditLog'
    BY DEF OnlyAppends
  <2>6. Wrote(s) => Wrote(s)'
    BY <2>5 DEF Wrote, IsRevisionOf, Still
  <2>7. ItemRecorded(s) => ItemRecorded(s)'
    BY <2>5 DEF ItemRecorded, Writes, Still
  <2>8. Covered(s)' <=> Covered(s)
    BY DEF Covered, Still
  <2>9. /\ \A status : Answered(s, status)' <=> Answered(s, status)
        /\ Writes(s)' <=> Writes(s)
        /\ Changes(s)' <=> Changes(s)
    BY DEF Answered, Writes, Changes, Still
  <2> QED
    BY <2>3, <2>4, <2>5, <2>6, <2>7, <2>8, <2>9 DEF ToldAt, Still
<1> QED
  BY <1>1, <1>2

\* A handler only adds to the tables.
LEMMA HandleAppends ==
  ASSUME LedgerInv, NEW r \in Request, Handle(r)
  PROVE  OnlyAppends
<1>1. Next
  BY DEF Next
<1>2. OnlyAppends \/ UNCHANGED vars
  BY <1>1, StepOnlyAppends
<1>3. UNCHANGED vars => OnlyAppends
  BY DEF vars, OnlyAppends
<1> QED
  BY <1>2, <1>3

\* A step of one request that leaves Told to be shown for that request only.
LEMMA OneTold ==
  ASSUME LedgerInv, Told, NEW r \in Request, Handle(r), ToldAt(r)'
  PROVE  Told'
<1>1. TypeOK /\ Routed
  BY DEF LedgerInv
<1>2. OnlyAppends
  BY HandleAppends
<1>3. ASSUME NEW s \in Request, s # r PROVE ToldAt(s)'
  <2>1. Still(s)
    BY <1>1, <1>3, OthersStill
  <2>2. /\ \A v \in revisions' : v \in revisions \/ v.request # s
        /\ \A a \in auditLog' : a \in auditLog \/ a.request # s
    BY <1>1, <1>3, OwnRowsOnly
  <2> QED
    BY <1>2, <2>1, <2>2, StillTold DEF Told
<1> QED
  BY <1>3 DEF Told

-----------------------------------------------------------------------------
(* One statement after the other                                           *)

\* A call that arrives has left nothing in the tables.
LEMMA ArriveTold ==
  ASSUME LedgerInv, Told, NEW r \in Request, Arrive(r)
  PROVE  ToldAt(r)'
<1>1. TypeOK /\ Unwritten(r) /\ pc[r] = "idle" /\ UNCHANGED database
  BY DEF LedgerInv, Told, ToldAt, Arrive
<1>2. PICK who \in Callers, d \in Decision : \E call \in Calls(who, d) :
        /\ input' = [input EXCEPT ![r] = call]
        /\ \/ \E status \in {"forbidden", "invalid_request", "business_rule"} : Reply(r, status)
           \/ call.op = "create" /\ Continue(r, "writing")
           \/ call.op \in {"update", "transition", "delete"} /\ Continue(r, "reading")
           \/ call.op = "get" /\ Continue(r, "reloading")
  BY DEF Arrive
<1>3. PICK call \in Calls(who, d) :
        /\ input' = [input EXCEPT ![r] = call]
        /\ \/ \E status \in {"forbidden", "invalid_request", "business_rule"} : Reply(r, status)
           \/ call.op = "create" /\ Continue(r, "writing")
           \/ call.op \in {"update", "transition", "delete"} /\ Continue(r, "reading")
           \/ call.op = "get" /\ Continue(r, "reloading")
  BY <1>2
<1>4. input'[r] = call
  BY <1>1, <1>3 DEF TypeOK
<1>5. call.op = "create" => call.expected = 0
  BY DEF Calls, CreateCalls, UpdateCalls, TransitionCalls, PlainCalls, NewCall
<1>6. Unwritten(r)' /\ Unrevised(r)'
  BY <1>1 DEF Unwritten, Unrevised, database
<1>7. \/ pc'[r] = "done" /\ answer'[r] \in {"forbidden", "invalid_request", "business_rule"}
      \/ pc'[r] = "writing" /\ call.op = "create"
      \/ pc'[r] = "reading"
      \/ pc'[r] = "reloading" /\ call.op = "get"
  BY <1>1, <1>3, Moves
<1> QED
  BY <1>4, <1>5, <1>6, <1>7 DEF ToldAt, Answered, Changes, Writes

\* Only a live row is read for a change.
LEMMA LoadTold ==
  ASSUME LedgerInv, Told, NEW r \in Request, Load(r)
  PROVE  ToldAt(r)'
<1>1. /\ TypeOK /\ pc[r] = "reading" /\ UNCHANGED <<database, input>>
      /\ ToldAt(r) /\ Unwritten(r)
  BY DEF LedgerInv, Told, ToldAt, Load
<1>2. Unwritten(r)' /\ Unrevised(r)'
  BY <1>1 DEF Unwritten, Unrevised, database
<1>3. \/ pc'[r] = "done" /\ answer'[r] \in {"not_found", "business_rule"}
      \/ pc'[r] = "writing" /\ decisions[input[r].decision].phase = "live"
  BY <1>1, Moves DEF Load
<1> QED
  BY <1>1, <1>2, <1>3 DEF ToldAt, Answered, Changes, Writes, database

\* The revision of a commit is the one after the version the client named.
LEMMA CommitWrote ==
  ASSUME LedgerInv, Told, NEW r \in Request, Commit(r), UNCHANGED input
  PROVE  Wrote(r)'
<1> DEFINE call == input[r]
<1>1. TypeOK /\ Routed /\ OnlyAbsentUnversioned
  BY DEF LedgerInv
<1>2. PICK d \in Decision, new \in DecisionRevision :
           /\ d = call.decision
           /\ new.request = r /\ revisions' = revisions \cup {new}
           /\ new.decision = d /\ new.version = decisions[d].version + 1
  BY CommitNextVersion
<1>3. /\ pc[r] = "writing" /\ call \in Call /\ call.op \in {"create", "update", "transition"}
      /\ decisions[d] \in Row
  BY <1>1 DEF Commit, Routed, TypeOK
<1>4. CASE call.op = "create"
  BY <1>1, <1>2, <1>3, <1>4 DEF Commit, OnlyAbsentUnversioned, Told, ToldAt, Wrote, IsRevisionOf
<1>5. CASE call.op \in {"update", "transition"}
  BY <1>2, <1>5 DEF Commit, OptimisticLockHolds, Wrote, IsRevisionOf
<1> QED
  BY <1>3, <1>4, <1>5

\* A write commits, meets another version, or fails.
LEMMA StoreOutcome ==
  ASSUME TypeOK, NEW r \in Request, CreateWithRevision(r) \/ UpdateWithRevision(r)
  PROVE  \/ pc'[r] = "done" /\ answer'[r] = "internal_error"
         \/ pc'[r] = "auditing" /\ Commit(r)
         \/ /\ pc'[r] = "done" /\ answer'[r] = "version_conflict"
            /\ Changes(r) /\ UNCHANGED <<decisions, revisions>>
            /\ ~OptimisticLockHolds(decisions[input[r].decision], input[r].expected)
<1>1. CASE CreateWithRevision(r)
  <2>1. \/ Reply(r, "internal_error")
        \/ Continue(r, "auditing") /\ Commit(r)
    BY <1>1 DEF CreateWithRevision, StoreWithRevision, Committed, Commit
  <2> QED
    BY <2>1, Moves
<1>2. CASE UpdateWithRevision(r)
  <2>1. \/ Reply(r, "internal_error")
        \/ Continue(r, "auditing") /\ Commit(r)
        \/ /\ Reply(r, "version_conflict")
           /\ Changes(r) /\ UNCHANGED <<decisions, revisions>>
           /\ ~OptimisticLockHolds(decisions[input[r].decision], input[r].expected)
    BY <1>2 DEF UpdateWithRevision, StoreWithRevision, Committed, Commit, Changes
  <2> QED
    BY <2>1, Moves
<1> QED
  BY <1>1, <1>2

\* A write that commits has left its revision, and one that does not nothing.
LEMMA StoreTold ==
  ASSUME LedgerInv, Told, NEW r \in Request, CreateWithRevision(r) \/ UpdateWithRevision(r)
  PROVE  ToldAt(r)'
<1>1. /\ TypeOK /\ pc[r] = "writing" /\ input[r].op \in {"create", "update", "transition"}
      /\ UNCHANGED <<auditLog, input, current, history>>
      /\ ToldAt(r) /\ Unwritten(r)
  BY WriteControl DEF LedgerInv, Told, ToldAt
<1>2. CASE pc'[r] = "done" /\ answer'[r] = "internal_error"
  BY <1>1, <1>2 DEF ToldAt, Answered, Writes, Refusal
<1>3. CASE pc'[r] = "auditing" /\ Commit(r)
  <2>1. Wrote(r)'
    BY <1>1, <1>3, CommitWrote
  <2> QED
    BY <1>1, <1>3, <2>1 DEF ToldAt, Answered, Writes
<1>4. CASE /\ pc'[r] = "done" /\ answer'[r] = "version_conflict"
           /\ UNCHANGED <<decisions, revisions>>
  <2>1. Unwritten(r)' /\ Unrevised(r)'
    BY <1>1, <1>4 DEF Unwritten, Unrevised
  <2> QED
    BY <1>1, <1>4, <2>1 DEF ToldAt, Answered, Writes
<1> QED
  BY <1>1, <1>2, <1>3, <1>4, StoreOutcome

\* A deletion that was carried out leaves the decision deleted.
LEMMA DeleteTold ==
  ASSUME LedgerInv, Told, NEW r \in Request, Delete(r)
  PROVE  ToldAt(r)'
<1>1. /\ TypeOK /\ pc[r] = "writing" /\ input[r].op = "delete"
      /\ UNCHANGED <<revisions, auditLog, input, current, history>>
      /\ ToldAt(r) /\ Unwritten(r) /\ input[r] \in Call
  BY DEF LedgerInv, Routed, Told, ToldAt, Delete
<1>2. Unrevised(r)'
  BY <1>1 DEF Unwritten, Unrevised
<1>3. \/ pc'[r] = "done" /\ answer'[r] \in {"internal_error", "not_found"}
      \/ /\ pc'[r] = "auditing"
         /\ decisions' = [decisions EXCEPT ![input[r].decision] =
                            SoftDeleted(decisions[input[r].decision])]
  <2>1. \/ Reply(r, "internal_error") \/ Reply(r, "not_found")
        \/ /\ Continue(r, "auditing")
           /\ decisions' = [decisions EXCEPT ![input[r].decision] =
                              SoftDeleted(decisions[input[r].decision])]
    BY DEF Delete, Committed
  <2> QED
    BY <1>1, <2>1, Moves
<1>4. ASSUME pc'[r] = "auditing" PROVE decisions'[input[r].decision].phase = "deleted"
  <2>1. input[r].decision \in Decision
    BY <1>1 DEF Call
  <2>2. decisions[input[r].decision] \in Row
    BY <1>1, <2>1 DEF TypeOK
  <2>3. SoftDeleted(decisions[input[r].decision]).phase = "deleted"
    BY <2>2 DEF SoftDeleted, Row
  <2> QED
    BY <1>1, <1>3, <1>4, <2>1, <2>3 DEF TypeOK
<1> QED
  BY <1>1, <1>2, <1>3, <1>4 DEF ToldAt, Answered, Changes, Writes, Refusal

\* A transition or deletion goes on after its audit only with its audit row.
LEMMA AuditTold ==
  ASSUME LedgerInv, Told, NEW r \in Request, Audit(r)
  PROVE  ToldAt(r)'
<1> DEFINE op == input[r].op
           entry == AuditRow(r, input[r], current[r])
<1>1. /\ TypeOK /\ pc[r] = "auditing" /\ op \in {"create", "update", "transition", "delete"}
      /\ UNCHANGED <<decisions, revisions, input, current, history>>
      /\ ToldAt(r)
  BY DEF LedgerInv, Routed, Told, Audit
<1>2. PICK stored, failed \in BOOLEAN :
        /\ stored \/ failed
        /\ auditLog' = IF stored THEN auditLog \cup {entry} ELSE auditLog
        /\ Audited(r, failed)
  BY DEF Audit
<1>3. entry.request = r
  BY DEF AuditRow
<1>4. \/ /\ pc'[r] = "done" /\ answer'[r] = "internal_error"
      \/ /\ failed => op \notin {"transition", "delete"}
         /\ \/ pc'[r] = "done" /\ answer'[r] = "ok" /\ op = "delete"
            \/ pc'[r] = "reloading" /\ op # "delete"
  BY <1>1, <1>2, Moves DEF Audited, AuditErrorReturned, AfterAudit
<1>5. ASSUME ~failed PROVE \E a \in auditLog' : a.request = r
  BY <1>2, <1>3, <1>5
<1>6. Writes(r) => Wrote(r)'
  BY <1>1 DEF ToldAt, Wrote, IsRevisionOf
<1>7. ~Writes(r) => Unrevised(r)'
  BY <1>1 DEF ToldAt, Unrevised
<1> QED
  BY <1>1, <1>4, <1>5, <1>6, <1>7 DEF ToldAt, Answered, Changes, Writes, Refusal

\* A request that has written is found in a row of at least its version.
LEMMA WroteIsStored ==
  ASSUME LedgerInv, NEW r \in Request, input[r] \in Call, Wrote(r)
  PROVE  /\ input[r].expected < decisions[input[r].decision].version
         /\ decisions[input[r].decision].phase # "absent"
<1>1. PICK w \in revisions : IsRevisionOf(w, r)
  BY DEF Wrote
<1>2. input[r].decision \in Decision /\ input[r].expected \in Nat
  BY DEF Call
<1>3. decisions[input[r].decision].version \in Nat
  BY <1>2 DEF LedgerInv, TypeOK, Row
<1>4. input[r].expected + 1 <= decisions[input[r].decision].version
  BY <1>1 DEF IsRevisionOf, LedgerInv, RevisionsBounded
<1> QED
  BY <1>2, <1>3, <1>4 DEF LedgerInv, OnlyAbsentUnversioned

\* What is read again is the row, which is the newest revision.
LEMMA ReloadTold ==
  ASSUME LedgerInv, Told, NEW r \in Request, Reload(r)
  PROVE  ToldAt(r)'
<1> DEFINE d == input[r].decision
<1>1. /\ TypeOK /\ pc[r] = "reloading" /\ UNCHANGED <<database, input, history>>
      /\ ToldAt(r) /\ input[r] \in Call
      /\ OnlyAbsentUnversioned /\ RevisionsGapless /\ HeadIsRow
  BY DEF LedgerInv, Routed, Told, Reload
<1>2. d \in Decision
  BY <1>1 DEF Call
<1>3. decisions[d] \in Row /\ decisions[d].version \in Nat
  BY <1>1, <1>2 DEF TypeOK, Row
<1>4. \/ pc'[r] = "done" /\ answer'[r] = "not_found" /\ decisions[d].phase # "live"
      \/ /\ pc'[r] = "preloading" /\ decisions[d].phase = "live"
         /\ current'[r] = decisions[d]
  BY <1>1, Moves DEF Reload, TypeOK
<1>5. Unrevised(r) => Unrevised(r)'
  BY <1>1 DEF Unrevised, database
<1>6. Writes(r) => Wrote(r) /\ Wrote(r)'
  BY <1>1 DEF ToldAt, Wrote, IsRevisionOf, database
<1>7. CASE pc'[r] = "done" /\ answer'[r] = "not_found" /\ decisions[d].phase # "live"
  <2>1. Writes(r) => decisions[d].phase = "deleted"
    BY <1>1, <1>3, <1>6, <1>7, WroteIsStored DEF Row
  <2>2. ~Writes(r) => Unrevised(r)
    BY <1>1 DEF ToldAt
  <2> QED
    BY <1>1, <1>5, <1>7, <2>1, <2>2 DEF ToldAt, Answered, Changes, Writes, Refusal, database
<1>8. CASE /\ pc'[r] = "preloading" /\ decisions[d].phase = "live"
           /\ current'[r] = decisions[d]
  <2>1. decisions[d].version \in 1 .. decisions[d].version
    BY <1>1, <1>2, <1>3, <1>8 DEF OnlyAbsentUnversioned
  <2>2. PICK v \in revisions : v.decision = d /\ v.version = decisions[d].version
    BY <1>1, <1>2, <2>1 DEF RevisionsGapless
  <2>3. v.state = decisions[d].status /\ v.fields = decisions[d].fields
    BY <1>1, <2>2 DEF HeadIsRow
  <2>4. Writes(r) => input[r].expected < decisions[d].version
    BY <1>1, <1>6, WroteIsStored
  <2>5. ItemRecorded(r)'
    BY <1>1, <1>8, <2>2, <2>3, <2>4 DEF ItemRecorded, Writes, database
  <2> QED
    BY <1>1, <1>5, <1>6, <1>8, <2>5 DEF ToldAt, Answered, Changes, Writes, database
<1> QED
  BY <1>4, <1>7, <1>8

\* The revisions read after the item are at least those the item has.
LEMMA PreloadTold ==
  ASSUME LedgerInv, Told, NEW r \in Request, Preload(r)
  PROVE  ToldAt(r)'
<1> DEFINE d == input[r].decision
<1>1. /\ TypeOK /\ pc[r] = "preloading" /\ UNCHANGED <<database, input, current>>
      /\ ToldAt(r) /\ input[r] \in Call /\ ItemRecorded(r)
      /\ RevisionsBounded /\ RevisionsGapless
  BY DEF LedgerInv, Routed, Told, ToldAt, Preload
<1>2. d \in Decision
  BY <1>1 DEF Call
<1>3. decisions[d].version \in Nat /\ current[r].version \in Nat
  BY <1>1, <1>2 DEF TypeOK, Row
<1>4. pc'[r] = "done" /\ answer'[r] = "ok"
  BY <1>1, Moves DEF Preload
<1>5. history'[r] = {v \in revisions : v.decision = d}
  BY <1>1 DEF Preload, TypeOK
<1>6. Covered(r)'
  <2>1. PICK v \in revisions : /\ v.decision = d /\ v.version = current[r].version
                               /\ v.state = current[r].status
                               /\ v.fields = current[r].fields
    BY <1>1 DEF ItemRecorded
  <2>2. current[r].version <= decisions[d].version
    BY <1>1, <2>1 DEF RevisionsBounded
  <2>3. \A n \in 1 .. current[r].version : \E w \in history'[r] : w.version = n
    BY <1>1, <1>2, <1>3, <1>5, <2>2 DEF RevisionsGapless
  <2> QED
    BY <1>1, <1>5, <2>1, <2>3 DEF Covered
<1>7. ItemRecorded(r)' /\ (Unrevised(r) => Unrevised(r)') /\ (Wrote(r) => Wrote(r)')
  BY <1>1 DEF ItemRecorded, Unrevised, Wrote, IsRevisionOf, Writes, database
<1> QED
  BY <1>1, <1>4, <1>6, <1>7 DEF ToldAt, Answered, Changes, Writes, Refusal, database

\* A failing statement tells the client nothing.
LEMMA FailureTold ==
  ASSUME LedgerInv, Told, NEW r \in Request, DatabaseFails(r)
  PROVE  ToldAt(r)'
<1>1. /\ TypeOK /\ pc[r] # "idle" /\ UNCHANGED <<database, input>> /\ ToldAt(r)
  BY DEF LedgerInv, Told, DatabaseFails
<1>2. pc'[r] = "done" /\ answer'[r] = "internal_error"
  BY <1>1, Moves DEF DatabaseFails
<1>3. Unrevised(r) => Unrevised(r)'
  BY <1>1 DEF Unrevised, database
<1> QED
  BY <1>1, <1>2, <1>3 DEF ToldAt, Answered, Changes, Writes, Refusal

\* A crash answers nobody.
LEMMA CrashTold ==
  ASSUME LedgerInv, Told, Crash
  PROVE  Told'
<1>1. /\ UNCHANGED <<database, input, current, history, answer>>
      /\ \A s \in Request : pc'[s] = pc[s] \/ (pc'[s] = "lost" /\ pc[s] # "idle")
  BY DEF Crash, InFlight, LedgerInv, TypeOK
<1>2. SUFFICES ASSUME NEW s \in Request PROVE ToldAt(s)'
  BY DEF Told
<1>3. /\ Unrevised(s)' <=> Unrevised(s)
      /\ Unwritten(s)' <=> Unwritten(s)
      /\ Wrote(s)' <=> Wrote(s)
      /\ ItemRecorded(s)' <=> ItemRecorded(s)
      /\ Covered(s)' <=> Covered(s)
  BY <1>1 DEF Unrevised, Unwritten, Wrote, IsRevisionOf, ItemRecorded, Writes, Covered,
     database
<1>4. ToldAt(s)
  BY DEF Told
<1>5. CASE pc'[s] = pc[s]
  BY <1>1, <1>3, <1>4, <1>5 DEF ToldAt, Answered, Changes, Writes, database
<1>6. CASE pc'[s] = "lost" /\ pc[s] # "idle"
  BY <1>1, <1>3, <1>4, <1>6 DEF ToldAt, Answered, Changes, Writes
<1> QED
  BY <1>1, <1>5, <1>6

\* Every step keeps what replies say.
LEMMA ToldStep == LedgerInv /\ Told /\ [Next]_vars => Told'
<1> SUFFICES ASSUME LedgerInv, Told, [Next]_vars PROVE Told'
  OBVIOUS
<1>1. CASE UNCHANGED vars
  BY <1>1 DEF vars, Told, ToldAt, Answered, Changes, Writes, Unwritten, Unrevised, Wrote,
     IsRevisionOf, ItemRecorded, Covered
<1>2. CASE Crash
  BY <1>2, CrashTold
<1>3. ASSUME NEW r \in Request, Handle(r) PROVE Told'
  <2>1. ToldAt(r)'
    BY <1>3, ArriveTold, LoadTold, StoreTold, DeleteTold, AuditTold, ReloadTold,
       PreloadTold, FailureTold DEF Handle
  <2> QED
    BY <1>3, <2>1, OneTold
<1> QED
  BY <1>1, <1>2, <1>3 DEF Next

\* A request that writes has not written before.
LEMMA OneRevisionStep ==
  ASSUME LedgerInv, Told, OneRevision, [Next]_vars
  PROVE  OneRevision'
<1>1. CASE UNCHANGED revisions
  BY <1>1 DEF OneRevision
<1>2. ASSUME NEW r \in Request, Commit(r) PROVE OneRevision'
  <2>1. Unrevised(r)
    BY <1>2 DEF Commit, Told, ToldAt, Unwritten
  <2>2. PICK new : revisions' = revisions \cup {new} /\ new.request = r
    BY <1>2, CommitNextVersion
  <2> QED
    BY <2>1, <2>2 DEF OneRevision, Unrevised
<1> QED
  BY <1>1, <1>2, RevisionsStep

-----------------------------------------------------------------------------
(* Audit rows to come and conflicts, for clients that have seen the        *)
(* versions they name                                                      *)

\* The revision of a commit is the one after the version the client named, and the
\* revision before it is the row its handler checked.
LEMMA CommitAccountable ==
  ASSUME FreshInv, Told, NEW r \in Request, Commit(r), UNCHANGED <<input, current>>
  PROVE  Accountable(r)'
<1> DEFINE call == input[r]
           copy == current[r]
           entry == AuditRow(r, call, copy)
<1>1. LedgerInv /\ TypeOK /\ Routed /\ RevisionsGapless /\ HeadIsRow /\ CopiesFresh
      /\ OnlyAbsentUnversioned
  BY DEF FreshInv, LedgerInv
<1>2. PICK d \in Decision, row \in Row, new \in DecisionRevision :
           /\ d = call.decision /\ row = Written(call, copy)
           /\ new.actor = call.role /\ new.request = r
           /\ revisions' = revisions \cup {new}
           /\ row.version = decisions[d].version + 1
           /\ new.decision = d /\ new.version = row.version
           /\ new.state = row.status
  BY <1>1, CommitNextVersion
<1>3. /\ pc[r] = "writing" /\ call \in Call /\ call.expected \in Nat /\ copy \in Row
      /\ call.op \in {"create", "update", "transition"}
      /\ decisions[d] \in Row /\ decisions[d].version \in Nat
  BY <1>1 DEF Commit, Routed, TypeOK, Row, Call
<1>4. entry.actor = call.role
  BY DEF AuditRow
<1>5. CASE call.op = "create"
  <2>1. call.expected = 0 /\ decisions[d].version = 0
    BY <1>1, <1>2, <1>3, <1>5 DEF Commit, OnlyAbsentUnversioned, Told, ToldAt
  <2>2. new.state = entry.after
    BY <1>2, <1>5 DEF AuditRow, Written, LiveRow
  <2>3. IsRevisionOf(new, r)'
    BY <1>2, <2>1 DEF IsRevisionOf
  <2> QED
    BY <1>2, <1>4, <1>5, <2>2, <2>3 DEF Accountable
<1>6. CASE call.op \in {"update", "transition"}
  <2>1. decisions[d].phase = "live" /\ decisions[d].version = call.expected
    BY <1>2, <1>6 DEF Commit, OptimisticLockHolds
  <2>2. copy.status = decisions[d].status
    BY <1>1, <1>2, <1>3, <1>6, <2>1 DEF CopiesFresh, Changes, Row
  <2>3. decisions[d].version \in 1 .. decisions[d].version
    BY <1>1, <1>3, <2>1 DEF OnlyAbsentUnversioned
  <2>4. PICK v \in revisions : v.decision = d /\ v.version = decisions[d].version
    BY <1>1, <2>3 DEF RevisionsGapless
  <2>5. v.state = copy.status
    BY <1>1, <2>2, <2>4 DEF HeadIsRow
  <2>6. new.state = entry.after /\ entry.before = copy.status
    BY <1>2, <1>6 DEF AuditRow, Written, LiveRow
  <2>7. IsRevisionOf(new, r)'
    BY <1>2, <2>1 DEF IsRevisionOf
  <2>8. v \in revisions' /\ v.decision = new.decision /\ v.version + 1 = new.version
    BY <1>2, <2>4
  <2> QED
    BY <1>2, <1>4, <1>6, <2>5, <2>6, <2>7, <2>8 DEF Accountable
<1> QED
  BY <1>3, <1>5, <1>6

\* A conflict is answered only when another request stored the version this one
\* wanted to store, or the decision was deleted.
LEMMA ConflictOvertaken ==
  ASSUME FreshInv, Told, NEW r \in Request, pc[r] = "writing", Changes(r),
         ~OptimisticLockHolds(decisions[input[r].decision], input[r].expected)
  PROVE  Overtaken(r)
<1> DEFINE d == input[r].decision
<1>1. TypeOK /\ Routed /\ RevisionsGapless /\ ExpectationsSeen
  BY DEF FreshInv, LedgerInv
<1>2. d \in Decision /\ input[r].expected \in Nat
  BY <1>1 DEF Routed, Call
<1>3. decisions[d] \in Row /\ decisions[d].version \in Nat
  BY <1>1, <1>2 DEF TypeOK, Row
<1>4. decisions[d].phase # "absent" /\ Unrevised(r)
  BY DEF Told, ToldAt, Unwritten
<1>5. CASE decisions[d].phase = "deleted"
  BY <1>5 DEF Overtaken
<1>6. CASE decisions[d].phase = "live"
  <2>1. input[r].expected < decisions[d].version
    BY <1>1, <1>2, <1>3, <1>6 DEF ExpectationsSeen, OptimisticLockHolds
  <2>2. input[r].expected + 1 \in 1 .. decisions[d].version
    BY <1>2, <1>3, <2>1
  <2> QED
    BY <1>1, <1>2, <1>4, <2>2 DEF RevisionsGapless, Overtaken, Unrevised
<1> QED
  BY <1>3, <1>4, <1>5, <1>6 DEF Row

\* What is said of a request that does not move stays justified.
LEMMA StillJustified ==
  ASSUME LedgerInv, OnlyAppends, NEW s \in Request, Still(s), JustifiedAt(s)
  PROVE  JustifiedAt(s)'
<1>1. /\ Writes(s)' <=> Writes(s)
      /\ \A status : Answered(s, status)' <=> Answered(s, status)
  BY DEF Answered, Writes, Still
<1>2. revisions \subseteq revisions'
  BY DEF OnlyAppends
<1>3. Accountable(s) => Accountable(s)'
  BY <1>2 DEF Accountable, IsRevisionOf, Still
<1>4. ASSUME Answered(s, "version_conflict"), Overtaken(s) PROVE Overtaken(s)'
  <2>1. input[s].decision \in Decision
    BY <1>4 DEF LedgerInv, Routed, Answered, Call
  <2> QED
    BY <1>2, <1>4, <2>1, PhaseKept DEF Overtaken, Still
<1> QED
  BY <1>1, <1>3, <1>4 DEF JustifiedAt, Still

\* Only a write is followed by the audit of a write or answered with a conflict.
LEMMA HandleJustified ==
  ASSUME FreshInv, Told, Justified, NEW r \in Request, Handle(r)
  PROVE  JustifiedAt(r)'
<1>1. LedgerInv /\ TypeOK
  BY DEF FreshInv, LedgerInv
<1>2. CASE CreateWithRevision(r) \/ UpdateWithRevision(r)
  <2>1. pc[r] = "writing" /\ UNCHANGED <<auditLog, input, current, history>>
    BY <1>1, <1>2, WriteControl
  <2>2. CASE pc'[r] = "done" /\ answer'[r] = "internal_error"
    BY <2>2 DEF JustifiedAt, Answered
  <2>3. CASE pc'[r] = "auditing" /\ Commit(r)
    <3>1. Accountable(r)'
      BY <2>1, <2>3, CommitAccountable
    <3> QED
      BY <2>3, <3>1 DEF JustifiedAt, Answered
  <2>4. CASE /\ pc'[r] = "done" /\ answer'[r] = "version_conflict"
             /\ Changes(r) /\ UNCHANGED <<decisions, revisions>>
             /\ ~OptimisticLockHolds(decisions[input[r].decision], input[r].expected)
    <3>1. Overtaken(r)
      BY <2>1, <2>4, ConflictOvertaken
    <3>2. Overtaken(r)'
      BY <2>1, <2>4, <3>1 DEF Overtaken
    <3> QED
      BY <2>4, <3>2 DEF JustifiedAt, Answered
  <2> QED
    BY <1>1, <1>2, <2>2, <2>3, <2>4, StoreOutcome
<1>3. CASE Delete(r)
  <2>1. input'[r].op = "delete"
    BY <1>3 DEF Delete
  <2>2. \/ \E status \in {"internal_error", "not_found"} : Reply(r, status)
        \/ Continue(r, "auditing")
    BY <1>3 DEF Delete, Committed
  <2>3. pc'[r] = "auditing" \/ (pc'[r] = "done" /\ answer'[r] # "version_conflict")
    BY <1>1, <2>2, Moves
  <2> QED
    BY <2>1, <2>3 DEF JustifiedAt, Answered, Writes
<1>4. CASE Arrive(r) \/ Load(r) \/ Audit(r) \/ Reload(r) \/ Preload(r) \/ DatabaseFails(r)
  <2>1. \/ \E next \in {"reading", "writing", "reloading", "preloading"} : Continue(r, next)
        \/ \E status \in {"forbidden", "invalid_request", "business_rule", "not_found",
                         "internal_error", "ok"} : Reply(r, status)
    BY <1>4 DEF Arrive, Load, Audit, Audited, AfterAudit, Reload, Preload, DatabaseFails
  <2>2. \/ pc'[r] \in {"reading", "writing", "reloading", "preloading"}
        \/ pc'[r] = "done" /\ answer'[r] # "version_conflict"
    BY <1>1, <2>1, Moves
  <2> QED
    BY <2>2 DEF JustifiedAt, Answered
<1> QED
  BY <1>2, <1>3, <1>4 DEF Handle

\* Every step keeps what audit rows and conflicts rest on.
LEMMA JustifiedStep == FreshInv /\ Told /\ Justified /\ [Next]_vars => Justified'
<1> SUFFICES ASSUME FreshInv, Told, Justified, [Next]_vars, NEW s \in Request
             PROVE  JustifiedAt(s)'
  BY DEF Justified
<1>1. LedgerInv /\ TypeOK /\ Routed /\ JustifiedAt(s)
  BY DEF FreshInv, LedgerInv, Justified
<1>2. CASE UNCHANGED vars
  BY <1>1, <1>2 DEF vars, JustifiedAt, Answered, Writes, IsRevisionOf, Accountable, Overtaken
<1>3. CASE Crash
  <2>1. /\ UNCHANGED <<database, input, current, history, answer>>
        /\ pc'[s] = pc[s] \/ pc'[s] = "lost"
    BY <1>1, <1>3 DEF Crash, TypeOK
  <2> QED
    BY <1>1, <2>1 DEF JustifiedAt, Answered, Writes, IsRevisionOf, Accountable, Overtaken,
       database
<1>4. ASSUME NEW r \in Request, Handle(r) PROVE JustifiedAt(s)'
  <2>1. CASE s = r
    BY <1>4, <2>1, HandleJustified
  <2>2. CASE s # r
    <3>1. Still(s) /\ OnlyAppends
      BY <1>1, <1>4, <2>2, OthersStill, HandleAppends
    <3> QED
      BY <1>1, <3>1, StillJustified
  <2> QED
    BY <2>1, <2>2
<1> QED
  BY <1>2, <1>3, <1>4 DEF Next

-----------------------------------------------------------------------------
(* The audit log                                                           *)

Truthful(a) ==
  IF a.action = "delete" THEN decisions[a.decision].phase = "deleted"
  ELSE \E w \in revisions :
         /\ w.decision = a.decision
         /\ w.request = a.request /\ w.actor = a.actor /\ a.after = w.state
         /\ \/ a.action = "create" /\ w.version = 1 /\ a.before = ""
            \/ /\ a.action # "create"
               /\ \E v \in revisions :
                    v.decision = a.decision /\ v.version + 1 = w.version /\ a.before = v.state

\* AuditTruthful says Truthful of every audit row.
LEMMA TruthfulRows == AuditTruthful <=> \A a \in auditLog : Truthful(a)
BY DEF AuditTruthful, Truthful, RevisionsOf

\* An audit row that is true stays true.
LEMMA TruthKept ==
  ASSUME LedgerInv, OnlyAppends, NEW a \in auditLog, Truthful(a)
  PROVE  Truthful(a)'
<1>1. a.decision \in Decision /\ revisions \subseteq revisions'
  BY DEF LedgerInv, TypeOK, AuditLog, OnlyAppends
<1>2. CASE a.action = "delete"
  <2>1. decisions[a.decision].phase = "deleted"
    BY <1>2 DEF Truthful
  <2>2. decisions'[a.decision] = decisions[a.decision]
    BY <1>1, <2>1 DEF OnlyAppends
  <2> QED
    BY <1>2, <2>1, <2>2 DEF Truthful
<1>3. CASE a.action # "delete"
  BY <1>1, <1>3 DEF Truthful
<1> QED
  BY <1>2, <1>3

\* The audit row a request adds is true when it is added.
LEMMA NewTruth ==
  ASSUME LedgerInv, Told, Justified, NEW r \in Request, pc[r] = "auditing"
  PROVE  Truthful(AuditRow(r, input[r], current[r]))
<1> DEFINE call == input[r]
<1> SUFFICES ASSUME NEW entry, entry = AuditRow(r, call, current[r]) PROVE Truthful(entry)
  OBVIOUS
<1>1. /\ ToldAt(r) /\ call \in Call /\ call.op \in {"create", "update", "transition", "delete"}
  BY DEF LedgerInv, Routed, Told
<1>2. entry.request = r /\ entry.action = call.op /\ entry.decision = call.decision
      /\ entry.before = IF call.op = "create" THEN "" ELSE current[r].status
  BY DEF AuditRow
<1>3. CASE call.op = "delete"
  BY <1>1, <1>2, <1>3 DEF ToldAt, Truthful
<1>4. CASE call.op # "delete"
  <2>1. Accountable(r)
    BY <1>1, <1>4 DEF Justified, JustifiedAt, Writes
  <2>2. PICK w \in revisions :
          /\ IsRevisionOf(w, r) /\ w.actor = entry.actor /\ w.state = entry.after
          /\ call.op # "create" =>
               \E v \in revisions : /\ v.decision = w.decision
                                    /\ v.version + 1 = w.version
                                    /\ v.state = entry.before
    BY <2>1 DEF Accountable
  <2>3. w.request = r /\ w.decision = call.decision /\ w.version = call.expected + 1
    BY <2>2 DEF IsRevisionOf
  <2>4. call.op = "create" => w.version = 1
    BY <1>1, <2>3 DEF ToldAt
  <2> QED
    BY <1>2, <1>4, <2>2, <2>3, <2>4 DEF Truthful
<1> QED
  BY <1>3, <1>4

\* Every step keeps the audit log true.
LEMMA TruthStep ==
  ASSUME LedgerInv, Told, Justified, AuditTruthful, [Next]_vars
  PROVE  AuditTruthful'
<1>1. CASE UNCHANGED vars
  BY <1>1 DEF vars, AuditTruthful, RevisionsOf
<1>2. CASE ~UNCHANGED vars
  <2>1. OnlyAppends
    BY <1>2, StepOnlyAppends
  <2>2. \A a \in auditLog : Truthful(a)'
    BY <2>1, TruthfulRows, TruthKept
  <2>3. \A a \in auditLog' \ auditLog : Truthful(a)'
    <3>1. CASE Crash
      BY <3>1 DEF Crash, database
    <3>2. ASSUME NEW r \in Request, Audit(r) PROVE \A a \in auditLog' \ auditLog : Truthful(a)'
      <4>1. /\ pc[r] = "auditing" /\ UNCHANGED <<decisions, revisions>>
            /\ \A a \in auditLog' \ auditLog : a = AuditRow(r, input[r], current[r])
        BY <3>2 DEF Audit
      <4>2. Truthful(AuditRow(r, input[r], current[r]))
        BY <4>1, NewTruth
      <4> QED
        BY <4>1, <4>2 DEF Truthful
    <3>3. ASSUME NEW r \in Request, Handle(r), ~Audit(r) PROVE UNCHANGED auditLog
      BY <3>3, WriteControl DEF Handle, Arrive, Load, Delete, Reload, Preload, DatabaseFails,
         database
    <3> QED
      BY <1>2, <3>1, <3>2, <3>3 DEF Next
  <2>4. (\A a \in auditLog : Truthful(a))'
    BY <2>2, <2>3
  <2> QED
    BY <2>4, TruthfulRows, PTL
<1> QED
  BY <1>1, <1>2

-----------------------------------------------------------------------------
(* Theorems                                                                *)

\* ReplyInv is an invariant, whatever versions clients name.
LEMMA ReplyInvariant == Spec => [](LedgerInv /\ ReplyInv)
<1>1. Init => ReplyInv
  <2> SUFFICES ASSUME Init PROVE ReplyInv
    OBVIOUS
  <2>1. \A v \in revisions : v.request = "seed"
    BY DEF Init, SeedRevision
  <2>2. Told
    BY <2>1, RequestAssumption DEF Init, Told, ToldAt, Answered, Unwritten, Unrevised
  <2>3. OneRevision
    BY <2>1 DEF OneRevision
  <2> QED
    BY <2>2, <2>3 DEF ReplyInv
<1>2. LedgerInv /\ ReplyInv /\ [Next]_vars => ReplyInv'
  BY ToldStep, OneRevisionStep DEF ReplyInv
<1> QED
  BY <1>1, <1>2, LedgerInvariant, PTL DEF Spec

\* TruthInv is an invariant when clients name versions they have seen.
LEMMA TruthInvariant == ASSUME RunAhead = 0 PROVE Spec => [](FreshInv /\ ReplyInv /\ TruthInv)
<1>1. Init => TruthInv
  BY DEF Init, TruthInv, Justified, JustifiedAt, Answered, AuditTruthful
<1>2. FreshInv /\ ReplyInv /\ TruthInv /\ [Next]_vars => TruthInv'
  BY JustifiedStep, TruthStep DEF FreshInv, ReplyInv, TruthInv
<1> QED
  BY <1>1, <1>2, FreshInvariant, ReplyInvariant, PTL DEF Spec

\* What ReplyInv says of the replies is the property the runs check.
LEMMA RepliesHonest == LedgerInv /\ ReplyInv => AnswersHonest
<1> SUFFICES ASSUME LedgerInv, ReplyInv, NEW r \in Request
             PROVE  /\ \/ Answered(r, "forbidden") \/ Answered(r, "invalid_request")
                       \/ Answered(r, "business_rule") \/ Answered(r, "version_conflict")
                       => RevisionsBy(r) = {} /\ \A a \in auditLog : a.request # r
                    /\ Answered(r, "ok") /\ Writes(r) =>
                         \E v \in revisions :
                           /\ RevisionsBy(r) = {v}
                           /\ v.decision = input[r].decision
                           /\ v.version = input[r].expected + 1
                           /\ v.version <= current[r].version
                    /\ Answered(r, "not_found") /\ RevisionsBy(r) # {} =>
                         decisions[input[r].decision].phase = "deleted"
                    /\ Answered(r, "ok") /\ input[r].op = "delete" =>
                         decisions[input[r].decision].phase = "deleted"
  BY DEF AnswersHonest
<1>1. ToldAt(r) /\ OneRevision
  BY DEF ReplyInv, Told
<1>2. Unrevised(r) => RevisionsBy(r) = {}
  BY DEF Unrevised, RevisionsBy
<1>3. ASSUME Answered(r, "ok"), Writes(r)
      PROVE  \E v \in revisions :
               /\ RevisionsBy(r) = {v}
               /\ v.decision = input[r].decision
               /\ v.version = input[r].expected + 1
               /\ v.version <= current[r].version
  <2>1. Wrote(r) /\ input[r].expected < current[r].version
    BY <1>1, <1>3 DEF ToldAt, ItemRecorded, Writes
  <2>2. PICK v \in revisions : IsRevisionOf(v, r)
    BY <2>1 DEF Wrote
  <2>3. RevisionsBy(r) = {v}
    BY <1>1, <2>2, RequestAssumption DEF RevisionsBy, IsRevisionOf, OneRevision
  <2>4. input[r].expected \in Nat /\ current[r].version \in Nat
    <3>1. input[r] \in Call /\ current[r] \in Row
      BY <1>3 DEF Answered, LedgerInv, Routed, TypeOK
    <3> QED
      BY <3>1 DEF Call, Row
  <2> QED
    BY <2>1, <2>2, <2>3, <2>4 DEF IsRevisionOf
<1>4. Answered(r, "forbidden") \/ Answered(r, "invalid_request")
        \/ Answered(r, "business_rule") \/ Answered(r, "version_conflict") => Unwritten(r)
  BY <1>1 DEF ToldAt, Refusal
<1> QED
  BY <1>1, <1>2, <1>3, <1>4 DEF ToldAt, Unwritten

\* Whatever others commit meanwhile and whatever versions clients name, a reply tells the client what became of its
\* write: nothing after a refusal, exactly one revision after a success.
THEOREM RepliesAlwaysHonest == Spec => []AnswersHonest
BY RepliesHonest, ReplyInvariant, PTL

\* The revisions of a reply, read after its item, cover the version shown.
THEOREM SnapshotsCoverItems == Spec => []SnapshotCoversItem
<1>1. ReplyInv => SnapshotCoversItem
  BY DEF ReplyInv, Told, ToldAt, Covered, SnapshotCoversItem
<1> QED
  BY <1>1, ReplyInvariant, PTL

\* Every audit row agrees with the revision of its request and the one before.
THEOREM AuditLogTruthful == ASSUME RunAhead = 0 PROVE Spec => []AuditTruthful
<1>1. TruthInv => AuditTruthful
  BY DEF TruthInv
<1> QED
  BY <1>1, TruthInvariant, PTL

\* A transition or deletion that was answered with success has its audit row.
THEOREM SuccessesLogged == Spec => []AcknowledgedTransitionsAudited
<1>1. ReplyInv => AcknowledgedTransitionsAudited
  BY DEF ReplyInv, Told, ToldAt, AcknowledgedTransitionsAudited
<1> QED
  BY <1>1, ReplyInvariant, PTL

\* version_conflict on a decision is never spurious.
THEOREM ConflictsJustified == ASSUME RunAhead = 0 PROVE Spec => []ConflictHasCause
<1>1. TruthInv => ConflictHasCause
  BY DEF TruthInv, Justified, JustifiedAt, Overtaken, ConflictHasCause, RevisionsOf
<1> QED
  BY <1>1, TruthInvariant, PTL

-----------------------------------------------------------------------------
(* Sequences as functions                                                  *)

\* A function on 1..n is a sequence of length n.
LEMMA FunctionIsSeq ==
  ASSUME NEW S, NEW n \in Nat, NEW f \in [1 .. n -> S]
  PROVE  f \in Seq(S) /\ Len(f) = n
OBVIOUS

\* One more entry is an entry appended.
LEMMA OneMore ==
  ASSUME NEW S, NEW n \in Nat, NEW f \in [1 .. n -> S], NEW g \in [1 .. n + 1 -> S],
         \A i \in 1 .. n : g[i] = f[i]
  PROVE  g = Append(f, g[n + 1])
<1>1. f \in Seq(S) /\ Len(f) = n /\ g \in Seq(S) /\ Len(g) = n + 1 /\ g[n + 1] \in S
  BY FunctionIsSeq
<1>2. Append(f, g[n + 1]) \in Seq(S) /\ Len(Append(f, g[n + 1])) = n + 1
  BY <1>1
<1>3. \A i \in 1 .. n + 1 : Append(f, g[n + 1])[i] = g[i]
  BY <1>1
<1> QED
  BY <1>1, <1>2, <1>3, SeqEqual

\* The sequences of length 0 and 1.
LEMMA ShortSeqs ==
  ASSUME NEW S
  PROVE  /\ \A f \in [1 .. 0 -> S] : f = << >>
         /\ \A f \in [1 .. 1 -> S] : f = << f[1] >>
<1>1. ASSUME NEW f \in [1 .. 0 -> S] PROVE f = << >>
  BY FunctionIsSeq, EmptySeq
<1>2. ASSUME NEW f \in [1 .. 1 -> S] PROVE f = << f[1] >>
  <2>1. 1 \in Nat /\ f[1] \in S
    OBVIOUS
  <2>2. f \in Seq(S) /\ Len(f) = 1
    BY <2>1, FunctionIsSeq
  <2>3. << f[1] >> \in Seq(S) /\ Len(<< f[1] >>) = 1 /\ << f[1] >>[1] = f[1]
    BY <2>1
  <2> QED
    BY <2>2, <2>3, SeqEqual
<1> QED
  BY <1>1, <1>2

-----------------------------------------------------------------------------
(* The ledger of the table                                                 *)

LedgerEntry == [state : DecisionState, fields : Fields \cup {Blank}, by : Role \cup {"system"}]

EntryOf(v) == [state |-> v.state, fields |-> v.fields, by |-> v.actor]

\* The entry at a version is that of the revision with this version.
LEMMA EntryFound ==
  ASSUME LedgerInv, NEW v \in revisions
  PROVE  EntryAt(v.decision, v.version) = EntryOf(v)
<1>1. \A w \in RevisionsOf(v.decision) : w.version = v.version => w = v
  BY DEF LedgerInv, RevisionsUnique, RevisionsOf
<1>2. v \in RevisionsOf(v.decision)
  BY DEF RevisionsOf
<1>3. RevisionAt(v.decision, v.version) = v
  BY <1>1, <1>2 DEF RevisionAt
<1> QED
  BY <1>3 DEF EntryAt, EntryOf

\* The ledger of a decision is a sequence as long as its version.
LEMMA LedgerIsSeq ==
  ASSUME LedgerInv, NEW d \in Decision
  PROVE  /\ decisions[d].version \in Nat
         /\ ledgerOf[d] \in [1 .. decisions[d].version -> LedgerEntry]
         /\ \A v \in revisions : v.decision = d =>
              v.version \in 1 .. decisions[d].version /\ ledgerOf[d][v.version] = EntryOf(v)
<1>1. decisions[d].version \in Nat
  BY DEF LedgerInv, TypeOK, Row
<1>2. ASSUME NEW n \in 1 .. decisions[d].version
      PROVE  EntryAt(d, n) \in LedgerEntry
  <2>1. PICK v \in revisions : v.decision = d /\ v.version = n
    BY DEF LedgerInv, RevisionsGapless
  <2>2. v \in DecisionRevision
    BY DEF LedgerInv, TypeOK
  <2>3. EntryOf(v) \in LedgerEntry
    BY <2>2 DEF EntryOf, LedgerEntry, DecisionRevision
  <2>4. EntryAt(d, n) = EntryOf(v)
    BY <2>1, EntryFound
  <2> QED
    BY <2>3, <2>4
<1>3. ledgerOf[d] = [n \in 1 .. decisions[d].version |-> EntryAt(d, n)]
  BY DEF ledgerOf
<1>4. ASSUME NEW v \in revisions, v.decision = d
      PROVE  v.version \in 1 .. decisions[d].version /\ ledgerOf[d][v.version] = EntryOf(v)
  <2>1. v.version \in 1 .. decisions[d].version
    BY <1>1, <1>4 DEF LedgerInv, RevisionsBounded, TypeOK, DecisionRevision
  <2> QED
    BY <1>3, <1>4, <2>1, EntryFound
<1> QED
  BY <1>1, <1>2, <1>3, <1>4

\* What does not touch the tables of decisions does not touch the ledger.
LEMMA SameLedger ==
  ASSUME UNCHANGED <<decisions, revisions>>
  PROVE  UNCHANGED <<ledgerOf, withdrawnOf>>
BY DEF ledgerOf, withdrawnOf, EntryAt, RevisionAt, RevisionsOf

\* A commit appends the entry of its revision.
LEMMA CommitEnters ==
  ASSUME LedgerInv, LedgerInv', NEW d \in Decision, NEW row \in Row, NEW new \in DecisionRevision,
         decisions[d].phase # "deleted",
         decisions' = [decisions EXCEPT ![d] = row],
         revisions' = revisions \cup {new},
         row.phase = "live", row.version = decisions[d].version + 1,
         new.decision = d, new.version = row.version
  PROVE  Ledger!Enter(d, EntryOf(new))
<1>1. decisions \in [Decision -> Row]
  BY DEF LedgerInv, TypeOK
<1>2. ASSUME NEW e \in Decision, e # d PROVE ledgerOf'[e] = ledgerOf[e]
  <2>1. decisions'[e] = decisions[e]
    BY <1>1, <1>2
  <2>2. RevisionsOf(e)' = RevisionsOf(e)
    BY <1>2 DEF RevisionsOf
  <2> QED
    BY <2>1, <2>2 DEF ledgerOf, EntryAt, RevisionAt
<1>3. ledgerOf'[d] = Append(ledgerOf[d], EntryOf(new))
  <2> DEFINE n == decisions[d].version
  <2>1. n \in Nat /\ ledgerOf[d] \in [1 .. n -> LedgerEntry]
    BY LedgerIsSeq
  <2>2. decisions'[d].version = n + 1
    BY <1>1
  <2>3. /\ ledgerOf'[d] \in [1 .. n + 1 -> LedgerEntry]
        /\ \A v \in revisions' : v.decision = d => ledgerOf'[d][v.version] = EntryOf(v)
    <3>1. (/\ ledgerOf[d] \in [1 .. decisions[d].version -> LedgerEntry]
           /\ \A v \in revisions : v.decision = d =>
                v.version \in 1 .. decisions[d].version /\ ledgerOf[d][v.version] = EntryOf(v))'
      BY LedgerIsSeq, PTL
    <3> QED
      BY <2>2, <3>1 DEF LedgerEntry, EntryOf
  <2>4. ledgerOf'[d][n + 1] = EntryOf(new)
    BY <2>3
  <2>5. ASSUME NEW i \in 1 .. n PROVE ledgerOf'[d][i] = ledgerOf[d][i]
    <3>1. PICK v \in revisions : v.decision = d /\ v.version = i
      BY DEF LedgerInv, RevisionsGapless
    <3>2. ledgerOf[d][i] = EntryOf(v)
      BY <3>1, LedgerIsSeq
    <3>3. ledgerOf'[d][i] = EntryOf(v)
      BY <2>3, <3>1
    <3> QED
      BY <3>2, <3>3
  <2> QED
    BY <2>1, <2>3, <2>4, <2>5, OneMore
<1>4. ledgerOf' = [ledgerOf EXCEPT ![d] = Append(@, EntryOf(new))]
  <2>1. DOMAIN ledgerOf = Decision /\ DOMAIN ledgerOf' = Decision
        /\ ledgerOf = [e \in Decision |-> ledgerOf[e]]
        /\ ledgerOf' = [e \in Decision |-> ledgerOf'[e]]
    BY DEF ledgerOf
  <2> QED
    BY <1>2, <1>3, <2>1
<1>5. UNCHANGED withdrawnOf
  BY <1>1 DEF withdrawnOf
<1> QED
  BY <1>4, <1>5 DEF Ledger!Enter

-----------------------------------------------------------------------------
(* Steps of the ledger                                                     *)

\* The route has let pass whoever is about to read or write.
Admitted == \A r \in Request : pc[r] \in {"reading", "writing"} => Permitted(input[r])

\* No step lets a request past the route that may not pass.
LEMMA AdmittedStep ==
  ASSUME TypeOK, Admitted, [Next]_vars
  PROVE  Admitted'
<1> SUFFICES ASSUME NEW s \in Request, pc'[s] \in {"reading", "writing"}
             PROVE  Permitted(input'[s])
  BY DEF Admitted, Permitted, RequireRoles, RequireMinimumRole
<1>1. CASE Arrive(s)
  <2>1. PICK who \in Callers, d \in Decision : \E call \in Calls(who, d) :
          /\ input' = [input EXCEPT ![s] = call]
          /\ Permitted(call) \/ (\E status : Reply(s, status)) \/ Continue(s, "reloading")
    BY <1>1 DEF Arrive
  <2>2. PICK call \in Calls(who, d) :
          /\ input' = [input EXCEPT ![s] = call]
          /\ Permitted(call) \/ (\E status : Reply(s, status)) \/ Continue(s, "reloading")
    BY <2>1
  <2>3. input'[s] = call
    BY <2>2 DEF TypeOK
  <2> QED
    BY <2>2, <2>3 DEF TypeOK, Reply, Continue
<1>2. CASE Load(s)
  BY <1>2 DEF Load, Admitted
<1>3. CASE pc'[s] = pc[s] /\ input'[s] = input[s]
  BY <1>3 DEF Admitted
<1> QED
  BY <1>1, <1>2, <1>3, BeforeWrite

\* The two modules share the status graph and the ranks of roles.
LEMMA SharedGraph ==
  /\ Ledger!DecisionState = DecisionState
  /\ Ledger!Role = Role
  /\ Ledger!Writers = {who \in Role : RequireMinimumRole(who, "operator")}
  /\ Ledger!Reviewers = {"reviewer", "admin"}
  /\ \A s, t : CanTransition(ComplianceDecisionTransitions, s, t) <=>
                 Ledger!CanTransition(Ledger!ComplianceDecisionTransitions, s, t)
BY DEF Ledger!DecisionState, DecisionState, Ledger!Role, Role, Ledger!Writers, Ledger!Reviewers,
       Ledger!RequireMinimumRole, RequireMinimumRole, Ledger!roleRank, roleRank,
       CanTransition, Ledger!CanTransition, ComplianceDecisionTransitions,
       Ledger!ComplianceDecisionTransitions

\* The last entry of a decision in use is its row.
LEMMA LastIsRow ==
  ASSUME LedgerInv, NEW d \in Decision
  PROVE  /\ decisions[d].phase = "absent" => ledgerOf[d] = << >>
         /\ decisions[d].phase # "absent" =>
              /\ ledgerOf[d] # << >>
              /\ Ledger!Last(d).state = decisions[d].status
              /\ Ledger!Last(d).fields = decisions[d].fields
<1> DEFINE n == decisions[d].version
<1>1. n \in Nat /\ ledgerOf[d] \in [1 .. n -> LedgerEntry]
  BY LedgerIsSeq
<1>2. CASE decisions[d].phase = "absent"
  <2>1. n = 0
    BY <1>2 DEF LedgerInv, OnlyAbsentUnversioned
  <2> QED
    BY <1>1, <1>2, <2>1, ShortSeqs
<1>3. CASE decisions[d].phase # "absent"
  <2>1. n \in 1 .. n
    BY <1>1, <1>3 DEF LedgerInv, OnlyAbsentUnversioned
  <2>2. PICK v \in revisions : v.decision = d /\ v.version = n
    BY <2>1 DEF LedgerInv, RevisionsGapless
  <2>3. v.state = decisions[d].status /\ v.fields = decisions[d].fields
    BY <2>2 DEF LedgerInv, HeadIsRow
  <2>4. ledgerOf[d][n] = EntryOf(v)
    BY <2>2, LedgerIsSeq
  <2>5. ledgerOf[d] \in Seq(LedgerEntry) /\ Len(ledgerOf[d]) = n
    BY <1>1, FunctionIsSeq
  <2>6. ledgerOf[d] # << >>
    BY <2>1, <2>5, EmptySeq
  <2>7. Ledger!Last(d) = EntryOf(v)
    BY <2>4, <2>5 DEF Ledger!Last
  <2> QED
    BY <1>3, <2>3, <2>6, <2>7 DEF EntryOf
<1> QED
  BY <1>2, <1>3

\* A commit is an entry the ledger allows in the state it commits to.
LEMMA CommitRefines ==
  ASSUME FreshInv, LedgerInv', Admitted, NEW r \in Request, Commit(r)
  PROVE  Ledger!Next
<1> DEFINE call == input[r]
           copy == current[r]
<1>1. /\ LedgerInv /\ TypeOK /\ Routed /\ CopiesFresh
      /\ pc[r] = "writing" /\ call.op \in {"create", "update", "transition"}
  BY DEF FreshInv, LedgerInv, Commit
<1>2. PICK d \in Decision, row \in Row, new \in DecisionRevision :
           /\ d = call.decision /\ row = Written(call, copy)
           /\ new.actor = call.role /\ new.request = r
           /\ decisions[d].phase # "deleted"
           /\ decisions' = [decisions EXCEPT ![d] = row]
           /\ revisions' = revisions \cup {new}
           /\ row.phase = "live" /\ row.version = decisions[d].version + 1
           /\ new.decision = d /\ new.version = row.version
           /\ new.state = row.status /\ new.fields = row.fields
  BY <1>1, CommitNextVersion
<1>3. Ledger!Enter(d, EntryOf(new))
  BY <1>1, <1>2, CommitEnters
<1>4. /\ call \in Call /\ call.fields \in Fields \cup {Blank} /\ call.target \in DecisionState
      /\ copy \in Row /\ decisions[d] \in Row
  BY <1>1 DEF Routed, Call, TypeOK
<1>5. new.actor \in Ledger!Writers
  <2>1. Permitted(call)
    BY <1>1 DEF Admitted
  <2> QED
    BY <1>1, <1>2, <1>4, <2>1, SharedGraph DEF Permitted, Call
<1>6. d \notin withdrawnOf
  BY <1>2 DEF withdrawnOf
<1>7. CASE call.op = "create"
  <2>1. EntryOf(new) = [state |-> "draft", fields |-> call.fields, by |-> new.actor]
    BY <1>2, <1>7 DEF EntryOf, Written, LiveRow, ComplianceDecisionInitialStatus
  <2>2. ledgerOf[d] = << >>
    BY <1>1, <1>2, <1>7, LastIsRow DEF Commit
  <2>3. call.fields \in Fields
    BY <1>1, <1>7 DEF Routed
  <2>4. Ledger!Open(d, call.fields, new.actor)
    BY <1>3, <1>6, <2>1, <2>2 DEF Ledger!Open
  <2> QED
    BY <1>5, <2>3, <2>4 DEF Ledger!Next
<1>8. CASE call.op \in {"update", "transition"}
  <2>1. decisions[d].phase = "live" /\ decisions[d].version = call.expected
    BY <1>2, <1>8 DEF Commit, OptimisticLockHolds
  <2>2. copy.status = decisions[d].status /\ copy.fields = decisions[d].fields
    BY <1>1, <1>2, <1>4, <1>8, <2>1 DEF CopiesFresh, Changes, Row
  <2>3. ~Refused(call, copy)
    BY <1>1, <1>8 DEF Routed, Changes
  <2>4. /\ ledgerOf[d] # << >>
        /\ Ledger!Last(d).state = copy.status
        /\ Ledger!Last(d).fields = copy.fields
    BY <1>1, <2>1, <2>2, LastIsRow
  <2>5. Ledger!Standing(d)
    BY <1>6, <2>4 DEF Ledger!Standing
  <2>6. CASE call.op = "update"
    <3>1. copy.status = "draft" /\ call.fields \in Fields
      BY <1>4, <2>3, <2>6 DEF Refused, UpdateRefused
    <3>2. EntryOf(new) = [state |-> "draft", fields |-> call.fields, by |-> new.actor]
      BY <1>2, <2>6, <3>1 DEF EntryOf, Written, LiveRow
    <3>3. Ledger!Amend(d, call.fields, new.actor)
      BY <1>3, <2>4, <2>5, <3>1, <3>2 DEF Ledger!Amend
    <3> QED
      BY <1>5, <3>1, <3>3 DEF Ledger!Next
  <2>7. CASE call.op = "transition"
    <3>1. /\ CanTransition(ComplianceDecisionTransitions, copy.status, call.target)
          /\ ~ReviewerRequired(call.target, call.role)
      BY <2>3, <2>7 DEF Refused, TransitionRefused
    <3>2. EntryOf(new) = [state |-> call.target, fields |-> copy.fields, by |-> new.actor]
      BY <1>2, <2>7 DEF EntryOf, Written, LiveRow
    <3>3. call.target \in {"accepted", "escalated"} => new.actor \in Ledger!Reviewers
      BY <1>2, <3>1, SharedGraph DEF ReviewerRequired
    <3>4. Ledger!Move(d, call.target, new.actor)
      BY <1>3, <2>4, <2>5, <3>1, <3>2, <3>3, SharedGraph DEF Ledger!Move
    <3> QED
      BY <1>4, <1>5, <3>4, SharedGraph DEF Ledger!Next
  <2> QED
    BY <1>8, <2>6, <2>7
<1> QED
  BY <1>1, <1>7, <1>8

\* A deletion withdraws the decision or changes nothing.
LEMMA DeleteRefines ==
  ASSUME LedgerInv, NEW r \in Request, Delete(r)
  PROVE  Ledger!Next \/ UNCHANGED <<ledgerOf, withdrawnOf>>
<1> DEFINE d == input[r].decision
<1>1. /\ UNCHANGED revisions /\ d \in Decision
      /\ \/ UNCHANGED decisions
         \/ /\ decisions[d].phase = "live"
            /\ decisions' = [decisions EXCEPT ![d] = SoftDeleted(decisions[d])]
  BY DEF Delete, LedgerInv, Routed, Call
<1>2. CASE UNCHANGED decisions
  BY <1>1, <1>2, SameLedger
<1>3. CASE /\ decisions[d].phase = "live"
           /\ decisions' = [decisions EXCEPT ![d] = SoftDeleted(decisions[d])]
  <2>1. decisions \in [Decision -> Row]
    BY DEF LedgerInv, TypeOK
  <2>2. \A e \in Decision : decisions'[e].version = decisions[e].version
    BY <1>1, <1>3, <2>1 DEF SoftDeleted, Row
  <2>3. UNCHANGED ledgerOf
    BY <1>1, <2>2 DEF ledgerOf, EntryAt, RevisionAt, RevisionsOf
  <2>4. \A e \in Decision :
          decisions'[e].phase = IF e = d THEN "deleted" ELSE decisions[e].phase
    BY <1>1, <1>3, <2>1 DEF SoftDeleted, Row
  <2>5. withdrawnOf' = withdrawnOf \cup {d}
    BY <1>1, <2>4 DEF withdrawnOf
  <2>6. Ledger!Standing(d)
    BY <1>1, <1>3, LastIsRow DEF Ledger!Standing, withdrawnOf
  <2>7. Ledger!Withdraw(d)
    BY <2>3, <2>5, <2>6 DEF Ledger!Withdraw
  <2> QED
    BY <1>1, <2>7 DEF Ledger!Next
<1> QED
  BY <1>1, <1>2, <1>3

\* Every step of the service is a step of the ledger or leaves it alone.
LEMMA LedgerRefines ==
  FreshInv /\ FreshInv' /\ Admitted /\ [Next]_vars => [Ledger!Next]_<<ledgerOf, withdrawnOf>>
<1> SUFFICES ASSUME FreshInv, FreshInv', Admitted, [Next]_vars
             PROVE  Ledger!Next \/ UNCHANGED <<ledgerOf, withdrawnOf>>
  OBVIOUS
<1>1. LedgerInv /\ LedgerInv'
  BY DEF FreshInv
<1>2. CASE UNCHANGED vars \/ Crash
  BY <1>2, SameLedger DEF vars, Crash, database
<1>3. ASSUME NEW r \in Request, Handle(r)
      PROVE  Ledger!Next \/ UNCHANGED <<ledgerOf, withdrawnOf>>
  <2>1. CASE CreateWithRevision(r) \/ UpdateWithRevision(r)
    BY <1>1, <2>1, WriteCommitsOrNot, SameLedger, CommitRefines
  <2>2. CASE Delete(r)
    BY <1>1, <2>2, DeleteRefines
  <2>3. CASE ~(CreateWithRevision(r) \/ UpdateWithRevision(r) \/ Delete(r))
    BY <1>3, <2>3, ReadsKeepTables, SameLedger DEF Handle
  <2> QED
    BY <2>1, <2>2, <2>3
<1> QED
  BY <1>2, <1>3 DEF Next

\* The seeded rows are ledgers of one entry, by the system.
LEMMA InitRefines == Init => Ledger!Init
<1> SUFFICES ASSUME Init PROVE Ledger!Init
  OBVIOUS
<1>1. LedgerInv
  BY InitLedger
<1>2. ASSUME NEW d \in Decision PROVE ledgerOf[d] \in Ledger!Seeded \cup {<< >>}
  <2>1. CASE decisions[d].phase = "absent"
    BY <1>1, <2>1, LastIsRow
  <2>2. CASE decisions[d] \in SeededRow
    <3> DEFINE v == SeedRevision(d, decisions[d])
    <3>1. v \in revisions /\ v.decision = d /\ v.version = 1 /\ decisions[d].version = 1
      BY <2>2 DEF Init, SeedRevision, SeededRow
    <3>2. /\ EntryOf(v).state \in {"draft", "review", "accepted"}
          /\ EntryOf(v).fields \in Fields /\ EntryOf(v).by = "system"
      BY <2>2 DEF EntryOf, SeedRevision, SeededRow
    <3>3. EntryOf(v) \in [state : {"draft", "review", "accepted"}, fields : Fields, by : {"system"}]
      BY <3>2 DEF EntryOf
    <3>4. ledgerOf[d] \in [1 .. 1 -> LedgerEntry] /\ ledgerOf[d][1] = EntryOf(v)
      BY <1>1, <3>1, LedgerIsSeq
    <3>5. ledgerOf[d] = << EntryOf(v) >>
      BY <3>4, ShortSeqs
    <3> QED
      BY <3>3, <3>5 DEF Ledger!Seeded
  <2> QED
    BY <2>1, <2>2 DEF Init, AbsentRow
<1>3. ledgerOf \in [Decision -> Ledger!Seeded \cup {<< >>}]
  <2>1. ledgerOf = [d \in Decision |-> ledgerOf[d]]
    BY DEF ledgerOf
  <2> QED
    BY <1>2, <2>1
<1>4. withdrawnOf = {}
  BY DEF Init, withdrawnOf, SeededRow, AbsentRow
<1> QED
  BY <1>3, <1>4 DEF Ledger!Init

\* The service implements the ledger: with its stale copies, its lock on the version
\* of the client, its failures and crashes, every commit is one entry or withdrawal
\* the ledger allows, made by somebody who may make it.
THEOREM ServiceImplementsLedger == ASSUME RunAhead = 0 PROVE Spec => ImplementsLedger
<1>1. Init => Admitted
  BY DEF Init, Admitted
<1>2. FreshInv /\ Admitted /\ [Next]_vars => Admitted'
  BY AdmittedStep DEF FreshInv, LedgerInv
<1> QED
  BY <1>1, <1>2, InitRefines, LedgerRefines, FreshInvariant, PTL
     DEF Spec, ImplementsLedger, Ledger!Spec
==============================================================================
