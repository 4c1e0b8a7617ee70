----------------------- MODULE VersionedRecord_proofs -----------------------
(***************************************************************************)
(* Proofs about VersionedRecord, for any records, requests, payloads and   *)
(* callers: types, the refinement of RecordService, and what a client may  *)
(* conclude from its reply.                                                *)
(***************************************************************************)
EXTENDS RecordInvariant, TLAPS

Locus == {"idle", "reading", "writing", "auditing", "reloading", "done", "lost"}
Answer == {"none", "ok", "forbidden", "invalid_request", "business_rule",
           "not_found", "version_conflict", "internal_error"}

\* A row and what may have become of it later.
Later(row, next) ==
  /\ next.kind = row.kind
  /\ row.version <= next.version
  /\ next.phase = "live" /\ next.version = row.version => next = row

-----------------------------------------------------------------------------
(* The tables of constants.                                                *)

\* Each graph is a function from its kind's statuses to sets of them.
LEMMA GraphsClosed ==
  \A k \in Kind :
    /\ InitialStatus[k] \in DOMAIN Transitions[k]
    /\ DOMAIN Transitions[k] \subseteq State
    /\ SeededStatus[k] \subseteq DOMAIN Transitions[k]
    /\ \A s \in DOMAIN Transitions[k] : Transitions[k][s] \subseteq DOMAIN Transitions[k]
<1>1. /\ DOMAIN CaptureUnitTransitions = UnitState
      /\ \A s \in UnitState : CaptureUnitTransitions[s] \subseteq UnitState
  BY DEF CaptureUnitTransitions, UnitState
<1>2. /\ DOMAIN PermitRuleTransitions = RuleState
      /\ \A s \in RuleState : PermitRuleTransitions[s] \subseteq RuleState
  BY DEF PermitRuleTransitions, RuleState
<1>3. /\ DOMAIN EmissionSampleTransitions = SampleState
      /\ \A s \in SampleState : EmissionSampleTransitions[s] \subseteq SampleState
  BY DEF EmissionSampleTransitions, SampleState
<1>4. /\ InitialStatus["CaptureUnit"] \in UnitState
      /\ InitialStatus["PermitRule"] \in RuleState
      /\ InitialStatus["EmissionSample"] \in SampleState
  BY DEF InitialStatus, UnitState, RuleState, SampleState
<1>5. /\ SeededStatus["CaptureUnit"] \subseteq UnitState
      /\ SeededStatus["PermitRule"] \subseteq RuleState
      /\ SeededStatus["EmissionSample"] \subseteq SampleState
  BY DEF SeededStatus, UnitState, RuleState, SampleState
<1>6. /\ Transitions["CaptureUnit"] = CaptureUnitTransitions
      /\ Transitions["PermitRule"] = PermitRuleTransitions
      /\ Transitions["EmissionSample"] = EmissionSampleTransitions
  BY DEF Transitions
<1> QED
  BY <1>1, <1>2, <1>3, <1>4, <1>5, <1>6 DEF Kind, State

\* A status a record of a kind can move to is a status of the kind.
LEMMA TargetOfKind ==
  ASSUME NEW k \in Kind, NEW from, NEW to, CanTransition(Transitions[k], from, to)
  PROVE  to \in DOMAIN Transitions[k] /\ to \in State
BY GraphsClosed DEF CanTransition

\* An absent row, and a live row of known parts, are rows.
LEMMA RowsWellFormed ==
  ASSUME NEW k \in Kind, NEW s \in DOMAIN Transitions[k], NEW v \in Nat,
         NEW f \in Fields \cup {Blank}
  PROVE  /\ AbsentRow(k) \in Row /\ AbsentRow(k).kind = k
         /\ AbsentRow(k).status \in DOMAIN Transitions[k]
         /\ LiveRow(k, s, v, f) \in Row
<1>1. InitialStatus[k] \in State /\ s \in State
  BY GraphsClosed
<1> QED
  BY <1>1, GraphsClosed DEF AbsentRow, LiveRow, Row

\* Every call a client can make is well formed, and an update or transition names
\* a version within RunAhead of the stored one.
LEMMA CallsWellFormed ==
  ASSUME TypeOK, NEW who \in Callers, NEW rec \in Record, NEW call \in Calls(who, rec)
  PROVE  /\ call \in Call /\ call.record = rec
         /\ call.op \in {"update", "transition"} =>
              call.expected <= rows[rec].version + RunAhead
<1> DEFINE seen == 0 .. (rows[rec].version + RunAhead)
           any == InitialStatus[rows[rec].kind]
           targets == DOMAIN Transitions[rows[rec].kind]
<1> USE RecordCallersAssumption, RecordRunAheadAssumption
<1>1. rows[rec] \in Row
  BY DEF TypeOK
<1>2. any \in State /\ targets \subseteq State
  BY <1>1, GraphsClosed DEF Row
<1>3. \A v \in seen : v \in Nat /\ v <= rows[rec].version + RunAhead
  BY <1>1 DEF Row
<1>4. CASE \E f \in Fields \cup {Blank} : call = NewCall("create", who, rec, 0, any, f)
  BY <1>2, <1>4 DEF NewCall, Call
<1>5. CASE \E v \in seen, f \in Fields \cup {Blank} :
             call = NewCall("update", who, rec, v, any, f)
  BY <1>2, <1>3, <1>5 DEF NewCall, Call
<1>6. CASE \E v \in seen, t \in targets :
             call = NewCall("transition", who, rec, v, t, Blank)
  BY <1>2, <1>3, <1>6 DEF NewCall, Call
<1>7. CASE \E op \in {"delete", "get"} : call = NewCall(op, who, rec, 0, any, Blank)
  BY <1>2, <1>7 DEF NewCall, Call
<1> QED
  BY <1>4, <1>5, <1>6, <1>7 DEF Calls

\* The initial state satisfies the invariant.
LEMMA InitInv == Init => RecordInv
<1> SUFFICES ASSUME Init PROVE RecordInv
  OBVIOUS
<1>1. \A row \in StoredAtStart : row \in Row /\ row.status \in DOMAIN Transitions[row.kind]
  <2> SUFFICES ASSUME NEW row \in StoredAtStart
               PROVE  row \in Row /\ row.status \in DOMAIN Transitions[row.kind]
    OBVIOUS
  <2>1. CASE \E k \in Kind : row = AbsentRow(k)
    <3> PICK k \in Kind : row = AbsentRow(k)
      BY <2>1
    <3> InitialStatus[k] \in DOMAIN Transitions[k]
      BY GraphsClosed
    <3> QED
      BY RowsWellFormed DEF AbsentRow, Row
  <2>2. CASE row \in SeededRows /\ row.status \in SeededStatus[row.kind]
    <3>1. PICK k \in Kind, s \in State, f \in Fields : row = LiveRow(k, s, 1, f)
      BY <2>2 DEF SeededRows
    <3>2. row.kind = k /\ row.status = s
      BY <3>1 DEF LiveRow
    <3>3. s \in DOMAIN Transitions[k]
      BY <2>2, <3>2, GraphsClosed
    <3> QED
      BY <3>1, <3>2, <3>3, RowsWellFormed
  <2> QED
    BY <2>1, <2>2 DEF StoredAtStart
<1>2. "CaptureUnit" \in Kind /\ InitialStatus["CaptureUnit"] \in DOMAIN Transitions["CaptureUnit"]
  BY GraphsClosed DEF Kind
<1>3. AbsentRow("CaptureUnit") \in Row
  BY <1>2, RowsWellFormed
<1>4. TypeOK
  BY <1>1, <1>3 DEF Init, TypeOK
<1>5. Unopened
  <2> \A row \in StoredAtStart : row.phase = "absent" => row.version = 0
    BY DEF StoredAtStart, AbsentRow, SeededRows, LiveRow
  <2> QED
    BY DEF Init, Unopened
<1> QED
  BY <1>4, <1>5 DEF Init, RecordInv, TypedInv, Routed, RoutedAt, ExpectationsSeen, CopiesFresh

-----------------------------------------------------------------------------
(* Control: what every step of a request keeps.                            *)

\* Moving one request on keeps pc and answer typed and the others in place.
LEMMA ControlTyped ==
  ASSUME TypeOK, NEW r \in Request,
         \/ \E status \in Answer : Reply(r, status)
         \/ \E next \in Locus : Continue(r, next)
  PROVE  /\ pc' \in [Request -> Locus]
         /\ answer' \in [Request -> Answer]
         /\ \A s \in Request : s # r => pc'[s] = pc[s]
BY DEF TypeOK, Reply, Continue, Locus, Answer

\* If only request r moves and rows only become later ones, what Routed says of
\* the other requests still holds.
LEMMA OthersRouted ==
  ASSUME TypedInv, NEW r \in Request,
         \A s \in Request : s # r =>
           pc'[s] = pc[s] /\ input'[s] = input[s] /\ current'[s] = current[s],
         \A rec \in Record : Later(rows[rec], rows'[rec])
  PROVE  \A s \in Request : s # r => RoutedAt(s)'
<1> SUFFICES ASSUME NEW s \in Request, s # r, pc[s] = "writing"
             PROVE  current[s].kind = rows'[input[s].record].kind
  BY DEF TypedInv, Routed, RoutedAt, Changes
<1>1. input[s] \in Call
  BY DEF TypedInv, Routed, RoutedAt
<1>2. input[s].record \in Record
  BY <1>1 DEF Call
<1> QED
  BY <1>2 DEF TypedInv, Routed, RoutedAt, Later

\* The same for the versions: what the others know of a row stays true of it.
LEMMA OthersFresh ==
  ASSUME RecordInv, TypeOK', NEW r \in Request,
         \A s \in Request : s # r =>
           pc'[s] = pc[s] /\ input'[s] = input[s] /\ current'[s] = current[s],
         \A rec \in Record : Later(rows[rec], rows'[rec])
  PROVE  \A s \in Request : s # r =>
           /\ pc'[s] \in {"reading", "writing"} /\ Changes(s)' =>
                input'[s].expected <= rows'[input'[s].record].version
           /\ pc'[s] = "writing" /\ Changes(s)' =>
                LET row == rows'[input'[s].record]
                IN /\ input'[s].expected <= current'[s].version
                   /\ current'[s].version <= row.version
                   /\ row.phase = "live" /\ current'[s].version = row.version =>
                        current'[s] = row
<1> SUFFICES ASSUME NEW s \in Request, s # r, pc[s] \in {"reading", "writing"}, Changes(s)
             PROVE  /\ input[s].expected <= rows'[input[s].record].version
                    /\ pc[s] = "writing" =>
                         LET row == rows'[input[s].record]
                         IN /\ input[s].expected <= current[s].version
                            /\ current[s].version <= row.version
                            /\ row.phase = "live" /\ current[s].version = row.version =>
                                 current[s] = row
  BY DEF Changes
<1> USE DEF RecordInv, TypedInv
<1> DEFINE rec == input[s].record
<1>1. input[s] \in Call
  BY DEF Routed, RoutedAt
<1>2. rec \in Record /\ input[s].expected \in Nat
  BY <1>1 DEF Call
<1>3. /\ Later(rows[rec], rows'[rec])
      /\ rows[rec] \in Row /\ rows'[rec] \in Row /\ current[s] \in Row
  BY <1>2 DEF TypeOK
<1>4. /\ input[s].expected <= rows[rec].version
      /\ pc[s] = "writing" =>
           /\ input[s].expected <= current[s].version
           /\ current[s].version <= rows[rec].version
           /\ rows[rec].phase = "live" /\ current[s].version = rows[rec].version =>
                current[s] = rows[rec]
  BY DEF ExpectationsSeen, CopiesFresh
<1>5. input[s].expected <= rows'[rec].version
  BY <1>2, <1>3, <1>4 DEF Later, Row
<1>6. pc[s] = "writing" => current[s].version <= rows'[rec].version
  BY <1>3, <1>4 DEF Later, Row
<1>7. ASSUME pc[s] = "writing", rows'[rec].phase = "live",
             current[s].version = rows'[rec].version
      PROVE  current[s] = rows'[rec]
  <2>1. rows'[rec].version = rows[rec].version
    BY <1>3, <1>4, <1>7 DEF Later, Row
  <2>2. rows'[rec] = rows[rec]
    BY <1>3, <1>7, <2>1 DEF Later
  <2> QED
    BY <1>4, <1>7, <2>1, <2>2
<1> QED
  BY <1>4, <1>5, <1>6, <1>7

\* A request that is answered, audits or reloads owes Routed little more.
LEMMA SettledRouted ==
  ASSUME TypedInv, NEW r \in Request,
         \A s \in Request : s # r =>
           pc'[s] = pc[s] /\ input'[s] = input[s] /\ current'[s] = current[s],
         \A rec \in Record : Later(rows[rec], rows'[rec]),
         pc'[r] \in {"auditing", "reloading", "done", "lost"},
         input'[r] \in Call,
         pc'[r] = "auditing" => input'[r].op \in {"create", "update", "transition", "delete"}
  PROVE  Routed'
BY OthersRouted DEF Routed, RoutedAt, Changes

\* Nor does it owe anything to the versions.
LEMMA SettledFresh ==
  ASSUME RecordInv, TypedInv', NEW r \in Request,
         \A s \in Request : s # r =>
           pc'[s] = pc[s] /\ input'[s] = input[s] /\ current'[s] = current[s],
         \A rec \in Record : Later(rows[rec], rows'[rec]),
         pc'[r] \notin {"reading", "writing"}
  PROVE  RecordInv'
<1>1. ExpectationsSeen'
  BY OthersFresh DEF ExpectationsSeen, Changes, TypedInv
<1>2. CopiesFresh'
  BY OthersFresh DEF CopiesFresh, Changes, TypedInv
<1> QED
  BY <1>1, <1>2 DEF RecordInv

\* A row that does not change is a later state of itself.
LEMMA SameIsLater ==
  ASSUME TypeOK, UNCHANGED rows
  PROVE  \A rec \in Record : Later(rows[rec], rows'[rec])
BY DEF TypeOK, Row, Later

-----------------------------------------------------------------------------
(* The steps of a request.                                                 *)

\* What one write does when it changes the rows: it replaces the row it names.
Replaces(r, new) ==
  LET call == input[r]
      row == rows[call.record]
  IN /\ rows' = [rows EXCEPT ![call.record] = new]
     /\ \/ /\ call.op = "create" /\ row.phase = "absent"
           /\ new = LiveRow(current[r].kind, InitialStatus[current[r].kind], 1, call.fields)
        \/ /\ call.op = "update" /\ OptimisticLockHolds(row, call.expected)
           /\ new = LiveRow(current[r].kind, current[r].status, call.expected + 1, call.fields)
        \/ /\ call.op = "transition" /\ OptimisticLockHolds(row, call.expected)
           /\ new = LiveRow(current[r].kind, call.target, call.expected + 1, current[r].fields)
        \/ /\ call.op = "delete" /\ row.phase = "live"
           /\ new = [row EXCEPT !.phase = "deleted"]

\* A write leaves the rows alone or replaces the one it names.
LEMMA WriteReplaces ==
  ASSUME NEW r \in Request, Create(r) \/ Update(r) \/ Delete(r)
  PROVE  UNCHANGED rows \/ \E new : Replaces(r, new)
<1>1. CASE Create(r)
  BY <1>1 DEF Create, Replaces, Written
<1>2. CASE Update(r)
  BY <1>2 DEF Update, Replaces, Written
<1>3. CASE Delete(r)
  BY <1>3 DEF Delete, Replaces, SoftDeleted
<1> QED
  BY <1>1, <1>2, <1>3

\* The row a write stores is a row of the same kind, and a later state of the old.
LEMMA ReplacementTyped ==
  ASSUME TypedInv, NEW r \in Request, pc[r] = "writing", NEW new, Replaces(r, new)
  PROVE  /\ input[r] \in Call
         /\ new \in Row /\ new.phase # "absent"
         /\ new.status \in DOMAIN Transitions[new.kind]
         /\ Later(rows[input[r].record], new)
<1> DEFINE call == input[r]
           rec == call.record
           row == rows[rec]
           copy == current[r]
<1> USE DEF TypedInv
<1>1. call \in Call
  BY DEF Routed, RoutedAt
<1>2. rec \in Record /\ call.expected \in Nat /\ call.fields \in Fields \cup {Blank}
  BY <1>1 DEF Call
<1>3. /\ row \in Row /\ copy \in Row /\ row.kind \in Kind
      /\ row.status \in DOMAIN Transitions[row.kind]
      /\ copy.kind = row.kind
  BY <1>1, <1>2 DEF TypeOK, Routed, RoutedAt, Row
<1>4. CASE call.op = "create"
  <2>1. InitialStatus[row.kind] \in DOMAIN Transitions[row.kind]
    BY <1>3, GraphsClosed
  <2>2. new = LiveRow(row.kind, InitialStatus[row.kind], 1, call.fields)
        /\ row.phase = "absent"
    BY <1>3, <1>4 DEF Replaces
  <2>3. new \in Row
    BY <1>2, <1>3, <2>1, <2>2, RowsWellFormed
  <2>4. row.version = 0
    BY <1>2, <2>2 DEF Unopened
  <2> QED
    BY <1>1, <1>3, <2>1, <2>2, <2>3, <2>4 DEF LiveRow, Later
<1>5. CASE call.op = "update"
  <2>1. new = LiveRow(row.kind, copy.status, call.expected + 1, call.fields)
        /\ row.version = call.expected
    BY <1>3, <1>5 DEF Replaces, OptimisticLockHolds
  <2>2. copy.status \in DOMAIN Transitions[row.kind]
    BY <1>3, <1>5 DEF Routed, RoutedAt, Changes, Replaces
  <2>3. new \in Row
    BY <1>2, <1>3, <2>1, <2>2, RowsWellFormed
  <2> QED
    BY <1>1, <1>2, <1>3, <2>1, <2>2, <2>3 DEF LiveRow, Later
<1>6. CASE call.op = "transition"
  <2>1. new = LiveRow(row.kind, call.target, call.expected + 1, copy.fields)
        /\ row.version = call.expected
    BY <1>3, <1>6 DEF Replaces, OptimisticLockHolds
  <2>2. CanTransition(Transitions[row.kind], copy.status, call.target)
    BY <1>3, <1>6 DEF Routed, RoutedAt, Changes, Replaces, Refused
  <2>3. call.target \in DOMAIN Transitions[row.kind]
    BY <1>3, <2>2, TargetOfKind
  <2>4. copy.fields \in Fields \cup {Blank}
    BY <1>3 DEF Row
  <2>5. new \in Row
    BY <1>2, <1>3, <2>1, <2>3, <2>4, RowsWellFormed
  <2> QED
    BY <1>1, <1>2, <1>3, <2>1, <2>3, <2>5 DEF LiveRow, Later
<1>7. CASE call.op = "delete"
  <2>1. new = [row EXCEPT !.phase = "deleted"] /\ row.phase = "live"
    BY <1>7 DEF Replaces
  <2> QED
    BY <1>1, <1>3, <2>1 DEF Row, Later
<1> QED
  BY <1>4, <1>5, <1>6, <1>7 DEF Replaces

\* A write keeps the rows typed and each a later state of itself.
LEMMA WriteRows ==
  ASSUME TypedInv, NEW r \in Request, Create(r) \/ Update(r) \/ Delete(r)
  PROVE  /\ rows' \in [Record -> Row]
         /\ \A x \in Record : /\ rows'[x].status \in DOMAIN Transitions[rows'[x].kind]
                              /\ Later(rows[x], rows'[x])
         /\ Unopened'
<1>1. CASE UNCHANGED rows
  BY <1>1, SameIsLater DEF TypedInv, TypeOK, Unopened
<1>2. CASE \E new : Replaces(r, new)
  <2>1. PICK new : Replaces(r, new)
    BY <1>2
  <2>2. pc[r] = "writing"
    BY DEF Create, Update, Delete
  <2>3. /\ input[r].record \in Record /\ new \in Row /\ new.phase # "absent"
        /\ new.status \in DOMAIN Transitions[new.kind]
        /\ Later(rows[input[r].record], new)
    BY <2>1, <2>2, ReplacementTyped DEF Call
  <2>4. rows' = [rows EXCEPT ![input[r].record] = new]
    BY <2>1 DEF Replaces
  <2>5. \A x \in Record : Later(rows[x], rows[x])
    BY DEF TypedInv, TypeOK, Row, Later
  <2> QED
    BY <2>3, <2>4, <2>5 DEF TypedInv, TypeOK, Unopened
<1> QED
  BY <1>1, <1>2, WriteReplaces

\* The part of a write that is not about the rows.
LEMMA WriteControl ==
  ASSUME TypedInv, NEW r \in Request, Create(r) \/ Update(r) \/ Delete(r)
  PROVE  /\ pc[r] = "writing" /\ input[r].op \in {"create", "update", "transition", "delete"}
         /\ UNCHANGED <<auditLog, input>>
         /\ current' \in [Request -> Row]
         /\ \A s \in Request : s # r => current'[s] = current[s]
         /\ \/ \E status \in Answer : Reply(r, status)
            \/ Continue(r, "auditing")
<1>1. CASE Create(r)
  <2>1. rows'[input[r].record] \in Row
    <3> input[r].record \in Record
      BY <1>1 DEF TypedInv, Routed, RoutedAt, Create, Call
    <3> QED
      BY <1>1, WriteRows
  <2>2. UNCHANGED current \/ current' = [current EXCEPT ![r] = rows'[input[r].record]]
    <3> input[r].record \in Record /\ rows \in [Record -> Row]
      BY <1>1 DEF TypedInv, TypeOK, Routed, RoutedAt, Create, Call
    <3> QED
      BY <1>1 DEF Create
  <2> QED
    BY <1>1, <2>1, <2>2 DEF Create, Committed, Answer, TypedInv, TypeOK
<1>2. CASE Update(r)
  BY <1>2 DEF Update, Committed, Answer, TypedInv, TypeOK
<1>3. CASE Delete(r)
  BY <1>3 DEF Delete, Committed, Answer, TypedInv, TypeOK
<1> QED
  BY <1>1, <1>2, <1>3

\* Writes keep types and control.
LEMMA WriteTyped ==
  ASSUME TypedInv, NEW r \in Request, Create(r) \/ Update(r) \/ Delete(r)
  PROVE  /\ TypedInv' /\ pc'[r] \in {"auditing", "done"}
         /\ \A x \in Record : Later(rows[x], rows'[x])
         /\ \A s \in Request : s # r =>
              pc'[s] = pc[s] /\ input'[s] = input[s] /\ current'[s] = current[s]
<1>1. TypeOK
  BY DEF TypedInv
<1>2. pc' \in [Request -> Locus] /\ answer' \in [Request -> Answer]
      /\ \A s \in Request : s # r => pc'[s] = pc[s]
  <2> \/ \E status \in Answer : Reply(r, status)
      \/ \E next \in Locus : Continue(r, next)
    BY WriteControl DEF Locus
  <2> QED
    BY <1>1, ControlTyped
<1>3. TypeOK'
  BY <1>1, <1>2, WriteRows, WriteControl DEF TypeOK, Locus, Answer
<1>4. pc'[r] \in {"auditing", "done"}
  BY <1>1, WriteControl DEF TypeOK, Reply, Continue
<1>5. input'[r] \in Call /\ input'[r].op \in {"create", "update", "transition", "delete"}
  BY WriteControl DEF TypedInv, Routed, RoutedAt
<1>6. \A s \in Request : s # r =>
        pc'[s] = pc[s] /\ input'[s] = input[s] /\ current'[s] = current[s]
  BY <1>2, WriteControl
<1>7. \A x \in Record : Later(rows[x], rows'[x])
  BY WriteRows
<1>8. Routed'
  BY <1>4, <1>5, <1>6, <1>7, SettledRouted
<1> QED
  BY <1>3, <1>4, <1>6, <1>7, <1>8, WriteRows DEF TypedInv

\* An arriving call keeps types; binding and validation route it.
LEMMA ArriveTyped ==
  ASSUME TypedInv, NEW r \in Request, Arrive(r)
  PROVE  /\ TypedInv' /\ UNCHANGED rows
         /\ \A s \in Request : s # r =>
              pc'[s] = pc[s] /\ input'[s] = input[s] /\ current'[s] = current[s]
         /\ pc'[r] \in {"reading", "writing"} /\ Changes(r)' =>
              /\ pc'[r] = "reading"
              /\ input'[r].expected <= rows[input'[r].record].version + RunAhead
<1>0. TypeOK
  BY DEF TypedInv
<1>1a. PICK who \in Callers, rec \in Record : \E call \in Calls(who, rec) :
        /\ input' = [input EXCEPT ![r] = call]
        /\ current' = [current EXCEPT ![r] = AbsentRow(rows[rec].kind)]
        /\ \/ \E status \in {"forbidden", "invalid_request", "business_rule"} : Reply(r, status)
           \/ call.op = "create" /\ call.fields # Blank /\ Continue(r, "writing")
           \/ call.op \in {"update", "transition", "delete"} /\ Continue(r, "reading")
           \/ call.op = "get" /\ Continue(r, "reloading")
  BY DEF Arrive
<1>1. PICK call \in Calls(who, rec) :
        /\ input' = [input EXCEPT ![r] = call]
        /\ current' = [current EXCEPT ![r] = AbsentRow(rows[rec].kind)]
        /\ \/ \E status \in {"forbidden", "invalid_request", "business_rule"} : Reply(r, status)
           \/ call.op = "create" /\ call.fields # Blank /\ Continue(r, "writing")
           \/ call.op \in {"update", "transition", "delete"} /\ Continue(r, "reading")
           \/ call.op = "get" /\ Continue(r, "reloading")
  BY <1>1a
<1>2. /\ call \in Call /\ call.record = rec
      /\ call.op \in {"update", "transition"} => call.expected <= rows[rec].version + RunAhead
  BY <1>0, CallsWellFormed
<1>3. rows[rec].kind \in Kind
  BY <1>0 DEF TypeOK, Row
<1>4. AbsentRow(rows[rec].kind) \in Row /\ AbsentRow(rows[rec].kind).kind = rows[rec].kind
  <2> InitialStatus[rows[rec].kind] \in DOMAIN Transitions[rows[rec].kind]
    BY <1>3, GraphsClosed
  <2> QED
    BY <1>3, RowsWellFormed
<1>5. /\ input' \in [Request -> Call \cup {NoCall}] /\ input'[r] = call
      /\ current' \in [Request -> Row] /\ current'[r].kind = rows[rec].kind
      /\ \A s \in Request : s # r => input'[s] = input[s] /\ current'[s] = current[s]
  BY <1>0, <1>1, <1>2, <1>4 DEF TypeOK
<1>6. UNCHANGED <<rows, auditLog>>
  BY DEF Arrive
<1>7. /\ pc' \in [Request -> Locus] /\ answer' \in [Request -> Answer]
      /\ \A s \in Request : s # r => pc'[s] = pc[s]
  <2> \/ \E status \in Answer : Reply(r, status)
      \/ \E next \in Locus : Continue(r, next)
    BY <1>1 DEF Answer, Locus
  <2> QED
    BY <1>0, ControlTyped
<1>8. TypeOK'
  BY <1>0, <1>5, <1>6, <1>7 DEF TypeOK, Locus, Answer
<1>9. \/ pc'[r] = "done"
      \/ call.op = "create" /\ call.fields # Blank /\ pc'[r] = "writing"
      \/ call.op \in {"update", "transition", "delete"} /\ pc'[r] = "reading"
      \/ call.op = "get" /\ pc'[r] = "reloading"
  BY <1>0, <1>1 DEF TypeOK, Reply, Continue
<1>10. \A x \in Record : Later(rows[x], rows'[x])
  BY <1>0, <1>6, SameIsLater
<1>11. call.fields # Blank => call.fields \in Fields
  BY <1>2 DEF Call
<1>12. Routed'
  <2> SUFFICES ASSUME NEW s \in Request PROVE RoutedAt(s)'
    BY DEF Routed, RoutedAt
  <2>1. CASE s = r
    BY <1>2, <1>5, <1>6, <1>9, <1>11, <2>1 DEF RoutedAt, Changes
  <2>2. CASE s # r
    BY <1>5, <1>7, <1>10, <2>2, OthersRouted DEF RoutedAt
  <2> QED
    BY <2>1, <2>2
<1>13. Unopened'
  BY <1>6 DEF TypedInv, Unopened
<1> QED
  BY <1>2, <1>5, <1>6, <1>7, <1>8, <1>9, <1>12, <1>13 DEF TypedInv, Changes

\* Reading the row keeps types; a request goes on to write only an unrefused copy.
LEMMA LoadTyped ==
  ASSUME TypedInv, NEW r \in Request, Load(r)
  PROVE  /\ TypedInv' /\ UNCHANGED <<rows, input>>
         /\ \A s \in Request : s # r =>
              pc'[s] = pc[s] /\ input'[s] = input[s] /\ current'[s] = current[s]
         /\ pc[r] = "reading"
         /\ pc'[r] = "done" \/ (pc'[r] = "writing" /\ current'[r] = rows[input[r].record])
<1> DEFINE row == rows[input[r].record]
<1>0. TypeOK
  BY DEF TypedInv
<1>1. /\ pc[r] = "reading" /\ input[r] \in Call
      /\ input[r].op \in {"update", "transition", "delete"}
  BY DEF Load, TypedInv, Routed, RoutedAt
<1>2. row \in Row /\ row.status \in DOMAIN Transitions[row.kind]
  BY <1>0, <1>1 DEF TypeOK, Call
<1>3. \/ \E status \in {"not_found", "business_rule"} : Reply(r, status)
      \/ Continue(r, "writing") /\ current'[r] = row /\ ~Refused(input[r], row)
  BY <1>0 DEF Load, TypeOK
<1>4. /\ current' \in [Request -> Row]
      /\ \A s \in Request : s # r => current'[s] = current[s] /\ input'[s] = input[s]
      /\ UNCHANGED <<rows, auditLog, input>>
  BY <1>0, <1>2 DEF Load, TypeOK
<1>5. /\ pc' \in [Request -> Locus] /\ answer' \in [Request -> Answer]
      /\ \A s \in Request : s # r => pc'[s] = pc[s]
  <2> \/ \E status \in Answer : Reply(r, status)
      \/ \E next \in Locus : Continue(r, next)
    BY <1>3 DEF Answer, Locus
  <2> QED
    BY <1>0, ControlTyped
<1>6. TypeOK'
  BY <1>0, <1>4, <1>5 DEF TypeOK, Locus, Answer
<1>7. pc'[r] = "done" \/ (pc'[r] = "writing" /\ current'[r] = row /\ ~Refused(input[r], row))
  <2>1. CASE \E status \in {"not_found", "business_rule"} : Reply(r, status)
    <3>1. pc'[r] = "done"
      BY <1>0, <2>1 DEF TypeOK, Reply
    <3> QED
      BY <3>1
  <2>2. CASE Continue(r, "writing") /\ current'[r] = row /\ ~Refused(input[r], row)
    <3>1. pc'[r] = "writing"
      BY <1>0, <2>2 DEF TypeOK, Continue
    <3> QED
      BY <2>2, <3>1
  <2> QED
    BY <1>3, <2>1, <2>2
<1>8. \A x \in Record : Later(rows[x], rows'[x])
  BY <1>0, <1>4, SameIsLater
<1>9. Routed'
  <2> SUFFICES ASSUME NEW s \in Request PROVE RoutedAt(s)'
    BY DEF Routed, RoutedAt
  <2>1. CASE s = r
    BY <1>1, <1>2, <1>4, <1>7, <2>1 DEF RoutedAt, Changes
  <2>2. CASE s # r
    BY <1>4, <1>5, <1>8, <2>2, OthersRouted DEF RoutedAt
  <2> QED
    BY <2>1, <2>2
<1>10. Unopened'
  BY <1>4 DEF TypedInv, Unopened
<1> QED
  BY <1>1, <1>4, <1>5, <1>6, <1>7, <1>9, <1>10 DEF TypedInv

\* The audit row of a handler about to audit is well formed.
LEMMA AuditRowTyped ==
  ASSUME TypedInv, NEW r \in Request, pc[r] = "auditing"
  PROVE  AuditRow(r, input[r], current[r]) \in AuditLog
<1>1. input[r] \in Call /\ input[r].op \in {"create", "update", "transition", "delete"}
  BY DEF TypedInv, Routed, RoutedAt
<1>2. current[r] \in Row
  BY DEF TypedInv, TypeOK
<1>3. InitialStatus[current[r].kind] \in State /\ current[r].status \in State
  BY <1>2, GraphsClosed DEF Row
<1> QED
  BY <1>1, <1>2, <1>3 DEF AuditRow, AuditLog, Call

\* Auditing, reloading and failing keep types.
LEMMA EndTyped ==
  ASSUME TypedInv, NEW r \in Request, Audit(r) \/ Reload(r) \/ DatabaseFails(r)
  PROVE  /\ TypedInv' /\ UNCHANGED rows /\ pc'[r] \in {"reloading", "done"}
         /\ \A s \in Request : s # r =>
              pc'[s] = pc[s] /\ input'[s] = input[s] /\ current'[s] = current[s]
<1>0. TypeOK
  BY DEF TypedInv
<1>1. input[r] \in Call
  BY DEF Audit, Reload, DatabaseFails, TypedInv, Routed, RoutedAt
<1>2. /\ UNCHANGED <<rows, input>>
      /\ \/ \E status \in {"ok", "not_found", "internal_error"} : Reply(r, status)
         \/ Continue(r, "reloading")
  BY DEF Audit, Reload, DatabaseFails, Audited, AfterAudit
<1>3. /\ current' \in [Request -> Row]
      /\ \A s \in Request : s # r => current'[s] = current[s]
  <2> rows[input[r].record] \in Row
    BY <1>0, <1>1 DEF TypeOK, Call
  <2> QED
    BY <1>0 DEF Audit, Reload, DatabaseFails, TypeOK
<1>4. auditLog' \subseteq AuditLog
  <2>1. CASE Audit(r)
    BY <1>0, <2>1, AuditRowTyped DEF Audit, TypeOK
  <2>2. CASE Reload(r) \/ DatabaseFails(r)
    BY <1>0, <2>2 DEF Reload, DatabaseFails, TypeOK
  <2> QED
    BY <2>1, <2>2
<1>5. /\ pc' \in [Request -> Locus] /\ answer' \in [Request -> Answer]
      /\ \A s \in Request : s # r => pc'[s] = pc[s]
  <2> \/ \E status \in Answer : Reply(r, status)
      \/ \E next \in Locus : Continue(r, next)
    BY <1>2 DEF Answer, Locus
  <2> QED
    BY <1>0, ControlTyped
<1>6. TypeOK'
  BY <1>0, <1>2, <1>3, <1>4, <1>5 DEF TypeOK, Locus, Answer
<1>7. pc'[r] \in {"reloading", "done"}
  BY <1>0, <1>2 DEF TypeOK, Reply, Continue
<1>8. Routed'
  <2> \A x \in Record : Later(rows[x], rows'[x])
    BY <1>0, <1>2, SameIsLater
  <2> QED
    BY <1>1, <1>2, <1>3, <1>5, <1>7, SettledRouted
<1>9. Unopened'
  BY <1>2 DEF TypedInv, Unopened
<1> QED
  BY <1>2, <1>3, <1>5, <1>6, <1>7, <1>8, <1>9 DEF TypedInv

\* A crash loses the requests in flight and nothing else.
LEMMA CrashTyped ==
  ASSUME TypedInv, Crash
  PROVE  TypedInv'
<1>1. /\ UNCHANGED <<rows, auditLog, input, current, answer>>
      /\ \A s \in Request : pc'[s] = pc[s] \/ (pc'[s] = "lost" /\ pc[s] # "idle")
      /\ pc' \in [Request -> Locus]
  <2>1. pc \in [Request -> Locus]
    BY DEF TypedInv, TypeOK, Locus
  <2>2. pc' = [s \in Request |-> IF InFlight(s) THEN "lost" ELSE pc[s]]
    BY DEF Crash
  <2>3. \A s \in Request : InFlight(s) => pc[s] # "idle"
    BY DEF InFlight
  <2>4. pc' \in [Request -> Locus]
    BY <2>1, <2>2 DEF Locus
  <2>5. \A s \in Request : pc'[s] = pc[s] \/ (pc'[s] = "lost" /\ pc[s] # "idle")
    BY <2>2, <2>3
  <2> QED
    BY <2>4, <2>5 DEF Crash
<1>2. TypeOK'
  BY <1>1 DEF TypedInv, TypeOK, Locus
<1>3. Routed'
  BY <1>1 DEF TypedInv, Routed, RoutedAt, Changes
<1> QED
  BY <1>1, <1>2, <1>3 DEF TypedInv, Unopened

-----------------------------------------------------------------------------
(* The invariants.                                                         *)

\* A step is a crash, a call arriving, a write, or one of the other statements.
LEMMA NextCases ==
  ASSUME Next
  PROVE  Crash \/ \E r \in Request :
           \/ Arrive(r) \/ Load(r)
           \/ Create(r) \/ Update(r) \/ Delete(r)
           \/ Audit(r) \/ Reload(r) \/ DatabaseFails(r)
BY DEF Next, CaptureUnitService, PermitRuleService, EmissionSampleService, Serving, Handle

\* Types and control are kept by every step, whatever versions clients name.
LEMMA TypedStep == TypedInv /\ [Next]_vars => TypedInv'
<1> SUFFICES ASSUME TypedInv, [Next]_vars PROVE TypedInv'
  OBVIOUS
<1>1. CASE UNCHANGED vars
  BY <1>1 DEF vars, TypedInv, TypeOK, Routed, RoutedAt, Changes, Unopened
<1>2. CASE Crash
  BY <1>2, CrashTyped
<1>3. ASSUME NEW r \in Request,
             \/ Arrive(r) \/ Load(r)
             \/ Create(r) \/ Update(r) \/ Delete(r)
             \/ Audit(r) \/ Reload(r) \/ DatabaseFails(r)
      PROVE  TypedInv'
  BY <1>3, ArriveTyped, LoadTyped, WriteTyped, EndTyped
<1> QED
  BY <1>1, <1>2, <1>3, NextCases

\* Clients that name only versions they have seen keep every copy fresh.
LEMMA FreshStep == RunAhead = 0 /\ RecordInv /\ [Next]_vars => RecordInv'
<1> SUFFICES ASSUME RunAhead = 0, RecordInv, [Next]_vars PROVE RecordInv'
  OBVIOUS
<1>1. TypedInv /\ TypeOK /\ TypedInv' /\ TypeOK'
  BY TypedStep DEF RecordInv, TypedInv
<1>2. CASE UNCHANGED vars
  BY <1>1, <1>2 DEF vars, RecordInv, ExpectationsSeen, CopiesFresh, Changes
<1>3. CASE Crash
  <2>1. /\ UNCHANGED <<rows, input, current>>
        /\ \A s \in Request : pc'[s] \in {"reading", "writing"} => pc'[s] = pc[s]
    BY <1>3 DEF Crash
  <2> QED
    BY <1>1, <2>1 DEF RecordInv, ExpectationsSeen, CopiesFresh, Changes
<1>4. ASSUME NEW r \in Request, Arrive(r)
      PROVE  RecordInv'
  <2>1. /\ UNCHANGED rows
        /\ \A s \in Request : s # r =>
             pc'[s] = pc[s] /\ input'[s] = input[s] /\ current'[s] = current[s]
        /\ pc'[r] \in {"reading", "writing"} /\ Changes(r)' =>
             /\ pc'[r] = "reading"
             /\ input'[r].expected <= rows[input'[r].record].version + RunAhead
    BY <1>1, <1>4, ArriveTyped
  <2>2. \A x \in Record : Later(rows[x], rows'[x])
    BY <1>1, <2>1, SameIsLater
  <2>3. pc'[r] \in {"reading", "writing"} /\ Changes(r)' =>
          pc'[r] = "reading" /\ input'[r].expected <= rows'[input'[r].record].version
    <3> SUFFICES ASSUME pc'[r] \in {"reading", "writing"}, Changes(r)'
                 PROVE  pc'[r] = "reading"
                        /\ input'[r].expected <= rows'[input'[r].record].version
      OBVIOUS
    <3>1. input'[r] \in Call
      BY <1>1 DEF TypedInv, Routed, RoutedAt
    <3>2. input'[r].record \in Record
      BY <3>1 DEF Call
    <3>3. rows[input'[r].record].version \in Nat
      BY <1>1, <3>2 DEF TypeOK, Row
    <3>4. rows[input'[r].record].version + RunAhead = rows[input'[r].record].version
      BY <3>3
    <3> QED
      BY <2>1, <3>4
  <2>4. ExpectationsSeen'
    BY <1>1, <2>1, <2>2, <2>3, OthersFresh DEF ExpectationsSeen, Changes
  <2>5. CopiesFresh'
    BY <1>1, <2>1, <2>2, <2>3, OthersFresh DEF CopiesFresh, Changes
  <2> QED
    BY <1>1, <2>4, <2>5 DEF RecordInv
<1>5. ASSUME NEW r \in Request, Load(r)
      PROVE  RecordInv'
  <2>1. /\ UNCHANGED <<rows, input>>
        /\ \A s \in Request : s # r =>
             pc'[s] = pc[s] /\ input'[s] = input[s] /\ current'[s] = current[s]
        /\ pc[r] = "reading"
        /\ pc'[r] = "done" \/ (pc'[r] = "writing" /\ current'[r] = rows[input[r].record])
    BY <1>1, <1>5, LoadTyped
  <2>2. \A x \in Record : Later(rows[x], rows'[x])
    BY <1>1, <2>1, SameIsLater
  <2>3. Changes(r) => /\ input[r].expected <= rows[input[r].record].version
                      /\ rows[input[r].record].version \in Nat
    <3>1. input[r] \in Call
      BY <1>1, <2>1 DEF TypedInv, Routed, RoutedAt
    <3>2. input[r].record \in Record
      BY <3>1 DEF Call
    <3> QED
      BY <1>1, <2>1, <3>2 DEF RecordInv, ExpectationsSeen, TypeOK, Row
  <2>4. ExpectationsSeen'
    BY <1>1, <2>1, <2>2, <2>3, OthersFresh DEF ExpectationsSeen, Changes
  <2>5. CopiesFresh'
    BY <1>1, <2>1, <2>2, <2>3, OthersFresh DEF CopiesFresh, Changes
  <2> QED
    BY <1>1, <2>4, <2>5 DEF RecordInv
<1>6. ASSUME NEW r \in Request, Create(r) \/ Update(r) \/ Delete(r)
      PROVE  RecordInv'
  BY <1>1, <1>6, WriteTyped, SettledFresh
<1>7. ASSUME NEW r \in Request, Audit(r) \/ Reload(r) \/ DatabaseFails(r)
      PROVE  RecordInv'
  BY <1>1, <1>7, EndTyped, SameIsLater, SettledFresh
<1> QED
  BY <1>2, <1>3, <1>4, <1>5, <1>6, <1>7, NextCases

\* Types and what a handler has established hold of any clients.
LEMMA TypedInvHolds == Spec => []TypedInv
<1>1. Init => TypedInv
  BY InitInv DEF RecordInv
<1> QED
  BY <1>1, TypedStep, PTL DEF Spec

\* Type correctness of the records service, whatever versions clients name.
THEOREM RecordsTypeCorrect == Spec => []TypeOK
<1>1. TypedInv => TypeOK
  BY DEF TypedInv
<1> QED
  BY <1>1, TypedInvHolds, PTL

\* The invariant holds of clients that name only versions they have seen.
LEMMA RecordInvHolds == ASSUME RunAhead = 0 PROVE Spec => []RecordInv
<1>1. RecordInv /\ [Next]_vars => RecordInv'
  BY FreshStep
<1> QED
  BY <1>1, InitInv, PTL DEF Spec

-----------------------------------------------------------------------------
(* No stale copy is written, and the service does what it promises.        *)

\* When the optimistic lock lets an update or transition write, the copy it
\* checked is the row it replaces.
LEMMA LockMeansFresh ==
  ASSUME RecordInv, NEW r \in Request, pc[r] = "writing", Changes(r),
         OptimisticLockHolds(rows[input[r].record], input[r].expected)
  PROVE  current[r] = rows[input[r].record]
<1>1. input[r] \in Call
  BY DEF RecordInv, TypedInv, Routed, RoutedAt
<1>2. input[r].record \in Record /\ input[r].expected \in Nat
  BY <1>1 DEF Call
<1>3. current[r].version \in Nat /\ rows[input[r].record].version \in Nat
  BY <1>2 DEF RecordInv, TypedInv, TypeOK, Row
<1>4. current[r].version = rows[input[r].record].version
  BY <1>2, <1>3 DEF RecordInv, CopiesFresh, OptimisticLockHolds
<1> QED
  BY <1>4 DEF RecordInv, CopiesFresh, OptimisticLockHolds

\* The two modules share the definitions of rows and graphs.
LEMMA SharedDefinitions ==
  /\ Service!StoredAtStart = StoredAtStart
  /\ Service!State = State
  /\ Service!Transitions = Transitions
  /\ Service!InitialStatus = InitialStatus
  /\ \A k, s, v, f : Service!LiveRow(k, s, v, f) = LiveRow(k, s, v, f)
  /\ \A g, s, t : CanTransition(g, s, t) => Service!CanTransition(g, s, t)
<1>1. /\ Service!State = State
      /\ Service!Transitions = Transitions
      /\ Service!InitialStatus = InitialStatus
      /\ Service!SeededStatus = SeededStatus
      /\ Service!Kind = Kind
      /\ \A k, s, v, f : Service!LiveRow(k, s, v, f) = LiveRow(k, s, v, f)
  BY DEF Service!State, State, Service!UnitState, UnitState, Service!RuleState, RuleState,
         Service!SampleState, SampleState, Service!Transitions, Transitions,
         Service!CaptureUnitTransitions, CaptureUnitTransitions,
         Service!PermitRuleTransitions, PermitRuleTransitions,
         Service!EmissionSampleTransitions, EmissionSampleTransitions,
         Service!InitialStatus, InitialStatus, Service!SeededStatus, SeededStatus,
         Service!Kind, Kind, Service!LiveRow, LiveRow
<1>2. \A k : Service!AbsentRow(k) = AbsentRow(k)
  BY <1>1 DEF Service!AbsentRow, AbsentRow
<1>3. Service!SeededRows = SeededRows
  BY <1>1 DEF Service!SeededRows, SeededRows
<1>4. Service!StoredAtStart = StoredAtStart
  BY <1>1, <1>2, <1>3 DEF Service!StoredAtStart, StoredAtStart
<1>5. \A g, s, t : CanTransition(g, s, t) => Service!CanTransition(g, s, t)
  BY DEF Service!CanTransition, CanTransition
<1> QED
  BY <1>1, <1>4, <1>5

\* A row that RecordService replaces is replaced as one of its steps does.
LEMMA ReplacementRefines ==
  ASSUME RecordInv, NEW r \in Request, pc[r] = "writing", NEW new, Replaces(r, new)
  PROVE  Service!Next
<1> DEFINE call == input[r]
           rec == call.record
           row == rows[rec]
<1>1. call \in Call
  BY DEF RecordInv, TypedInv, Routed, RoutedAt
<1>2. /\ rec \in Record /\ call.expected \in Nat /\ call.target \in State
      /\ call.fields \in Fields \cup {Blank}
  BY <1>1 DEF Call
<1>3. /\ rows \in [Record -> Row] /\ row \in Row /\ current[r].kind = row.kind
      /\ rows' = [rows EXCEPT ![rec] = new]
  BY <1>2 DEF RecordInv, TypedInv, TypeOK, Routed, RoutedAt, Replaces
<1>4. CASE call.op = "create"
  <2>1. call.fields \in Fields
    BY <1>4 DEF RecordInv, TypedInv, Routed, RoutedAt
  <2>2. row.phase = "absent" /\ new = LiveRow(row.kind, InitialStatus[row.kind], 1, call.fields)
    BY <1>3, <1>4 DEF Replaces
  <2>3. Service!Open(rec, call.fields)
    BY <1>3, <2>2, SharedDefinitions DEF Service!Open, Service!Replace
  <2> QED
    BY <1>2, <2>1, <2>3 DEF Service!Next
<1>5. CASE call.op = "update"
  <2>1. /\ OptimisticLockHolds(row, call.expected)
        /\ new = LiveRow(current[r].kind, current[r].status, call.expected + 1, call.fields)
    BY <1>5 DEF Replaces
  <2>2. current[r] = row
    BY <1>5, <2>1, LockMeansFresh DEF Changes
  <2>3. row.phase = "live" /\ row.version = call.expected
    BY <2>1 DEF OptimisticLockHolds
  <2>4. new = LiveRow(row.kind, row.status, row.version + 1, call.fields)
    BY <2>1, <2>2, <2>3
  <2>5. call.fields \in Fields
    BY <1>2, <1>5 DEF RecordInv, TypedInv, Routed, RoutedAt, Changes, Refused
  <2>6. Service!Amend(rec, call.fields)
    BY <1>3, <2>3, <2>4, SharedDefinitions DEF Service!Amend, Service!Live, Service!Replace
  <2> QED
    BY <1>2, <2>5, <2>6 DEF Service!Next
<1>6. CASE call.op = "transition"
  <2>1. /\ OptimisticLockHolds(row, call.expected)
        /\ new = LiveRow(current[r].kind, call.target, call.expected + 1, current[r].fields)
    BY <1>6 DEF Replaces
  <2>2. current[r] = row
    BY <1>6, <2>1, LockMeansFresh DEF Changes
  <2>3. row.phase = "live" /\ row.version = call.expected
    BY <2>1 DEF OptimisticLockHolds
  <2>4. new = LiveRow(row.kind, call.target, row.version + 1, row.fields)
    BY <2>1, <2>2, <2>3
  <2>5. CanTransition(Transitions[row.kind], row.status, call.target)
    BY <1>6, <2>2 DEF RecordInv, TypedInv, Routed, RoutedAt, Changes, Refused
  <2>6. Service!Move(rec, call.target)
    BY <1>3, <2>3, <2>4, <2>5, SharedDefinitions DEF Service!Move, Service!Live, Service!Replace
  <2> QED
    BY <1>2, <2>6, SharedDefinitions DEF Service!Next
<1>7. CASE call.op = "delete"
  <2>1. row.phase = "live" /\ new = [row EXCEPT !.phase = "deleted"]
    BY <1>7 DEF Replaces
  <2>2. Service!Withdraw(rec)
    <3>1. rows' = [rows EXCEPT ![rec].phase = "deleted"]
      BY <1>2, <1>3, <2>1
    <3> QED
      BY <2>1, <3>1 DEF Service!Withdraw, Service!Live
  <2> QED
    BY <1>2, <2>2 DEF Service!Next
<1> QED
  BY <1>4, <1>5, <1>6, <1>7 DEF Replaces

\* Every step of the service is a step of RecordService or changes no row.
LEMMA StepRefines == RecordInv /\ [Next]_vars => [Service!Next]_rows
<1> SUFFICES ASSUME RecordInv, [Next]_vars PROVE Service!Next \/ UNCHANGED rows
  OBVIOUS
<1>1. CASE UNCHANGED vars \/ Crash
  BY <1>1 DEF vars, Crash
<1>2. ASSUME NEW r \in Request,
             Arrive(r) \/ Load(r) \/ Audit(r) \/ Reload(r) \/ DatabaseFails(r)
      PROVE  UNCHANGED rows
  BY <1>2 DEF Arrive, Load, Audit, Reload, DatabaseFails
<1>3. ASSUME NEW r \in Request, Create(r) \/ Update(r) \/ Delete(r)
      PROVE  Service!Next \/ UNCHANGED rows
  <2>1. pc[r] = "writing"
    BY <1>3 DEF Create, Update, Delete
  <2> QED
    BY <1>3, <2>1, WriteReplaces, ReplacementRefines
<1> QED
  BY <1>1, <1>2, <1>3, NextCases

\* The records service implements RecordService when clients name only versions
\* they have seen.
THEOREM RecordsImplementService ==
  ASSUME RunAhead = 0 PROVE Spec => ImplementsRecordService
<1>1. Init => Service!Init
  BY SharedDefinitions DEF Init, Service!Init
<1> QED
  BY <1>1, RecordInvHolds, StepRefines, PTL DEF Spec, ImplementsRecordService, Service!Spec

\* No update is lost: an update or transition replaces only the row it has read.
THEOREM NoRecordUpdateLost ==
  ASSUME RunAhead = 0 PROVE Spec => NoStaleCopyWritten
<1> DEFINE Fresh(r) == pc[r] = "writing" /\ Changes(r) /\ rows' # rows /\ pc'[r] # "writing"
                         => current[r] = rows[input[r].record]
<1>1. RecordInv /\ [Next]_vars => [\A r \in Request : Fresh(r)]_vars
  <2> SUFFICES ASSUME RecordInv, Next, NEW r \in Request,
                      pc[r] = "writing", Changes(r), rows' # rows, pc'[r] # "writing"
               PROVE  current[r] = rows[input[r].record]
    OBVIOUS
  <2>1. PICK s \in Request : Create(s) \/ Update(s) \/ Delete(s)
    BY NextCases DEF Crash, Arrive, Load, Audit, Reload, DatabaseFails
  <2>2. s = r
    BY <2>1, WriteTyped DEF RecordInv
  <2>3. Update(r)
    BY <2>1, <2>2 DEF Create, Delete, Changes
  <2>4. OptimisticLockHolds(rows[input[r].record], input[r].expected)
    BY <2>3 DEF Update
  <2> QED
    BY <2>4, LockMeansFresh
<1> QED
  BY <1>1, RecordInvHolds, PTL DEF Spec, NoStaleCopyWritten

-----------------------------------------------------------------------------
(* What a client may conclude from its reply.                               *)

\* What every step makes of a row: a later state of it, never unused again, and
\* nothing any more once it is deleted.
Advanced(row, next) ==
  /\ Later(row, next)
  /\ row.phase # "absent" => next.phase # "absent"
  /\ row.phase = "deleted" => next = row

RowsAdvanced == \A rec \in Record : Advanced(rows[rec], rows'[rec])

\* A write replaces only a row that is live, or one whose code was never used.
LEMMA WriteAdvances ==
  ASSUME TypedInv, NEW r \in Request, Create(r) \/ Update(r) \/ Delete(r)
  PROVE  RowsAdvanced
<1>1. \A rec \in Record : Later(rows[rec], rows'[rec])
  BY WriteRows
<1>2. CASE UNCHANGED rows
  BY <1>1, <1>2 DEF RowsAdvanced, Advanced
<1>3. CASE \E new : Replaces(r, new)
  <2>1. PICK new : Replaces(r, new)
    BY <1>3
  <2>2. pc[r] = "writing"
    BY DEF Create, Update, Delete
  <2>3. new.phase # "absent" /\ input[r] \in Call
    BY <2>1, <2>2, ReplacementTyped
  <2>4. input[r].record \in Record /\ rows \in [Record -> Row]
    BY <2>3 DEF Call, TypedInv, TypeOK
  <2>5. rows' = [rows EXCEPT ![input[r].record] = new]
        /\ rows[input[r].record].phase # "deleted"
    BY <2>1 DEF Replaces, OptimisticLockHolds
  <2> QED
    BY <1>1, <2>3, <2>4, <2>5 DEF RowsAdvanced, Advanced
<1> QED
  BY <1>2, <1>3, WriteReplaces

\* A step that leaves the rows alone advances them trivially.
LEMMA SameAdvances ==
  ASSUME TypeOK, UNCHANGED rows
  PROVE  RowsAdvanced
BY SameIsLater DEF RowsAdvanced, Advanced

\* What a request that does not move knows of its row stays true of it.
LEMMA OthersReplied ==
  ASSUME TypedInv, TypeOK', Replied, RowsAdvanced, auditLog \subseteq auditLog',
         NEW s \in Request,
         pc'[s] = pc[s], input'[s] = input[s], current'[s] = current[s], answer'[s] = answer[s]
  PROVE  RepliedAt(s)'
<1> DEFINE rec == input[s].record
<1>1. CASE pc[s] = "idle"
  BY <1>1 DEF RepliedAt, Answered
<1>2. CASE pc[s] # "idle"
  <2>1. input[s] \in Call
    BY <1>2 DEF TypedInv, Routed, RoutedAt
  <2>2. rec \in Record /\ input[s].expected \in Nat
    BY <2>1 DEF Call
  <2>3. /\ rows[rec] \in Row /\ rows'[rec] \in Row
        /\ rows[rec].version \in Nat /\ rows'[rec].version \in Nat
    BY <2>2 DEF TypedInv, TypeOK, Row
  <2>4. /\ rows[rec].version <= rows'[rec].version
        /\ rows'[rec].phase = "live" /\ rows'[rec].version = rows[rec].version =>
             rows'[rec] = rows[rec]
        /\ rows[rec].phase # "absent" => rows'[rec].phase # "absent"
        /\ rows[rec].phase = "deleted" => rows'[rec] = rows[rec]
    BY <2>2 DEF RowsAdvanced, Advanced, Later
  <2>5. RepliedAt(s)
    BY DEF Replied
  <2>6. Changes(s)' <=> Changes(s)
    BY DEF Changes
  <2>7. \A status : Answered(s, status)' <=> Answered(s, status)
    BY DEF Answered
  <2>8. Traced(s) => Traced(s)'
    BY DEF Traced
  <2>9. \A row : ShowsChange(s, row)' <=> ShowsChange(s, row)
    BY DEF ShowsChange
  <2>10. ASSUME rows[rec].version > input[s].expected
         PROVE  rows'[rec].version > input[s].expected
    BY <2>2, <2>3, <2>4, <2>10
  <2>11. ASSUME rows[rec].version > input[s].expected, rows'[rec].phase = "live",
                rows'[rec].version = input[s].expected + 1
         PROVE  rows'[rec] = rows[rec]
    BY <2>2, <2>3, <2>4, <2>11
  <2> QED
    BY <2>4, <2>5, <2>6, <2>7, <2>8, <2>9, <2>10, <2>11 DEF RepliedAt, ShowsChange
<1> QED
  BY <1>1, <1>2

\* A step of one request that leaves Replied to be shown for that request only.
LEMMA OneReplies ==
  ASSUME TypedInv, TypeOK', Replied, RowsAdvanced, auditLog \subseteq auditLog',
         NEW r \in Request, RepliedAt(r)',
         \A s \in Request : s # r =>
           /\ pc'[s] = pc[s] /\ input'[s] = input[s]
           /\ current'[s] = current[s] /\ answer'[s] = answer[s]
  PROVE  Replied'
BY OthersReplied DEF Replied

\* What Reply and Continue make of pc and answer.
LEMMA Moves ==
  ASSUME TypeOK, NEW r \in Request
  PROVE  /\ \A status : Reply(r, status) => pc'[r] = "done" /\ answer'[r] = status
         /\ \A next : Continue(r, next) => pc'[r] = next /\ answer' = answer
         /\ \A status, next : Reply(r, status) \/ Continue(r, next) =>
              \A s \in Request : s # r => pc'[s] = pc[s] /\ answer'[s] = answer[s]
BY DEF TypeOK, Reply, Continue

\* A call that arrives is at most read next, or created.
LEMMA ArriveReplied ==
  ASSUME TypedInv, TypedInv', Replied, NEW r \in Request, Arrive(r)
  PROVE  Replied'
<1>1. TypeOK /\ TypeOK'
  BY DEF TypedInv
<1>2. /\ UNCHANGED <<rows, auditLog>>
      /\ \/ \E status \in {"forbidden", "invalid_request", "business_rule"} : Reply(r, status)
         \/ Continue(r, "writing") \/ Continue(r, "reading") \/ Continue(r, "reloading")
  BY DEF Arrive
<1>3. /\ pc'[r] = "writing" => ~Changes(r)'
      /\ pc'[r] = "reloading" => input'[r].op \notin {"update", "transition", "delete"}
  <2>1. PICK who \in Callers, rec \in Record : \E call \in Calls(who, rec) :
          /\ input' = [input EXCEPT ![r] = call]
          /\ \/ \E status \in {"forbidden", "invalid_request", "business_rule"} :
                  Reply(r, status)
             \/ call.op = "create" /\ Continue(r, "writing")
             \/ Continue(r, "reading")
             \/ call.op = "get" /\ Continue(r, "reloading")
    BY DEF Arrive
  <2>2. PICK call \in Calls(who, rec) :
          /\ input' = [input EXCEPT ![r] = call]
          /\ \/ \E status \in {"forbidden", "invalid_request", "business_rule"} :
                  Reply(r, status)
             \/ call.op = "create" /\ Continue(r, "writing")
             \/ Continue(r, "reading")
             \/ call.op = "get" /\ Continue(r, "reloading")
    BY <2>1
  <2>3. input'[r] = call
    BY <1>1, <2>2 DEF TypeOK
  <2> QED
    BY <1>1, <2>2, <2>3, Moves DEF Changes
<1>4. /\ pc'[r] \in {"writing", "reading", "reloading", "done"}
      /\ pc'[r] = "done" => answer'[r] \in {"forbidden", "invalid_request", "business_rule"}
  BY <1>1, <1>2, Moves
<1>5. RepliedAt(r)'
  BY <1>3, <1>4 DEF RepliedAt, Answered, Changes
<1>6. \A s \in Request : s # r =>
        /\ pc'[s] = pc[s] /\ input'[s] = input[s]
        /\ current'[s] = current[s] /\ answer'[s] = answer[s]
  <2>1. \A s \in Request : s # r =>
          pc'[s] = pc[s] /\ input'[s] = input[s] /\ current'[s] = current[s]
    BY <1>1, ArriveTyped
  <2> QED
    BY <1>1, <1>2, <2>1, Moves
<1> QED
  BY <1>1, <1>2, <1>5, <1>6, SameAdvances, OneReplies

\* Only a live row is read for a change.
LEMMA LoadReplied ==
  ASSUME TypedInv, TypedInv', Replied, NEW r \in Request, Load(r)
  PROVE  Replied'
<1>1. TypeOK /\ TypeOK'
  BY DEF TypedInv
<1>2. /\ UNCHANGED <<rows, auditLog, input>>
      /\ \/ \E status \in {"not_found", "business_rule"} : Reply(r, status)
         \/ rows[input[r].record].phase = "live" /\ Continue(r, "writing")
  BY DEF Load
<1>3. RepliedAt(r)'
  <2>1. \/ pc'[r] = "done" /\ answer'[r] \in {"not_found", "business_rule"}
        \/ pc'[r] = "writing" /\ rows[input[r].record].phase = "live"
    BY <1>1, <1>2, Moves
  <2> QED
    BY <1>2, <2>1 DEF RepliedAt, Answered, Changes
<1>4. \A s \in Request : s # r =>
        /\ pc'[s] = pc[s] /\ input'[s] = input[s]
        /\ current'[s] = current[s] /\ answer'[s] = answer[s]
  <2>1. \A s \in Request : s # r =>
          pc'[s] = pc[s] /\ input'[s] = input[s] /\ current'[s] = current[s]
    BY <1>1, LoadTyped
  <2> QED
    BY <1>1, <1>2, <2>1, Moves
<1> QED
  BY <1>1, <1>2, <1>3, <1>4, SameAdvances, OneReplies

\* A commit leaves the change in the row.
LEMMA UpdateReplied ==
  ASSUME TypedInv, TypedInv', Replied, NEW r \in Request, Update(r)
  PROVE  RepliedAt(r)'
<1> DEFINE call == input[r]
           rec == call.record
<1>1. TypeOK /\ TypeOK'
  BY DEF TypedInv
<1>2. /\ pc[r] = "writing" /\ call.op \in {"update", "transition"} /\ Changes(r)
      /\ UNCHANGED <<auditLog, input, current>>
  BY DEF Update, Changes
<1>3. call \in Call
  BY <1>1, <1>2 DEF TypedInv, Routed, RoutedAt
<1>4. rec \in Record /\ call.expected \in Nat
  BY <1>3 DEF Call
<1>5. CASE OptimisticLockHolds(rows[rec], call.expected)
  <2>1. /\ rows' = [rows EXCEPT ![rec] = Written(call, current[r])]
        /\ Continue(r, "auditing") \/ Reply(r, "internal_error")
    BY <1>5 DEF Update, Committed
  <2>2. rows'[rec] = Written(call, current[r])
    BY <1>1, <1>4, <2>1 DEF TypeOK
  <2>3. /\ rows'[rec].phase = "live" /\ rows'[rec].version = call.expected + 1
        /\ ShowsChange(r, rows'[rec])
    BY <1>2, <2>2 DEF Written, LiveRow, ShowsChange
  <2>4. pc'[r] = "auditing" \/ (pc'[r] = "done" /\ answer'[r] = "internal_error")
    BY <1>1, <2>1, Moves
  <2>5. rows'[rec].version > call.expected
    BY <1>4, <2>3
  <2> QED
    BY <1>2, <2>3, <2>4, <2>5 DEF RepliedAt, Answered, Changes, ShowsChange
<1>6. CASE ~OptimisticLockHolds(rows[rec], call.expected)
  <2>1. pc'[r] = "done" /\ answer'[r] = "version_conflict"
    BY <1>1, <1>6, Moves DEF Update
  <2> QED
    BY <2>1 DEF RepliedAt, Answered
<1> QED
  BY <1>5, <1>6

\* Writes keep what replies say.
LEMMA WriteReplied ==
  ASSUME TypedInv, TypedInv', Replied, NEW r \in Request,
         Create(r) \/ Update(r) \/ Delete(r)
  PROVE  Replied'
<1>1. TypeOK /\ TypeOK'
  BY DEF TypedInv
<1>2. RepliedAt(r)'
  <2>1. CASE Update(r)
    BY <2>1, UpdateReplied
  <2>2. CASE Create(r) \/ Delete(r)
    <3>1. ~Changes(r) /\ UNCHANGED input
      BY <2>2 DEF Create, Delete, Changes
    <3>2. \/ \E status \in {"internal_error", "not_found"} : Reply(r, status)
          \/ Continue(r, "auditing")
      BY <2>2 DEF Create, Delete, Committed
    <3>3. \/ pc'[r] = "done" /\ answer'[r] \in {"internal_error", "not_found"}
          \/ pc'[r] = "auditing"
      BY <1>1, <3>2, Moves
    <3> QED
      BY <3>1, <3>3 DEF RepliedAt, Answered, Changes
  <2> QED
    BY <2>1, <2>2
<1>3. \A s \in Request : s # r =>
        /\ pc'[s] = pc[s] /\ input'[s] = input[s]
        /\ current'[s] = current[s] /\ answer'[s] = answer[s]
  <2>1. \A s \in Request : s # r =>
          pc'[s] = pc[s] /\ input'[s] = input[s] /\ current'[s] = current[s]
    BY <1>1, WriteTyped
  <2>2. (\E status : Reply(r, status)) \/ Continue(r, "auditing")
    BY <1>1, WriteControl
  <2> QED
    BY <1>1, <2>1, <2>2, Moves
<1>4. auditLog \subseteq auditLog'
  BY <1>1, WriteControl
<1> QED
  BY <1>1, <1>2, <1>3, <1>4, WriteAdvances, OneReplies

\* A transition or deletion that goes on after its audit has its audit row.
LEMMA AuditReplied ==
  ASSUME TypedInv, TypedInv', Replied, NEW r \in Request, Audit(r)
  PROVE  RepliedAt(r)' /\ auditLog \subseteq auditLog'
<1> DEFINE call == input[r]
           entry == AuditRow(r, call, current[r])
<1>1. TypeOK /\ pc[r] = "auditing" /\ UNCHANGED <<rows, input, current>>
  BY DEF TypedInv, Audit
<1>2. PICK stored, failed \in BOOLEAN :
        /\ stored \/ failed
        /\ auditLog' = IF stored THEN auditLog \cup {entry} ELSE auditLog
        /\ Audited(r, failed)
  BY DEF Audit
<1>3. auditLog \subseteq auditLog'
  BY <1>2
<1>4. entry.request = r /\ entry.record = call.record
  BY DEF AuditRow
<1>5. \/ /\ pc'[r] = "done" /\ answer'[r] = "internal_error"
      \/ /\ failed => call.op \notin {"transition", "delete"}
         /\ \/ pc'[r] = "done" /\ answer'[r] = "ok" /\ call.op \in {"create", "delete"}
            \/ pc'[r] = "reloading"
  BY <1>1, <1>2, Moves DEF Audited, AuditErrorReturned, AfterAudit
<1>6. ASSUME ~failed PROVE Traced(r)'
  <2>1. entry \in auditLog'
    BY <1>2, <1>6
  <2> QED
    BY <1>1, <1>4, <2>1 DEF Traced
<1>7. RepliedAt(r)
  BY DEF Replied
<1>8. CASE pc'[r] = "done" /\ answer'[r] = "internal_error"
  BY <1>3, <1>8 DEF RepliedAt, Answered
<1>9. CASE /\ failed => call.op \notin {"transition", "delete"}
           /\ pc'[r] = "done" /\ answer'[r] = "ok" /\ call.op \in {"create", "delete"}
  BY <1>1, <1>3, <1>6, <1>9 DEF RepliedAt, Answered, Changes
<1>10. CASE /\ failed => call.op \notin {"transition", "delete"}
            /\ pc'[r] = "reloading"
  BY <1>1, <1>3, <1>6, <1>7, <1>10 DEF RepliedAt, Answered, Changes, ShowsChange
<1> QED
  BY <1>5, <1>8, <1>9, <1>10

\* What is read again is the row; a failure answers neither success nor conflict.
LEMMA EndReplied ==
  ASSUME TypedInv, TypedInv', Replied, NEW r \in Request,
         Audit(r) \/ Reload(r) \/ DatabaseFails(r)
  PROVE  Replied'
<1>1. TypeOK /\ TypeOK'
  BY DEF TypedInv
<1>2. UNCHANGED rows
  BY DEF Audit, Reload, DatabaseFails
<1>3. RepliedAt(r)' /\ auditLog \subseteq auditLog'
  <2>1. CASE Audit(r)
    BY <2>1, AuditReplied
  <2>2. CASE Reload(r)
    <3>1. pc[r] = "reloading" /\ UNCHANGED <<rows, auditLog, input>>
      BY <2>2 DEF Reload
    <3>2. RepliedAt(r) /\ r \in DOMAIN current
      BY <1>1 DEF Replied, TypeOK
    <3>3. \/ pc'[r] = "done" /\ answer'[r] = "not_found"
          \/ /\ pc'[r] = "done" /\ answer'[r] = "ok"
             /\ rows[input[r].record].phase = "live"
             /\ current'[r] = rows[input[r].record]
      BY <1>1, <2>2, <3>2, Moves DEF Reload
    <3> QED
      BY <3>1, <3>2, <3>3 DEF RepliedAt, Answered, Changes, ShowsChange, Traced
  <2>3. CASE DatabaseFails(r)
    <3> pc'[r] = "done" /\ answer'[r] = "internal_error" /\ UNCHANGED auditLog
      BY <1>1, <2>3, Moves DEF DatabaseFails
    <3> QED
      BY DEF RepliedAt, Answered
  <2> QED
    BY <2>1, <2>2, <2>3
<1>4. \A s \in Request : s # r =>
        /\ pc'[s] = pc[s] /\ input'[s] = input[s]
        /\ current'[s] = current[s] /\ answer'[s] = answer[s]
  <2>1. \A s \in Request : s # r =>
          pc'[s] = pc[s] /\ input'[s] = input[s] /\ current'[s] = current[s]
    BY <1>1, EndTyped
  <2>2. (\E status : Reply(r, status)) \/ (\E next : Continue(r, next))
    BY DEF Audit, Audited, Reload, DatabaseFails
  <2> QED
    BY <1>1, <2>1, <2>2, Moves
<1> QED
  BY <1>1, <1>2, <1>3, <1>4, SameAdvances, OneReplies

\* A crash answers nobody.
LEMMA CrashReplied ==
  ASSUME TypedInv, Replied, Crash
  PROVE  Replied'
<1>1. /\ UNCHANGED <<rows, auditLog, input, current, answer>>
      /\ \A s \in Request : pc'[s] = pc[s] \/ pc'[s] = "lost"
  BY DEF Crash, TypedInv, TypeOK
<1> QED
  BY <1>1 DEF Replied, RepliedAt, Answered, Changes, ShowsChange, Traced

\* Every step keeps what replies say.
LEMMA ReplyStep == TypedInv /\ Replied /\ TypedInv' /\ [Next]_vars => Replied'
<1> SUFFICES ASSUME TypedInv, Replied, TypedInv', [Next]_vars PROVE Replied'
  OBVIOUS
<1>1. CASE UNCHANGED vars
  BY <1>1 DEF vars, Replied, RepliedAt, Answered, Changes, ShowsChange, Traced
<1>2. CASE Crash
  BY <1>2, CrashReplied
<1>3. ASSUME NEW r \in Request,
             \/ Arrive(r) \/ Load(r)
             \/ Create(r) \/ Update(r) \/ Delete(r)
             \/ Audit(r) \/ Reload(r) \/ DatabaseFails(r)
      PROVE  Replied'
  BY <1>3, ArriveReplied, LoadReplied, WriteReplied, EndReplied
<1> QED
  BY <1>1, <1>2, <1>3, NextCases

\* What the replies of the records service mean, whatever versions clients name.
LEMMA RepliedHolds == Spec => []Replied
<1>1. Init => Replied
  BY DEF Init, Replied, RepliedAt, Answered
<1> QED
  BY <1>1, TypedInvHolds, ReplyStep, PTL DEF Spec

\* A success shows the client's own change or a later version, also when others
\* write between its commit and the read that answers it.
THEOREM SuccessShowsWrite == Spec => []ReplyShowsWrite
<1>1. Replied => ReplyShowsWrite
  BY DEF Replied, RepliedAt, ReplyShowsWrite, ShowsChange
<1> QED
  BY <1>1, RepliedHolds, PTL

\* A transition or deletion that was answered with success has its audit row.
THEOREM SuccessesAudited == Spec => []AcknowledgedTransitionsAudited
<1>1. Replied => AcknowledgedTransitionsAudited
  BY DEF Replied, RepliedAt, AcknowledgedTransitionsAudited, Traced
<1> QED
  BY <1>1, RepliedHolds, PTL

-----------------------------------------------------------------------------
(* Conflicts.                                                               *)

\* Rows only move on, also for clients that run ahead.
LEMMA RowsMoveOn ==
  ASSUME TypedInv, TypedInv', [Next]_vars, NEW rec \in Record
  PROVE  rows[rec].version \in Nat /\ rows'[rec].version \in Nat
         /\ rows[rec].version <= rows'[rec].version
<1>1. rows[rec].version \in Nat /\ rows'[rec].version \in Nat
  BY DEF TypedInv, TypeOK, Row
<1>2. CASE UNCHANGED rows
  BY <1>1, <1>2
<1>3. ASSUME NEW r \in Request, Create(r) \/ Update(r) \/ Delete(r)
      PROVE  Later(rows[rec], rows'[rec])
  BY <1>3, WriteRows DEF TypedInv
<1>4. UNCHANGED rows \/ \E r \in Request : Create(r) \/ Update(r) \/ Delete(r)
  BY NextCases DEF vars, Crash, Arrive, Load, Audit, Reload, DatabaseFails
<1> QED
  BY <1>1, <1>2, <1>3, <1>4 DEF Later

Conflicted(r) == Answered(r, "version_conflict")

\* A conflict is answered only by Update, when the lock does not hold.
LEMMA ConflictArises ==
  ASSUME TypedInv, TypedInv', [Next]_vars, NEW r \in Request, Conflicted(r)'
  PROVE  /\ input'[r] = input[r] /\ input[r] \in Call
         /\ \/ Conflicted(r)
            \/ /\ Update(r) /\ UNCHANGED rows
               /\ ~OptimisticLockHolds(rows[input[r].record], input[r].expected)
<1>1. TypeOK /\ TypeOK' /\ (pc[r] # "idle" => input[r] \in Call)
  BY DEF TypedInv, Routed, RoutedAt
<1>2. pc'[r] = "done" /\ answer'[r] = "version_conflict"
  BY DEF Conflicted, Answered
<1>3. CASE UNCHANGED vars
  BY <1>1, <1>2, <1>3 DEF vars, Conflicted, Answered
<1>4. CASE Crash
  <2>1. pc'[r] = pc[r] /\ UNCHANGED <<input, answer>>
    BY <1>1, <1>2, <1>4 DEF Crash, TypeOK
  <2> QED
    BY <1>1, <1>2, <2>1 DEF Conflicted, Answered
<1>5. ASSUME NEW s \in Request,
             \/ Arrive(s) \/ Load(s)
             \/ Create(s) \/ Update(s) \/ Delete(s)
             \/ Audit(s) \/ Reload(s) \/ DatabaseFails(s),
             s # r
      PROVE  input'[r] = input[r] /\ input[r] \in Call /\ Conflicted(r)
  <2>1. pc'[r] = pc[r] /\ input'[r] = input[r]
    BY <1>1, <1>5, ArriveTyped, LoadTyped, WriteTyped, EndTyped
  <2>2. (\E status : Reply(s, status)) \/ (\E next : Continue(s, next))
    BY <1>5 DEF Arrive, Load, Create, Update, Delete, Committed, Audit, Audited, Reload,
                DatabaseFails
  <2>3. answer'[r] = answer[r]
    BY <1>1, <1>5, <2>2 DEF Reply, Continue, TypeOK
  <2> QED
    BY <1>1, <1>2, <2>1, <2>3 DEF Conflicted, Answered
<1>6. CASE Update(r)
  <2>1. pc[r] = "writing" /\ UNCHANGED input
    BY <1>6 DEF Update
  <2>2. /\ UNCHANGED rows
        /\ ~OptimisticLockHolds(rows[input[r].record], input[r].expected)
    BY <1>1, <1>2, <1>6, Moves DEF Update, Committed
  <2> QED
    BY <1>1, <1>6, <2>1, <2>2
<1>7. ASSUME \/ Arrive(r) \/ Load(r) \/ Create(r) \/ Delete(r)
             \/ Audit(r) \/ Reload(r) \/ DatabaseFails(r)
      PROVE  FALSE
  <2>1. \/ \E next \in {"reading", "writing", "auditing", "reloading"} : Continue(r, next)
        \/ \E status \in {"forbidden", "invalid_request", "business_rule", "not_found",
                         "internal_error", "ok"} : Reply(r, status)
    BY <1>7 DEF Arrive, Load, Create, Delete, Committed, Audit, Audited, AfterAudit, Reload,
                DatabaseFails
  <2> QED
    BY <1>1, <1>2, <2>1, Moves
<1> QED
  BY <1>3, <1>4, <1>5, <1>6, <1>7, NextCases

\* A client that names only versions it has seen meets a failing lock only when its
\* row was deleted or has moved on, and rows never move back.
LEMMA ConflictStep ==
  ASSUME RecordInv, TypedInv', Replied, ConflictHasCause, [Next]_vars
  PROVE  ConflictHasCause'
<1>1. TypedInv /\ TypeOK /\ ExpectationsSeen
  BY DEF RecordInv, TypedInv
<1>2. SUFFICES ASSUME NEW r \in Request, Conflicted(r)'
               PROVE  \/ rows'[input'[r].record].phase = "deleted"
                      \/ rows'[input'[r].record].version > input'[r].expected
  BY DEF ConflictHasCause, Conflicted
<1> DEFINE rec == input[r].record
<1>3. input'[r] = input[r] /\ rec \in Record /\ input[r].expected \in Nat
  BY <1>1, <1>2, ConflictArises DEF Call
<1>4. CASE Conflicted(r)
  <2>1. rows[rec].phase = "deleted" \/ rows[rec].version > input[r].expected
    BY <1>4 DEF ConflictHasCause, Conflicted
  <2>2. rows[rec].phase = "deleted" => rows'[rec].phase = "deleted"
    <3>1. CASE UNCHANGED rows
      BY <3>1
    <3>2. ASSUME NEW s \in Request, Create(s) \/ Update(s) \/ Delete(s)
          PROVE  Advanced(rows[rec], rows'[rec])
      BY <1>1, <1>3, <3>2, WriteAdvances DEF RowsAdvanced
    <3>3. UNCHANGED rows \/ \E s \in Request : Create(s) \/ Update(s) \/ Delete(s)
      BY NextCases DEF vars, Crash, Arrive, Load, Audit, Reload, DatabaseFails
    <3> QED
      BY <3>1, <3>2, <3>3 DEF Advanced
  <2>3. /\ rows[rec].version \in Nat /\ rows'[rec].version \in Nat
        /\ rows[rec].version <= rows'[rec].version
    BY <1>1, <1>3, RowsMoveOn
  <2> QED
    BY <1>3, <2>1, <2>2, <2>3
<1>5. CASE /\ Update(r) /\ UNCHANGED rows
           /\ ~OptimisticLockHolds(rows[rec], input[r].expected)
  <2>1. pc[r] = "writing" /\ Changes(r)
    BY <1>5 DEF Update, Changes
  <2>2. rows[rec] \in Row /\ rows[rec].version \in Nat
    BY <1>1, <1>3 DEF TypeOK, Row
  <2>3. input[r].expected <= rows[rec].version
    BY <1>1, <2>1 DEF ExpectationsSeen
  <2>4. rows[rec].phase \in {"live", "deleted"}
    BY <2>1, <2>2 DEF Replied, RepliedAt, Row
  <2> QED
    BY <1>3, <1>5, <2>2, <2>3, <2>4 DEF OptimisticLockHolds
<1> QED
  BY <1>1, <1>2, <1>4, <1>5, ConflictArises

\* version_conflict is never spurious for a client that names versions it has seen.
THEOREM ConflictsHaveCause == ASSUME RunAhead = 0 PROVE Spec => []ConflictHasCause
<1>1. Init => ConflictHasCause
  BY DEF Init, ConflictHasCause, Answered
<1>2. RecordInv /\ Replied /\ ConflictHasCause /\ [Next]_vars => ConflictHasCause'
  BY ConflictStep, TypedStep DEF RecordInv
<1> QED
  BY <1>1, <1>2, RecordInvHolds, RepliedHolds, PTL DEF Spec

-----------------------------------------------------------------------------
(* One winner per version.                                                 *)

\* A change that is committed and whose client has not been told otherwise.
Won(r) == Changes(r) /\ (pc[r] \in {"auditing", "reloading"} \/ Answered(r, "ok"))

\* A row is past the version of every change made to it, and no two changes were
\* made from one version.
Winners ==
  /\ \A r \in Request : Won(r) => rows[input[r].record].version > input[r].expected
  /\ \A r, s \in Request :
       r # s /\ Won(r) /\ Won(s) /\ input[r].record = input[s].record =>
         input[r].expected # input[s].expected

\* A change is committed only by Update, from the version its client named.
LEMMA WonStep ==
  ASSUME TypedInv, TypedInv', [Next]_vars, NEW r \in Request, Won(r)'
  PROVE  /\ input'[r] = input[r] /\ input[r].record \in Record /\ input[r].expected \in Nat
         /\ \/ Won(r)
            \/ /\ Update(r)
               /\ rows[input[r].record].version = input[r].expected
               /\ rows'[input[r].record].version = input[r].expected + 1
<1>1. TypeOK /\ TypeOK'
  BY DEF TypedInv
<1>2. pc'[r] \in {"auditing", "reloading", "done"} /\ Changes(r)'
  BY DEF Won, Answered
<1>3. ASSUME input'[r] = input[r], pc[r] # "idle"
      PROVE  input[r].record \in Record /\ input[r].expected \in Nat
  BY <1>3 DEF TypedInv, Routed, RoutedAt, Call
<1>4. CASE UNCHANGED vars
  BY <1>2, <1>3, <1>4 DEF vars, Won, Answered, Changes
<1>5. CASE Crash
  <2>1. pc'[r] = pc[r] /\ UNCHANGED <<input, answer>>
    BY <1>1, <1>2, <1>5 DEF Crash, TypeOK
  <2> QED
    BY <1>2, <1>3, <2>1 DEF Won, Answered, Changes
<1>6. ASSUME NEW s \in Request,
             \/ Arrive(s) \/ Load(s)
             \/ Create(s) \/ Update(s) \/ Delete(s)
             \/ Audit(s) \/ Reload(s) \/ DatabaseFails(s),
             s # r
      PROVE  pc'[r] = pc[r] /\ input'[r] = input[r] /\ answer'[r] = answer[r]
  <2>1. pc'[r] = pc[r] /\ input'[r] = input[r]
    BY <1>1, <1>6, ArriveTyped, LoadTyped, WriteTyped, EndTyped
  <2>2. (\E status : Reply(s, status)) \/ (\E next : Continue(s, next))
    BY <1>6 DEF Arrive, Load, Create, Update, Delete, Committed, Audit, Audited, Reload,
                DatabaseFails
  <2>3. answer'[r] = answer[r]
    BY <1>1, <1>6, <2>2 DEF Reply, Continue, TypeOK
  <2> QED
    BY <2>1, <2>3
<1>7. CASE Arrive(r)
  <2>1. pc'[r] = "reloading" => ~Changes(r)'
    <3>1. PICK who \in Callers, rec \in Record : \E call \in Calls(who, rec) :
            /\ input' = [input EXCEPT ![r] = call]
            /\ \/ \E status : Reply(r, status)
               \/ Continue(r, "writing")
               \/ Continue(r, "reading")
               \/ call.op = "get" /\ Continue(r, "reloading")
      BY <1>7 DEF Arrive
    <3>2. PICK call \in Calls(who, rec) :
            /\ input' = [input EXCEPT ![r] = call]
            /\ \/ \E status : Reply(r, status)
               \/ Continue(r, "writing")
               \/ Continue(r, "reading")
               \/ call.op = "get" /\ Continue(r, "reloading")
      BY <3>1
    <3>3. input'[r] = call
      BY <1>1, <3>2 DEF TypeOK
    <3> QED
      BY <1>1, <3>2, <3>3, Moves DEF Changes
  <2>2. \/ \E status \in {"forbidden", "invalid_request", "business_rule"} : Reply(r, status)
        \/ Continue(r, "writing") \/ Continue(r, "reading") \/ Continue(r, "reloading")
    BY <1>7 DEF Arrive
  <2>3. \/ pc'[r] = "done" /\ answer'[r] \in {"forbidden", "invalid_request", "business_rule"}
        \/ pc'[r] \in {"writing", "reading", "reloading"}
    BY <1>1, <2>2, Moves
  <2> QED
    BY <1>2, <2>1, <2>3 DEF Won, Answered
<1>8. CASE Load(r) \/ Create(r) \/ Update(r) \/ Delete(r) \/ Audit(r) \/ Reload(r) \/ DatabaseFails(r)
  <2>1. UNCHANGED input /\ pc[r] # "idle"
    BY <1>8 DEF Load, Create, Update, Delete, Audit, Reload, DatabaseFails
  <2>2. Changes(r) /\ input[r].record \in Record /\ input[r].expected \in Nat
    BY <1>2, <1>3, <2>1 DEF Changes
  <2>3. CASE Update(r)
    <3>1. OptimisticLockHolds(rows[input[r].record], input[r].expected)
      BY <1>1, <2>3, Moves DEF Won, Answered, Update
    <3>2. /\ rows[input[r].record].version = input[r].expected
          /\ rows' = [rows EXCEPT ![input[r].record] = Written(input[r], current[r])]
      BY <2>3, <3>1 DEF Update, OptimisticLockHolds
    <3>3. Written(input[r], current[r]).version = input[r].expected + 1
      BY <2>2 DEF Written, LiveRow, Changes
    <3> QED
      BY <1>1, <2>1, <2>2, <2>3, <3>2, <3>3 DEF TypeOK
  <2>4. CASE Audit(r) \/ Reload(r)
    BY <2>1, <2>2, <2>4 DEF Audit, Reload, Won
  <2>5. CASE Create(r) \/ Delete(r)
    BY <2>2, <2>5 DEF Create, Delete, Changes
  <2>6. CASE Load(r) \/ DatabaseFails(r)
    <3>1. \/ pc'[r] = "done" /\ answer'[r] \in {"not_found", "business_rule", "internal_error"}
          \/ pc'[r] = "writing"
      BY <1>1, <2>6, Moves DEF Load, DatabaseFails
    <3> QED
      BY <1>2, <3>1 DEF Won, Answered
  <2> QED
    BY <1>8, <2>3, <2>4, <2>5, <2>6
<1> QED
  <2>1. CASE pc[r] = "idle"
    BY <1>2, <1>4, <1>5, <1>6, <1>7, <1>8, <2>1, NextCases
       DEF vars, Crash, TypedInv, TypeOK, Won, Answered
  <2>2. CASE pc[r] # "idle"
    BY <1>2, <1>3, <1>4, <1>5, <1>6, <1>7, <1>8, <2>2, NextCases DEF Won, Answered, Changes
  <2> QED
    BY <2>1, <2>2

\* Every step keeps the winners apart.
LEMMA WinnersStep == TypedInv /\ TypedInv' /\ Winners /\ [Next]_vars => Winners'
<1> SUFFICES ASSUME TypedInv, TypedInv', Winners, [Next]_vars PROVE Winners'
  OBVIOUS
<1>1. ASSUME NEW r \in Request, Won(r)'
      PROVE  rows'[input'[r].record].version > input'[r].expected
  BY <1>1, WonStep, RowsMoveOn DEF Winners
<1>2. ASSUME NEW r \in Request, NEW s \in Request, r # s, Won(r)', Won(s)',
             input'[r].record = input'[s].record
      PROVE  input'[r].expected # input'[s].expected
  <2>1. CASE Won(r) /\ Won(s)
    BY <1>2, <2>1, WonStep DEF Winners
  <2>2. CASE Won(s) /\ ~Won(r)
    <3>1. rows[input[s].record].version > input[s].expected
      BY <2>2 DEF Winners
    <3> QED
      BY <1>2, <2>2, <3>1, WonStep
  <2>3. CASE Won(r) /\ ~Won(s)
    <3>1. rows[input[r].record].version > input[r].expected
      BY <2>3 DEF Winners
    <3> QED
      BY <1>2, <2>3, <3>1, WonStep
  <2>4. CASE ~Won(r) /\ ~Won(s)
    <3>1. Update(r) /\ Update(s)
      BY <1>2, <2>4, WonStep
    <3>2. pc[s] = "writing" /\ pc'[s] = pc[s]
      <4>1. (\E status : Reply(r, status)) \/ (\E next : Continue(r, next))
        BY <3>1 DEF Update, Committed
      <4> QED
        BY <1>2, <3>1, <4>1, Moves DEF TypedInv, Update
    <3> QED
      BY <1>2, <3>2 DEF Won, Answered
  <2> QED
    BY <2>1, <2>2, <2>3, <2>4
<1> QED
  BY <1>1, <1>2 DEF Winners

\* Of all clients that started from the same version of a record, at most one is
\* answered with success, whatever versions they name and however they interleave.
THEOREM OneSuccessPerVersion == Spec => []SuccessExclusive
<1>1. Init => Winners
  BY DEF Init, Winners, Won, Answered
<1>2. Winners => SuccessExclusive
  BY DEF Winners, Won, SuccessExclusive
<1> QED
  BY <1>1, <1>2, TypedInvHolds, WinnersStep, PTL DEF Spec
==============================================================================
