-------------------------- MODULE Workbench_proofs --------------------------
(***************************************************************************)
(* Proofs about the workbench, for any number of records and of requests   *)
(* on their way, and for every role.                                       *)
(*                                                                         *)
(* The argument is about what the page knows: an item it has seen is the   *)
(* row as it is, or the row has a higher version by now (Knows).  That is  *)
(* kept by everything other users do, for items in the list, in a dialog,  *)
(* in a request and in an answer on its way (Informed).                    *)
(***************************************************************************)
EXTENDS Workbench, TLAPS

Knows(item) ==
  /\ rows[item.id].phase # "absent"
  /\ \/ rows[item.id].version > item.version
     \/ rows[item.id].version = item.version /\ rows[item.id].status = item.status

Offered(dialog) == Knows(dialog.item) /\ CanAdvance(dialog.item.status, dialog.target)

Honoured(r) ==
  /\ \A item \in r.found : Knows(item)
  /\ \A dialog \in r.dialog : Offered(dialog) /\ r.expected = dialog.item.version
  /\ \A d, e \in r.dialog : d = e
  /\ r.op # "transition" => r.dialog = {}

Informed ==
  /\ \A item \in store.items : Knows(item)
  /\ \A dialog \in pending : Offered(dialog)
  /\ \A k \in Task : InFlight(k) => Honoured(task[k])

\* The statuses of the rows are those of the page.
PageStatus == \A i \in Id : rows[i].status \in DOMAIN Transitions[path]

\* Until two loads overlap, the only load on its way is the newest.
OneLoad ==
  loads.overlapped \/ \A k \in Task : InFlight(k) /\ task[k].op = "load" => k \in loads.newest

WorkbenchInv ==
  /\ TypeOK /\ PageStatus /\ Informed /\ RefusalHasCause
  /\ OneLoad /\ StaleListFlagged /\ LoadingOnlyWhileWaiting

-----------------------------------------------------------------------------
(* Statuses                                                                *)

\* The statuses of the four pages are statuses, and the page offers only edges of the
\* graph the server checks.
LEMMA PageFollowsGraph ==
  ASSUME path \in Path, NEW status \in Status, NEW target \in NextStatus(status)
  PROVE  target \in Status /\ CanTransition(Transitions[path], status, target)
<1>1. PICK i \in 1 .. Len(ENTITY_CONFIGS[path]) - 1 :
        ENTITY_CONFIGS[path][i] = status /\ ENTITY_CONFIGS[path][i + 1] = target
  BY DEF NextStatus
<1>2. CASE path = "units"
  <2>1. ENTITY_CONFIGS[path] = <<"standby", "running", "limited", "stopped">> /\ Transitions[path] = CaptureUnitTransitions
    BY <1>2 DEF ENTITY_CONFIGS, Transitions
  <2>2. i \in {1, 2, 3}
    BY <1>1, <2>1
  <2>3. <<status, target>> \in {<<"standby", "running">>, <<"running", "limited">>, <<"limited", "stopped">>}
    BY <1>1, <2>1, <2>2
  <2> QED
    BY <2>1, <2>3 DEF CanTransition, CaptureUnitTransitions, Status, UnitState, RuleState,
                      SampleState, DecisionState
<1>3. CASE path = "rules"
  <2>1. ENTITY_CONFIGS[path] = <<"draft", "active", "superseded", "retired">> /\ Transitions[path] = PermitRuleTransitions
    BY <1>3 DEF ENTITY_CONFIGS, Transitions
  <2>2. i \in {1, 2, 3}
    BY <1>1, <2>1
  <2>3. <<status, target>> \in {<<"draft", "active">>, <<"active", "superseded">>, <<"superseded", "retired">>}
    BY <1>1, <2>1, <2>2
  <2> QED
    BY <2>1, <2>3 DEF CanTransition, PermitRuleTransitions, Status, UnitState, RuleState,
                      SampleState, DecisionState
<1>4. CASE path = "samples"
  <2>1. ENTITY_CONFIGS[path] = <<"collected", "testing", "verified", "invalid">> /\ Transitions[path] = EmissionSampleTransitions
    BY <1>4 DEF ENTITY_CONFIGS, Transitions
  <2>2. i \in {1, 2, 3}
    BY <1>1, <2>1
  <2>3. <<status, target>> \in {<<"collected", "testing">>, <<"testing", "verified">>, <<"verified", "invalid">>}
    BY <1>1, <2>1, <2>2
  <2> QED
    BY <2>1, <2>3 DEF CanTransition, EmissionSampleTransitions, Status, UnitState, RuleState,
                      SampleState, DecisionState
<1>5. CASE path = "decisions"
  <2>1. ENTITY_CONFIGS[path] = <<"draft", "review", "accepted", "escalated">> /\ Transitions[path] = ComplianceDecisionTransitions
    BY <1>5 DEF ENTITY_CONFIGS, Transitions
  <2>2. i \in {1, 2, 3}
    BY <1>1, <2>1
  <2>3. <<status, target>> \in {<<"draft", "review">>, <<"review", "accepted">>, <<"accepted", "escalated">>}
    BY <1>1, <2>1, <2>2
  <2> QED
    BY <2>1, <2>3 DEF CanTransition, ComplianceDecisionTransitions, Status, UnitState, RuleState,
                      SampleState, DecisionState
<1> QED
  BY <1>2, <1>3, <1>4, <1>5 DEF Path

\* The graphs lead from statuses of a page to statuses of that page.
LEMMA GraphClosed ==
  ASSUME path \in Path, NEW s \in DOMAIN Transitions[path], NEW target \in Transitions[path][s]
  PROVE  target \in DOMAIN Transitions[path] /\ target \in Status
<1>1. CASE path = "units"
  BY <1>1 DEF Transitions, CaptureUnitTransitions, Status, UnitState
<1>2. CASE path = "rules"
  BY <1>2 DEF Transitions, PermitRuleTransitions, Status, RuleState
<1>3. CASE path = "samples"
  BY <1>3 DEF Transitions, EmissionSampleTransitions, Status, SampleState
<1>4. CASE path = "decisions"
  BY <1>4 DEF Transitions, ComplianceDecisionTransitions, Status, DecisionState
<1> QED
  BY <1>1, <1>2, <1>3, <1>4 DEF Path

\* Each page starts with a status of its graph.
LEMMA FirstStatus ==
  ASSUME path \in Path
  PROVE  /\ ENTITY_CONFIGS[path][1] \in Status
         /\ ENTITY_CONFIGS[path][1] \in DOMAIN Transitions[path]
<1>1. CASE path = "units"
  BY <1>1 DEF ENTITY_CONFIGS, Transitions, CaptureUnitTransitions, Status, UnitState
<1>2. CASE path = "rules"
  BY <1>2 DEF ENTITY_CONFIGS, Transitions, PermitRuleTransitions, Status, RuleState
<1>3. CASE path = "samples"
  BY <1>3 DEF ENTITY_CONFIGS, Transitions, EmissionSampleTransitions, Status, SampleState
<1>4. CASE path = "decisions"
  BY <1>4 DEF ENTITY_CONFIGS, Transitions, ComplianceDecisionTransitions, Status, DecisionState
<1> QED
  BY <1>1, <1>2, <1>3, <1>4 DEF Path

-----------------------------------------------------------------------------
(* Rows                                                                    *)

\* What a step may do to the row of id i.
RowMove(i) ==
  \/ rows'[i] = rows[i]
  \/ rows[i].phase = "absent" /\ rows'[i].phase = "live"
  \/ /\ rows[i].phase = "live" /\ rows'[i].phase = "live"
     /\ rows'[i].version > rows[i].version
  \/ /\ rows[i].phase = "live" /\ rows'[i].phase = "deleted"
     /\ rows'[i].version = rows[i].version /\ rows'[i].status = rows[i].status

\* A row that is put.
LEMMA PutStep ==
  ASSUME TypeOK, PageStatus, path' = path, NEW i \in Id,
         NEW phase \in {"live", "deleted"}, NEW status \in Status, NEW version \in Nat,
         status \in DOMAIN Transitions[path], Put(i, phase, status, version)
  PROVE  /\ rows' \in [Id -> Row] /\ PageStatus'
         /\ rows'[i].phase = phase /\ rows'[i].status = status /\ rows'[i].version = version
         /\ \A j \in Id \ {i} : rows'[j] = rows[j]
<1> DEFINE r == [phase |-> phase, status |-> status, version |-> version]
<1>1. r \in Row /\ r.phase = phase /\ r.status = status /\ r.version = version
  BY DEF Row
<1>2. rows' = [rows EXCEPT ![i] = r]
  BY DEF Put
<1> HIDE DEF r
<1>3. /\ rows' \in [Id -> Row] /\ rows'[i] = r /\ \A j \in Id \ {i} : rows'[j] = rows[j]
  BY <1>1, <1>2 DEF TypeOK
<1> QED
  BY <1>1, <1>3 DEF PageStatus

\* What other users do to a row.
LEMMA OtherWriterStep ==
  ASSUME TypeOK, PageStatus, NEW i \in Id, OtherWriter(i)
  PROVE  rows' \in [Id -> Row] /\ PageStatus' /\ \A j \in Id : RowMove(j)
<1>0. /\ rows[i].status \in Status /\ rows[i].version \in Nat
      /\ rows[i].status \in DOMAIN Transitions[path] /\ path \in Path /\ path' = path
  BY DEF TypeOK, PageStatus, Row, OtherWriter
<1>1. CASE rows[i].phase = "absent" /\ Put(i, "live", rows[i].status, 1)
  BY <1>0, <1>1, PutStep DEF RowMove
<1>2. CASE rows[i].phase = "live" /\ Put(i, "live", rows[i].status, rows[i].version + 1)
  BY <1>0, <1>2, PutStep DEF RowMove
<1>3. CASE /\ rows[i].phase = "live"
           /\ \E target \in Transitions[path][rows[i].status] :
                Put(i, "live", target, rows[i].version + 1)
  <2>1. PICK target \in Transitions[path][rows[i].status] :
               Put(i, "live", target, rows[i].version + 1)
    BY <1>3
  <2>2. target \in Status /\ target \in DOMAIN Transitions[path]
    BY <1>0, GraphClosed
  <2> QED
    BY <1>0, <1>3, <2>1, <2>2, PutStep DEF RowMove
<1>4. CASE rows[i].phase = "live" /\ Put(i, "deleted", rows[i].status, rows[i].version)
  BY <1>0, <1>4, PutStep DEF RowMove
<1> QED
  BY <1>1, <1>2, <1>3, <1>4 DEF OtherWriter

\* What the page knows stays known, whatever happens to the rows.
LEMMA KnowsKept ==
  ASSUME TypeOK, TypeOK', NEW item \in Item, RowMove(item.id), Knows(item)
  PROVE  Knows(item)'
<1>1. /\ item.id \in Id /\ item.version \in Nat
      /\ rows[item.id] \in Row /\ rows'[item.id] \in Row
  BY DEF TypeOK, Item
<1> QED
  BY <1>1 DEF RowMove, Knows, Row

\* What a load finds is known when it is found.
LEMMA ItemsKnown == TypeOK => Items \subseteq Item /\ \A item \in Items : Knows(item)
BY DEF TypeOK, Items, Item, Row, Knows

-----------------------------------------------------------------------------
(* Requests                                                                *)

\* A request on its way has the fields of a request.
LEMMA RequestFields ==
  ASSUME TypeOK, NEW k \in Task, InFlight(k)
  PROVE  /\ task[k] \in Request
         /\ task[k].op \in {"load", "create", "transition"} /\ task[k].own \in BOOLEAN
         /\ task[k].after \in {"none", "create", "transition"}
         /\ task[k].dialog \subseteq Dialog /\ task[k].expected \in Nat
         /\ task[k].answer \in Answer /\ task[k].found \subseteq Item
BY DEF TypeOK, InFlight, Free, Request

\* A request is not the idle slot.
LEMMA RequestNotIdle == \A r \in Request : r # Idle
<1>1. Idle.op = "none"
  BY DEF Idle
<1> QED
  BY <1>1 DEF Request

\* A request that is sent.
LEMMA SentFields ==
  ASSUME NEW op \in {"load", "create", "transition"}, NEW own \in BOOLEAN,
         NEW after \in {"none", "create", "transition"},
         NEW dialog \in SUBSET Dialog, NEW expected \in Nat
  PROVE  LET r == Sent(op, own, after, dialog, expected)
         IN /\ r \in Request /\ r.op = op /\ r.own = own /\ r.after = after
            /\ r.dialog = dialog /\ r.expected = expected
            /\ r.answer = "none" /\ r.found = {}
BY DEF Sent, Request, Answer

\* A request that is answered keeps what it carries.
LEMMA ReplyStep ==
  ASSUME TypeOK, NEW k \in Task, InFlight(k), NEW answer \in Answer,
         NEW found \in SUBSET Item, Reply(k, answer, found)
  PROVE  /\ task' \in [Task -> Request \cup {Idle}]
         /\ task'[k] \in Request /\ task'[k].answer = answer /\ task'[k].found = found
         /\ task'[k].op = task[k].op /\ task'[k].own = task[k].own
         /\ task'[k].after = task[k].after /\ task'[k].dialog = task[k].dialog
         /\ task'[k].expected = task[k].expected
         /\ \A l \in Task \ {k} : task'[l] = task[l]
<1> DEFINE r == [task[k] EXCEPT !.answer = answer, !.found = found]
<1>1. task[k] \in Request
  BY RequestFields
<1>2. /\ r \in Request /\ r.answer = answer /\ r.found = found
      /\ r.op = task[k].op /\ r.own = task[k].own /\ r.after = task[k].after
      /\ r.dialog = task[k].dialog /\ r.expected = task[k].expected
  BY <1>1 DEF Request
<1>3. task' = [task EXCEPT ![k] = r]
  BY <1>1 DEF Reply, TypeOK, Request
<1> HIDE DEF r
<1> QED
  BY <1>2, <1>3 DEF TypeOK

\* A load that is sent, in the slot of request k.
LEMMA SendLoadStep ==
  ASSUME TypeOK, NEW k \in Task, NEW own \in BOOLEAN,
         NEW after \in {"none", "create", "transition"},
         NEW others \in [Task -> Request \cup {Idle}], SendLoad(k, own, after, others)
  PROVE  /\ task' \in [Task -> Request \cup {Idle}]
         /\ task'[k] = Sent("load", own, after, {}, 0)
         /\ \A l \in Task \ {k} : task'[l] = others[l]
         /\ store' \in [items : SUBSET Item, loading : BOOLEAN, error : BOOLEAN]
         /\ store'.items = store.items /\ store'.loading = TRUE
         /\ loads' \in [newest : SUBSET Task, shown : BOOLEAN, overlapped : BOOLEAN]
         /\ loads'.newest = {k}
         /\ loads'.overlapped =
              (loads.overlapped \/ \E l \in Task \ {k} : InFlight(l) /\ task[l].op = "load")
<1>1. Sent("load", own, after, {}, 0) \in Request
  BY DEF Sent, Request, Answer
<1>2. task' = [others EXCEPT ![k] = Sent("load", own, after, {}, 0)]
  BY DEF SendLoad
<1>3. /\ task' \in [Task -> Request \cup {Idle}] /\ task'[k] = Sent("load", own, after, {}, 0)
      /\ \A l \in Task \ {k} : task'[l] = others[l]
  BY <1>1, <1>2
<1>4. /\ store' \in [items : SUBSET Item, loading : BOOLEAN, error : BOOLEAN]
      /\ store'.items = store.items /\ store'.loading = TRUE
  BY DEF SendLoad, Patch, TypeOK
<1>5. /\ loads' \in [newest : SUBSET Task, shown : BOOLEAN, overlapped : BOOLEAN]
      /\ loads'.newest = {k}
      /\ loads'.overlapped =
           (loads.overlapped \/ \E l \in Task \ {k} : InFlight(l) /\ task[l].op = "load")
  BY DEF SendLoad, TypeOK
<1> QED
  BY <1>3, <1>4, <1>5

\* A write that is sent.
LEMMA SendWriteStep ==
  ASSUME TypeOK, NEW k \in Task, NEW op \in {"create", "transition"},
         NEW dialog \in SUBSET Dialog, NEW expected \in Nat, SendWrite(k, op, dialog, expected)
  PROVE  /\ task' \in [Task -> Request \cup {Idle}]
         /\ task'[k] = Sent(op, TRUE, "none", dialog, expected)
         /\ \A l \in Task \ {k} : task'[l] = task[l]
         /\ store' \in [items : SUBSET Item, loading : BOOLEAN, error : BOOLEAN]
         /\ store'.items = store.items /\ store'.loading = TRUE /\ store'.error = store.error
         /\ UNCHANGED <<path, role, rows, pending, showCreate, loads>>
<1>1. Sent(op, TRUE, "none", dialog, expected) \in Request
  BY DEF Sent, Request, Answer
<1>2. task' = [task EXCEPT ![k] = Sent(op, TRUE, "none", dialog, expected)]
  BY DEF SendWrite
<1>3. /\ task' \in [Task -> Request \cup {Idle}]
      /\ task'[k] = Sent(op, TRUE, "none", dialog, expected)
      /\ \A l \in Task \ {k} : task'[l] = task[l]
  BY <1>1, <1>2 DEF TypeOK
<1>4. /\ store' \in [items : SUBSET Item, loading : BOOLEAN, error : BOOLEAN]
      /\ store'.items = store.items /\ store'.loading = TRUE /\ store'.error = store.error
  BY DEF SendWrite, Patch, TypeOK
<1> QED
  BY <1>3, <1>4 DEF SendWrite

\* Requests of the page that has been left.
Disowned == [l \in Task |-> IF Free(l) THEN Idle ELSE [task[l] EXCEPT !.own = FALSE]]

\* They keep all but their owner.
LEMMA DisownedFields ==
  ASSUME TypeOK
  PROVE  /\ Disowned \in [Task -> Request \cup {Idle}]
         /\ \A l \in Task : Disowned[l] # Idle =>
              /\ InFlight(l) /\ Disowned[l] \in Request
              /\ Disowned[l].op = task[l].op /\ Disowned[l].dialog = task[l].dialog
              /\ Disowned[l].expected = task[l].expected /\ Disowned[l].answer = task[l].answer
              /\ Disowned[l].found = task[l].found
<1> SUFFICES ASSUME NEW l \in Task
             PROVE  /\ Disowned[l] \in Request \cup {Idle}
                    /\ Disowned[l] # Idle =>
                         /\ InFlight(l) /\ Disowned[l] \in Request
                         /\ Disowned[l].op = task[l].op /\ Disowned[l].dialog = task[l].dialog
                         /\ Disowned[l].expected = task[l].expected
                         /\ Disowned[l].answer = task[l].answer
                         /\ Disowned[l].found = task[l].found
  BY DEF Disowned
<1>1. CASE Free(l)
  BY <1>1 DEF Disowned
<1>2. CASE InFlight(l)
  <2> DEFINE r == [task[l] EXCEPT !.own = FALSE]
  <2>1. task[l] \in Request
    BY <1>2, RequestFields
  <2>2. /\ r \in Request /\ r.op = task[l].op /\ r.dialog = task[l].dialog
        /\ r.expected = task[l].expected /\ r.answer = task[l].answer /\ r.found = task[l].found
    BY <2>1 DEF Request
  <2>3. Disowned[l] = r
    BY <1>2 DEF Disowned, InFlight
  <2> HIDE DEF r
  <2> QED
    BY <1>2, <2>2, <2>3
<1> QED
  BY <1>1, <1>2 DEF InFlight

-----------------------------------------------------------------------------
(* The server                                                              *)

Overtaken(dialog) ==
  rows[dialog.item.id].phase = "deleted" \/ rows[dialog.item.id].version > dialog.item.version

\* A confirmed move that is refused was overtaken by another user; one that is carried
\* out finds the status the dialog showed.
LEMMA VerdictStep ==
  ASSUME TypeOK, NEW r \in Request, NEW dialog \in Dialog, Offered(dialog),
         r.expected = dialog.item.version
  PROVE  /\ Verdict(r, dialog) \in Answer /\ Verdict(r, dialog) # "forbidden"
         /\ Verdict(r, dialog) # "ok" => Overtaken(dialog)
         /\ Verdict(r, dialog) = "ok" =>
              /\ rows[dialog.item.id].phase = "live"
              /\ rows[dialog.item.id].status = dialog.item.status
              /\ rows[dialog.item.id].version = r.expected
              /\ CanTransition(Transitions[path], dialog.item.status, dialog.target)
<1> DEFINE row == rows[dialog.item.id]
           item == dialog.item
<1>1. /\ item \in Item /\ item.id \in Id /\ item.version \in Nat /\ item.status \in Status
      /\ row \in Row /\ row.version \in Nat /\ row.phase \in {"absent", "live", "deleted"}
      /\ path \in Path
  BY DEF TypeOK, Dialog, Item, Row
<1>2. /\ row.phase # "absent"
      /\ row.version > item.version \/ (row.version = item.version /\ row.status = item.status)
  BY DEF Offered, Knows
<1>3. /\ dialog.target \in NextStatus(item.status)
      /\ RequireMinimumRole(role, "operator") /\ ~ReviewerRequired(dialog.target)
  BY DEF Offered, CanAdvance, canWrite, ReviewerRequired
<1>4. CanTransition(Transitions[path], item.status, dialog.target)
  BY <1>1, <1>3, PageFollowsGraph
<1>5. Verdict(r, dialog) =
        IF row.phase # "live" THEN "not_found"
        ELSE IF ~CanTransition(Transitions[path], row.status, dialog.target) THEN "business_rule"
        ELSE IF row.version # r.expected THEN "version_conflict"
        ELSE "ok"
  BY <1>3 DEF Verdict
<1> HIDE DEF row, item
<1>6. CASE row.phase # "live"
  BY <1>1, <1>2, <1>5, <1>6 DEF Answer, Overtaken, row, item
<1>7. CASE row.phase = "live" /\ ~CanTransition(Transitions[path], row.status, dialog.target)
  <2>1. Verdict(r, dialog) = "business_rule" /\ row.version > item.version
    BY <1>2, <1>4, <1>5, <1>7
  <2> QED
    BY <2>1 DEF Answer, Overtaken, row, item
<1>8. CASE /\ row.phase = "live" /\ CanTransition(Transitions[path], row.status, dialog.target)
           /\ row.version # r.expected
  <2>1. Verdict(r, dialog) = "version_conflict" /\ row.version > item.version
    BY <1>2, <1>5, <1>8 DEF item
  <2> QED
    BY <2>1 DEF Answer, Overtaken, row, item
<1>9. CASE /\ row.phase = "live" /\ CanTransition(Transitions[path], row.status, dialog.target)
           /\ row.version = r.expected
  <2>1. Verdict(r, dialog) = "ok" /\ row.status = item.status
    BY <1>1, <1>2, <1>5, <1>9 DEF item
  <2> QED
    BY <1>4, <1>9, <2>1 DEF Answer, row, item
<1> QED
  BY <1>6, <1>7, <1>8, <1>9

Refusal == {"business_rule", "version_conflict", "not_found"}

\* An answer to request k and what it tells.
Told(k, answer, found) ==
  /\ Reply(k, answer, found)
  /\ \A item \in found : Knows(item)
  /\ task[k].op = "transition" =>
       answer # "forbidden" /\ (answer \in Refusal => \A dialog \in task[k].dialog : Overtaken(dialog))

\* What serving a request does.
LEMMA ServeStep ==
  ASSUME TypeOK, PageStatus, Informed, NEW k \in Task, Serve(k)
  PROVE  /\ rows' \in [Id -> Row] /\ PageStatus' /\ \A i \in Id : RowMove(i)
         /\ InFlight(k) /\ UNCHANGED <<path, role, store, pending, showCreate, loads>>
         /\ \E answer \in Answer, found \in SUBSET Item : Told(k, answer, found)
         /\ rows' # rows => \A dialog \in task[k].dialog :
              /\ rows[dialog.item.id].status = dialog.item.status
              /\ rows'[dialog.item.id].status = dialog.target
<1>0. /\ InFlight(k) /\ UNCHANGED <<path, role, store, pending, showCreate, loads>>
      /\ task[k] \in Request /\ task[k].dialog \subseteq Dialog /\ Honoured(task[k])
  BY RequestFields DEF Serve, Informed
<1>s. rows' = rows => rows' \in [Id -> Row] /\ PageStatus' /\ \A i \in Id : RowMove(i)
  BY <1>0 DEF TypeOK, PageStatus, RowMove
<1>1. CASE task[k].op = "load" /\ Reply(k, "ok", Items) /\ UNCHANGED rows
  <2>1. Told(k, "ok", Items) /\ Items \in SUBSET Item /\ "ok" \in Answer
    BY <1>1, ItemsKnown DEF Told, Answer
  <2> QED
    BY <1>0, <1>1, <1>s, <2>1
<1>2. CASE /\ task[k].op = "create" /\ Reply(k, "ok", {})
           /\ \E i \in Id : rows[i].phase = "absent" /\ Put(i, "live", rows[i].status, 1)
  <2>1. Told(k, "ok", {}) /\ {} \in SUBSET Item /\ "ok" \in Answer
    BY <1>2 DEF Told, Answer
  <2>2. PICK i \in Id : rows[i].phase = "absent" /\ Put(i, "live", rows[i].status, 1)
    BY <1>2
  <2>3. rows[i].status \in Status /\ rows[i].status \in DOMAIN Transitions[path]
    BY DEF TypeOK, PageStatus, Row
  <2>4. /\ rows' \in [Id -> Row] /\ PageStatus' /\ rows'[i].phase = "live"
        /\ \A j \in Id \ {i} : rows'[j] = rows[j]
    BY <1>0, <2>2, <2>3, PutStep
  <2>5. \A j \in Id : RowMove(j)
    BY <2>2, <2>4 DEF RowMove
  <2>6. task[k].dialog = {}
    BY <1>0, <1>2 DEF Honoured
  <2> QED
    BY <1>0, <2>1, <2>4, <2>5, <2>6
<1>3. CASE task[k].op = "transition" /\ ServeTransition(k)
  <2>1. PICK dialog \in task[k].dialog :
          /\ IF Verdict(task[k], dialog) = "ok"
             THEN Put(dialog.item.id, "live", dialog.target, task[k].expected + 1)
             ELSE UNCHANGED rows
          /\ Reply(k, Verdict(task[k], dialog), {})
    BY <1>3 DEF ServeTransition
  <2>2. /\ dialog \in Dialog /\ Offered(dialog) /\ task[k].expected = dialog.item.version
        /\ \A d \in task[k].dialog : d = dialog
    BY <1>0, <2>1 DEF Honoured
  <2>3. /\ Verdict(task[k], dialog) \in Answer /\ Verdict(task[k], dialog) # "forbidden"
        /\ Verdict(task[k], dialog) # "ok" => Overtaken(dialog)
    BY <1>0, <2>2, VerdictStep
  <2>4. Told(k, Verdict(task[k], dialog), {}) /\ {} \in SUBSET Item
    BY <2>1, <2>2, <2>3 DEF Told, Refusal
  <2>5. CASE Verdict(task[k], dialog) = "ok"
    <3>1. /\ rows[dialog.item.id].phase = "live"
          /\ rows[dialog.item.id].status = dialog.item.status
          /\ rows[dialog.item.id].version = task[k].expected
          /\ CanTransition(Transitions[path], dialog.item.status, dialog.target)
      BY <1>0, <2>2, <2>5, VerdictStep
    <3>2. /\ dialog.item.id \in Id /\ dialog.target \in Status
          /\ dialog.target \in DOMAIN Transitions[path] /\ task[k].expected \in Nat
      BY <1>0, <2>2, <3>1, GraphClosed DEF TypeOK, CanTransition, Dialog, Item, Request
    <3>3. /\ rows' \in [Id -> Row] /\ PageStatus'
          /\ rows'[dialog.item.id].phase = "live" /\ rows'[dialog.item.id].status = dialog.target
          /\ rows'[dialog.item.id].version = task[k].expected + 1
          /\ \A j \in Id \ {dialog.item.id} : rows'[j] = rows[j]
      BY <1>0, <2>1, <2>5, <3>2, PutStep
    <3>4. \A j \in Id : RowMove(j)
      BY <3>1, <3>2, <3>3 DEF RowMove
    <3> QED
      BY <1>0, <2>2, <2>3, <2>4, <3>1, <3>3, <3>4
  <2>6. CASE Verdict(task[k], dialog) # "ok"
    BY <1>0, <1>s, <2>1, <2>3, <2>4, <2>6
  <2> QED
    BY <2>5, <2>6
<1> QED
  BY <1>1, <1>2, <1>3 DEF Serve

-----------------------------------------------------------------------------
(* Types                                                                   *)

\* Every step keeps the type invariant and the statuses of the page.
LEMMA TypeStep == TypeOK /\ PageStatus /\ Informed /\ [Next]_vars => TypeOK' /\ PageStatus'
<1> SUFFICES ASSUME TypeOK, PageStatus, Informed, [Next]_vars PROVE TypeOK' /\ PageStatus'
  OBVIOUS
<1>r. rows' = rows /\ path' = path => PageStatus'
  BY DEF PageStatus
<1>1. CASE UNCHANGED vars
  BY <1>1, <1>r DEF TypeOK, vars
<1>2. ASSUME NEW k \in Task, ngOnInit(k) PROVE TypeOK' /\ PageStatus'
  <2>1. SendLoad(k, TRUE, "none", Disowned)
    BY <1>2 DEF ngOnInit, Disowned
  <2>2. /\ task' \in [Task -> Request \cup {Idle}]
        /\ store' \in [items : SUBSET Item, loading : BOOLEAN, error : BOOLEAN]
        /\ loads' \in [newest : SUBSET Task, shown : BOOLEAN, overlapped : BOOLEAN]
    BY <2>1, DisownedFields, SendLoadStep
  <2> QED
    BY <1>2, <1>r, <2>2 DEF ngOnInit, TypeOK
<1>3. ASSUME NEW k \in Task, Query(k) PROVE TypeOK' /\ PageStatus'
  <2>1. SendLoad(k, TRUE, "none", task) /\ task \in [Task -> Request \cup {Idle}]
    BY <1>3 DEF Query, TypeOK
  <2>2. /\ task' \in [Task -> Request \cup {Idle}]
        /\ store' \in [items : SUBSET Item, loading : BOOLEAN, error : BOOLEAN]
        /\ loads' \in [newest : SUBSET Task, shown : BOOLEAN, overlapped : BOOLEAN]
    BY <2>1, SendLoadStep
  <2> QED
    BY <1>3, <1>r, <2>2 DEF Query, TypeOK
<1>4. ASSUME NEW k \in Task, confirmTransition(k) PROVE TypeOK' /\ PageStatus'
  <2>1. PICK dialog \in pending :
          SendWrite(k, "transition", {dialog}, ExpectedVersion(dialog.item))
    BY <1>4 DEF confirmTransition
  <2>2. {dialog} \in SUBSET Dialog /\ ExpectedVersion(dialog.item) \in Nat
    BY DEF TypeOK, ExpectedVersion, Dialog, Item
  <2>3. /\ task' \in [Task -> Request \cup {Idle}]
        /\ store' \in [items : SUBSET Item, loading : BOOLEAN, error : BOOLEAN]
        /\ UNCHANGED <<path, role, rows, pending, showCreate, loads>>
    BY <2>1, <2>2, SendWriteStep DEF SendWrite
  <2> QED
    BY <1>r, <2>3 DEF TypeOK
<1>5. ASSUME NEW k \in Task, createDemo(k) PROVE TypeOK' /\ PageStatus'
  <2>1. SendWrite(k, "create", {}, 0) /\ {} \in SUBSET Dialog /\ 0 \in Nat
    BY <1>5 DEF createDemo
  <2>2. /\ task' \in [Task -> Request \cup {Idle}]
        /\ store' \in [items : SUBSET Item, loading : BOOLEAN, error : BOOLEAN]
        /\ UNCHANGED <<path, role, rows, pending, showCreate, loads>>
    BY <2>1, SendWriteStep DEF SendWrite
  <2> QED
    BY <1>r, <2>2 DEF TypeOK
<1>6. ASSUME NEW k \in Task, Serve(k) PROVE TypeOK' /\ PageStatus'
  <2>1. /\ rows' \in [Id -> Row] /\ PageStatus' /\ InFlight(k)
        /\ UNCHANGED <<path, role, store, pending, showCreate, loads>>
        /\ \E answer \in Answer, found \in SUBSET Item : Told(k, answer, found)
    BY <1>6, ServeStep
  <2>2. PICK answer \in Answer, found \in SUBSET Item : Reply(k, answer, found)
    BY <2>1 DEF Told
  <2>3. task' \in [Task -> Request \cup {Idle}]
    BY <2>1, <2>2, ReplyStep
  <2> QED
    BY <2>1, <2>3 DEF TypeOK
<1>7. ASSUME NEW k \in Task, Lose(k) PROVE TypeOK' /\ PageStatus'
  <2>1. /\ InFlight(k) /\ Reply(k, "error", {}) /\ "error" \in Answer /\ {} \in SUBSET Item
    BY <1>7 DEF Lose, Answer
  <2>2. task' \in [Task -> Request \cup {Idle}]
    BY <2>1, ReplyStep
  <2> QED
    BY <1>7, <1>r, <2>2 DEF TypeOK, Lose
<1>8. ASSUME NEW k \in Task, Arrive(k) PROVE TypeOK' /\ PageStatus'
  <2>0. /\ InFlight(k) /\ task[k].found \subseteq Item /\ task[k].own \in BOOLEAN
        /\ task[k].op \in {"load", "create", "transition"}
        /\ task \in [Task -> Request \cup {Idle}]
        /\ UNCHANGED <<path, role, rows>>
    BY <1>8, RequestFields DEF Arrive, TypeOK
  <2>f. Failed => store' \in [items : SUBSET Item, loading : BOOLEAN, error : BOOLEAN]
    BY DEF Failed, Patch, TypeOK
  <2>1. CASE LoadArrives(k)
    <3>1. store' \in [items : SUBSET Item, loading : BOOLEAN, error : BOOLEAN]
      <4>1. \/ store' = [items |-> task[k].found, loading |-> FALSE, error |-> FALSE]
            \/ Failed
        BY <2>1 DEF LoadArrives
      <4>2. \A found \in SUBSET Item : [items |-> found, loading |-> FALSE, error |-> FALSE]
              \in [items : SUBSET Item, loading : BOOLEAN, error : BOOLEAN]
        OBVIOUS
      <4>3. task[k].found \in SUBSET Item
        BY <2>0
      <4> QED
        BY <2>f, <4>1, <4>2, <4>3
    <3>2. loads' \in [newest : SUBSET Task, shown : BOOLEAN, overlapped : BOOLEAN]
      <4>1. \/ loads' = [loads EXCEPT !.shown = k \in loads.newest]
            \/ loads' = loads
        BY <2>1 DEF LoadArrives
      <4>2. \A b \in BOOLEAN : [loads EXCEPT !.shown = b]
              \in [newest : SUBSET Task, shown : BOOLEAN, overlapped : BOOLEAN]
        BY DEF TypeOK
      <4>3. (k \in loads.newest) \in BOOLEAN
        OBVIOUS
      <4> QED
        BY <4>1, <4>2, <4>3 DEF TypeOK
    <3>3. task' \in [Task -> Request \cup {Idle}]
      BY <2>0, <2>1 DEF LoadArrives
    <3> QED
      BY <1>r, <2>0, <2>1, <3>1, <3>2, <3>3 DEF LoadArrives, TypeOK
  <2>2. CASE WriteArrives(k)
    <3>1. CASE SendLoad(k, task[k].own, task[k].op, task)
      <4>1. task[k].op \in {"none", "create", "transition"}
        BY <2>0, <2>2 DEF WriteArrives
      <4>2. /\ task' \in [Task -> Request \cup {Idle}]
            /\ store' \in [items : SUBSET Item, loading : BOOLEAN, error : BOOLEAN]
            /\ loads' \in [newest : SUBSET Task, shown : BOOLEAN, overlapped : BOOLEAN]
        BY <2>0, <3>1, <4>1, SendLoadStep
      <4> QED
        BY <1>r, <2>0, <2>2, <4>2 DEF WriteArrives, TypeOK
    <3>2. CASE Failed /\ task' = [task EXCEPT ![k] = Idle] /\ UNCHANGED loads
      <4>1. task' \in [Task -> Request \cup {Idle}]
        BY <2>0, <3>2
      <4> QED
        BY <1>r, <2>0, <2>2, <2>f, <3>2, <4>1 DEF WriteArrives, TypeOK
    <3> QED
      BY <2>2, <3>1, <3>2 DEF WriteArrives
  <2> QED
    BY <1>8, <2>1, <2>2 DEF Arrive
<1>9. ASSUME NEW item \in store.items, NEW target \in Status, openTransition(item, target)
      PROVE  TypeOK' /\ PageStatus'
  <2>1. [item |-> item, target |-> target] \in Dialog
    BY DEF TypeOK, Dialog
  <2> QED
    BY <1>9, <1>r, <2>1 DEF openTransition, TypeOK
<1>10. CASE closeTransition \/ openCreate \/ closeCreate
  BY <1>10, <1>r DEF closeTransition, openCreate, closeCreate, TypeOK
<1>11. ASSUME NEW i \in Id, OtherWriter(i) PROVE TypeOK' /\ PageStatus'
  BY <1>11, OtherWriterStep DEF OtherWriter, TypeOK
<1> QED
  BY <1>1, <1>2, <1>3, <1>4, <1>5, <1>6, <1>7, <1>8, <1>9, <1>10, <1>11 DEF Next

-----------------------------------------------------------------------------
(* What the page knows                                                     *)

\* The answer a transition has been given has a cause.
Caused(r) ==
  r.op = "transition" =>
    r.answer # "forbidden" /\ (r.answer \in Refusal => \A dialog \in r.dialog : Overtaken(dialog))

\* The property is about each request on its way.
LEMMA CauseOfEach ==
  /\ RefusalHasCause <=> \A k \in Task : InFlight(k) => Caused(task[k])
  /\ RefusalHasCause' <=> \A k \in Task : InFlight(k)' => Caused(task[k])'
BY DEF RefusalHasCause, Caused, Overtaken, Refusal

\* A dialog that was overtaken stays so.
LEMMA OvertakenKept ==
  ASSUME TypeOK, TypeOK', NEW dialog \in Dialog, RowMove(dialog.item.id),
         Offered(dialog), Overtaken(dialog)
  PROVE  Overtaken(dialog)'
<1>1. /\ dialog.item.id \in Id /\ dialog.item.version \in Nat
      /\ rows[dialog.item.id] \in Row /\ rows'[dialog.item.id] \in Row
  BY DEF TypeOK, Dialog, Item
<1> QED
  BY <1>1 DEF RowMove, Overtaken, Row, Offered, Knows

\* To know what the page knows after a step it is enough that it held before.
LEMMA InformedFrom ==
  ASSUME TypeOK, TypeOK', UNCHANGED <<path, role>>, \A i \in Id : RowMove(i),
         \A item \in store'.items : Knows(item),
         \A dialog \in pending' : Offered(dialog),
         \A k \in Task : task'[k] # Idle => Honoured(task'[k]) /\ Caused(task'[k])
  PROVE  Informed' /\ RefusalHasCause'
<1>1. \A item \in Item : Knows(item) => Knows(item)'
  BY KnowsKept DEF Item
<1>2. \A dialog \in Dialog : Offered(dialog) => Offered(dialog)'
  <2> SUFFICES ASSUME NEW dialog \in Dialog, Offered(dialog) PROVE Offered(dialog)'
    OBVIOUS
  <2>1. dialog.item \in Item
    BY DEF Dialog
  <2>2. Knows(dialog.item)'
    BY <1>1, <2>1 DEF Offered
  <2>3. CanAdvance(dialog.item.status, dialog.target)'
    BY DEF Offered, CanAdvance, NextStatus, NeedsReview, canWrite, canReview
  <2> QED
    BY <2>2, <2>3 DEF Offered
<1>3. \A dialog \in Dialog : Offered(dialog) /\ Overtaken(dialog) => Overtaken(dialog)'
  BY OvertakenKept DEF Dialog, Item
<1>4. store'.items \subseteq Item /\ pending' \subseteq Dialog
  BY DEF TypeOK
<1>5. (\A item \in store.items : Knows(item))'
  BY <1>1, <1>4
<1>6. (\A dialog \in pending : Offered(dialog))'
  BY <1>2, <1>4
<1>7. ASSUME NEW k \in Task, InFlight(k)' PROVE Honoured(task[k])' /\ Caused(task[k])'
  <2>1. /\ task'[k] \in Request /\ task'[k] # Idle
        /\ task'[k].found \subseteq Item /\ task'[k].dialog \subseteq Dialog
    BY <1>7 DEF InFlight, Free, TypeOK, Request
  <2>2. Honoured(task'[k]) /\ Caused(task'[k])
    BY <2>1
  <2>3. Honoured(task[k])'
    BY <1>1, <1>2, <2>1, <2>2 DEF Honoured
  <2>4. Caused(task[k])'
    BY <1>3, <2>1, <2>2 DEF Caused, Honoured
  <2> QED
    BY <2>3, <2>4
<1>8. Informed'
  BY <1>5, <1>6, <1>7 DEF Informed
<1>9. RefusalHasCause'
  BY <1>7, CauseOfEach
<1> QED
  BY <1>8, <1>9

\* Every step keeps the page informed and its refusals caused.
LEMMA InformedStep ==
  TypeOK /\ TypeOK' /\ PageStatus /\ Informed /\ RefusalHasCause /\ [Next]_vars
    => Informed' /\ RefusalHasCause'
<1> SUFFICES ASSUME TypeOK, TypeOK', PageStatus, Informed, RefusalHasCause, [Next]_vars
             PROVE  Informed' /\ RefusalHasCause'
  OBVIOUS
<1>0. /\ \A item \in store.items : Knows(item)
      /\ \A dialog \in pending : Offered(dialog)
      /\ \A k \in Task : task[k] # Idle => Honoured(task[k]) /\ Caused(task[k])
  BY CauseOfEach DEF Informed, InFlight, Free
<1>m. rows' = rows => \A i \in Id : RowMove(i)
  BY DEF RowMove
<1>1. CASE UNCHANGED vars
  BY <1>0, <1>1, <1>m, InformedFrom DEF vars
<1>2. ASSUME NEW k \in Task, ngOnInit(k) PROVE Informed' /\ RefusalHasCause'
  <2>1. /\ SendLoad(k, TRUE, "none", Disowned) /\ pending' = {}
        /\ UNCHANGED <<path, role, rows>>
    BY <1>2 DEF ngOnInit, Disowned
  <2>2. /\ task'[k] = Sent("load", TRUE, "none", {}, 0) /\ store'.items = store.items
        /\ \A l \in Task \ {k} : task'[l] = Disowned[l]
    BY <2>1, DisownedFields, SendLoadStep
  <2>3. Honoured(task'[k]) /\ Caused(task'[k])
    BY <2>2 DEF Sent, Honoured, Caused
  <2>4. ASSUME NEW l \in Task \ {k}, task'[l] # Idle
        PROVE  Honoured(task'[l]) /\ Caused(task'[l])
    <3>1. /\ task[l] # Idle /\ task'[l].op = task[l].op /\ task'[l].dialog = task[l].dialog
          /\ task'[l].expected = task[l].expected /\ task'[l].answer = task[l].answer
          /\ task'[l].found = task[l].found
      BY <2>2, <2>4, DisownedFields DEF InFlight, Free
    <3>2. Honoured(task[l]) /\ Caused(task[l])
      BY <1>0, <3>1
    <3> QED
      BY <3>1, <3>2 DEF Honoured, Caused
  <2>5. \A l \in Task : task'[l] # Idle => Honoured(task'[l]) /\ Caused(task'[l])
    BY <2>3, <2>4
  <2> QED
    BY <1>0, <1>m, <2>1, <2>2, <2>5, InformedFrom
<1>3. ASSUME NEW k \in Task, Query(k) PROVE Informed' /\ RefusalHasCause'
  <2>1. /\ SendLoad(k, TRUE, "none", task) /\ task \in [Task -> Request \cup {Idle}]
        /\ UNCHANGED <<path, role, rows, pending>>
    BY <1>3 DEF Query, TypeOK
  <2>2. /\ task'[k] = Sent("load", TRUE, "none", {}, 0) /\ store'.items = store.items
        /\ \A l \in Task \ {k} : task'[l] = task[l]
    BY <2>1 DEF SendLoad, Patch, TypeOK
  <2>3. Honoured(task'[k]) /\ Caused(task'[k])
    BY <2>2 DEF Sent, Honoured, Caused
  <2>4. \A l \in Task : task'[l] # Idle => Honoured(task'[l]) /\ Caused(task'[l])
    BY <1>0, <2>2, <2>3
  <2> QED
    BY <1>0, <1>m, <2>1, <2>2, <2>4, InformedFrom
<1>4. ASSUME NEW k \in Task, confirmTransition(k) PROVE Informed' /\ RefusalHasCause'
  <2>1. PICK dialog \in pending :
          SendWrite(k, "transition", {dialog}, ExpectedVersion(dialog.item))
    BY <1>4 DEF confirmTransition
  <2>2. {dialog} \in SUBSET Dialog /\ dialog.item.version \in Nat
        /\ ExpectedVersion(dialog.item) = dialog.item.version
    BY DEF TypeOK, ExpectedVersion, Dialog, Item
  <2>3. /\ task'[k] = Sent("transition", TRUE, "none", {dialog}, dialog.item.version)
        /\ \A l \in Task \ {k} : task'[l] = task[l]
        /\ store'.items = store.items /\ UNCHANGED <<path, role, rows, pending>>
    BY <2>1, <2>2, SendWriteStep
  <2>4. Offered(dialog)
    BY <1>0
  <2>5. Honoured(task'[k]) /\ Caused(task'[k])
    BY <2>3, <2>4 DEF Sent, Honoured, Caused, Refusal
  <2>6. \A l \in Task : task'[l] # Idle => Honoured(task'[l]) /\ Caused(task'[l])
    BY <1>0, <2>3, <2>5
  <2> QED
    BY <1>0, <1>m, <2>3, <2>6, InformedFrom
<1>5. ASSUME NEW k \in Task, createDemo(k) PROVE Informed' /\ RefusalHasCause'
  <2>1. SendWrite(k, "create", {}, 0) /\ {} \in SUBSET Dialog /\ 0 \in Nat
    BY <1>5 DEF createDemo
  <2>2. /\ task'[k] = Sent("create", TRUE, "none", {}, 0)
        /\ \A l \in Task \ {k} : task'[l] = task[l]
        /\ store'.items = store.items /\ UNCHANGED <<path, role, rows, pending>>
    BY <2>1, SendWriteStep
  <2>3. Honoured(task'[k]) /\ Caused(task'[k])
    BY <2>2 DEF Sent, Honoured, Caused
  <2>4. \A l \in Task : task'[l] # Idle => Honoured(task'[l]) /\ Caused(task'[l])
    BY <1>0, <2>2, <2>3
  <2> QED
    BY <1>0, <1>m, <2>2, <2>4, InformedFrom
<1>6. ASSUME NEW k \in Task, NEW answer \in Answer, NEW found \in SUBSET Item,
             InFlight(k), Told(k, answer, found), UNCHANGED <<path, role, store, pending>>,
             \A i \in Id : RowMove(i)
      PROVE  Informed' /\ RefusalHasCause'
  <2>1. /\ task'[k].answer = answer /\ task'[k].found = found
        /\ task'[k].op = task[k].op /\ task'[k].dialog = task[k].dialog
        /\ task'[k].expected = task[k].expected
        /\ \A l \in Task \ {k} : task'[l] = task[l]
    BY <1>6, ReplyStep DEF Told
  <2>2. Honoured(task[k])
    BY <1>0, <1>6 DEF InFlight, Free
  <2>3. Honoured(task'[k]) /\ Caused(task'[k])
    BY <1>6, <2>1, <2>2 DEF Honoured, Caused, Told
  <2>4. \A l \in Task : task'[l] # Idle => Honoured(task'[l]) /\ Caused(task'[l])
    BY <1>0, <2>1, <2>3
  <2> QED
    BY <1>0, <1>6, <2>4, InformedFrom
<1>7. ASSUME NEW k \in Task, Serve(k) PROVE Informed' /\ RefusalHasCause'
  <2>1. /\ InFlight(k) /\ UNCHANGED <<path, role, store, pending>> /\ \A i \in Id : RowMove(i)
        /\ \E answer \in Answer, found \in SUBSET Item : Told(k, answer, found)
    BY <1>7, ServeStep
  <2> QED
    BY <1>6, <2>1
<1>8. ASSUME NEW k \in Task, Lose(k) PROVE Informed' /\ RefusalHasCause'
  <2>1. /\ InFlight(k) /\ UNCHANGED <<path, role, rows, store, pending>>
        /\ Told(k, "error", {}) /\ "error" \in Answer /\ {} \in SUBSET Item
    BY <1>8 DEF Lose, Told, Refusal, Answer
  <2> QED
    BY <1>6, <1>m, <2>1
<1>9. ASSUME NEW k \in Task, Arrive(k) PROVE Informed' /\ RefusalHasCause'
  <2>0. /\ InFlight(k) /\ task[k].own \in BOOLEAN /\ UNCHANGED <<path, role, rows>>
        /\ task[k].op \in {"load", "create", "transition"}
        /\ task \in [Task -> Request \cup {Idle}] /\ Honoured(task[k])
    BY <1>0, <1>9, RequestFields DEF Arrive, TypeOK, InFlight, Free
  <2>f. Failed => store'.items = store.items
    BY DEF Failed, Patch, TypeOK
  <2>i. ASSUME task' = [task EXCEPT ![k] = Idle]
        PROVE  \A l \in Task : task'[l] # Idle => Honoured(task'[l]) /\ Caused(task'[l])
    BY <1>0, <2>0, <2>i
  <2>1. CASE LoadArrives(k)
    <3>1. \/ store' = [items |-> task[k].found, loading |-> FALSE, error |-> FALSE]
          \/ Failed
      BY <2>1 DEF LoadArrives
    <3>2. \A item \in store'.items : Knows(item)
      BY <1>0, <2>0, <2>f, <3>1 DEF Honoured
    <3>3. pending' \subseteq pending /\ task' = [task EXCEPT ![k] = Idle]
      BY <2>1 DEF LoadArrives
    <3> QED
      BY <1>0, <1>m, <2>0, <2>i, <3>2, <3>3, InformedFrom
  <2>2. CASE WriteArrives(k) /\ SendLoad(k, task[k].own, task[k].op, task)
    <3>1. task[k].op \in {"none", "create", "transition"} /\ pending' = pending
      BY <2>0, <2>2 DEF WriteArrives
    <3>2. /\ task'[k] = Sent("load", task[k].own, task[k].op, {}, 0) /\ store'.items = store.items
          /\ \A l \in Task \ {k} : task'[l] = task[l]
      BY <2>0, <2>2 DEF SendLoad, Patch, TypeOK
    <3>3. Honoured(task'[k]) /\ Caused(task'[k])
      BY <3>2 DEF Sent, Honoured, Caused
    <3>4. \A l \in Task : task'[l] # Idle => Honoured(task'[l]) /\ Caused(task'[l])
      BY <1>0, <3>2, <3>3
    <3> QED
      BY <1>0, <1>m, <2>0, <3>1, <3>2, <3>4, InformedFrom
  <2>3. CASE WriteArrives(k) /\ Failed /\ task' = [task EXCEPT ![k] = Idle]
    <3>1. pending' = pending
      BY <2>3 DEF WriteArrives
    <3> QED
      BY <1>0, <1>m, <2>0, <2>3, <2>f, <2>i, <3>1, InformedFrom
  <2> QED
    BY <1>9, <2>1, <2>2, <2>3 DEF Arrive, WriteArrives
<1>10. ASSUME NEW item \in store.items, NEW target \in Status, openTransition(item, target)
       PROVE  Informed' /\ RefusalHasCause'
  <2> DEFINE d == [item |-> item, target |-> target]
  <2>1. pending' = {d} /\ UNCHANGED <<path, role, rows, store, task>>
    BY <1>10 DEF openTransition
  <2>2. Offered(d)
    BY <1>0, <1>10 DEF Offered, openTransition
  <2> HIDE DEF d
  <2> QED
    BY <1>0, <1>m, <2>1, <2>2, InformedFrom
<1>11. CASE closeTransition \/ openCreate \/ closeCreate
  <2>1. pending' \subseteq pending /\ UNCHANGED <<path, role, rows, store, task>>
    BY <1>11 DEF closeTransition, openCreate, closeCreate
  <2> QED
    BY <1>0, <1>m, <2>1, InformedFrom
<1>12. ASSUME NEW i \in Id, OtherWriter(i) PROVE Informed' /\ RefusalHasCause'
  <2>1. \A j \in Id : RowMove(j)
    BY <1>12, OtherWriterStep
  <2>2. UNCHANGED <<path, role, store, pending, task>>
    BY <1>12 DEF OtherWriter
  <2> QED
    BY <1>0, <2>1, <2>2, InformedFrom
<1> QED
  BY <1>1, <1>2, <1>3, <1>4, <1>5, <1>7, <1>8, <1>9, <1>10, <1>11, <1>12 DEF Next

-----------------------------------------------------------------------------
(* What the page shows                                                     *)

Shown == OneLoad /\ StaleListFlagged /\ LoadingOnlyWhileWaiting

\* A step that sends no load: requests on their way stay or come to their end, and the
\* page keeps saying what it said or says that something failed.
LEMMA ShownFrom ==
  ASSUME TypeOK, TypeOK', Shown, loads' = loads,
         \A l \in Task : InFlight(l)' /\ task'[l].op = "load" => InFlight(l) /\ task[l].op = "load",
         \/ store'.loading = FALSE /\ store'.error = TRUE
         \/ /\ store'.loading = store.loading /\ store'.error = store.error
            /\ \A l \in Task : InFlight(l) => InFlight(l)'
         \/ /\ store'.loading = TRUE /\ store'.error = store.error
            /\ \E l \in Task : InFlight(l)'
  PROVE  Shown'
<1>1. OneLoad'
  BY DEF Shown, OneLoad
<1>2. StaleListFlagged'
  BY DEF Shown, StaleListFlagged
<1>3. LoadingOnlyWhileWaiting'
  BY DEF Shown, LoadingOnlyWhileWaiting
<1> QED
  BY <1>1, <1>2, <1>3 DEF Shown

\* A load is sent: either it is the only one on its way, or the two overlap.
LEMMA ShownOnLoad ==
  ASSUME TypeOK, NEW k \in Task, task'[k] # Idle, store'.loading = TRUE, loads'.newest = {k},
         loads'.overlapped =
           (loads.overlapped \/ \E l \in Task \ {k} : InFlight(l) /\ task[l].op = "load"),
         \A l \in Task \ {k} :
           InFlight(l)' /\ task'[l].op = "load" => InFlight(l) /\ task[l].op = "load"
  PROVE  Shown'
<1>1. OneLoad'
  BY DEF OneLoad
<1>2. StaleListFlagged'
  BY DEF StaleListFlagged
<1>3. LoadingOnlyWhileWaiting'
  BY DEF LoadingOnlyWhileWaiting, InFlight, Free
<1> QED
  BY <1>1, <1>2, <1>3 DEF Shown

\* What is sent is on its way.
LEMMA SentNotIdle ==
  \A op, own, after, dialog, expected : Sent(op, own, after, dialog, expected) # Idle
<1> SUFFICES ASSUME NEW op, NEW own, NEW after, NEW dialog, NEW expected
             PROVE  Sent(op, own, after, dialog, expected) # Idle
  OBVIOUS
<1>1. "own" \in DOMAIN Sent(op, own, after, dialog, expected) /\ "own" \notin DOMAIN Idle
  BY DEF Sent, Idle
<1> QED
  BY <1>1

\* Every step keeps what the page shows honest.
LEMMA ShownStep == TypeOK /\ TypeOK' /\ Shown /\ [Next]_vars => Shown'
<1> SUFFICES ASSUME TypeOK, TypeOK', Shown, [Next]_vars PROVE Shown'
  OBVIOUS
<1>q. UNCHANGED <<store, task, loads>> => Shown'
  BY ShownFrom DEF InFlight, Free
<1>1. CASE UNCHANGED vars
  BY <1>1, <1>q DEF vars
<1>2. ASSUME NEW k \in Task, ngOnInit(k) PROVE Shown'
  <2>1. SendLoad(k, TRUE, "none", Disowned)
    BY <1>2 DEF ngOnInit, Disowned
  <2>2. /\ task'[k] # Idle /\ store'.loading = TRUE /\ loads'.newest = {k}
        /\ \A l \in Task \ {k} : task'[l] = Disowned[l]
    <3>1. Disowned \in [Task -> Request \cup {Idle}]
      BY DisownedFields
    <3> QED
      BY <2>1, <3>1, SentNotIdle DEF SendLoad, Patch, TypeOK
  <2>3. loads'.overlapped =
          (loads.overlapped \/ \E l \in Task \ {k} : InFlight(l) /\ task[l].op = "load")
    BY <2>1 DEF SendLoad
  <2>4. \A l \in Task \ {k} :
          InFlight(l)' /\ task'[l].op = "load" => InFlight(l) /\ task[l].op = "load"
    BY <2>2, DisownedFields DEF InFlight, Free
  <2> QED
    BY <2>2, <2>3, <2>4, ShownOnLoad
<1>3. ASSUME NEW k \in Task, NEW own, NEW after, SendLoad(k, own, after, task) PROVE Shown'
  <2>1. /\ task'[k] # Idle /\ store'.loading = TRUE /\ loads'.newest = {k}
        /\ \A l \in Task \ {k} : task'[l] = task[l]
    BY <1>3, SentNotIdle DEF SendLoad, Patch, TypeOK
  <2>2. loads'.overlapped =
          (loads.overlapped \/ \E l \in Task \ {k} : InFlight(l) /\ task[l].op = "load")
    BY <1>3 DEF SendLoad
  <2>3. \A l \in Task \ {k} :
          InFlight(l)' /\ task'[l].op = "load" => InFlight(l) /\ task[l].op = "load"
    BY <2>1 DEF InFlight, Free
  <2> QED
    BY <2>1, <2>2, <2>3, ShownOnLoad
<1>4. ASSUME NEW k \in Task, NEW op \in {"create", "transition"}, NEW dialog, NEW expected,
             SendWrite(k, op, dialog, expected)
      PROVE  Shown'
  <2>1. /\ task'[k] = Sent(op, TRUE, "none", dialog, expected)
        /\ \A l \in Task \ {k} : task'[l] = task[l]
        /\ store'.loading = TRUE /\ store'.error = store.error /\ loads' = loads
    BY <1>4 DEF SendWrite, Patch, TypeOK
  <2>2. task'[k] # Idle /\ task'[k].op # "load"
    BY <2>1, SentNotIdle DEF Sent
  <2> QED
    BY <2>1, <2>2, ShownFrom DEF InFlight, Free
<1>5. ASSUME NEW k \in Task, NEW answer, NEW found, InFlight(k), Reply(k, answer, found),
             UNCHANGED <<store, loads>>
      PROVE  Shown'
  <2>1. task[k] \in Request /\ task[k] # Idle
    BY <1>5, RequestFields DEF InFlight, Free
  <2>2. /\ task'[k].op = task[k].op /\ "own" \in DOMAIN task'[k]
        /\ \A l \in Task \ {k} : task'[l] = task[l]
    BY <1>5, <2>1 DEF Reply, TypeOK, Request
  <2>3. task'[k] # Idle
    BY <2>2 DEF Idle
  <2> QED
    BY <1>5, <2>2, <2>3, ShownFrom DEF InFlight, Free
<1>6. ASSUME NEW k \in Task, Serve(k) PROVE Shown'
  BY <1>5, <1>6 DEF Serve, ServeTransition
<1>7. ASSUME NEW k \in Task, Lose(k) PROVE Shown'
  BY <1>5, <1>7 DEF Lose
<1>8. ASSUME NEW k \in Task, Failed, loads' = loads, task' = [task EXCEPT ![k] = Idle]
      PROVE  Shown'
  <2>1. store'.loading = FALSE /\ store'.error = TRUE
    BY <1>8 DEF Failed, Patch, TypeOK
  <2>2. \A l \in Task : InFlight(l)' => task'[l] = task[l]
    BY <1>8 DEF InFlight, Free, TypeOK
  <2> QED
    BY <1>8, <2>1, <2>2, ShownFrom DEF InFlight, Free
<1>9. ASSUME NEW k \in Task, InFlight(k), LoadArrives(k), task[k].answer = "ok" PROVE Shown'
  <2>1. /\ store'.loading = FALSE /\ loads' = [loads EXCEPT !.shown = k \in loads.newest]
        /\ task' = [task EXCEPT ![k] = Idle] /\ task[k].op = "load"
    BY <1>9 DEF LoadArrives
  <2>2. /\ loads'.newest = loads.newest /\ loads'.overlapped = loads.overlapped
        /\ loads'.shown <=> k \in loads.newest
    BY <2>1 DEF TypeOK
  <2>3. \A l \in Task : InFlight(l)' => InFlight(l) /\ task'[l] = task[l]
    BY <2>1 DEF InFlight, Free, TypeOK
  <2>4. OneLoad'
    BY <2>2, <2>3 DEF Shown, OneLoad
  <2>5. StaleListFlagged'
    BY <1>9, <2>1, <2>2 DEF Shown, OneLoad, StaleListFlagged
  <2>6. LoadingOnlyWhileWaiting'
    BY <2>1 DEF LoadingOnlyWhileWaiting
  <2> QED
    BY <2>4, <2>5, <2>6 DEF Shown
<1>10. ASSUME NEW k \in Task, Arrive(k) PROVE Shown'
  <2>1. CASE LoadArrives(k)
    BY <1>8, <1>9, <1>10, <2>1 DEF Arrive, LoadArrives
  <2>2. CASE WriteArrives(k)
    BY <1>3, <1>8, <2>2 DEF WriteArrives
  <2> QED
    BY <1>10, <2>1, <2>2 DEF Arrive
<1>11. ASSUME NEW k \in Task, Query(k) \/ confirmTransition(k) \/ createDemo(k) PROVE Shown'
  BY <1>3, <1>4, <1>11 DEF Query, confirmTransition, createDemo
<1>12. ASSUME NEW item \in store.items, NEW target \in Status, openTransition(item, target)
       PROVE  Shown'
  BY <1>12, <1>q DEF openTransition
<1>13. CASE closeTransition \/ openCreate \/ closeCreate
  BY <1>13, <1>q DEF closeTransition, openCreate, closeCreate
<1>14. ASSUME NEW i \in Id, OtherWriter(i) PROVE Shown'
  BY <1>14, <1>q DEF OtherWriter
<1> QED
  BY <1>1, <1>2, <1>6, <1>7, <1>10, <1>11, <1>12, <1>13, <1>14 DEF Next

-----------------------------------------------------------------------------
(* Theorems                                                                *)

\* An opened page satisfies the invariant.
LEMMA WorkbenchInit == Init => WorkbenchInv
<1> SUFFICES ASSUME Init PROVE WorkbenchInv
  OBVIOUS
<1>0. \A k \in Task : ~InFlight(k)
  BY DEF Init, InFlight, Free
<1>1. rows \in [Id -> Row] /\ PageStatus
  <2>1. /\ path \in Path /\ ENTITY_CONFIGS[path][1] \in Status
        /\ ENTITY_CONFIGS[path][1] \in DOMAIN Transitions[path]
    BY FirstStatus DEF Init
  <2> DEFINE s == ENTITY_CONFIGS[path][1]
             R == {[phase |-> "absent", status |-> s, version |-> 0],
                   [phase |-> "live", status |-> s, version |-> 1]}
  <2>2. rows \in [Id -> R]
    BY DEF Init
  <2> HIDE DEF s
  <2>3. R \subseteq Row /\ \A r \in R : r.status = s
    BY <2>1 DEF Row, s
  <2> HIDE DEF R
  <2> QED
    BY <2>1, <2>2, <2>3 DEF PageStatus, s
<1>2. TypeOK
  <2>1. path \in Path /\ role \in Role
    BY WorkbenchAssumption DEF Init
  <2> QED
    BY <1>1, <2>1 DEF Init, TypeOK
<1>3. Informed /\ RefusalHasCause
  BY <1>0 DEF Init, Informed, RefusalHasCause
<1>4. OneLoad /\ StaleListFlagged /\ LoadingOnlyWhileWaiting
  BY <1>0 DEF Init, OneLoad, StaleListFlagged, LoadingOnlyWhileWaiting
<1> QED
  BY <1>1, <1>2, <1>3, <1>4 DEF WorkbenchInv

\* The invariant holds throughout.
THEOREM WorkbenchInvariant == Spec => []WorkbenchInv
<1>1. WorkbenchInv /\ [Next]_vars => WorkbenchInv'
  BY TypeStep, InformedStep, ShownStep DEF WorkbenchInv, Shown
<1> QED
  BY <1>1, WorkbenchInit, PTL DEF Spec

\* Page, store and requests keep their shape.
THEOREM WorkbenchTypeCorrect == Spec => []TypeOK
<1>1. WorkbenchInv => TypeOK
  BY DEF WorkbenchInv
<1> QED
  BY <1>1, WorkbenchInvariant, PTL

\* A move the page offers is never refused for the user's role, and otherwise only
\* because the record changed after it was listed.
THEOREM RefusalsCaused == Spec => []RefusalHasCause
<1>1. WorkbenchInv => RefusalHasCause
  BY DEF WorkbenchInv
<1> QED
  BY <1>1, WorkbenchInvariant, PTL

\* A list that is not the newest answer is shown with a notice, until loads overlap.
THEOREM StaleListsFlagged == Spec => []StaleListFlagged
<1>1. WorkbenchInv => StaleListFlagged
  BY DEF WorkbenchInv
<1> QED
  BY <1>1, WorkbenchInvariant, PTL

\* The page says that it is loading only while something is on its way.
THEOREM LoadingEnds == Spec => []LoadingOnlyWhileWaiting
<1>1. WorkbenchInv => LoadingOnlyWhileWaiting
  BY DEF WorkbenchInv
<1> QED
  BY <1>1, WorkbenchInvariant, PTL

\* A confirmed move that is carried out is the move the dialog showed.
THEOREM MovesAsShown == Spec => ConfirmedMoveIsShownMove
<1>1. WorkbenchInv /\ [Next]_vars =>
        [\A k \in Task : Serve(k) /\ rows' # rows =>
           \A dialog \in task[k].dialog :
             /\ rows[dialog.item.id].status = dialog.item.status
             /\ rows'[dialog.item.id].status = dialog.target]_vars
  BY ServeStep DEF WorkbenchInv
<1> QED
  BY <1>1, WorkbenchInvariant, PTL DEF Spec, ConfirmedMoveIsShownMove
=============================================================================
