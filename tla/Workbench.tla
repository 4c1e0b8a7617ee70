----------------------------- MODULE Workbench -----------------------------
(***************************************************************************)
(* The workbench of one user: the page of one kind of record               *)
(* (components/entity-page.component.ts) over its store                    *)
(* (stores/factory.ts), while other users change the records.  The store   *)
(* outlives the page; requests overlap, their answers come in any order,   *)
(* and an answer can be lost after the server has done the work.           *)
(*                                                                         *)
(* The server executes a request in one step here: that concurrent         *)
(* requests amount to that is what ImplementsRecordService and             *)
(* ImplementsLedger say.  Code between two awaits is one action.           *)
(***************************************************************************)
EXTENDS AccessControl, StatusGraph, Sequences

CONSTANTS
  Id,           \* primary keys
  Roles,        \* roles the user of the page may have
  Task,         \* requests the page has on their way, a bound
  MaxVersion    \* other users leave a row alone from this version on

ASSUME WorkbenchAssumption == Roles \subseteq Role /\ MaxVersion \in Nat

VARIABLES
  path,         \* which of the four pages
  role,         \* the session's role
  rows,         \* the table: id -> row
  store,        \* EntityState: items, loading, error
  pending,      \* the open confirmation, {} or the set of one dialog
  showCreate,   \* the create dialog is open
  task,         \* request -> what it carries and its answer
  loads         \* the load sent last, whether its answer is shown, whether any overlapped

vars == <<path, role, rows, store, pending, showCreate, task, loads>>

-----------------------------------------------------------------------------
(* types/status.ts and the graphs of the server.                           *)

Path == {"units", "rules", "samples", "decisions"}

ENTITY_CONFIGS ==
  [units     |-> <<"standby", "running", "limited", "stopped">>,
   rules     |-> <<"draft", "active", "superseded", "retired">>,
   samples   |-> <<"collected", "testing", "verified", "invalid">>,
   decisions |-> <<"draft", "review", "accepted", "escalated">>]

Transitions ==
  [units     |-> CaptureUnitTransitions,
   rules     |-> PermitRuleTransitions,
   samples   |-> EmissionSampleTransitions,
   decisions |-> ComplianceDecisionTransitions]

Status == UnitState \cup RuleState \cup SampleState \cup DecisionState

Row    == [phase : {"absent", "live", "deleted"}, status : Status, version : Nat]
Item   == [id : Id, status : Status, version : Nat]
Dialog == [item : Item, target : Status]

\* nextStatus: the status after this one in the list, if there is one.
NextStatus(status) ==
  LET statuses == ENTITY_CONFIGS[path]
  IN {statuses[i + 1] : i \in {j \in 1 .. Len(statuses) - 1 : statuses[j] = status}}

NeedsReview(target) == path = "decisions" /\ target \in {"accepted", "escalated"}

canWrite == RequireMinimumRole(role, "operator")
canReview == RequireMinimumRole(role, "reviewer")

WritersTransition(status, target) == target \in NextStatus(status) /\ canWrite \* mutant
CanAdvance(status, target) ==
  target \in NextStatus(status) /\ canWrite /\ (NeedsReview(target) => canReview)

-----------------------------------------------------------------------------
Items == {[id |-> i, status |-> rows[i].status, version |-> rows[i].version] :
            i \in {j \in Id : rows[j].phase = "live"}}

Answer == {"none", "ok", "forbidden", "not_found", "business_rule", "version_conflict", "error"}

\* own: the page that sent the request is still open.  after: the write a load
\* completes.  dialog, expected: what a transition confirms.  found: what a load got.
Request == [op : {"load", "create", "transition"}, own : BOOLEAN,
            after : {"none", "create", "transition"},
            dialog : SUBSET Dialog, expected : Nat,
            answer : Answer, found : SUBSET Item]

Idle == [op |-> "none"]

Sent(op, own, after, dialog, expected) ==
  [op |-> op, own |-> own, after |-> after, dialog |-> dialog, expected |-> expected,
   answer |-> "none", found |-> {}]

Init ==
  /\ path \in Path
  /\ role \in Roles
  /\ rows \in [Id -> {[phase |-> "absent", status |-> ENTITY_CONFIGS[path][1], version |-> 0],
                      [phase |-> "live", status |-> ENTITY_CONFIGS[path][1], version |-> 1]}]
  /\ store = [items |-> {}, loading |-> FALSE, error |-> FALSE]
  /\ pending = {}
  /\ showCreate = FALSE
  /\ task = [k \in Task |-> Idle]
  /\ loads = [newest |-> {}, shown |-> TRUE, overlapped |-> FALSE]

-----------------------------------------------------------------------------
(* The store.                                                              *)

Patch(loading, error) == store' = [store EXCEPT !.loading = loading, !.error = error]

ErrorForgotten == Patch(FALSE, store.error)                             \* mutant
LoadingForgotten == Patch(store.loading, TRUE)                          \* mutant
Failed == Patch(FALSE, TRUE)

Free(k) == task[k] = Idle
InFlight(k) == ~Free(k)

\* load up to its await, in request k.
SendLoad(k, own, after, others) ==
  /\ task' = [others EXCEPT ![k] = Sent("load", own, after, {}, 0)]
  /\ Patch(TRUE, FALSE)
  /\ loads' = [newest     |-> {k},
               shown      |-> FALSE,
               overlapped |-> loads.overlapped
                              \/ \E l \in Task \ {k} : InFlight(l) /\ task[l].op = "load"]

\* createRecord and transition up to their await.
SendWrite(k, op, dialog, expected) ==
  /\ Free(k)
  /\ task' = [task EXCEPT ![k] = Sent(op, TRUE, "none", dialog, expected)]
  /\ Patch(TRUE, store.error)
  /\ UNCHANGED <<path, role, rows, pending, showCreate, loads>>

-----------------------------------------------------------------------------
(* The user.                                                               *)

\* The page is opened, or left and opened again: a new component loads its list,
\* and requests of the old one no longer reach a dialog.
ngOnInit(k) ==
  /\ Free(k)
  /\ SendLoad(k, TRUE, "none",
       [l \in Task |-> IF Free(l) THEN Idle ELSE [task[l] EXCEPT !.own = FALSE]])
  /\ pending' = {}
  /\ showCreate' = FALSE
  /\ UNCHANGED <<path, role, rows>>

\* query and reset; which rows a search keeps is left out.  The backdrop of an open
\* dialog keeps the mouse from the buttons of the page, the keyboard reaches them.
Query(k) ==
  /\ Free(k)
  /\ SendLoad(k, TRUE, "none", task)
  /\ UNCHANGED <<path, role, rows, pending, showCreate>>

openTransition(item, target) ==
  /\ CanAdvance(item.status, target)
  /\ pending' = {[item |-> item, target |-> target]}
  /\ UNCHANGED <<path, role, rows, store, showCreate, task, loads>>

closeTransition ==
  /\ pending # {}
  /\ pending' = {}
  /\ UNCHANGED <<path, role, rows, store, showCreate, task, loads>>

openCreate ==
  /\ canWrite
  /\ showCreate' = TRUE
  /\ UNCHANGED <<path, role, rows, store, pending, task, loads>>

closeCreate ==
  /\ showCreate
  /\ showCreate' = FALSE
  /\ UNCHANGED <<path, role, rows, store, pending, task, loads>>

VersionInList(item) ==                                                  \* mutant
  IF \E i \in store.items : i.id = item.id
  THEN (CHOOSE i \in store.items : i.id = item.id).version ELSE item.version
ExpectedVersion(item) == item.version

\* A dialog stays open until the answer: it can be confirmed twice.
confirmTransition(k) ==
  \E dialog \in pending :
    /\ CanAdvance(dialog.item.status, dialog.target)
    /\ SendWrite(k, "transition", {dialog}, ExpectedVersion(dialog.item))

createDemo(k) ==
  /\ showCreate /\ canWrite
  /\ SendWrite(k, "create", {}, 0)

-----------------------------------------------------------------------------
(* The server.                                                             *)

ReviewerRequired(target) == NeedsReview(target) /\ ~canReview

Verdict(request, dialog) ==
  LET row == rows[dialog.item.id]
  IN IF ~RequireMinimumRole(role, "operator") THEN "forbidden"
     ELSE IF row.phase # "live" THEN "not_found"
     ELSE IF ~CanTransition(Transitions[path], row.status, dialog.target) THEN "business_rule"
     ELSE IF ReviewerRequired(dialog.target) THEN "business_rule"
     ELSE IF row.version # request.expected THEN "version_conflict"
     ELSE "ok"

Put(i, phase, status, version) ==
  rows' = [rows EXCEPT ![i] = [phase |-> phase, status |-> status, version |-> version]]

Reply(k, answer, found) ==
  task' = [task EXCEPT ![k].answer = answer, ![k].found = found]

ServeTransition(k) ==
  \E dialog \in task[k].dialog :
    LET verdict == Verdict(task[k], dialog)
    IN /\ IF verdict = "ok"
          THEN Put(dialog.item.id, "live", dialog.target, task[k].expected + 1)
          ELSE UNCHANGED rows
       /\ Reply(k, verdict, {})

Serve(k) ==
  /\ InFlight(k) /\ task[k].answer = "none"
  /\ \/ task[k].op = "load" /\ Reply(k, "ok", Items) /\ UNCHANGED rows
     \/ /\ task[k].op = "create"
        /\ \E i \in Id : rows[i].phase = "absent" /\ Put(i, "live", rows[i].status, 1)
        /\ Reply(k, "ok", {})
     \/ task[k].op = "transition" /\ ServeTransition(k)
  /\ UNCHANGED <<path, role, store, pending, showCreate, loads>>

\* The request or its answer is lost, or the server answers internal_error: before
\* the work or after it.  A request that is executed after its client has given up
\* moves the row as another user does, so it is left to OtherWriter.
Lose(k) ==
  /\ InFlight(k) /\ task[k].answer # "error"
  /\ Reply(k, "error", {})
  /\ UNCHANGED <<path, role, rows, store, pending, showCreate, loads>>

\* Other users, within the same graph; only drafts of decisions can be deleted.
OtherWriter(i) ==
  /\ LET row == rows[i]
     IN \/ row.phase = "absent" /\ Put(i, "live", row.status, 1)
        \/ /\ row.phase = "live" /\ row.version < MaxVersion
           /\ \/ Put(i, "live", row.status, row.version + 1)
              \/ \E target \in Transitions[path][row.status] :
                   Put(i, "live", target, row.version + 1)
              \/ /\ path = "decisions" => row.status = "draft"
                 /\ Put(i, "deleted", row.status, row.version)
  /\ UNCHANGED <<path, role, store, pending, showCreate, task, loads>>

-----------------------------------------------------------------------------
(* An answer arrives.                                                      *)

\* A load ends, with the write it completes: the dialog of that write closes.
LoadArrives(k) ==
  /\ task[k].op = "load"
  /\ IF task[k].answer = "ok"
     THEN /\ store' = [items |-> task[k].found, loading |-> FALSE, error |-> FALSE]
          /\ loads' = [loads EXCEPT !.shown = k \in loads.newest]
     ELSE Failed /\ UNCHANGED loads
  /\ task' = [task EXCEPT ![k] = Idle]
  /\ pending' = IF task[k].own /\ task[k].after = "transition" THEN {} ELSE pending
  /\ showCreate' = IF task[k].own /\ task[k].after = "create" THEN FALSE ELSE showCreate

\* A write that succeeded loads the list; one that failed leaves its dialog open.
WriteArrives(k) ==
  /\ task[k].op # "load"
  /\ IF task[k].answer = "ok"
     THEN SendLoad(k, task[k].own, task[k].op, task)
     ELSE Failed /\ task' = [task EXCEPT ![k] = Idle] /\ UNCHANGED loads
  /\ UNCHANGED <<pending, showCreate>>

Arrive(k) ==
  /\ InFlight(k) /\ task[k].answer # "none"
  /\ LoadArrives(k) \/ WriteArrives(k)
  /\ UNCHANGED <<path, role, rows>>

Next ==
  \/ \E k \in Task :
       \/ ngOnInit(k) \/ Query(k) \/ confirmTransition(k) \/ createDemo(k)
       \/ Serve(k) \/ Lose(k) \/ Arrive(k)
  \/ \E item \in store.items : \E target \in Status : openTransition(item, target)
  \/ closeTransition \/ openCreate \/ closeCreate
  \/ \E i \in Id : OtherWriter(i)

Spec == Init /\ [][Next]_vars

-----------------------------------------------------------------------------
(* Properties                                                              *)

\* The variables have the shapes listed; a confirmation is of one record.
TypeOK ==
  /\ path \in Path /\ role \in Role
  /\ rows \in [Id -> Row]
  /\ store \in [items : SUBSET Item, loading : BOOLEAN, error : BOOLEAN]
  /\ pending \subseteq Dialog /\ \A d, e \in pending : d = e
  /\ showCreate \in BOOLEAN
  /\ task \in [Task -> Request \cup {Idle}]
  /\ loads \in [newest : SUBSET Task, shown : BOOLEAN, overlapped : BOOLEAN]

\* What the user confirmed is what happens: a transition that is carried out moves
\* the record from the very status the dialog showed to the target it showed,
\* whoever changed the record since and whatever was loaded meanwhile.
ConfirmedMoveIsShownMove ==
  [][\A k \in Task : Serve(k) /\ rows' # rows =>
       \A dialog \in task[k].dialog :
         /\ rows[dialog.item.id].status = dialog.item.status
         /\ rows'[dialog.item.id].status = dialog.target]_vars

\* README.md:39, buttons follow the roles of the server: a move the page offers is
\* never refused for the user's role, and it is refused for its status, version or
\* absence only when the record changed after it was listed.
RefusalHasCause ==
  \A k \in Task : InFlight(k) /\ task[k].op = "transition" =>
    /\ task[k].answer # "forbidden"
    /\ task[k].answer \in {"business_rule", "version_conflict", "not_found"} =>
         \A dialog \in task[k].dialog :
           LET row == rows[dialog.item.id]
           IN row.phase = "deleted" \/ row.version > dialog.item.version

\* A list that is not the answer of the last load is never shown as if it were: the
\* page says that it is loading or that something failed.  Loads are not numbered,
\* so this holds until two of them overlap.
StaleListFlagged ==
  loads.overlapped \/ loads.shown \/ store.loading \/ store.error

\* The page says that it is loading only while something is on its way: whichever
\* request fails, and in whatever order the answers come, it does not stay so.
LoadingOnlyWhileWaiting == store.loading => \E k \in Task : InFlight(k)
=============================================================================
