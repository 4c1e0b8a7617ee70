------------------------------ MODULE ReadSide ------------------------------
(***************************************************************************)
(* What a client reads while others write: the paged list of decisions     *)
(* (repository/base.go, repository/compliance_decision.go), the paged audit*)
(* log and its summary (repository/security.go).  An answer is put together*)
(* from several queries, and a client that wants everything asks for page  *)
(* after page; each query sees the tables as they are when it runs.        *)
(*                                                                         *)
(* Writers are the requests of ComplianceDecision with the steps that      *)
(* matter to a reader: the row is read, then gorm takes its timestamp      *)
(* (updated_at, created_at) when it builds the statement, and the database *)
(* executes the statement later.  The version a request locks on and stores*)
(* plus one is the client's expectedVersion, which may be older than the   *)
(* row, or ahead of it.  The clock does not go back.                       *)
(***************************************************************************)
EXTENDS Integers, FiniteSets, Sequences, SequencesExt, StatusGraph

CONSTANTS
  Id,         \* primary keys, numbers
  Writer,     \* requests that change a decision
  User,       \* users who send them
  PageSize,   \* page size the reader asks for, within what bindPage accepts
  Window,     \* how far back the audit summary looks
  MaxTime,    \* bound of the clock
  Seeded,     \* keys of the rows there are at the start
  RunAhead    \* how far a client's expectedVersion may be ahead of the row

ASSUME ReadSideAssumption ==
  /\ Id \subseteq Nat /\ IsFiniteSet(Id) /\ Seeded \subseteq Id
  /\ PageSize \in 1 .. 100
  /\ Window \in Nat /\ MaxTime \in Nat /\ RunAhead \in Nat

VARIABLES
  clock,      \* time.Now
  table,      \* compliance_decisions: id -> row
  auditLog,   \* audit_logs
  writer,     \* request -> where it is and what it holds
  answered,   \* request -> the requests answered before it began
  reader,     \* the reading client and its handler
  walk        \* what the tables were when the reader began, and what retreated since

vars == <<clock, table, auditLog, writer, answered, reader, walk>>

-----------------------------------------------------------------------------
Row == [phase   : {"absent", "live", "deleted"},
        status  : DecisionState,
        version : Nat,
        stamp   : Nat]        \* updated_at

Action == {"create", "update", "transition", "delete"}

EntityType == {"ComplianceDecision"}

AuditLog == [request : Writer,
             actor   : User,
             action  : Action,
             entityType : EntityType,
             entity  : Id,
             stamp   : Nat]   \* created_at

AnyStatus == ""
Filter == {AnyStatus, "draft"}

Idle == [at |-> "idle"]
Unread == [op |-> "none", at |-> "idle"]

Init ==
  /\ clock = 0
  /\ table \in [Id -> {[phase |-> "absent", status |-> "draft", version |-> 0, stamp |-> 0],
                       [phase |-> "live", status |-> "draft", version |-> 1, stamp |-> 0]}]
  /\ \A i \in Id : table[i].phase = "live" <=> i \in Seeded
  /\ auditLog = {}
  /\ writer = [w \in Writer |-> Idle]
  /\ answered = [w \in Writer |-> {}]
  /\ reader = Unread
  /\ walk = [table |-> table, log |-> {}, left |-> FALSE, fell |-> FALSE, quiet |-> TRUE,
             counted |-> TRUE]

-----------------------------------------------------------------------------
(* Queries.                                                                *)

\* WHERE status = ?, when the client asked for one, of rows that are not deleted.
Matches(row, filter) == row.phase = "live" /\ (filter = AnyStatus \/ row.status = filter)
Found(filter) == {i \in Id : Matches(table[i], filter)}

\* ORDER BY updated_at DESC, id DESC.
OldestFirst(i, j) ==                                                    \* mutant
  table[i].stamp < table[j].stamp \/ (table[i].stamp = table[j].stamp /\ i < j)
NewestFirst(i, j) ==
  table[i].stamp > table[j].stamp \/ (table[i].stamp = table[j].stamp /\ i > j)

ListOrder(filter) ==
  CHOOSE order \in SetToSeqs(Found(filter)) :
    \A m, n \in DOMAIN order : m < n => NewestFirst(order[m], order[n])

\* OFFSET (page - 1) * pageSize LIMIT pageSize.
SkipFirstPage(rows, page) ==                                            \* mutant
  SubSeq(rows, page * PageSize + 1, Min({(page + 1) * PageSize, Len(rows)}))
UnlimitedPage(rows, page) == SubSeq(rows, (page - 1) * PageSize + 1, Len(rows))  \* mutant
PageOf(rows, page) ==
  SubSeq(rows, (page - 1) * PageSize + 1, Min({page * PageSize, Len(rows)}))

\* ORDER BY created_at DESC alone: entries of one instant come in any order.
AuditOrders ==
  {order \in SetToSeqs(auditLog) :
     \A m, n \in DOMAIN order : m < n => order[m].stamp >= order[n].stamp}

\* WHERE compliance_decision_id IN ?: every commit of a row adds its revision, so
\* the table holds one per version.
FirstRevisions(i) == 1 .. Min({table[i].version, PageSize})              \* mutant
RevisionsOf(i) == 1 .. table[i].version

-----------------------------------------------------------------------------
(* Writers.                                                                *)

Lead(w, next) == writer' = [writer EXCEPT ![w] = next]

\* What a request makes of the row it has read and the client's expectedVersion.  The
\* statement of a delete has no updated_at to build.
Planned(op, u, i, status, expected) ==
  [at |-> IF op = "delete" THEN "writing" ELSE "building", op |-> op, user |-> u, id |-> i,
   row |-> [phase   |-> IF op = "delete" THEN "deleted" ELSE "live",
            status  |-> status,
            version |-> expected + 1,
            stamp   |-> table[i].stamp]]

DoneOnCommit == {v \in Writer : writer[v].at \in {"auditing", "inserting", "done"}}  \* mutant
Done == {v \in Writer : writer[v].at = "done"}

\* Read and check.  A create starts at version 1, a delete names no version.
Begin(w) ==
  /\ writer[w].at = "idle"
  /\ \E u \in User, i \in Id :
       \/ /\ table[i].phase = "absent"
          /\ Lead(w, Planned("create", u, i, "draft", 0))
       \/ /\ table[i].phase = "live" /\ table[i].status = "draft"
          /\ Lead(w, Planned("delete", u, i, "draft", 0))
       \/ /\ table[i].phase = "live"
          /\ \E expected \in 1 .. table[i].version + RunAhead :
               \/ /\ table[i].status = "draft"
                  /\ Lead(w, Planned("update", u, i, "draft", expected))
               \/ \E s \in DecisionState :
                    /\ CanTransition(ComplianceDecisionTransitions, table[i].status, s)
                    /\ Lead(w, Planned("transition", u, i, s, expected))
  /\ answered' = [answered EXCEPT ![w] = Done]
  /\ UNCHANGED <<clock, table, auditLog, reader, walk>>

\* gorm sets updated_at when it builds the statement.
BuildStatement(w) ==
  /\ writer[w].at = "building"
  /\ Lead(w, [writer[w] EXCEPT !.at = "writing", !.row.stamp = clock])
  /\ UNCHANGED <<clock, table, auditLog, answered, reader, walk>>

\* The unique key, the WHERE of a delete, and the optimistic lock.
Holds(plan) ==
  CASE plan.op = "create" -> table[plan.id].phase = "absent"
    [] plan.op = "delete" -> table[plan.id].phase = "live"
    [] OTHER -> table[plan.id].phase = "live" /\ table[plan.id].version + 1 = plan.row.version

\* A delete leaves status, version and updated_at as they are by then.
Stored(plan) ==
  IF plan.op = "delete" THEN [table[plan.id] EXCEPT !.phase = "deleted"] ELSE plan.row

\* A row may leave the list that is read, or fall back in it: be given an older
\* updated_at than it had.
Leaves(i, next) ==
  /\ reader.op = "list"
  /\ Matches(table[i], reader.filter) /\ ~Matches(next, reader.filter)
Falls(i, next) == reader.op = "list" /\ next.stamp < table[i].stamp

Write(w) ==
  LET plan == writer[w]
  IN /\ plan.at = "writing"
     /\ IF Holds(plan)
        THEN /\ table' = [table EXCEPT ![plan.id] = Stored(plan)]
             /\ Lead(w, [at |-> "auditing", op |-> plan.op, user |-> plan.user, id |-> plan.id])
             /\ walk' = [walk EXCEPT !.left = @ \/ Leaves(plan.id, Stored(plan)),
                                     !.fell = @ \/ Falls(plan.id, Stored(plan)),
                                     !.quiet = FALSE]
        ELSE Lead(w, [at |-> "done"]) /\ UNCHANGED <<table, walk>>
     /\ UNCHANGED <<clock, auditLog, answered, reader>>

\* SecurityService.Audit: gorm stamps the entry, then the database stores it; the
\* request is answered after that.
BuildAudit(w) ==
  /\ writer[w].at = "auditing"
  /\ Lead(w, [at |-> "inserting",
              entry |-> [request |-> w, actor |-> writer[w].user, action |-> writer[w].op,
                         entityType |-> "ComplianceDecision", entity |-> writer[w].id,
                         stamp |-> clock]])
  /\ UNCHANGED <<clock, table, auditLog, answered, reader, walk>>

InsertAudit(w) ==
  /\ writer[w].at = "inserting"
  /\ auditLog' \in {auditLog, auditLog \cup {writer[w].entry}}
  /\ Lead(w, [at |-> "done"])
  /\ UNCHANGED <<clock, table, answered, reader, walk>>

-----------------------------------------------------------------------------
(* The reader.                                                             *)

Read(next) ==
  /\ reader' = next
  /\ UNCHANGED <<clock, table, auditLog, writer, answered>>

Ask ==
  /\ reader.at = "idle"
  /\ \/ /\ \E f \in Filter :
             Read([op |-> "list", at |-> "counting", filter |-> f, page |-> 1, total |-> 0,
                   items |-> <<>>, seen |-> {}])
        /\ walk' = [walk EXCEPT !.table = table, !.quiet = TRUE]
     \/ /\ Read([op |-> "audits", at |-> "counting", page |-> 1, total |-> 0,
                 items |-> <<>>, seen |-> {}])
        /\ walk' = [walk EXCEPT !.log = auditLog, !.quiet = TRUE]
     \/ /\ Read([op |-> "summary", at |-> "total", since |-> clock - Window, total |-> 0,
                 transitions |-> 0, actors |-> 0, actions |-> <<>>, entities |-> <<>>])
        /\ UNCHANGED walk

\* The total is counted first, with the same conditions as the page.
CountUnfiltered == IF reader.op = "list" THEN Cardinality(Found(AnyStatus))    \* mutant
                                         ELSE Cardinality(auditLog)
CountFound == IF reader.op = "list" THEN Cardinality(Found(reader.filter))
                                    ELSE Cardinality(auditLog)

CountRows ==
  /\ reader.at = "counting"
  /\ Read([reader EXCEPT !.at = "paging", !.total = CountFound])
  /\ walk' = [walk EXCEPT !.quiet = TRUE]

ListPage ==
  /\ reader.op = "list" /\ reader.at = "paging"
  /\ LET ids == PageOf(ListOrder(reader.filter), reader.page)
     IN Read([reader EXCEPT
                !.at = IF ids = <<>> THEN "answered" ELSE "revising",
                !.items = [n \in DOMAIN ids |->
                             [id |-> ids[n], row |-> table[ids[n]], revisions |-> {}]],
                !.seen = @ \cup ToSet(ids)])
  /\ walk' = [walk EXCEPT !.counted = walk.quiet]

ListRevisions ==
  /\ reader.op = "list" /\ reader.at = "revising"
  /\ Read([reader EXCEPT !.at = "answered",
                         !.items = [n \in DOMAIN reader.items |->
                                      [reader.items[n] EXCEPT
                                         !.revisions = RevisionsOf(reader.items[n].id)]]])
  /\ UNCHANGED walk

AuditPage ==
  /\ reader.op = "audits" /\ reader.at = "paging"
  /\ \E order \in AuditOrders :
       LET entries == PageOf(order, reader.page)
       IN Read([reader EXCEPT !.at = "answered", !.items = entries,
                              !.seen = @ \cup ToSet(entries)])
  /\ walk' = [walk EXCEPT !.counted = walk.quiet]

\* A full page is followed by the next one; of an answer the client keeps only what
\* it has seen.
NextPage ==
  /\ reader.op \in {"list", "audits"} /\ reader.at = "answered"
  /\ LET used == [reader EXCEPT !.total = 0, !.items = <<>>]
     IN IF Len(reader.items) = PageSize
        THEN Read([used EXCEPT !.at = "counting", !.page = reader.page + 1])
        ELSE Read([used EXCEPT !.at = "finished"])
  /\ walk' = [walk EXCEPT !.quiet = TRUE, !.counted = TRUE]

\* SummarizeAudits: five queries over the entries since one instant, fixed when the
\* request arrived.
Recent == {a \in auditLog : a.stamp >= clock - Window}                    \* mutant
Counted == {a \in auditLog : a.stamp >= reader.since}

CountsBy(values, field) ==
  [v \in values |-> Cardinality({a \in Counted : a[field] = v})]

Summarise(from, to, field, count) ==
  /\ reader.op = "summary" /\ reader.at = from
  /\ Read([reader EXCEPT !.at = to, ![field] = count])
  /\ UNCHANGED walk

SummarizeAudits ==
  \/ Summarise("total", "transitions", "total", Cardinality(Counted))
  \/ Summarise("transitions", "actors", "transitions",
               Cardinality({a \in Counted : a.action = "transition"}))
  \/ Summarise("actors", "actions", "actors", Cardinality({a.actor : a \in Counted}))
  \/ Summarise("actions", "entities", "actions", CountsBy(Action, "action"))
  \/ Summarise("entities", "finished", "entities", CountsBy(EntityType, "entityType"))

\* One failing query fails the answer: nothing partial is shown.
QueryFails ==
  /\ reader.at \notin {"idle", "answered", "finished", "failed"}
  /\ Read([op |-> "none", at |-> "failed"])
  /\ UNCHANGED walk

Tick ==
  /\ clock < MaxTime
  /\ clock' = clock + 1
  /\ UNCHANGED <<table, auditLog, writer, answered, reader, walk>>

Next ==
  \/ Tick
  \/ \E w \in Writer :
       Begin(w) \/ BuildStatement(w) \/ Write(w) \/ BuildAudit(w) \/ InsertAudit(w)
  \/ Ask \/ CountRows \/ ListPage \/ ListRevisions \/ AuditPage \/ NextPage
  \/ SummarizeAudits \/ QueryFails

Spec == Init /\ [][Next]_vars

-----------------------------------------------------------------------------
(* Properties                                                              *)

\* Rows, audit entries and what a reader has been shown have their shapes.
TypeOK ==
  /\ clock \in 0 .. MaxTime
  /\ table \in [Id -> Row]
  /\ auditLog \subseteq AuditLog
  /\ \A w \in Writer : answered[w] \subseteq Writer
  /\ reader.op = "list" /\ reader.at = "answered" =>
       /\ Len(reader.items) <= PageSize
       /\ \A n \in DOMAIN reader.items : reader.items[n].row \in Row

\* Walking the pages of a list shows every row that does not change meanwhile,
\* however many others are created, edited or moved, unless some row retreated: left
\* the list (was deleted, or moved to another status than the one asked for), or was
\* given an older updated_at.  That takes a client that runs ahead: it reads version
\* 1, names version 2 and is stamped, another writes version 2 with a later stamp,
\* and then the lock lets the older stamp in.
WalkMissesOnlyAfterRetreat ==
  reader.op = "list" /\ reader.at = "finished" /\ ~walk.left /\ ~walk.fell =>
    \A i \in Id :
      Matches(table[i], reader.filter) /\ table[i] = walk.table[i] => i \in reader.seen

\* With clients that name a version they have seen nothing falls back.
WalkMissesOnlyAfterLeave ==
  reader.op = "list" /\ reader.at = "finished" /\ ~walk.left =>
    \A i \in Id :
      Matches(table[i], reader.filter) /\ table[i] = walk.table[i] => i \in reader.seen

\* The audit log only grows: a walk through its pages misses an entry only if the
\* entry shares its created_at with another, as nothing orders those two.
AuditWalkMissesOnlyTies ==
  reader.op = "audits" /\ reader.at = "finished" =>
    \A a \in walk.log \ reader.seen :
      \E b \in auditLog \ {a} : b.stamp = a.stamp

\* The total of a list answer and its page agree, unless a write was committed
\* between the two queries.
TotalAgreesWithPage ==
  reader.op = "list" /\ reader.at = "answered" /\ walk.counted =>
    Len(reader.items) =
      Min({PageSize, Max({0, reader.total - (reader.page - 1) * PageSize})})

\* The revisions listed with a decision cover the version it is shown in, although
\* they are read in a later query.
RevisionsCoverItem ==
  reader.op = "list" /\ reader.at = "answered" =>
    \A n \in DOMAIN reader.items :
      1 .. reader.items[n].row.version \subseteq reader.items[n].revisions

\* The sum of some counts: what was counted for each value, put together.
Total(counts) == Cardinality(UNION {{v} \X (1 .. counts[v]) : v \in DOMAIN counts})

\* The five counts of a summary are taken one after the other of a log that grows:
\* no later count is smaller than an earlier one of the same entries.
SummaryGrows ==
  reader.op = "summary" /\ reader.at = "finished" =>
    /\ reader.total <= Total(reader.actions)
    /\ Total(reader.actions) <= Total(reader.entities)
    /\ reader.transitions <= reader.actions["transition"]
    /\ reader.actors <= Total(reader.actions)

\* Entries of one decision may be in the log in the wrong order (the row is written
\* first, the entry stamped later), but only those of requests that overlapped: a
\* request sent after another was answered has the later entry.
AuditOrderKeepsRealTime ==
  \A a, b \in auditLog :
    a.request \in answered[b.request] => a.stamp <= b.stamp
=============================================================================
