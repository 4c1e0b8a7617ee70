# Carbon-capture compliance operations: TLA+ models and proofs

This directory specifies *carbon-capture-compliance-operations* (a Go service with
Gin, GORM on PostgreSQL and Redis, and its Angular front end) in TLA+, model-checks it
with TLC and proves its most important safety properties with TLAPS. Paths below are
relative to the repository; `internal/` is `backend/internal/`.

## 1. Inventory of the system

| Part | State it keeps | Operations | How it interacts |
|---|---|---|---|
| Status machines, `internal/constants/status.go` | none | `CanTransition` over four graphs | called by the four services |
| Access control, `internal/middleware/auth.go` | none (the token carries the role) | `Authenticate`, `RequireRoles`, `RequireMinimumRole` | before every handler |
| Compliance decisions, `internal/{handler,service,repository}/compliance_decision.go` | `compliance_decisions`, `decision_revisions` | Create, Update, Transition, Delete, Get, List | writes a row and its revision in one transaction, then calls Audit |
| Versioned records (capture units, permit rules, emission samples) | `capture_units`, `permit_rules`, `emission_samples` | the same, without revisions | generic `Store` of `repository/base.go`, then Audit |
| Audit and login, `internal/service/security.go` | `audit_logs`, `users` | Audit, Login, audit queries | called by all services, in a transaction of its own |
| Rate limiter, `internal/middleware/ratelimit.go` | Redis counters, a map under a mutex | Middleware, cleanup, Status | before authentication on every `/api` route |
| Start-up, `cmd/server/main.go`, `internal/database/database.go`, `docker-compose.yml` | all tables | Open, migrate, Seed, Redis ping, exit, restart | restarted by docker compose |
| Read side, `internal/handler/system.go`, the `List`s, `SummarizeAudits` | none | paged lists, overview, audit summary and history | several queries per answer, beside the writers |
| Entity page, `frontend/src/components/entity-page.component.ts`, `stores/factory.ts` | items, loading, error, the open dialog | load, query, createDemo, transition | requests overlap; the store outlives the page |
| Session, `frontend/src/hooks/use-auth.ts`, `api/client.ts`, `router/index.ts`, `app.component.ts` | session, login promise, `localStorage` | authenticate, logout, route guards | tabs share `localStorage` |
| Configuration, router, request context, scripts | none | wiring | - |

**What is hard.** Each HTTP request runs in a goroutine of its own and talks to the
database statement by statement; only the write of a decision with its revision is a
transaction. A handler checks a *copy* of the row (status graph, draft-only edits,
reviewer rule) and later writes the whole copy back under an optimistic lock, which
compares the stored version with the version the *client* sent. The audit row is
written after the commit. A statement can fail, a commit can succeed without an
acknowledgement, and the process can stop between any two statements. Codes are
unique over soft-deleted rows, which counts do not see. The rate limiter counts in two
places and reads the clock three times. A list is a count, a page and the revisions of
the page, each a query of its own over rows that move to the front as they are edited;
an audit entry is stamped before it is stored. In the browser, loads of a list overlap
and are not numbered, a confirmation carries an item that has changed since, one
dialog can be confirmed twice, a login is joined by whoever needs one, and a tab can
have its token taken away or exchanged by another.

**What makes each part correct.**

- Decisions: the history of a decision is gapless, immutable and a run of the status
  graph; evidence changes in draft only; only reviewers and administrators accept or
  escalate, and only after review; replies and audit rows say what happened.
- Records: no lost update, no illegal status change, one winner per version.
- Rate limiter: no client exceeds a counter's budget, none is rejected below it, a
  rejected client that obeys the reset header returns in a later window.
- Read side: what a client can miss while it walks the pages, and what the parts of an
  answer may say of each other.
- Entity page: what is offered is what the server accepts unless somebody was faster; what
  was confirmed is what happens; an old list is not shown as a new one.
- Session: one login at a time, no page let in without the rank of the tab's own session,
  every guard decides.
- Start-up: what is served is fully seeded, starting again changes nothing that is
  there, and the service returns after outages.

The complete list of hazards, each at its line with the properties that cover it, is
in `PROJECT.json`.

## 2. Modules

| Module | What it is |
|---|---|
| `StatusGraph`, `AccessControl` | the pure parts: graphs and `CanTransition`; roles, ranks and the two role checks |
| `ComplianceDecision` | the decision service, one action per database statement; its properties |
| `DecisionLedger` | abstract specification: a ledger per decision with `Open`, `Amend`, `Move`, `Withdraw` |
| `LedgerRefinement` | the refinement mapping from the service to the ledger |
| `DecisionInvariant` | the inductive invariants of its proofs |
| `DecisionClaims` | statements of the documentation that the code does not keep |
| `RecordKinds` | units, rules and samples: kinds, graphs, rows |
| `VersionedRecord` | their service, one action per database statement; the kind of each record is chosen in `Init` |
| `RecordService` | abstract specification: what that service promises about a record |
| `RecordInvariant` | the inductive invariants of its proofs |
| `RateLimiter` | the limiter with Redis, the local map, the clock and restarts |
| `Startup` | the boot sequence, faults, restarts, and clients that create and delete rows |
| `ReadSide` | a client that reads lists, audit log and summary, composed with writers and the clock |
| `ReadInvariant` | the inductive invariants of its proofs |
| `Session` | the session, guards and logout of several tabs |
| `Workbench` | one entity page over its store, composed with the server and other users |
| `*_proofs`, `ComplianceDecision_promises` | the theorems, section 4 |
| `MC*` | the instances TLC checks |

### Correspondence with the code

`ComplianceDecision`: `decisions`, `revisions` and `auditLog` are the tables. For a
request `r`, `pc[r]` is the statement its handler executes next, `input[r]` the call,
`current[r]` the Go variable `current` (the copy it read last), `history[r]` the
preloaded revisions of the reply and `answer[r]` the outcome.

| Action | Code |
|---|---|
| `Arrive` | route and role check (`Register`), `ShouldBindJSON`, and for Create the validation |
| `Load` | the first `repository.Get` of Update, Transition, Delete and all checks on its result |
| `CreateWithRevision`, `UpdateWithRevision` | the transactions of the same names |
| `Delete` | `Store.Delete`, a soft delete by id |
| `Audit` | `SecurityService.Audit`; whether its error is returned depends on the operation |
| `Reload`, `Preload` | the two queries of the final `repository.Get` |
| `DatabaseFails` | a statement that fails without effect |
| `Crash` | the process stops; compose restarts it and Seed adds nothing |

A commit whose acknowledgement is lost is the `acked = FALSE` alternative of the
writing actions, an audit row stored without acknowledgement the `stored /\ failed`
alternative of `Audit`. The statements of all requests interleave freely; a single statement or transaction is atomic, as
PostgreSQL's row lock makes `UPDATE ... WHERE id = ? AND version = ?` under READ
COMMITTED.

Abstractions: a decision is named by its code, an actor by its role, a request by
itself rather than by its `X-Request-ID` (which a client may set), a business payload
by one value that includes its evidence, and validation by the distinction between
`Fields` and `Blank`. Timestamps, reasons and messages are left out. `RunAhead` says
how far a client's `expectedVersion` may exceed the version stored when it calls: 0
for clients that send versions they have seen, as the frontend does
(`stores/factory.ts:9`), 1 for clients that send a request before the previous one is
answered.

`VersionedRecord` has the same structure over `Store`; Create answers with the item it
built, Update and Delete accept every status, Transition every writing role. It
implements `RecordService` by the identity on `rows`: statements, copies, calls and
failures are what the abstract record leaves out.

`RateLimiter`: `Arrive` reads the clock for the Redis key, `RedisCounts` is the
INCR/EXPIRE transaction with or without its answer, `RedisFails` an unreachable Redis,
`IncrementLocal` the critical section of the map including cleanup, `Answer` the
headers and the decision. `Tick` turns the minute, `Restart` loses the map. `charged`
is a history variable of the properties. Redis is taken to keep its counters for the
two minutes of their expiry.

`Startup`: `stage` is the statement `main`/`Open`/`Seed` executes next. `Dies` covers
a failing statement, the start-up timeout and a kill; `DiesCommitted` the same just
after the seed transaction of a table has committed. `OpenDatabase` is the loop of
attempts.

`ReadSide`: `reader.at` is the query the reader's handler executes next, `reader` also
its answer so far. `CountRows` and `ListPage` are `Store.List`, `ListRevisions` the
preload of the decision list, `AuditPage` the audit list, `SummarizeAudits` the five
queries of the summary, `NextPage` the client that asks for the page after a full one.
Writers have the steps a reader can tell apart: `Begin` reads the row and makes the checks,
`BuildStatement` takes `updated_at`, which gorm does when it builds the statement, `Write`
executes it under the lock, `BuildAudit` stamps the audit entry, `InsertAudit` stores it.
The version stored is the client's `expectedVersion` plus one, as in the code; the client
may name any version up to `RunAhead` above the row it was read with. Entries have their
entity type, by which the last count of the summary is grouped (always
`ComplianceDecision` here). Order by `updated_at DESC, id DESC` is exact
(`ListOrder` is the one order of the rows found that keeps to it); ties of the audit log's `created_at` come in any order. `walk` is a history variable of
the properties: the tables when the reader began, and whether since then a row left the
list that is read (`left`) or was given an older `updated_at` (`fell`). That a decision at version n has the revisions 1..n, which `ListRevisions`
returns, is `LedgerComplete`.

`Session`: a tab holds the signals `session` and `loading`, the promise
`authentication`, the logins without an answer, the page shown and the page whose guard
waits. An action is one task of the browser with the promise callbacks it triggers:
`LoginSucceeds` stores the session, settles the promise and lets the guard decide.
`storage` is `localStorage`; a browser may come back with a session of any role in it, as
`getStoredSession` asks no more of it than a token and a role, while `login()` always
uses one account, of role `LoginRole`. History variables of the properties are `changed`,
the tab that changed the storage last, and `loggedOut` of a tab, set by a logout and
reset when a guard lets the tab into a page. The router's rules (same page ignored, newer navigation wins, a `UrlTree` is a
new navigation) are Angular's and external.

`Workbench`: `store` is `EntityState`, `pending` and `showCreate` are the dialogs,
`task[k]` a request with what it carries and, once the server has run, its answer.
`ngOnInit`, `Query`, `openTransition`, `confirmTransition`, `createDemo` and the closing
of dialogs are the user; `Serve` and `Lose` the server and the network; `Arrive` the code
after the await, including the load that follows a successful write. The server
executes a request in one step; that its concurrent requests amount to that is
`ImplementsRecordService` and `ImplementsLedger`. The role is a parameter: `login()`
always uses the administrator's account, but a session stored earlier may carry another
role, and the buttons are written for all four. Loads send no search: which rows a
filter keeps does not change who answers last. The backdrop of a dialog stops the mouse
but not the keyboard, so every button of the page can be pressed while one is open. A
request that the server executes after the client has given up on it is not `Serve` but
one of the steps of `OtherWriter`, which has the same effect on the row.

## 3. Runs

All runs but `session` and `workbench` set `CHECK_DEADLOCK FALSE`: requests are one-shot,
and faults, edits, minutes and pages are bounded, so a behaviour ends when all are used
up. A user can always do something, so `session` and `workbench` check deadlock.

| Run | Instance | Distinct states | What it shows |
|---|---|---|---|
| `decision_roles` | 1 decision, 2 requests, 4 roles | 193 k | types, independent review, audited acknowledgements, justified conflicts; the service implements `DecisionLedger` |
| `decision_three` | 1 decision, 3 requests, admin | 1.9 M | legal history, honest replies, snapshots that cover their item, truthful audit rows, append-only tables |
| `decision_pipelined` | 2 requests, `RunAhead` = 1 | 133 k | row and revisions stay in step for running-ahead clients |
| `records` | 1 record of each kind in turn, 2 requests | 258 k | no lost update, exclusive success, replies show the write; the service implements `RecordService` |
| `rate_limiter` | 3 keys, 3 requests, limit 1, capacity 2, 3 windows, 1 restart | 465 k | budgets, rejections, map size |
| `startup` | 4 tables, 2 seeds and 1 own code each, 3 faults, 3 edits, 2 attempts | 47 k | seeding, data preservation, emptied tables, and liveness of the restart loop |
| `read_side` | 3 keys of which 2 are seeded, 2 writers, 2 users, pages of 1, 2 instants, `RunAhead` = 1 | 3.2 M | what a walk through pages misses, totals and pages, revisions of items, summary, audit order |
| `session` | 2 tabs, any stored role, logins as admin | 5.7 k | overlay, logout, changed tokens, the rank for a page, and liveness of guards |
| `workbench` | 1 record, 2 requests, 3 roles, version 2 | 2.5 M | refusals have a cause, confirmed moves, stale lists flagged, loading ends |
| `claim_audit`, `claim_delete`, `claim_fields` | 2 requests | - | expected violations, section 5 |

**Bounds.** Decisions and records of different codes share no state but the audit log,
whose rows are not compared across codes, so one code suffices. Two requests
exhibit every stale-copy race on a row (a race is between the read of one request and
the commit of another); three add a commit between the commit and the reply, and a
conflict of two with a delete. A decision can be seeded in any of the three statuses of
the seed, so two or three requests reach the whole graph. Two payloads tell one edit
from another. Requests and payloads are symmetric. For the limiter, limit 1 and
capacity 2 make every request a boundary case, three keys overflow the map and let
cleanup drop one client's bucket for another's, and three windows separate "earlier"
from "current" on both sides.
For start-up, three edits are what it takes to create a row of one's own and delete
both seeds, or to empty a table; two attempts distinguish a retry from giving up; three
faults allow an outage while a restart after a crash is under way.
For the read side, pages of one row make every step of the walk a page boundary; two seeded
rows give a walk something to skip and the third key lets a row arrive in front of
them; two writers can overlap or follow each other, and two instants make stamps equal or
different. With `RunAhead` = 1 and these two writers `updated_at` of a row does go back:
`WalkMissesOnlyAfterLeave`, which the run does not list, is violated there and holds with
`RunAhead` = 0. In `session`, two tabs are what losing a token takes, and everything else
is one tab's; the stored session has any of the four roles, so sessions of two roles meet
as soon as one tab logs in. In `workbench`, rows do not interact, two requests overlap in either order
(a write and a load, two loads, two confirmations of one dialog), and version 2 is
one change ahead of what the page has seen; a higher version adds nothing a refusal
depends on. The operator, reviewer and administrator differ only in the rank checks,
of which the proofs cover all four roles. The runs named `claim_*` need nothing larger
than their counterexample.

**Fairness** appears in `Startup` and `Session`. In `Startup`, weak fairness of the boot
steps says that a running process executes its next statement; weak fairness of
`Restart` and `Recovery` is `restart: unless-stopped` of the backend, the database and
Redis (`docker-compose.yml:8`, `:26`, `:43`). Faults are finite. Clients and faults are
not fair. In `Session`, strong fairness of `LoginSucceeds` says that a server that is
asked again and again answers with a session some time; without it a guard whose
logins always fail is redirected for ever. Request handlers, the reader and the entity
page carry no fairness and no liveness property: a request may be lost for good when
the process stops.

Each property of a passing run has a mutant, a plausible bug defined next to the
definition it replaces and marked `mutant`; TLC finds the property violated with it.

## 4. Proofs

Each theorem holds for every value of the constants: any sets of decisions, records,
requests, payloads, callers, clients, tabs, rows and tasks, any limit, capacity and
bounds. They assume the named assumptions of the component's module (callers are roles,
the invalid payload is not a valid one, numbers are numbers, the read side has finitely
many keys) and, where the last column
says so, that clients name versions they have seen.

| Module | Theorem | Statement | Assumes |
|---|---|---|---|
| `ComplianceDecision_proofs` | `TypeCorrect` | `Spec => []TypeOK` | - |
| | `LedgerAlwaysComplete` | `Spec => []LedgerComplete` | - |
| | `HistoryNeverRewritten` | `Spec => HistoryImmutable` | - |
| | `HistoryAlwaysFollowsGraph` | `Spec => []HistoryFollowsGraph` | `RunAhead = 0` |
| | `ReviewAlwaysIndependent` | `Spec => []IndependentReview` | `RunAhead = 0` |
| `ComplianceDecision_promises` | `RepliesAlwaysHonest` | `Spec => []AnswersHonest` | - |
| | `SnapshotsCoverItems` | `Spec => []SnapshotCoversItem` | - |
| | `AuditLogTruthful` | `Spec => []AuditTruthful` | `RunAhead = 0` |
| | `SuccessesLogged` | `Spec => []AcknowledgedTransitionsAudited` | - |
| | `ConflictsJustified` | `Spec => []ConflictHasCause` | `RunAhead = 0` |
| | `ServiceImplementsLedger` | `Spec => ImplementsLedger` | `RunAhead = 0` |
| `VersionedRecord_proofs` | `RecordsTypeCorrect` | `Spec => []TypeOK` | - |
| | `RecordsImplementService` | `Spec => Service!Spec` | `RunAhead = 0` |
| | `NoRecordUpdateLost` | `Spec => NoStaleCopyWritten` | `RunAhead = 0` |
| | `OneSuccessPerVersion` | `Spec => []SuccessExclusive` | - |
| | `SuccessShowsWrite` | `Spec => []ReplyShowsWrite` | - |
| | `ConflictsHaveCause` | `Spec => []ConflictHasCause` | `RunAhead = 0` |
| | `SuccessesAudited` | `Spec => []AcknowledgedTransitionsAudited` | - |
| `ReadSide_proofs` | `TypeCorrect` | `Spec => []TypeOK` | - |
| | `RowsMoveForward` | `Spec => [][\A i \in Id : Grown(table[i], table'[i])]_vars` | - |
| | `StampsMoveForward` | `Spec => [][\A i \in Id : table[i].stamp <= table'[i].stamp]_vars` | `RunAhead = 0` |
| | `WalkMissesNothing` | `Spec => []WalkMissesOnlyAfterRetreat` | - |
| | `WalkMissesLess` | `Spec => []WalkMissesOnlyAfterLeave` | `RunAhead = 0` |
| | `AuditWalkMissesNothing` | `Spec => []AuditWalkMissesOnlyTies` | - |
| | `TotalAgrees` | `Spec => []TotalAgreesWithPage` | - |
| | `RevisionsCover` | `Spec => []RevisionsCoverItem` | - |
| | `SummaryCountsGrow` | `Spec => []SummaryGrows` | - |
| | `AuditKeepsRealTime` | `Spec => []AuditOrderKeepsRealTime` | - |
| `RateLimiter_proofs` | `LimiterInvariant` | `Spec => []LimiterInv` | - |
| | `LimiterKeepsBudget` | `Spec => []BudgetKept` | - |
| | `RejectionsEarned` | `Spec => []RejectedOverBudgetOnly` | - |
| | `ResetOpensWindow` | `Spec => []ResetOpensNewWindow` | - |
| | `MapBounded` | `Spec => LocalMapBounded` | - |
| `Startup_proofs` | `ServiceSeeded` | `Spec => []ServedSeeded` | - |
| | `DecisionsRevised` | `Spec => []SeededDecisionsHaveRevisions` | - |
| | `RowsSurviveStartup` | `Spec => StartupKeepsRows` | - |
| | `HollowTableStops` | `Spec => HollowTableStopsService` | - |
| `Session_proofs` | `OverlayFollowsLogin` | `Spec => []OverlayWhileLoggingIn` | - |
| | `LogoutNeverJoins` | `Spec => LogoutAsksAgain` | - |
| | `TokensChangedByOthers` | `Spec => []TokenChangedByAnotherTab` | - |
| | `PagesGuarded` | `Spec => []PageNeedsRank` | - |
| `Workbench_proofs` | `RefusalsCaused` | `Spec => []RefusalHasCause` | - |
| | `StaleListsFlagged` | `Spec => []StaleListFlagged` | - |
| | `LoadingEnds` | `Spec => []LoadingOnlyWhileWaiting` | - |
| | `MovesAsShown` | `Spec => ConfirmedMoveIsShownMove` | - |

Every proof module also proves the type invariant of its component, and some properties
are stated by a theorem alone, because they follow from an invariant a run already
stresses: `ResetOpensNewWindow`, `RowsMoveForward`, `StampsMoveForward`, `WalkMissesLess`,
and `ConflictHasCause` and `AcknowledgedTransitionsAudited` of `VersionedRecord`.

### Compliance decisions

*Types.* `TypeOK` is not inductive: whether a handler may store its copy depends on
what it established before. `Routed` records that for each statement, in particular
that a request about to write has read a live row and was not refused.

*Ledger.* `LedgerInv` adds the parts of `LedgerComplete` as first-order facts:
an unused code has version 0, revisions lie within 1..version, none is missing, none is
doubled, the newest is the row. A commit stores the version after the stored one
(`CommitNextVersion`): for Create because the code was unused, for Update and
Transition because the lock compares with the client's version and the new version is
computed from it. This needs nothing about what the client knows.

*History.* Update and Transition check a copy; the property is about the row. `FreshInv`
adds `ExpectationsSeen` (a version a client has seen stays a version of the decision)
and `CopiesFresh` (a copy is at least as new as the client's version, not newer than the
row, and equal to it at the same version). When the lock holds, the client's version is
the row's, so the copy is squeezed to the row and the checks made on the copy hold of
the row (`CommitExtends`). With `RunAhead` = 1 the first squeeze fails and
`claim_fields` shows what happens.

*Immutability.* One step from `LedgerInv` changes a row only to its next version or by
marking it deleted, and only adds to the tables.

*Replies and audit log.* `ReplyInv` says for each statement what the request has left in
the tables: nothing before its commit and after a refusal; afterwards the revision after
the version it named, and no other (`OneRevision`). Later commits of others only add, so
what is there stays there. The item of a reply is a stored version (`ItemRecorded`), and
the revisions read later include it. All this rests on `LedgerInv` alone, for any
`RunAhead`. `TruthInv` adds what needs the copy to be the row it replaced, hence
`FreshInv`: when the audit row is due, the revisions agree with it (`Accountable`), its
before-state included, although it is built from the copy; and a lock that fails found a
newer version or a deleted row, and both last (`Overtaken`). A client that names a version
of the future breaks both, while the ledger itself stays complete.

*Ledger of the abstract specification.* The refinement maps a decision to the sequence
of its revisions, which `LedgerInv` makes a function on 1..version. A commit appends one
entry (`CommitEnters`); the last entry is the row (`LastIsRow`), which the checked copy
equals, so the checks of the handler are the guards of `Open`, `Amend` and `Move`
(`CommitRefines`), and the role check of the route, remembered in `Admitted`, is theirs
on who may write. A deletion is `Withdraw`; everything else is a stutter.

### Records

`RecordInv` is the same argument without revisions: `Routed` (what a handler has
established by each statement), `Unopened`, `ExpectationsSeen` and `CopiesFresh`. When
the lock holds, the copy is the row (`LockMeansFresh`), so the new row is the abstract
`Amend` or `Move` of the old one (`ReplacementRefines`), and every other statement leaves
the table alone.

`Replied` needs no more than types and control (`TypedInv`), so it holds for any `RunAhead`.
It follows a request past its commit: from then on the row is its change or a later
version, so what it reads again and answers is too; an operation that reports a failing
audit only goes on once the audit row is there. `ConflictHasCause` is inductive next to
`RecordInv`: a conflict arises only in Update from a lock that fails (`ConflictArises`),
which, for a version the client has seen, means a later version or a deleted row, and
rows never go back (`RowsMoveOn`).

`Winners` gives `OneSuccessPerVersion`: a request that has stored its change, or is told so,
left the row at a version after the one it named, and no two of them named the same one
of the same record. A version only grows (`RowsMoveOn`), so whoever comes later with a
version already used does not pass the lock. Nothing is assumed of the versions clients
name.

### Read side

*Rows.* `Grown`: each step leaves a row, deletes it as it is, or gives it a higher version
(the lock compares, and the new version is computed from what it compared). That needs
nothing of the clients. A statement carries a stamp taken before it is executed, so stamps
can go back, and with a client that runs ahead they do: it reads version 1, names version 2
and is stamped, another request commits version 2 with a later stamp, and the lock then
lets the older stamp in. If clients name versions they have seen, a plan that the lock
accepts was stamped after the row it replaces (`PlansFresh`), which is
`StampsMoveForward`.

*The walk.* `RowsAhead(i)` are the rows of the list in front of row i. As long as no row
leaves the list or falls back in it, their number only grows for an i that does not
change: a row that is written moves to the front, so in front of i it stays in front, and
behind i it at worst overtakes it. With `StampsMoveForward` no row falls back, which
leaves the rows that left (`WalkMissesLess`). `ListWalk` says that an i not yet seen has at least as many rows ahead as
the pages read so far hold. A page shows the rows with (page - 1) * pageSize to
page * pageSize - 1 rows ahead (`ListOrdered`, `PageOfOrder`), so i is on it, or has a
full page more ahead; a page that is not full ends the walk, and nothing is left behind
it. That the row at the k-th place of an order has k - 1 rows ahead is the cardinality of
its images (`BeforeKth`); that there is such an order, for every finite set of rows, is
shown by ranks (`ListOrderExists`), without induction. `AuditWalk` is the same of the
log, where nothing leaves and entries of one instant are left out.

*One answer.* `TotalsCounted` keeps the counted total equal to the rows of now until a
write comes between; `ItemsCovered` keeps each item at most as new as its row until the
revisions are read. The counts of a summary, put together, are the count of all entries
(`CountsAddUp`, a bijection between pairs and entries), so each is at most what there is
to count when the next is taken (`SummaryOrdered`).

*Audit order.* `LogOrdered`: an entry is in the log only of a request that is done, and
whoever was done when a request began has its entry stamped, so not later than the
stamp that request will take.

### Rate limiter

A budget is a key, a window, a counter and, for the map, the life of the process. Counts
given out of one budget are distinct (`Distinct`), because the counter is at least as
high as every count it has given (`Numbered`); so at most `Limit` requests can have a
count within the limit, which is `BudgetKept` by the cardinality of 1..`Limit`. A counter
is never higher than the increments charged to its budget (`Covered`), so a count above
the limit means as many charges, which is `RejectedOverBudgetOnly`. Cleanup and
restart begin new budgets; a lost Redis answer charges without a count.

### Start-up

Seed looks only at whether a table has a live row. That is enough because a table is
untouched or has had all its seeds (`Whole`): clients reach it only after start-up has gone
through every table (`Reached`), and the insert is all or nothing.

### Session and entity page

`SessionInv` says of each tab that overlay, promise and request go together (`InStep`),
that it asks only without a session, and that a guard waits only for a request; a
logout needs the shell and the shell needs the overlay gone, so it finds no promise to
join. A page is entered only through `Landing`, whose page the session has the rank for
(`LandingNeedsRank`), and a tab with a session keeps it until its own logout (`Ranked`). `WorkbenchInv` is about what the page knows: an item it has seen is the row as it
is, or the row has a higher version by now (`Knows`). It holds of the items listed, of
the one in the dialog, in requests and in answers on their way, and it is kept by
whatever other users do. So a refusal means a higher version, and a move that passes
the lock is made from the status shown. `OneLoad` (until loads overlap, the only load on
its way is the newest) gives `StaleListFlagged`.

### Model-checked only

`ServiceReturns` and `GuardDecides` are liveness under fairness, which is out of the
prover's reach; so is the absence of deadlock (`ENABLED`) in `session` and `workbench`.
Every other property of a passing run is a theorem.

## 5. Where code and documentation disagree

- `claim_audit`: README.md:36 says every status change is written to the audit log. The
  audit row is a separate insert after the commit (`service/compliance_decision.go:118`);
  if it fails the change stays, without an audit row, and the client is told
  `internal_error`. Create and Update ignore the error altogether (`:61`, `:93`).
- `claim_delete`: the draft check of Delete (`:129`) is made on a copy, and the delete
  is by id alone (`:132`), although README.md:36 says that every state change uses the
  optimistic lock. A decision that enters review in between is deleted in review.
- `claim_fields`: README.md:35 says that fields are locked once review is entered. Update
  locks on the client's version (`:87`), not on that of the copy whose status it checked
  (`:70`). A client that names the version a concurrent transition produces changes the
  fields after review and puts the status back to draft.
  Units, rules and samples lock the same way: with `RunAhead` = 1, `NoStaleCopyWritten` of
  `VersionedRecord` fails too, which no document rules out.
- README.md:39 says that the audit page requires the reviewer role. Its guard sees to that
  (`PageNeedsRank`), but only on a navigation: after a click on the logout button of the
  audit page and a login that then fails, `loading` is false again, the shell is built
  anew with its outlet (`app.component.ts:3`) and shows the audit page although there is
  no session (`use-auth.ts:31-35`). That is why `PageNeedsRank` excludes a page on which
  the user logged out; without that conjunct TLC finds this history.
- A list walk can miss a row that nobody touched without any row having left the list,
  when a client that runs ahead lets `updated_at` of another row go back (section 4). No
  document promises otherwise; `WalkMissesOnlyAfterRetreat` says exactly when.
- `HollowTableStopsService` (a property that holds) describes another: once all rows of
  a table have been deleted, Seed collides with the codes of the deleted rows and the
  process never serves again after a restart (`database.go:206`).

## 6. Not modelled

- Password check, JWT signing and token expiry: a login succeeds or fails, a token is
  accepted or the request reaches no handler. Nothing in the front end reacts to a 401
  after the expiry, so there is no promise to check.
- `Overview` and `EntityHistory`: the first is a count per table and status, the second one
  query; neither relates two pieces of state the models have not. The search filter of
  the lists. The overflow of `(page - 1) * pageSize` for absurd page numbers
  (`repository/base.go:45`): it ends in an error or an empty page.
- `X-Request-ID`, which a client may choose: the models name requests themselves.
- Configuration (a pure function of the environment, evaluated once), router, JSON
  envelopes, rendering, scripts: no state of their own.
- MySQL and SQLite, which the configuration also allows: docker compose runs PostgreSQL.
- Graceful shutdown is a crash that happens to lose no request; a container stopped on
  purpose is not restarted and is outside `Startup`.
- The digits of generated codes (`entity-page.component.ts:89`): a create that is sent
  twice makes two records, as in the code.

## 7. Plan

All modules of the plan exist. What is left is a composition
of `Workbench` with the statements of `VersionedRecord` instead of the single `Serve`, as a
refinement between the two.
