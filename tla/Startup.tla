------------------------------- MODULE Startup -------------------------------
(***************************************************************************)
(* How the backend comes up: main, database.Open and Seed, restarted by    *)
(* docker compose whenever the process exits (restart: unless-stopped).    *)
(* Every table is seeded when it counts no live row; codes stay taken by   *)
(* deleted rows.  Once it serves, clients create and delete rows.          *)
(*                                                                         *)
(* stage is the statement main executes next: the loop that opens the      *)
(* database, AutoMigrate, the seeding of users and of each table in turn,  *)
(* the Redis ping, and then "serving", or "exited".                        *)
(***************************************************************************)
EXTENDS Naturals, Sequences, FiniteSets

CONSTANTS
  SeedCode,     \* codes of the seeded rows of a table (the same number in each)
  OwnCode,      \* other codes clients use
  MaxAttempts,  \* 20 attempts to reach the database
  MaxFaults,    \* bound on outages, crashes and failing statements
  MaxEdits      \* bound on creations and deletions by clients

ASSUME StartupAssumption ==
  /\ SeedCode # {} /\ SeedCode \cap OwnCode = {}
  /\ MaxAttempts \in Nat \ {0} /\ MaxFaults \in Nat /\ MaxEdits \in Nat

VARIABLES
  tables,     \* table -> code -> absent, live or deleted
  revisions,  \* the codes in compliance_decisions that have a revision
  users,      \* whether the users are there
  stage, attempt,
  up,         \* the services of compose that answer, of {"db", "redis"}
  faults, edits

vars == <<tables, revisions, users, stage, attempt, up, faults, edits>>
data == <<tables, revisions, users>>

Code == SeedCode \cup OwnCode
Decisions == "ComplianceDecision"
Kind == {"CaptureUnit", "PermitRule", "EmissionSample", Decisions}

Stages == <<"opening", "migrating", "users",
            "CaptureUnit", "PermitRule", "EmissionSample", Decisions,
            "redis", "serving">>
Booting == {Stages[i] : i \in DOMAIN Stages} \ {"serving"}
After(s) == Stages[1 + CHOOSE i \in DOMAIN Stages : Stages[i] = s]

Init ==
  /\ tables = [k \in Kind |-> [c \in Code |-> "absent"]]
  /\ revisions = {} /\ users = FALSE
  /\ stage = "opening" /\ attempt = 1
  /\ up \in SUBSET {"db", "redis"}
  /\ faults = 0 /\ edits = 0

-----------------------------------------------------------------------------
(* Start-up                                                                *)

Exit == stage' = "exited"
Advance == stage' = After(stage)

\* The loop of Open: an attempt each second while the database does not answer.  The
\* second ping of a failed attempt, which only looks for its error, is left out.
AttemptsLeft == attempt < MaxAttempts
OpenDatabase ==
  /\ stage = "opening"
  /\ \/ /\ "db" \in up /\ Advance /\ UNCHANGED attempt
     \/ /\ "db" \notin up /\ AttemptsLeft
        /\ attempt' = attempt + 1 /\ UNCHANGED stage
     \/ "db" \notin up /\ ~AttemptsLeft /\ Exit /\ UNCHANGED attempt
  /\ UNCHANGED <<data, up, faults, edits>>

\* migrate: AutoMigrate adds what is missing and leaves the rows alone.
Migrate ==
  /\ stage = "migrating"
  /\ IF "db" \in up THEN Advance ELSE Exit
  /\ UNCHANGED <<data, attempt, up, faults, edits>>

SeedUsersUnchecked ==                                                      \* mutant
  /\ stage = "users" /\ Advance
  /\ users' = (users \/ "db" \in up)
  /\ UNCHANGED <<tables, revisions, attempt, up, faults, edits>>
SeedUsers ==
  /\ stage = "users"
  /\ IF "db" \in up THEN users' = TRUE /\ Advance ELSE UNCHANGED users /\ Exit
  /\ UNCHANGED <<tables, revisions, attempt, up, faults, edits>>

\* Count does not see deleted rows; the unique index on code does.
CountedUnscoped(table) == {c \in Code : table[c] # "absent"}              \* mutant
CountedSeeds(table) == {c \in SeedCode : table[c] = "live"}               \* mutant
Counted(table) == {c \in Code : table[c] = "live"}

TakenWhenLive(table) == {c \in SeedCode : table[c] = "live"}              \* mutant
Taken(table) == {c \in SeedCode : table[c] # "absent"}

WithSeeds(table) == [c \in Code |-> IF c \in SeedCode THEN "live" ELSE table[c]]

\* Create(&items) inserts all rows of a table or none, and the decisions in one
\* transaction with their revisions.
InsertedItemsOnly(k) ==                                                    \* mutant
  tables' = [tables EXCEPT ![k] = WithSeeds(@)] /\ UNCHANGED revisions
Inserted(k) ==
  /\ tables' = [tables EXCEPT ![k] = WithSeeds(@)]
  /\ revisions' = IF k = Decisions THEN revisions \cup SeedCode ELSE revisions

\* seedCaptureUnit, seedPermitRule, seedEmissionSample, seedComplianceDecision.
SeedTable(k) ==
  /\ stage = k
  /\ IF "db" \notin up THEN Exit /\ UNCHANGED <<tables, revisions>>
     ELSE IF Counted(tables[k]) # {} THEN Advance /\ UNCHANGED <<tables, revisions>>
     ELSE IF Taken(tables[k]) # {} THEN Exit /\ UNCHANGED <<tables, revisions>>
     ELSE Inserted(k) /\ Advance
  /\ UNCHANGED <<users, attempt, up, faults, edits>>

PingRedis ==
  /\ stage = "redis"
  /\ IF "redis" \in up THEN Advance ELSE Exit
  /\ UNCHANGED <<data, attempt, up, faults, edits>>

Boot == OpenDatabase \/ Migrate \/ SeedUsers \/ (\E k \in Kind : SeedTable(k)) \/ PingRedis

\* docker compose starts the process again.
Restart ==
  /\ stage = "exited"
  /\ stage' = "opening" /\ attempt' = 1
  /\ UNCHANGED <<data, up, faults, edits>>

-----------------------------------------------------------------------------
(* Faults                                                                  *)

Fault == faults < MaxFaults /\ faults' = faults + 1

\* STARTUP_TIMEOUT expires, a statement fails or the process is killed ...
Dies ==
  /\ Fault /\ stage # "exited" /\ Exit
  /\ UNCHANGED <<data, attempt, up, edits>>

\* ... possibly when the seed of a table has just been committed.
DiesCommitted(k) ==
  /\ Fault /\ stage = k /\ "db" \in up
  /\ Counted(tables[k]) = {} /\ Taken(tables[k]) = {}
  /\ Inserted(k) /\ Exit
  /\ UNCHANGED <<users, attempt, up, edits>>

Outage(s) ==
  /\ Fault /\ s \in up /\ up' = up \ {s}
  /\ UNCHANGED <<data, stage, attempt, edits>>

Recovery(s) ==
  /\ s \notin up /\ up' = up \cup {s}
  /\ UNCHANGED <<data, stage, attempt, faults, edits>>

-----------------------------------------------------------------------------
(* Clients                                                                 *)

Edit == stage = "serving" /\ "db" \in up /\ edits < MaxEdits /\ edits' = edits + 1

CreateRow(k, c) ==
  /\ Edit /\ tables[k][c] = "absent"
  /\ tables' = [tables EXCEPT ![k][c] = "live"]
  /\ revisions' = IF k = Decisions THEN revisions \cup {c} ELSE revisions
  /\ UNCHANGED <<users, stage, attempt, up, faults>>

DeleteRow(k, c) ==
  /\ Edit /\ tables[k][c] = "live"
  /\ tables' = [tables EXCEPT ![k][c] = "deleted"]
  /\ UNCHANGED <<revisions, users, stage, attempt, up, faults>>

Next ==
  \/ Boot \/ Restart \/ Dies
  \/ \E s \in {"db", "redis"} : Outage(s) \/ Recovery(s)
  \/ \E k \in Kind : \/ DiesCommitted(k)
                     \/ \E c \in Code : CreateRow(k, c) \/ DeleteRow(k, c)

\* The process keeps executing statements, and docker compose restarts whatever
\* has exited: the process, the database and Redis.
Fairness ==
  /\ WF_vars(Boot) /\ WF_vars(Restart)
  /\ \A s \in {"db", "redis"} : WF_vars(Recovery(s))

Spec == Init /\ [][Next]_vars /\ Fairness

-----------------------------------------------------------------------------
(* Properties                                                              *)

\* A table whose rows are all deleted, seeded ones among them: Count finds nothing
\* and the seeds cannot be inserted.
Hollow(k) ==
  /\ \A c \in Code : tables[k][c] # "live"
  /\ \E c \in SeedCode : tables[k][c] = "deleted"

\* Tables, stages and counters have their shape.
TypeOK ==
  /\ tables \in [Kind -> [Code -> {"absent", "live", "deleted"}]]
  /\ revisions \subseteq Code /\ users \in BOOLEAN
  /\ stage \in Booting \cup {"serving", "exited"}
  /\ attempt \in 1 .. MaxAttempts /\ up \subseteq {"db", "redis"}
  /\ faults \in 0 .. MaxFaults /\ edits \in 0 .. MaxEdits

\* Whenever the API answers, somebody can log in and every table has been seeded,
\* however often start-up was cut short before.
ServedSeeded ==
  stage = "serving" =>
    /\ users
    /\ \A k \in Kind : \A c \in SeedCode : tables[k][c] # "absent"

\* A decision never exists without its first revision, also when start-up dies in the
\* middle of seeding.  Every later update relies on it: the ledger has no gaps.
SeededDecisionsHaveRevisions ==
  revisions = {c \in Code : tables[Decisions][c] # "absent"}

\* Starting again never changes a row that is there: what a client has deleted stays
\* deleted and a table that is partly deleted is not seeded again.
StartupKeepsRows ==
  [][stage # "serving" =>
       \A k \in Kind, c \in Code :
         tables[k][c] # "absent" => tables'[k][c] = tables[k][c]]_vars

\* Once the rows of a table have all been deleted, a process that stops never gets
\* back to serving: seeding fails on the codes of the deleted rows at every restart.
HollowTableStopsService ==
  [][(stage # "serving" /\ \E k \in Kind : Hollow(k)) => stage' # "serving"]_vars

\* In every other case the service comes back, whatever was down when it started.
ServiceReturns ==
  (stage # "serving") ~> (stage = "serving" \/ \E k \in Kind : Hollow(k))
=============================================================================
