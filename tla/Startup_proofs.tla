--------------------------- MODULE Startup_proofs ---------------------------
(***************************************************************************)
(* Proofs about start-up, for any number of seeded rows, attempts, faults  *)
(* and edits by clients.                                                   *)
(*                                                                         *)
(* Seeding a table looks only at whether it has a live row.  That this is  *)
(* enough rests on the invariant that a table is either untouched or has   *)
(* had all its seeds (Whole): clients reach it only after start-up has     *)
(* gone through every table (Reached), and the insert is all or nothing.   *)
(***************************************************************************)
EXTENDS Startup, TLAPS

Seeded(k) == \A c \in SeedCode : tables[k][c] # "absent"
Untouched(k) == \A c \in Code : tables[k][c] = "absent"

\* The stages at which table k has been passed.
Past(k) ==
  CASE k = "CaptureUnit" -> {"PermitRule", "EmissionSample", "ComplianceDecision", "redis", "serving"}
    [] k = "PermitRule" -> {"EmissionSample", "ComplianceDecision", "redis", "serving"}
    [] k = "EmissionSample" -> {"ComplianceDecision", "redis", "serving"}
    [] OTHER -> {"redis", "serving"}

Whole == \A k \in Kind : Untouched(k) \/ Seeded(k)

Reached ==
  /\ stage \in Kind \cup {"redis", "serving"} => users
  /\ \A k \in Kind : stage \in Past(k) => Seeded(k)
  /\ \A k \in Kind : stage \in Past(k) \ {"serving"} => ~Hollow(k)

StartupInv == TypeOK /\ Whole /\ Reached /\ SeededDecisionsHaveRevisions

-----------------------------------------------------------------------------
(* The order of the stages                                                 *)

\* The tables that are seeded.
LEMMA Kinds == Kind = {"CaptureUnit", "PermitRule", "EmissionSample", "ComplianceDecision"}
BY DEF Kind, Decisions

\* main's statements one after the other.
LEMMA StageOrder ==
  Stages = <<"opening", "migrating", "users", "CaptureUnit", "PermitRule", "EmissionSample",
             "ComplianceDecision", "redis", "serving">>
BY DEF Stages, Decisions

\* What follows each stage.
LEMMA Following ==
  /\ After("opening") = "migrating" /\ After("migrating") = "users"
  /\ After("users") = "CaptureUnit" /\ After("CaptureUnit") = "PermitRule"
  /\ After("PermitRule") = "EmissionSample" /\ After("EmissionSample") = "ComplianceDecision"
  /\ After("ComplianceDecision") = "redis" /\ After("redis") = "serving"
BY StageOrder DEF After

\* The stages before serving.
LEMMA Boots == Booting = {"opening", "migrating", "users", "CaptureUnit", "PermitRule",
                          "EmissionSample", "ComplianceDecision", "redis"}
BY StageOrder DEF Booting

\* A stage is past a table when the stage before it was, or was the seeding of the table.
LEMMA PastStep ==
  ASSUME NEW s \in Booting, NEW k \in Kind
  PROVE  /\ After(s) \in Past(k) => s = k \/ s \in Past(k)
         /\ After(s) \in Booting \cup {"serving"}
         /\ After(s) \in Kind \cup {"redis", "serving"} => s \in Kind \cup {"users", "redis"}
         /\ "opening" \notin Past(k) /\ "exited" \notin Past(k)
         /\ (After(s) = "serving") = (s = "redis")
         /\ s # "serving" /\ s # "exited"
BY Kinds, Following, Boots DEF Past

\* Serving comes after every table, and so does the ping of Redis.
LEMMA PastAll == \A k \in Kind : "serving" \in Past(k) /\ "redis" \in Past(k)
BY Kinds DEF Past

-----------------------------------------------------------------------------
(* Tables                                                                  *)

\* What the insert of the seeds does: the rows that were there stay, all seeds are live,
\* and the other tables are left alone.
LEMMA InsertStep ==
  ASSUME TypeOK, NEW k \in Kind, Inserted(k), Counted(tables[k]) = {}, Taken(tables[k]) = {}
  PROVE  /\ tables' \in [Kind -> [Code -> {"absent", "live", "deleted"}]]
         /\ \A j \in Kind \ {k} : tables'[j] = tables[j]
         /\ \A c \in SeedCode : tables[k][c] = "absent" /\ tables'[k][c] = "live"
         /\ \A c \in Code \ SeedCode : tables'[k][c] = tables[k][c]
         /\ revisions' = IF k = Decisions THEN revisions \cup SeedCode ELSE revisions
<1>1. tables' = [tables EXCEPT ![k] = WithSeeds(tables[k])]
  BY DEF Inserted
<1>2. WithSeeds(tables[k]) \in [Code -> {"absent", "live", "deleted"}]
  BY DEF WithSeeds, TypeOK
<1>3. tables'[k] = WithSeeds(tables[k])
  BY <1>1 DEF TypeOK
<1>4. \A c \in SeedCode : c \in Code /\ tables[k][c] = "absent"
  BY DEF Taken, Code
<1>5. /\ \A c \in SeedCode : tables'[k][c] = "live"
      /\ \A c \in Code \ SeedCode : tables'[k][c] = tables[k][c]
  BY <1>3, <1>4 DEF WithSeeds
<1>6. tables' \in [Kind -> [Code -> {"absent", "live", "deleted"}]]
  BY <1>1, <1>2 DEF TypeOK
<1>7. \A j \in Kind \ {k} : tables'[j] = tables[j]
  BY <1>1 DEF TypeOK
<1> QED
  BY <1>4, <1>5, <1>6, <1>7 DEF Inserted

\* What an edit by a client does: one row, of one table, while the service is up.
LEMMA EditStep ==
  ASSUME TypeOK, NEW k \in Kind, NEW c \in Code, CreateRow(k, c) \/ DeleteRow(k, c)
  PROVE  /\ stage = "serving" /\ UNCHANGED <<users, stage, attempt, up, faults>>
         /\ tables' \in [Kind -> [Code -> {"absent", "live", "deleted"}]]
         /\ \A j \in Kind, d \in Code :
              tables[j][d] # "absent" => tables'[j][d] # "absent"
         /\ edits' \in 0 .. MaxEdits /\ revisions' \subseteq Code
<1>1. \E to \in {"live", "deleted"} : tables' = [tables EXCEPT ![k][c] = to]
  BY DEF CreateRow, DeleteRow
<1>2. PICK to \in {"live", "deleted"} : tables' = [tables EXCEPT ![k][c] = to]
  BY <1>1
<1>3. /\ tables' \in [Kind -> [Code -> {"absent", "live", "deleted"}]]
      /\ \A j \in Kind, d \in Code : tables[j][d] # "absent" => tables'[j][d] # "absent"
  BY <1>2 DEF TypeOK
<1>4. edits' \in 0 .. MaxEdits
  BY StartupAssumption DEF TypeOK, CreateRow, DeleteRow, Edit
<1>5. revisions' \subseteq Code
  BY DEF TypeOK, CreateRow, DeleteRow
<1> QED
  BY <1>3, <1>4, <1>5 DEF CreateRow, DeleteRow, Edit

-----------------------------------------------------------------------------
(* The invariant                                                           *)

\* Every step keeps the type invariant.
LEMMA TypeStep == TypeOK /\ [Next]_vars => TypeOK'
<1> SUFFICES ASSUME TypeOK, [Next]_vars PROVE TypeOK'
  OBVIOUS
<1>s. "exited" \in Booting \cup {"serving", "exited"} /\ "opening" \in Booting
  BY Boots
<1>b. MaxAttempts \in Nat \ {0} /\ MaxFaults \in Nat /\ MaxEdits \in Nat
  BY StartupAssumption
<1>1. CASE UNCHANGED vars
  BY <1>1 DEF TypeOK, vars, data
<1>2. CASE OpenDatabase
  <2>1. stage' \in Booting \cup {"serving", "exited"}
    BY <1>2, <1>s, Following, Boots DEF OpenDatabase, Advance, Exit, TypeOK
  <2>2. attempt' \in 1 .. MaxAttempts
    BY <1>2, <1>b DEF OpenDatabase, AttemptsLeft, TypeOK
  <2> QED
    BY <1>2, <2>1, <2>2 DEF OpenDatabase, TypeOK, data
<1>3. CASE Migrate
  BY <1>3, <1>s, Following, Boots DEF Migrate, Advance, Exit, TypeOK, data
<1>4. CASE SeedUsers
  BY <1>4, <1>s, Following, Boots DEF SeedUsers, Advance, Exit, TypeOK
<1>5. ASSUME NEW k \in Kind, SeedTable(k) PROVE TypeOK'
  <2>1. k \in Booting
    BY Kinds, Boots
  <2>2. stage' \in Booting \cup {"serving", "exited"}
    BY <1>5, <1>s, <2>1, PastStep DEF SeedTable, Advance, Exit
  <2>3. \/ tables' = tables /\ revisions' = revisions
        \/ Counted(tables[k]) = {} /\ Taken(tables[k]) = {} /\ Inserted(k)
    BY <1>5 DEF SeedTable
  <2>4. /\ tables' \in [Kind -> [Code -> {"absent", "live", "deleted"}]]
        /\ revisions' \subseteq Code
    BY <2>3, InsertStep DEF TypeOK, Code
  <2>5. UNCHANGED <<users, attempt, up, faults, edits>>
    BY <1>5 DEF SeedTable
  <2> QED
    BY <2>2, <2>4, <2>5 DEF TypeOK
<1>6. CASE PingRedis
  BY <1>6, <1>s, Following, Boots DEF PingRedis, Advance, Exit, TypeOK, data
<1>7. CASE Restart
  BY <1>7, <1>s, <1>b DEF Restart, TypeOK, data
<1>8. CASE Dies
  BY <1>8, <1>s, <1>b DEF Dies, Fault, Exit, TypeOK, data
<1>9. ASSUME NEW x \in {"db", "redis"}, Outage(x) \/ Recovery(x) PROVE TypeOK'
  <2>1. up' \subseteq {"db", "redis"}
    BY <1>9 DEF Outage, Recovery, TypeOK
  <2>2. faults' \in 0 .. MaxFaults
    BY <1>9, <1>b DEF Outage, Recovery, Fault, TypeOK
  <2>3. UNCHANGED <<tables, revisions, users, stage, attempt, edits>>
    BY <1>9 DEF Outage, Recovery, data
  <2> QED
    BY <2>1, <2>2, <2>3 DEF TypeOK
<1>10. ASSUME NEW k \in Kind, DiesCommitted(k) PROVE TypeOK'
  <2>1. Counted(tables[k]) = {} /\ Taken(tables[k]) = {} /\ Inserted(k)
    BY <1>10 DEF DiesCommitted
  <2>2. /\ tables' \in [Kind -> [Code -> {"absent", "live", "deleted"}]]
        /\ revisions' \subseteq Code
    BY <2>1, InsertStep DEF TypeOK, Code
  <2>3. /\ stage' = "exited" /\ faults' \in 0 .. MaxFaults
        /\ UNCHANGED <<users, attempt, up, edits>>
    BY <1>10, <1>b DEF DiesCommitted, Fault, Exit, TypeOK
  <2> QED
    BY <1>s, <2>2, <2>3 DEF TypeOK
<1>11. ASSUME NEW k \in Kind, NEW c \in Code, CreateRow(k, c) \/ DeleteRow(k, c) PROVE TypeOK'
  BY <1>11, EditStep DEF TypeOK
<1> QED
  BY <1>1, <1>2, <1>3, <1>4, <1>5, <1>6, <1>7, <1>8, <1>9, <1>10, <1>11 DEF Next, Boot

\* Seeding a table keeps the other tables as they were.
LEMMA SeedingStep ==
  ASSUME TypeOK, Whole, NEW k \in Kind, stage = k, Inserted(k),
         Counted(tables[k]) = {}, Taken(tables[k]) = {}
  PROVE  /\ Whole' /\ Seeded(k)' /\ ~Hollow(k)'
         /\ \A j \in Kind \ {k} :
              (Seeded(j) => Seeded(j)') /\ (~Hollow(j) => ~Hollow(j)')
<1>1. /\ \A j \in Kind \ {k} : tables'[j] = tables[j]
      /\ \A c \in SeedCode : tables'[k][c] = "live"
  BY InsertStep
<1>2. SeedCode # {} /\ SeedCode \subseteq Code
  BY StartupAssumption DEF Code
<1>3. Seeded(k)'
  BY <1>1 DEF Seeded
<1>4. ~Hollow(k)'
  BY <1>1, <1>2 DEF Hollow
<1>5. \A j \in Kind \ {k} : (Seeded(j) => Seeded(j)') /\ (~Hollow(j) => ~Hollow(j)')
  BY <1>1 DEF Seeded, Hollow
<1>6. Whole'
  BY <1>1, <1>3 DEF Whole, Seeded, Untouched
<1> QED
  BY <1>3, <1>4, <1>5, <1>6

\* A table with a live row has been seeded and is not hollow.
LEMMA CountedSeeded ==
  ASSUME Whole, NEW k \in Kind, Counted(tables[k]) # {}
  PROVE  Seeded(k) /\ ~Hollow(k)
BY DEF Whole, Counted, Untouched, Hollow

\* The decisions that are inserted come with their revisions.
LEMMA InsertedRevisions ==
  ASSUME TypeOK, SeededDecisionsHaveRevisions, NEW k \in Kind, Inserted(k),
         Counted(tables[k]) = {}, Taken(tables[k]) = {}
  PROVE  SeededDecisionsHaveRevisions'
<1>0. SeedCode \subseteq Code /\ Decisions \in Kind
  BY Kinds DEF Code, Decisions
<1>1. CASE k = Decisions
  <2>1. /\ \A c \in SeedCode : tables'[Decisions][c] = "live"
        /\ \A c \in Code \ SeedCode : tables'[Decisions][c] = tables[Decisions][c]
        /\ revisions' = revisions \cup SeedCode
    BY <1>1, InsertStep
  <2> QED
    BY <1>0, <2>1 DEF SeededDecisionsHaveRevisions
<1>2. CASE k # Decisions
  BY <1>0, <1>2, InsertStep DEF SeededDecisionsHaveRevisions
<1> QED
  BY <1>1, <1>2

\* An edit keeps a revision for each decision.
LEMMA EditedRevisions ==
  ASSUME TypeOK, SeededDecisionsHaveRevisions, NEW k \in Kind, NEW c \in Code,
         CreateRow(k, c) \/ DeleteRow(k, c)
  PROVE  SeededDecisionsHaveRevisions'
<1>1. Decisions \in Kind
  BY Kinds DEF Decisions
<1>2. CASE CreateRow(k, c)
  <2>1. tables' = [tables EXCEPT ![k][c] = "live"]
    BY <1>2 DEF CreateRow
  <2>2. CASE k = Decisions
    <3>1. revisions' = revisions \cup {c}
      BY <1>2, <2>2 DEF CreateRow
    <3>2. /\ tables'[Decisions][c] = "live"
          /\ \A d \in Code \ {c} : tables'[Decisions][d] = tables[Decisions][d]
      BY <1>1, <2>1, <2>2 DEF TypeOK
    <3> QED
      BY <3>1, <3>2 DEF SeededDecisionsHaveRevisions
  <2>3. CASE k # Decisions
    <3>1. revisions' = revisions /\ tables'[Decisions] = tables[Decisions]
      BY <1>1, <1>2, <2>1, <2>3 DEF CreateRow, TypeOK
    <3> QED
      BY <3>1 DEF SeededDecisionsHaveRevisions
  <2> QED
    BY <2>2, <2>3
<1>3. CASE DeleteRow(k, c)
  <2>1. /\ tables' = [tables EXCEPT ![k][c] = "deleted"] /\ tables[k][c] = "live"
        /\ revisions' = revisions
    BY <1>3 DEF DeleteRow
  <2>2. \A d \in Code : (tables'[Decisions][d] # "absent") = (tables[Decisions][d] # "absent")
    BY <1>1, <2>1 DEF TypeOK
  <2> QED
    BY <2>1, <2>2 DEF SeededDecisionsHaveRevisions
<1> QED
  BY <1>2, <1>3

\* A step that leaves rows and users alone and does not advance past a table.
LEMMA QuietStep ==
  ASSUME Whole, Reached, SeededDecisionsHaveRevisions, UNCHANGED data,
         \/ stage' = stage
         \/ stage' \in {"exited", "opening", "migrating", "users"}
         \/ stage = "redis" /\ stage' = "serving"
  PROVE  Whole' /\ Reached' /\ SeededDecisionsHaveRevisions'
<1>1. /\ \A k \in Kind : /\ (Seeded(k)' <=> Seeded(k)) /\ (Hollow(k)' <=> Hollow(k))
                         /\ (Untouched(k)' <=> Untouched(k))
      /\ users' = users
  BY DEF data, Seeded, Hollow, Untouched
<1>2. Whole' /\ SeededDecisionsHaveRevisions'
  BY <1>1 DEF Whole, SeededDecisionsHaveRevisions, data
<1>3. CASE stage' = stage
  BY <1>1, <1>2, <1>3 DEF Reached
<1>4. CASE stage' \in {"exited", "opening", "migrating", "users"}
  <2>1. stage' \notin Kind \cup {"redis", "serving"}
    BY <1>4, Kinds
  <2>2. \A k \in Kind : stage' \notin Past(k)
    BY <1>4, Kinds DEF Past
  <2> QED
    BY <1>2, <2>1, <2>2 DEF Reached
<1>5. CASE stage = "redis" /\ stage' = "serving"
  <2>1. \A k \in Kind : Seeded(k)'
    BY <1>1, <1>5, PastAll DEF Reached
  <2> QED
    BY <1>1, <1>2, <1>5, <2>1 DEF Reached
<1> QED
  BY <1>2, <1>3, <1>4, <1>5

\* Every step keeps the invariant.
LEMMA ReachedStep ==
  TypeOK /\ Whole /\ Reached /\ SeededDecisionsHaveRevisions /\ [Next]_vars
    => Whole' /\ Reached' /\ SeededDecisionsHaveRevisions'
<1> DEFINE G == Whole /\ Reached /\ SeededDecisionsHaveRevisions
<1> SUFFICES ASSUME TypeOK, G, [Next]_vars PROVE G'
  OBVIOUS
<1>1. CASE UNCHANGED vars
  BY <1>1, QuietStep DEF vars, data
<1>2. CASE OpenDatabase
  BY <1>2, QuietStep, Following DEF OpenDatabase, Advance, Exit
<1>3. CASE Migrate
  BY <1>3, QuietStep, Following DEF Migrate, Advance, Exit
<1>4. CASE SeedUsers
  <2>1. CASE stage' = "exited"
    BY <1>4, <2>1, Kinds DEF SeedUsers, Whole, Reached, SeededDecisionsHaveRevisions, Seeded, Untouched, Past
  <2>2. CASE stage' = "CaptureUnit" /\ users'
    BY <1>4, <2>2, Kinds DEF SeedUsers, Whole, Reached, SeededDecisionsHaveRevisions, Seeded, Untouched, Past
  <2> QED
    BY <1>4, <2>1, <2>2, Following DEF SeedUsers, Advance, Exit
<1>5. ASSUME NEW k \in Kind, SeedTable(k) PROVE G'
  <2>0. stage = k /\ users' = users /\ k \in Booting
    BY <1>5, Kinds, Boots DEF SeedTable
  <2>1. CASE UNCHANGED <<tables, revisions>> /\ stage' = "exited"
    BY <2>0, <2>1, QuietStep DEF data
  <2>2. CASE /\ UNCHANGED <<tables, revisions>> /\ stage' = After(k)
             /\ Counted(tables[k]) # {}
    <3>1. Seeded(k) /\ ~Hollow(k)
      BY <2>2, CountedSeeded
    <3>2. \A j \in Kind : stage' \in Past(j) => Seeded(j) /\ ~Hollow(j)
      BY <2>0, <2>2, <3>1, PastStep DEF Reached
    <3>3. stage' \in Kind \cup {"redis", "serving"} => users'
      BY <2>0 DEF Reached
    <3>4. \A j \in Kind : (Seeded(j)' <=> Seeded(j)) /\ (Hollow(j)' <=> Hollow(j))
      BY <2>2 DEF Seeded, Hollow
    <3>5. Reached'
      BY <3>2, <3>3, <3>4 DEF Reached
    <3> QED
      BY <2>2, <3>5 DEF Whole, Seeded, Untouched, SeededDecisionsHaveRevisions
  <2>3. CASE /\ Inserted(k) /\ stage' = After(k)
             /\ Counted(tables[k]) = {} /\ Taken(tables[k]) = {}
    <3>1. /\ Whole' /\ Seeded(k)' /\ ~Hollow(k)'
          /\ \A j \in Kind \ {k} :
               (Seeded(j) => Seeded(j)') /\ (~Hollow(j) => ~Hollow(j)')
      BY <2>0, <2>3, SeedingStep
    <3>2. \A j \in Kind : stage' \in Past(j) => Seeded(j)' /\ ~Hollow(j)'
      BY <2>0, <2>3, <3>1, PastStep DEF Reached
    <3>3. stage' \in Kind \cup {"redis", "serving"} => users'
      BY <2>0 DEF Reached
    <3>4. Reached'
      BY <3>2, <3>3 DEF Reached
    <3>5. SeededDecisionsHaveRevisions'
      BY <2>3, InsertedRevisions
    <3> QED
      BY <3>1, <3>4, <3>5
  <2> QED
    BY <1>5, <2>1, <2>2, <2>3 DEF SeedTable, Advance, Exit
<1>6. CASE PingRedis
  BY <1>6, QuietStep, Following DEF PingRedis, Advance, Exit
<1>7. CASE Restart
  BY <1>7, QuietStep DEF Restart
<1>8. CASE Dies
  BY <1>8, QuietStep DEF Dies, Exit
<1>9. ASSUME NEW x \in {"db", "redis"}, Outage(x) \/ Recovery(x) PROVE G'
  BY <1>9, QuietStep DEF Outage, Recovery
<1>10. ASSUME NEW k \in Kind, DiesCommitted(k) PROVE G'
  <2>1. /\ Inserted(k) /\ stage = k /\ stage' = "exited"
        /\ Counted(tables[k]) = {} /\ Taken(tables[k]) = {}
    BY <1>10 DEF DiesCommitted, Exit
  <2>2. Whole'
    BY <2>1, SeedingStep
  <2>3. stage' \notin Kind \cup {"redis", "serving"} /\ \A j \in Kind : stage' \notin Past(j)
    BY <2>1, Kinds DEF Past
  <2>4. Reached'
    BY <2>3 DEF Reached
  <2>5. SeededDecisionsHaveRevisions'
    BY <2>1, InsertedRevisions
  <2> QED
    BY <2>2, <2>4, <2>5
<1>11. ASSUME NEW k \in Kind, NEW c \in Code, CreateRow(k, c) \/ DeleteRow(k, c) PROVE G'
  <2>1. /\ stage = "serving" /\ stage' = "serving" /\ users' = users
        /\ \A j \in Kind, d \in Code : tables[j][d] # "absent" => tables'[j][d] # "absent"
    BY <1>11, EditStep
  <2>2. SeedCode \subseteq Code /\ \A j \in Kind : Seeded(j)
    BY <2>1, PastAll DEF Reached, Code
  <2>3. \A j \in Kind : Seeded(j)'
    BY <2>1, <2>2 DEF Seeded
  <2>4. Whole' /\ Reached'
    BY <2>1, <2>3 DEF Whole, Reached
  <2>5. SeededDecisionsHaveRevisions'
    BY <1>11, EditedRevisions
  <2> QED
    BY <2>4, <2>5
<1> QED
  BY <1>1, <1>2, <1>3, <1>4, <1>5, <1>6, <1>7, <1>8, <1>9, <1>10, <1>11 DEF Next, Boot

-----------------------------------------------------------------------------
(* Theorems                                                                *)

\* The empty database satisfies the invariant.
LEMMA StartupInit == Init => StartupInv
<1> SUFFICES ASSUME Init PROVE StartupInv
  OBVIOUS
<1>1. TypeOK
  <2>1. tables \in [Kind -> [Code -> {"absent", "live", "deleted"}]]
    BY DEF Init
  <2>2. stage \in Booting \cup {"serving", "exited"}
    BY Boots DEF Init
  <2>3. attempt \in 1 .. MaxAttempts /\ faults \in 0 .. MaxFaults /\ edits \in 0 .. MaxEdits
    BY StartupAssumption DEF Init
  <2> QED
    BY <2>1, <2>2, <2>3 DEF Init, TypeOK
<1>2. Whole
  BY DEF Init, Whole, Untouched
<1>3. Reached
  BY Kinds DEF Init, Reached, Past
<1>4. SeededDecisionsHaveRevisions
  BY Kinds DEF Init, SeededDecisionsHaveRevisions, Decisions
<1> QED
  BY <1>1, <1>2, <1>3, <1>4 DEF StartupInv

\* The invariant holds throughout.
THEOREM StartupInvariant == Spec => []StartupInv
<1>1. StartupInv /\ [Next]_vars => StartupInv'
  BY TypeStep, ReachedStep DEF StartupInv
<1> QED
  BY <1>1, StartupInit, PTL DEF Spec

\* Tables, stages and counters keep their shape.
THEOREM StartupTypeCorrect == Spec => []TypeOK
<1>1. StartupInv => TypeOK
  BY DEF StartupInv
<1> QED
  BY <1>1, StartupInvariant, PTL

\* Whenever the API answers, the users are there and every table has been seeded.
THEOREM ServiceSeeded == Spec => []ServedSeeded
<1>1. StartupInv => ServedSeeded
  BY PastAll, Kinds DEF StartupInv, Reached, ServedSeeded, Seeded
<1> QED
  BY <1>1, StartupInvariant, PTL

\* No decision is without its first revision, however often seeding is cut short.
THEOREM DecisionsRevised == Spec => []SeededDecisionsHaveRevisions
<1>1. StartupInv => SeededDecisionsHaveRevisions
  BY DEF StartupInv
<1> QED
  BY <1>1, StartupInvariant, PTL

\* Starting again changes no row that is there.
THEOREM RowsSurviveStartup == Spec => StartupKeepsRows
<1>1. ASSUME TypeOK, Next, stage # "serving", NEW k \in Kind, NEW c \in Code,
             tables[k][c] # "absent"
      PROVE  tables'[k][c] = tables[k][c]
  <2>1. ASSUME NEW j \in Kind, Inserted(j), Counted(tables[j]) = {}, Taken(tables[j]) = {}
        PROVE  tables'[k][c] = tables[k][c]
    BY <1>1, <2>1, InsertStep
  <2>2. \/ tables' = tables
        \/ \E j \in Kind : Inserted(j) /\ Counted(tables[j]) = {} /\ Taken(tables[j]) = {}
    BY <1>1 DEF Next, Boot, OpenDatabase, Migrate, SeedUsers, SeedTable, PingRedis, Restart,
                Dies, Outage, Recovery, DiesCommitted, CreateRow, DeleteRow, Edit, data
  <2> QED
    BY <2>1, <2>2
<1>2. StartupInv /\ [Next]_vars =>
        [stage # "serving" =>
           \A k \in Kind, c \in Code :
             tables[k][c] # "absent" => tables'[k][c] = tables[k][c]]_vars
  BY <1>1 DEF StartupInv
<1> QED
  BY <1>2, StartupInvariant, PTL DEF Spec, StartupKeepsRows

\* A process that stops with a table whose rows are all deleted does not serve again.
THEOREM HollowTableStops == Spec => HollowTableStopsService
<1>1. ASSUME StartupInv, Next, stage # "serving", NEW k \in Kind, Hollow(k)
      PROVE  stage' # "serving"
  <2>1. SUFFICES ASSUME stage' = "serving" PROVE FALSE
    OBVIOUS
  <2>2. stage # "redis"
    BY <1>1, PastAll DEF StartupInv, Reached
  <2>3. stage \in Booting \cup {"exited"}
    BY <1>1 DEF StartupInv, TypeOK
  <2>4. stage' = stage \/ stage' = "exited" \/ stage' = "opening" \/ (stage \in Booting /\ stage' = After(stage))
    <3>1. \A j \in Kind : SeedTable(j) => stage \in Booting /\ stage' \in {"exited", After(stage)}
      BY Kinds, Boots DEF SeedTable, Exit, Advance
    <3>2. Boot => stage' = stage \/ stage' = "exited" \/ (stage \in Booting /\ stage' = After(stage))
      BY <3>1, Boots DEF Boot, OpenDatabase, Migrate, SeedUsers, PingRedis, Exit, Advance
    <3> QED
      BY <1>1, <3>2 DEF Next, Restart, Dies, Outage, Recovery, DiesCommitted, CreateRow,
                        DeleteRow, Edit, Exit, data
  <2> QED
    BY <1>1, <2>1, <2>2, <2>4, PastStep
<1>2. StartupInv /\ [Next]_vars =>
        [(stage # "serving" /\ \E k \in Kind : Hollow(k)) => stage' # "serving"]_vars
  BY <1>1
<1> QED
  BY <1>2, StartupInvariant, PTL DEF Spec, HollowTableStopsService
=============================================================================
