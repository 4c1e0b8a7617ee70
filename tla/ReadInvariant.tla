---------------------------- MODULE ReadInvariant ----------------------------
(***************************************************************************)
(* The inductive invariants behind the theorems of ReadSide_proofs: what   *)
(* tables, writers and reader look like (ShapeInv), what the plan of a     *)
(* writer has to do with the row it will find (PlansSound, and PlansFresh  *)
(* when no client runs ahead), and for each kind of answer what its queries*)
(* so far have established.                                                *)
(***************************************************************************)
EXTENDS ReadSide

-----------------------------------------------------------------------------
(* Shapes                                                                  *)

Plan  == [at : {"building", "writing"}, op : Action, user : User, id : Id, row : Row]
Sent  == [at : {"auditing"}, op : Action, user : User, id : Id]
Entry == [at : {"inserting"}, entry : AuditLog]

WriterState == {Idle, [at |-> "done"]} \cup Plan \cup Sent \cup Entry

ListItem == [id : Id, row : Row, revisions : SUBSET Nat]

ListReader ==
  [op : {"list"}, at : {"counting", "paging", "revising", "answered", "finished"},
   filter : Filter, page : Nat \ {0}, total : Nat, items : Seq(ListItem), seen : SUBSET Id]

AuditReader ==
  [op : {"audits"}, at : {"counting", "paging", "answered", "finished"},
   page : Nat \ {0}, total : Nat, items : Seq(AuditLog), seen : SUBSET AuditLog]

SummaryReader ==
  [op : {"summary"},
   at : {"total", "transitions", "actors", "actions", "entities", "finished"},
   since : Int, total : Nat, transitions : Nat, actors : Nat,
   actions : [Action -> Nat] \cup {<<>>}, entities : [EntityType -> Nat] \cup {<<>>}]

NoReader == {Unread, [op |-> "none", at |-> "failed"]}

ShapeInv ==
  /\ clock \in 0 .. MaxTime
  /\ table \in [Id -> Row]
  /\ auditLog \subseteq AuditLog /\ IsFiniteSet(auditLog)
  /\ writer \in [Writer -> WriterState]
  /\ answered \in [Writer -> SUBSET Writer]
  /\ reader \in NoReader \cup ListReader \cup AuditReader \cup SummaryReader
  /\ walk \in [table : [Id -> Row], log : SUBSET AuditLog,
               left : BOOLEAN, fell : BOOLEAN, quiet : BOOLEAN, counted : BOOLEAN]

-----------------------------------------------------------------------------
(* Rows and writers                                                        *)

\* No row is from the future, and a key that was never used has a blank row.
RowsStamped ==
  \A i \in Id : /\ table[i].stamp <= clock
                /\ table[i].phase = "absent" => table[i].version = 0 /\ table[i].stamp = 0

Planning(w) == writer[w].at \in {"building", "writing"} /\ writer[w].op # "delete"

\* A plan is for a live row, a create for its first version, and the stamp of a
\* statement that was built is a time that has been.
PlansSound ==
  \A w \in Writer :
    Planning(w) =>
      /\ writer[w].row.phase = "live"
      /\ writer[w].op = "create" => writer[w].row.version = 1
      /\ writer[w].at = "writing" => writer[w].row.stamp <= clock

\* When no client runs ahead, a plan that the lock will accept was made from the row
\* as it is, so its stamp is not older.
PlansFresh ==
  \A w \in Writer :
    Planning(w) /\ writer[w].op # "create" =>
      LET row == writer[w].row
          old == table[writer[w].id]
      IN /\ row.version <= old.version + 1
         /\ writer[w].at = "writing" /\ row.version = old.version + 1 => old.stamp <= row.stamp

\* The rows of now are the rows the reader's walk began with, or later versions.
WalkOlder == \A i \in Id : walk.table[i].version <= table[i].version

RowsInv == ShapeInv /\ RowsStamped /\ PlansSound /\ WalkOlder

-----------------------------------------------------------------------------
(* The audit log                                                           *)

\* An entry belongs to an answered request and is not stamped in the future; who was
\* answered before another began has no later entry than it.
LogOrdered ==
  /\ \A a \in auditLog : a.request \in Done /\ a.stamp <= clock
  /\ \A w \in Writer : answered[w] \subseteq Done
  /\ \A w \in Writer :
       writer[w].at = "inserting" =>
         /\ writer[w].entry.request = w /\ writer[w].entry.stamp <= clock
         /\ \A a \in auditLog : a.request \in answered[w] => a.stamp <= writer[w].entry.stamp

LogInv == ShapeInv /\ LogOrdered /\ AuditOrderKeepsRealTime

-----------------------------------------------------------------------------
(* A walk through pages                                                    *)

\* The walk has read the pages before this one, or this one too, and was told to go on.
Passed(ahead) ==
  \/ /\ reader.at \in {"counting", "paging"}
     /\ Cardinality(ahead) >= (reader.page - 1) * PageSize
  \/ /\ reader.at \in {"revising", "answered"} /\ Len(reader.items) = PageSize
     /\ Cardinality(ahead) >= reader.page * PageSize

RowsAhead(i)    == {j \in Found(reader.filter) : NewestFirst(j, i)}
EntriesAhead(a) == {b \in auditLog : b.stamp > a.stamp}

\* A row of the list that has not changed was seen, or is still to come: those in
\* front of it fill the pages read so far.  Rows that leave or fall back would empty
\* these again.
ListWalk ==
  reader.op = "list" /\ ~walk.left /\ ~walk.fell =>
    \A i \in Id :
      Matches(table[i], reader.filter) /\ table[i] = walk.table[i] =>
        i \in reader.seen \/ Passed(RowsAhead(i))

\* The same of an entry, unless it shares its instant with another.
AuditWalk ==
  reader.op = "audits" =>
    /\ walk.log \subseteq auditLog
    /\ \A a \in walk.log :
         \/ a \in reader.seen
         \/ \E b \in auditLog \ {a} : b.stamp = a.stamp
         \/ Passed(EntriesAhead(a))

\* The total is the count of now while no write has come between, and a page is what
\* such a count makes of it.
TotalsCounted ==
  reader.op = "list" =>
    /\ reader.at = "paging" /\ walk.quiet => reader.total = Cardinality(Found(reader.filter))
    /\ reader.at \in {"revising", "answered"} =>
         /\ Len(reader.items) <= PageSize
         /\ walk.counted =>
              Len(reader.items) =
                Min({PageSize, Max({0, reader.total - (reader.page - 1) * PageSize})})

\* An item is shown in a version its row has had, and with the revisions up to it.
ItemsCovered ==
  reader.op = "list" =>
    \A n \in DOMAIN reader.items :
      LET item == reader.items[n]
      IN /\ reader.at = "revising" => item.row.version <= table[item.id].version
         /\ reader.at = "answered" => 1 .. item.row.version \subseteq item.revisions

-----------------------------------------------------------------------------
(* The summary                                                             *)

After(stages) == reader.at \in stages

\* What was counted is at most what there is to count now, and in order.
SummaryOrdered ==
  reader.op = "summary" =>
    /\ After({"transitions", "actors", "actions"}) => reader.total <= Cardinality(Counted)
    /\ After({"actors", "actions"}) =>
         reader.transitions <= Cardinality({a \in Counted : a.action = "transition"})
    /\ After({"actions"}) => reader.actors <= Cardinality(Counted)
    /\ After({"entities", "finished"}) =>
         /\ reader.actions \in [Action -> Nat] /\ Total(reader.actions) \in Nat
         /\ reader.total <= Total(reader.actions)
         /\ reader.transitions <= reader.actions["transition"]
         /\ reader.actors <= Total(reader.actions)
    /\ After({"entities"}) => Total(reader.actions) <= Cardinality(Counted)
    /\ After({"finished"}) => Total(reader.actions) <= Total(reader.entities)
=============================================================================
