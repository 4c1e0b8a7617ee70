--------------------------- MODULE ReadSide_proofs ---------------------------
(***************************************************************************)
(* Proofs about ReadSide, for any finite set of keys, any writers, users,  *)
(* page size, window and bound of the clock: what a client that walks      *)
(* through pages may miss, what the parts of one answer may say of each    *)
(* other, and in which order audit entries are stamped.                    *)
(*                                                                         *)
(* The walk: the rows in front of one that does not change only become     *)
(* more, unless a row leaves the list; so a row that was not on the pages  *)
(* read so far is behind them (ListWalk, AuditWalk).                       *)
(***************************************************************************)
EXTENDS ReadInvariant, FiniteSetTheorems, FunctionTheorems, SequenceTheorems, TLAPS

-----------------------------------------------------------------------------
(* Numbers and pages                                                       *)

\* The smaller and the larger of two numbers.
LEMMA Smaller ==
  ASSUME NEW a \in Int, NEW b \in Int
  PROVE  Min({a, b}) = IF a <= b THEN a ELSE b
<1> DEFINE m == IF a <= b THEN a ELSE b
<1>1. m \in {a, b} /\ \A y \in {a, b} : m =< y
  OBVIOUS
<1>2. \A x \in {a, b} : (\A y \in {a, b} : x =< y) => x = m
  OBVIOUS
<1> HIDE DEF m
<1>3. Min({a, b}) = m
  BY <1>1, <1>2 DEF Min
<1> QED
  BY <1>3 DEF m

LEMMA Larger ==
  ASSUME NEW a \in Int, NEW b \in Int
  PROVE  Max({a, b}) = IF a <= b THEN b ELSE a
<1> DEFINE m == IF a <= b THEN b ELSE a
<1>1. m \in {a, b} /\ \A y \in {a, b} : m >= y
  OBVIOUS
<1>2. \A x \in {a, b} : (\A y \in {a, b} : x >= y) => x = m
  OBVIOUS
<1> HIDE DEF m
<1>3. Max({a, b}) = m
  BY <1>1, <1>2 DEF Max
<1> QED
  BY <1>3 DEF m

\* The rows before a page, on it and before the next one.
LEMMA PageBounds ==
  ASSUME NEW page \in Nat \ {0}
  PROVE  /\ PageSize \in Nat /\ 1 <= PageSize
         /\ (page - 1) * PageSize \in Nat /\ page * PageSize \in Nat
         /\ page * PageSize = (page - 1) * PageSize + PageSize
         /\ page + 1 \in Nat \ {0} /\ (page + 1) - 1 = page
<1>1. PageSize \in Nat /\ 1 <= PageSize
  BY ReadSideAssumption
<1>2. page - 1 \in Nat /\ page = (page - 1) + 1
  OBVIOUS
<1>3. \A k \in Nat : k * PageSize \in Nat /\ (k + 1) * PageSize = k * PageSize + PageSize
  BY <1>1
<1> QED
  BY <1>1, <1>2, <1>3

\* Rows are the page of an order of n after the first ones.
IsPage(rows, order, n, from) ==
  /\ Len(rows) = IF n <= from THEN 0 ELSE IF n <= from + PageSize THEN n - from ELSE PageSize
  /\ \A k \in 1 .. Len(rows) : from + k \in 1 .. n /\ rows[k] = order[from + k]

\* A page of an order: how long it is and what is on it.
LEMMA PageOfOrder ==
  ASSUME NEW S, NEW n \in Nat, NEW order \in [1 .. n -> S], NEW page \in Nat \ {0}
  PROVE  /\ PageOf(order, page) \in Seq(S)
         /\ IsPage(PageOf(order, page), order, n, (page - 1) * PageSize)
<1> DEFINE from == (page - 1) * PageSize
           upto == IF page * PageSize <= n THEN page * PageSize ELSE n
           rows == PageOf(order, page)
<1>1. /\ PageSize \in Nat /\ 1 <= PageSize /\ from \in Nat
      /\ page * PageSize \in Nat /\ page * PageSize = from + PageSize
  BY PageBounds
<1>2. order \in Seq(S) /\ Len(order) = n
  OBVIOUS
<1>3. rows = SubSeq(order, from + 1, upto)
  BY <1>1, <1>2, Smaller DEF PageOf
<1> HIDE DEF from, rows
<1>4. upto \in Int /\ upto <= n
  BY <1>1
<1>5. \A i \in from + 1 .. upto : order[i] \in S
  BY <1>1, <1>4
<1>6. /\ rows \in Seq(S)
      /\ Len(rows) = IF from + 1 <= upto THEN upto - (from + 1) + 1 ELSE 0
      /\ \A i \in 1 .. upto - (from + 1) + 1 : rows[i] = order[(from + 1) + i - 1]
  BY <1>1, <1>3, <1>4, <1>5, SubSeqProperties
<1>7. Len(rows) = IF n <= from THEN 0 ELSE IF n <= from + PageSize THEN n - from ELSE PageSize
  BY <1>1, <1>6
<1>8. ASSUME NEW k \in 1 .. Len(rows)
      PROVE  from + k \in 1 .. n /\ rows[k] = order[from + k]
  <2>1. k \in 1 .. upto - (from + 1) + 1
    BY <1>1, <1>4, <1>6
  <2>2. (from + 1) + k - 1 = from + k /\ from + k <= n /\ from + k \in 1 .. n
    BY <1>1, <1>4, <2>1
  <2> QED
    BY <1>6, <2>1, <2>2
<1> QED
  BY <1>6, <1>7, <1>8 DEF from, rows, IsPage

\* The length of a sequence given entry by entry.
LEMMA LengthOf ==
  ASSUME NEW n \in Nat, NEW f, f = [k \in 1 .. n |-> f[k]]
  PROVE  Len(f) = n
<1>1. f \in [1 .. n -> {f[k] : k \in 1 .. n}]
  OBVIOUS
<1> QED
  BY <1>1

-----------------------------------------------------------------------------
(* Orders                                                                  *)

\* An order of a finite set is a sequence of all its members.
LEMMA OrderCovers ==
  ASSUME NEW S, IsFiniteSet(S), NEW order \in SetToSeqs(S)
  PROVE  /\ Cardinality(S) \in Nat /\ order \in [1 .. Cardinality(S) -> S]
         /\ DOMAIN order = 1 .. Cardinality(S)
         /\ \A i, j \in 1 .. Cardinality(S) : i # j => order[i] # order[j]
         /\ \A x \in S : \E k \in 1 .. Cardinality(S) : order[k] = x
<1> DEFINE n == Cardinality(S)
<1>1. n \in Nat
  BY FS_CardinalityType
<1>2. order \in [1 .. n -> S] /\ \A i, j \in 1 .. n : i # j => order[i] # order[j]
  BY DEF SetToSeqs
<1>3. IsFiniteSet(1 .. n) /\ Cardinality(1 .. n) = n
  BY <1>1, FS_Interval
<1>4. order \in Injection(1 .. n, S)
  BY <1>2, Fun_IsInj
<1>5. order \in Surjection(1 .. n, S)
  BY <1>3, <1>4, FS_Injection
<1> QED
  BY <1>1, <1>2, <1>5, Fun_SurjectionProperties

\* The members of an order in front of its k-th.
Ahead(order, k) == {order[m] : m \in 1 .. k - 1}

\* They are k - 1.
LEMMA BeforeKth ==
  ASSUME NEW S, IsFiniteSet(S), NEW order \in SetToSeqs(S), NEW k \in 1 .. Cardinality(S)
  PROVE  Cardinality(Ahead(order, k)) = k - 1
<1> DEFINE n == Cardinality(S)
           f == [m \in 1 .. k - 1 |-> order[m]]
<1>1. /\ n \in Nat /\ order \in [1 .. n -> S]
      /\ \A i, j \in 1 .. n : i # j => order[i] # order[j]
  BY OrderCovers
<1>2. 1 .. k - 1 \subseteq 1 .. n /\ k - 1 \in Nat
  BY <1>1
<1>3. f \in [1 .. k - 1 -> Ahead(order, k)]
  BY DEF Ahead
<1>4. \A a, b \in 1 .. k - 1 : f[a] = f[b] => a = b
  BY <1>1, <1>2
<1>5. \A t \in Ahead(order, k) : \E m \in 1 .. k - 1 : f[m] = t
  BY DEF Ahead
<1>6. f \in Bijection(1 .. k - 1, Ahead(order, k))
  BY <1>3, <1>4, <1>5, Fun_IsBij
<1>7. ExistsBijection(1 .. k - 1, Ahead(order, k))
  BY <1>6 DEF ExistsBijection
<1>8. IsFiniteSet(1 .. k - 1) /\ Cardinality(1 .. k - 1) = k - 1
  BY <1>2, FS_Interval
<1> QED
  BY <1>7, <1>8, FS_Bijection

\* NewestFirst orders any rows of the table.
LEMMA NewestFirstTotal ==
  ASSUME table \in [Id -> Row]
  PROVE  /\ \A i \in Id : ~NewestFirst(i, i)
         /\ \A i, j \in Id : i = j \/ NewestFirst(i, j) \/ NewestFirst(j, i)
         /\ \A i, j \in Id : NewestFirst(i, j) => ~NewestFirst(j, i)
         /\ \A i, j, k \in Id : NewestFirst(i, j) /\ NewestFirst(j, k) => NewestFirst(i, k)
<1>1. \A i \in Id : i \in Nat /\ table[i].stamp \in Nat
  BY ReadSideAssumption DEF Row
<1> QED
  BY <1>1 DEF NewestFirst

\* The rows of a filter are finitely many.
LEMMA FoundFinite == \A filter : Found(filter) \subseteq Id /\ IsFiniteSet(Found(filter))
  BY ReadSideAssumption, FS_Subset DEF Found

\* The ranks of rows are an order that puts the newest first.
LEMMA ListOrderExists ==
  ASSUME table \in [Id -> Row], NEW filter
  PROVE  \E order \in SetToSeqs(Found(filter)) :
           \A m, n \in DOMAIN order : m < n => NewestFirst(order[m], order[n])
<1> DEFINE F == Found(filter)
           n == Cardinality(F)
           front(i) == {j \in F : NewestFirst(j, i)}
           rank == [i \in F |-> Cardinality(front(i)) + 1]
<1>1. F \subseteq Id /\ IsFiniteSet(F)
  BY FoundFinite
<1>2. n \in Nat /\ IsFiniteSet(1 .. n) /\ Cardinality(1 .. n) = n
  BY <1>1, FS_CardinalityType, FS_Interval
<1> HIDE DEF F
<1>3. ASSUME NEW i \in F
      PROVE  /\ IsFiniteSet(front(i)) /\ Cardinality(front(i)) \in Nat
             /\ Cardinality(front(i)) < n
  <2>1. front(i) \in SUBSET F /\ i \notin front(i)
    BY <1>1, NewestFirstTotal
  <2>2. IsFiniteSet(front(i)) /\ Cardinality(front(i)) <= n
        /\ (n = Cardinality(front(i)) => F = front(i))
    BY <1>1, <2>1, FS_Subset
  <2>3. Cardinality(front(i)) \in Nat
    BY <2>2, FS_CardinalityType
  <2> QED
    BY <1>2, <1>3, <2>1, <2>2, <2>3
<1>4. ASSUME NEW i \in F, NEW j \in F, NewestFirst(i, j)
      PROVE  Cardinality(front(i)) < Cardinality(front(j))
  <2>1. i \in Id /\ j \in Id
    BY <1>1
  <2>2. front(i) \in SUBSET front(j)
    BY <1>1, <1>4, <2>1, NewestFirstTotal
  <2>3. i \in front(j) /\ i \notin front(i)
    BY <1>1, <1>4, <2>1, NewestFirstTotal
  <2>4. /\ Cardinality(front(i)) <= Cardinality(front(j))
        /\ (Cardinality(front(j)) = Cardinality(front(i)) => front(j) = front(i))
    BY <1>3, <2>2, FS_Subset
  <2> HIDE DEF front
  <2> QED
    BY <1>3, <2>3, <2>4
<1> HIDE DEF front
<1>5. rank \in [F -> 1 .. n]
  BY <1>2, <1>3
<1>6. \A i, j \in F : NewestFirst(i, j) => rank[i] < rank[j]
  BY <1>3, <1>4
<1> HIDE DEF rank
<1>7. \A i, j \in F : rank[i] = rank[j] => i = j
  <2> SUFFICES ASSUME NEW i \in F, NEW j \in F, i # j PROVE rank[i] # rank[j]
    OBVIOUS
  <2>1. NewestFirst(i, j) \/ NewestFirst(j, i)
    BY <1>1, NewestFirstTotal
  <2>2. rank[i] \in Nat /\ rank[j] \in Nat
    BY <1>5
  <2> QED
    BY <1>6, <2>1, <2>2
<1>8. rank \in Injection(F, 1 .. n)
  BY <1>5, <1>7, Fun_IsInj
<1>9. rank \in Surjection(F, 1 .. n)
  BY <1>1, <1>2, <1>8, FS_Injection
<1>10. \A k \in 1 .. n : \E i \in F : rank[i] = k
  BY <1>9, Fun_SurjectionProperties
<1> DEFINE order == [k \in 1 .. n |-> CHOOSE i \in F : rank[i] = k]
<1>11. order \in [1 .. n -> F] /\ \A k \in 1 .. n : rank[order[k]] = k
  BY <1>10
<1> HIDE DEF order
<1>12. \A i, j \in 1 .. n : i # j => order[i] # order[j]
  BY <1>11
<1>13. order \in SetToSeqs(F)
  BY <1>11, <1>12 DEF SetToSeqs
<1>14. ASSUME NEW k \in 1 .. n, NEW l \in 1 .. n, k < l
       PROVE  NewestFirst(order[k], order[l])
  <2>1. order[k] \in F /\ order[l] \in F /\ order[k] # order[l]
    BY <1>11, <1>12, <1>14
  <2>2. ~NewestFirst(order[l], order[k])
    BY <1>6, <1>11, <1>14, <2>1
  <2> QED
    BY <1>1, <2>1, <2>2, NewestFirstTotal
<1>15. DOMAIN order = 1 .. n
  BY <1>11
<1> QED
  BY <1>13, <1>14, <1>15 DEF F

\* The list is ordered by updated_at and id, newest first, and the rows in front of
\* the k-th are k - 1.
LEMMA ListOrdered ==
  ASSUME table \in [Id -> Row], NEW filter
  PROVE  LET F == Found(filter)
             order == ListOrder(filter)
         IN /\ IsFiniteSet(F) /\ Cardinality(F) \in Nat
            /\ order \in [1 .. Cardinality(F) -> F]
            /\ \A i \in F : \E k \in 1 .. Cardinality(F) :
                 order[k] = i /\ Cardinality({j \in F : NewestFirst(j, i)}) = k - 1
<1> DEFINE F == Found(filter)
           n == Cardinality(F)
           order == ListOrder(filter)
<1>1. F \subseteq Id /\ IsFiniteSet(F)
  BY FoundFinite
<1>2. /\ order \in SetToSeqs(F)
      /\ \A k, l \in DOMAIN order : k < l => NewestFirst(order[k], order[l])
  BY ListOrderExists DEF ListOrder
<1> HIDE DEF F, order
<1>3. /\ n \in Nat /\ order \in [1 .. n -> F] /\ DOMAIN order = 1 .. n
      /\ \A k, l \in 1 .. n : k # l => order[k] # order[l]
      /\ \A x \in F : \E k \in 1 .. n : order[k] = x
  BY <1>1, <1>2, OrderCovers
<1>4. ASSUME NEW i \in F
      PROVE  \E k \in 1 .. n : order[k] = i /\ Cardinality({j \in F : NewestFirst(j, i)}) = k - 1
  <2>1. PICK k \in 1 .. n : order[k] = i
    BY <1>3
  <2>2. ASSUME NEW j \in F
        PROVE  NewestFirst(j, i) <=> \E m \in 1 .. k - 1 : order[m] = j
    <3>1. PICK l \in 1 .. n : order[l] = j
      BY <1>3
    <3>2. l < k => NewestFirst(j, i)
      BY <1>2, <1>3, <2>1, <3>1
    <3>3. l > k => NewestFirst(i, j)
      BY <1>2, <1>3, <2>1, <3>1
    <3>4. NewestFirst(j, i) => l < k
      BY <1>1, <2>1, <3>1, <3>3, NewestFirstTotal
    <3>5. \A m \in 1 .. k - 1 : order[m] = j => m = l
      BY <1>3, <3>1
    <3> QED
      BY <3>1, <3>2, <3>4, <3>5
  <2>3. {j \in F : NewestFirst(j, i)} = Ahead(order, k)
    <3>1. \A m \in 1 .. k - 1 : order[m] \in F
      BY <1>3
    <3> QED
      BY <2>2, <3>1 DEF Ahead
  <2> QED
    BY <1>1, <1>2, <2>1, <2>3, BeforeKth
<1> QED
  BY <1>1, <1>3, <1>4 DEF F, order

\* The audit list is ordered by created_at: the entries in front of one that shares
\* its instant with no other are those stamped later.
LEMMA AuditsOrdered ==
  ASSUME ShapeInv, NEW order \in AuditOrders
  PROVE  LET n == Cardinality(auditLog)
         IN /\ n \in Nat /\ order \in [1 .. n -> auditLog]
            /\ \A a \in auditLog :
                 \/ \E b \in auditLog \ {a} : b.stamp = a.stamp
                 \/ \E k \in 1 .. n :
                      order[k] = a /\ Cardinality(EntriesAhead(a)) = k - 1
<1> DEFINE n == Cardinality(auditLog)
<1>1. IsFiniteSet(auditLog) /\ \A a \in auditLog : a.stamp \in Nat
  BY DEF ShapeInv, AuditLog
<1>2. /\ order \in SetToSeqs(auditLog)
      /\ \A k, l \in DOMAIN order : k < l => order[k].stamp >= order[l].stamp
  BY DEF AuditOrders
<1>3. /\ n \in Nat /\ order \in [1 .. n -> auditLog] /\ DOMAIN order = 1 .. n
      /\ \A k, l \in 1 .. n : k # l => order[k] # order[l]
      /\ \A x \in auditLog : \E k \in 1 .. n : order[k] = x
  BY <1>1, <1>2, OrderCovers
<1>4. ASSUME NEW a \in auditLog, ~ \E b \in auditLog \ {a} : b.stamp = a.stamp
      PROVE  \E k \in 1 .. n : order[k] = a /\ Cardinality(EntriesAhead(a)) = k - 1
  <2>1. PICK k \in 1 .. n : order[k] = a
    BY <1>3
  <2>2. ASSUME NEW b \in auditLog
        PROVE  b.stamp > a.stamp <=> \E m \in 1 .. k - 1 : order[m] = b
    <3>1. PICK l \in 1 .. n : order[l] = b
      BY <1>3
    <3>2. l < k => b.stamp >= a.stamp /\ b # a
      BY <1>2, <1>3, <2>1, <3>1
    <3>3. l < k => b.stamp > a.stamp
      BY <1>1, <1>4, <3>2
    <3>4. l >= k => a.stamp >= b.stamp
      BY <1>1, <1>2, <1>3, <2>1, <3>1
    <3>5. b.stamp > a.stamp => l < k
      BY <1>1, <3>4
    <3>6. \A m \in 1 .. k - 1 : order[m] = b => m = l
      BY <1>3, <3>1
    <3> QED
      BY <3>1, <3>3, <3>5, <3>6
  <2>3. EntriesAhead(a) = Ahead(order, k)
    <3>1. \A m \in 1 .. k - 1 : order[m] \in auditLog
      BY <1>3
    <3> QED
      BY <2>2, <3>1 DEF EntriesAhead, Ahead
  <2> QED
    BY <1>1, <1>2, <2>1, <2>3, BeforeKth
<1> QED
  BY <1>3, <1>4

-----------------------------------------------------------------------------
(* Counts                                                                  *)

\* The counts by a field that has one of some values, put together, are the count
\* of all.
FieldIn(S, field, values)  == \A a \in S : a[field] \in values
CountsIn(S, field, values) == [v \in values |-> Cardinality({a \in S : a[field] = v})]

LEMMA CountsAddUp ==
  ASSUME NEW S, IsFiniteSet(S), NEW values, NEW field, FieldIn(S, field, values)
  PROVE  /\ CountsIn(S, field, values) \in [values -> Nat]
         /\ Total(CountsIn(S, field, values)) = Cardinality(S)
<1> USE DEF FieldIn, CountsIn
<1> DEFINE group(v) == {a \in S : a[field] = v}
           counts == [v \in values |-> Cardinality(group(v))]
           pairs == UNION {{v} \X (1 .. counts[v]) : v \in DOMAIN counts}
           numbering(v) == CHOOSE f : f \in Bijection(1 .. Cardinality(group(v)), group(v))
           list == [p \in pairs |-> numbering(p[1])[p[2]]]
<1>1. ASSUME NEW v \in values
      PROVE  /\ Cardinality(group(v)) \in Nat
             /\ numbering(v) \in Bijection(1 .. Cardinality(group(v)), group(v))
  <2>1. IsFiniteSet(group(v))
    BY FS_Subset
  <2> HIDE DEF group
  <2>2. Bijection(1 .. Cardinality(group(v)), group(v)) # {}
    BY <2>1, FS_CardinalityType DEF ExistsBijection
  <2> QED
    BY <2>1, <2>2, FS_CardinalityType
<1>2. counts \in [values -> Nat]
  BY <1>1
<1>3. \A v \in values : counts[v] = Cardinality(group(v))
  OBVIOUS
<1>4. \A p : p \in pairs <=> \E v \in values : \E k \in 1 .. counts[v] : p = <<v, k>>
  <2>1. DOMAIN counts = values
    OBVIOUS
  <2> HIDE DEF counts
  <2> QED
    BY <2>1
<1> HIDE DEF numbering, counts, pairs
<1>5. ASSUME NEW v \in values
      PROVE  /\ \A k \in 1 .. counts[v] : numbering(v)[k] \in group(v)
             /\ \A k, l \in 1 .. counts[v] : numbering(v)[k] = numbering(v)[l] => k = l
             /\ \A a \in group(v) : \E k \in 1 .. counts[v] : numbering(v)[k] = a
  <2> HIDE DEF group
  <2> QED
    BY <1>1, <1>3, Fun_BijectionProperties
<1>6. list \in [pairs -> S]
  BY <1>4, <1>5
<1>7. \A v \in values : \A k \in 1 .. counts[v] : list[<<v, k>>] = numbering(v)[k]
  BY <1>4
<1> HIDE DEF list
<1>8. \A p, q \in pairs : list[p] = list[q] => p = q
  <2> SUFFICES ASSUME NEW p \in pairs, NEW q \in pairs, list[p] = list[q] PROVE p = q
    OBVIOUS
  <2>1. PICK v \in values : \E k \in 1 .. counts[v] : p = <<v, k>>
    BY <1>4
  <2>2. PICK k \in 1 .. counts[v] : p = <<v, k>>
    BY <2>1
  <2>3. PICK w \in values : \E l \in 1 .. counts[w] : q = <<w, l>>
    BY <1>4
  <2>4. PICK l \in 1 .. counts[w] : q = <<w, l>>
    BY <2>3
  <2>5. list[p] = numbering(v)[k] /\ list[q] = numbering(w)[l]
    BY <1>7, <2>2, <2>4
  <2>6. numbering(v)[k] \in group(v) /\ numbering(w)[l] \in group(w)
    BY <1>5, <2>2, <2>4
  <2>7. list[p][field] = v /\ list[q][field] = w
    BY <2>5, <2>6
  <2> QED
    BY <1>5, <2>2, <2>4, <2>5, <2>7
<1>9. \A a \in S : \E p \in pairs : list[p] = a
  <2> SUFFICES ASSUME NEW a \in S PROVE \E p \in pairs : list[p] = a
    OBVIOUS
  <2>1. a \in group(a[field]) /\ a[field] \in values
    OBVIOUS
  <2>2. PICK k \in 1 .. counts[a[field]] : numbering(a[field])[k] = a
    BY <1>5, <2>1
  <2> QED
    BY <1>4, <1>7, <2>1, <2>2
<1>10. list \in Bijection(pairs, S)
  BY <1>6, <1>8, <1>9, Fun_IsBij
<1>11. ExistsBijection(S, pairs)
  BY <1>10, Fun_BijInverse DEF ExistsBijection
<1>12. Cardinality(pairs) = Cardinality(S)
  BY <1>11, FS_Bijection
<1>13. Total(counts) = Cardinality(pairs)
  BY DEF Total, pairs
<1> QED
  BY <1>2, <1>12, <1>13 DEF counts

\* There are no more actors than entries.
LEMMA ActorsCounted ==
  ASSUME NEW S, IsFiniteSet(S)
  PROVE  /\ IsFiniteSet({a.actor : a \in S}) /\ Cardinality({a.actor : a \in S}) \in Nat
         /\ Cardinality({a.actor : a \in S}) <= Cardinality(S)
<1> DEFINE T == {a.actor : a \in S}
           f == [a \in S |-> a.actor]
<1>1. f \in [S -> T]
  OBVIOUS
<1>2. \A t \in T : \E a \in S : f[a] = t
  OBVIOUS
<1> HIDE DEF f, T
<1>3. f \in Surjection(S, T)
  BY <1>1, <1>2, Fun_IsSurj
<1> QED
  BY <1>3, FS_Surjection, FS_CardinalityType DEF T

-----------------------------------------------------------------------------
(* Shapes                                                                  *)

\* A step of a request.
Works(w) == Begin(w) \/ BuildStatement(w) \/ Write(w) \/ BuildAudit(w) \/ InsertAudit(w)

\* What a writer or the reader holds follows from where it is.
LEMMA Holdings ==
  ASSUME ShapeInv
  PROVE  /\ \A w \in Writer :
              /\ writer[w].at \in {"building", "writing"} => writer[w] \in Plan
              /\ writer[w].at = "auditing" => writer[w] \in Sent
              /\ writer[w].at = "inserting" => writer[w] \in Entry
         /\ reader.op = "list" => reader \in ListReader
         /\ reader.op = "audits" => reader \in AuditReader
         /\ reader.op = "summary" => reader \in SummaryReader
         /\ reader.at = "counting" => reader \in ListReader \cup AuditReader
<1>1. ASSUME NEW w \in Writer
      PROVE  /\ writer[w].at \in {"building", "writing"} => writer[w] \in Plan
             /\ writer[w].at = "auditing" => writer[w] \in Sent
             /\ writer[w].at = "inserting" => writer[w] \in Entry
  <2>1. writer[w] \in WriterState
    BY DEF ShapeInv
  <2> QED
    BY <2>1 DEF WriterState, Idle, Plan, Sent, Entry
<1>2. reader \in NoReader \cup ListReader \cup AuditReader \cup SummaryReader
  BY DEF ShapeInv
<1>3. /\ reader.op = "list" => reader \in ListReader
      /\ reader.op = "audits" => reader \in AuditReader
      /\ reader.op = "summary" => reader \in SummaryReader
      /\ reader.at = "counting" => reader \in ListReader \cup AuditReader
  BY <1>2 DEF NoReader, Unread, ListReader, AuditReader, SummaryReader
<1> QED
  BY <1>1, <1>3

\* A change of status leads to a status of the graph.
LEMMA TargetIsStatus ==
  ASSUME NEW from \in DecisionState, NEW to,
         CanTransition(ComplianceDecisionTransitions, from, to)
  PROVE  to \in DecisionState
BY DEF CanTransition, ComplianceDecisionTransitions, DecisionState

\* The plan a writer begins with.
LEMMA BeginPlans ==
  ASSUME ShapeInv, NEW w \in Writer, Begin(w)
  PROVE  \E op \in Action, u \in User, i \in Id, s \in DecisionState, e \in Nat :
           /\ Lead(w, Planned(op, u, i, s, e))
           /\ Planned(op, u, i, s, e) \in Plan
           /\ op = "create" => e = 0 /\ table[i].phase = "absent"
           /\ op \in {"update", "transition"} => e <= table[i].version + RunAhead
<1>1. clock \in Nat /\ table \in [Id -> Row] /\ RunAhead \in Nat
  BY ReadSideAssumption DEF ShapeInv
<1>2. "draft" \in DecisionState /\ 0 \in Nat
  BY DEF DecisionState
<1>3. PICK u \in User, i \in Id :
        \/ /\ table[i].phase = "absent"
           /\ Lead(w, Planned("create", u, i, "draft", 0))
        \/ Lead(w, Planned("delete", u, i, "draft", 0))
        \/ \E e \in 1 .. table[i].version + RunAhead :
             \/ Lead(w, Planned("update", u, i, "draft", e))
             \/ \E s \in DecisionState : Lead(w, Planned("transition", u, i, s, e))
  BY DEF Begin
<1>4. table[i] \in Row /\ table[i].version \in Nat /\ table[i].stamp \in Nat
  BY <1>1 DEF Row
<1>5. \A e \in 1 .. table[i].version + RunAhead :
        e \in Nat /\ e <= table[i].version + RunAhead
  BY <1>1, <1>4
<1>6. PICK op \in Action, s \in DecisionState, e \in Nat :
        /\ Lead(w, Planned(op, u, i, s, e))
        /\ op = "create" => e = 0 /\ table[i].phase = "absent"
        /\ op \in {"update", "transition"} => e <= table[i].version + RunAhead
  BY <1>2, <1>3, <1>5 DEF Action
<1>7. Planned(op, u, i, s, e) \in Plan
  BY <1>1, <1>4 DEF Planned, Plan, Row
<1> QED
  BY <1>6, <1>7

\* Writers keep their shape, and a row becomes what the plan stores.
LEMMA WriterShape ==
  ASSUME ShapeInv, NEW w \in Writer, Works(w)
  PROVE  ShapeInv'
<1>1. /\ clock \in Nat /\ clock \in 0 .. MaxTime /\ table \in [Id -> Row]
      /\ writer \in [Writer -> WriterState]
      /\ answered \in [Writer -> SUBSET Writer]
      /\ auditLog \subseteq AuditLog /\ IsFiniteSet(auditLog)
      /\ reader \in NoReader \cup ListReader \cup AuditReader \cup SummaryReader
      /\ walk \in [table : [Id -> Row], log : SUBSET AuditLog,
                   left : BOOLEAN, fell : BOOLEAN, quiet : BOOLEAN, counted : BOOLEAN]
  BY ReadSideAssumption DEF ShapeInv
<1>2. ASSUME NEW next \in WriterState, Lead(w, next) PROVE writer' \in [Writer -> WriterState]
  BY <1>1, <1>2 DEF Lead
<1>3. CASE Begin(w)
  <2>1. \A plan \in Plan : plan \in WriterState
    BY DEF WriterState
  <2>2. writer' \in [Writer -> WriterState]
    BY <1>2, <1>3, <2>1, BeginPlans
  <2>3. answered' \in [Writer -> SUBSET Writer]
    BY <1>1, <1>3 DEF Begin, Done
  <2>4. UNCHANGED <<clock, table, auditLog, reader, walk>>
    BY <1>3 DEF Begin
  <2> QED
    BY <1>1, <2>2, <2>3, <2>4 DEF ShapeInv
<1>4. CASE BuildStatement(w)
  <2>1. /\ writer[w] \in Plan /\ UNCHANGED <<clock, table, auditLog, answered, reader, walk>>
        /\ Lead(w, [writer[w] EXCEPT !.at = "writing", !.row.stamp = clock])
    BY <1>4, Holdings DEF BuildStatement
  <2>2. [writer[w] EXCEPT !.at = "writing", !.row.stamp = clock] \in WriterState
    BY <1>1, <2>1 DEF WriterState, Plan, Row
  <2>3. writer' \in [Writer -> WriterState]
    BY <1>2, <2>1, <2>2
  <2> QED
    BY <1>1, <2>1, <2>3 DEF ShapeInv
<1>5. CASE Write(w)
  <2> DEFINE plan == writer[w]
  <2>1. plan \in Plan /\ UNCHANGED <<clock, auditLog, answered, reader>>
    BY <1>5, Holdings DEF Write
  <2>2. plan.id \in Id /\ plan.row \in Row /\ table[plan.id] \in Row
    BY <1>1, <2>1 DEF Plan
  <2>3. Stored(plan) \in Row
    BY <2>2 DEF Stored, Row
  <2>4. CASE Holds(plan)
    <3>1. /\ table' = [table EXCEPT ![plan.id] = Stored(plan)]
          /\ Lead(w, [at |-> "auditing", op |-> plan.op, user |-> plan.user, id |-> plan.id])
          /\ walk' = [walk EXCEPT !.left = @ \/ Leaves(plan.id, Stored(plan)),
                                  !.fell = @ \/ Falls(plan.id, Stored(plan)),
                                  !.quiet = FALSE]
      BY <1>5, <2>4 DEF Write
    <3>2. [at |-> "auditing", op |-> plan.op, user |-> plan.user, id |-> plan.id] \in WriterState
      BY <2>1 DEF WriterState, Plan, Sent
    <3>3. writer' \in [Writer -> WriterState]
      BY <1>2, <3>1, <3>2
    <3>4. table' \in [Id -> Row]
      BY <1>1, <2>3, <3>1
    <3>5. walk' \in [table : [Id -> Row], log : SUBSET AuditLog,
                     left : BOOLEAN, fell : BOOLEAN, quiet : BOOLEAN, counted : BOOLEAN]
      <4>1. /\ (walk.left \/ Leaves(plan.id, Stored(plan))) \in BOOLEAN
            /\ (walk.fell \/ Falls(plan.id, Stored(plan))) \in BOOLEAN
        OBVIOUS
      <4> HIDE DEF plan
      <4> QED
        BY <1>1, <3>1, <4>1
    <3> QED
      BY <1>1, <2>1, <3>3, <3>4, <3>5 DEF ShapeInv
  <2>5. CASE ~Holds(plan)
    <3>1. Lead(w, [at |-> "done"]) /\ UNCHANGED <<table, walk>>
      BY <1>5, <2>5 DEF Write
    <3>2. writer' \in [Writer -> WriterState]
      BY <1>2, <3>1 DEF WriterState
    <3> QED
      BY <1>1, <2>1, <3>1, <3>2 DEF ShapeInv
  <2> QED
    BY <2>4, <2>5
<1>6. CASE BuildAudit(w)
  <2> DEFINE entry == [request |-> w, actor |-> writer[w].user, action |-> writer[w].op,
                       entityType |-> "ComplianceDecision", entity |-> writer[w].id,
                       stamp |-> clock]
  <2>1. writer[w] \in Sent /\ UNCHANGED <<clock, table, auditLog, answered, reader, walk>>
    BY <1>6, Holdings DEF BuildAudit
  <2>2. entry \in AuditLog
    BY <1>1, <2>1 DEF Sent, AuditLog, EntityType
  <2>3. [at |-> "inserting", entry |-> entry] \in WriterState
    BY <2>2 DEF WriterState, Entry
  <2>4. writer' \in [Writer -> WriterState]
    BY <1>2, <1>6, <2>3 DEF BuildAudit
  <2> QED
    BY <1>1, <2>1, <2>4 DEF ShapeInv
<1>7. CASE InsertAudit(w)
  <2>1. /\ writer[w] \in Entry /\ UNCHANGED <<clock, table, answered, reader, walk>>
        /\ auditLog' = auditLog \/ auditLog' = auditLog \cup {writer[w].entry}
    BY <1>7, Holdings DEF InsertAudit
  <2>2. writer[w].entry \in AuditLog
    BY <2>1 DEF Entry
  <2>3. auditLog' \subseteq AuditLog /\ IsFiniteSet(auditLog')
    <3>1. IsFiniteSet(auditLog \cup {writer[w].entry})
      BY <1>1, FS_AddElement
    <3> QED
      BY <1>1, <2>1, <2>2, <3>1
  <2>4. writer' \in [Writer -> WriterState]
    BY <1>2, <1>7 DEF InsertAudit, WriterState
  <2> QED
    BY <1>1, <2>1, <2>3, <2>4 DEF ShapeInv
<1> QED
  BY <1>3, <1>4, <1>5, <1>6, <1>7 DEF Works

\* The reader keeps its shape.
LEMMA ListShape ==
  ASSUME ShapeInv, ListPage \/ ListRevisions
  PROVE  reader' \in ListReader
<1>1. reader \in ListReader
  BY Holdings DEF ListPage, ListRevisions
<1>2. /\ reader.page \in Nat \ {0} /\ reader.seen \in SUBSET Id /\ reader.items \in Seq(ListItem)
      /\ reader.filter \in Filter /\ reader.total \in Nat
  BY <1>1 DEF ListReader
<1>3. table \in [Id -> Row]
  BY DEF ShapeInv
<1>4. CASE ListPage
  <2> DEFINE F == Found(reader.filter)
             order == ListOrder(reader.filter)
             ids == PageOf(order, reader.page)
             items == [n \in DOMAIN ids |->
                         [id |-> ids[n], row |-> table[ids[n]], revisions |-> {}]]
             next == IF ids = <<>> THEN "answered" ELSE "revising"
  <2>1. F \subseteq Id /\ Cardinality(F) \in Nat /\ order \in [1 .. Cardinality(F) -> F]
    BY <1>3, ListOrdered, FoundFinite
  <2>2. reader' = [reader EXCEPT !.at = next, !.items = items, !.seen = @ \cup ToSet(ids)]
    BY <1>4 DEF ListPage, Read
  <2> HIDE DEF F, order
  <2>3. ids \in Seq(F)
    BY <1>2, <2>1, PageOfOrder
  <2> HIDE DEF ids
  <2>4. DOMAIN ids = 1 .. Len(ids) /\ Len(ids) \in Nat /\ \A n \in DOMAIN ids : ids[n] \in Id
    BY <2>1, <2>3
  <2>5. items \in [1 .. Len(ids) -> ListItem]
    BY <1>3, <2>4 DEF ListItem
  <2>6. items \in Seq(ListItem)
    BY <2>4, <2>5
  <2>7. (reader.seen \cup ToSet(ids)) \in SUBSET Id
    BY <1>2, <2>4 DEF ToSet
  <2> HIDE DEF items
  <2> QED
    BY <1>1, <2>2, <2>6, <2>7 DEF ListReader
<1>5. CASE ListRevisions
  <2> DEFINE items == [n \in DOMAIN reader.items |->
                         [reader.items[n] EXCEPT !.revisions = RevisionsOf(reader.items[n].id)]]
  <2>1. reader' = [reader EXCEPT !.at = "answered", !.items = items]
    BY <1>5 DEF ListRevisions, Read
  <2>2. DOMAIN reader.items = 1 .. Len(reader.items) /\ Len(reader.items) \in Nat
        /\ \A n \in DOMAIN reader.items : reader.items[n] \in ListItem
    BY <1>2
  <2>3. \A i \in Id : RevisionsOf(i) \in SUBSET Nat
    BY DEF RevisionsOf
  <2>4. ASSUME NEW n \in DOMAIN reader.items
        PROVE  [reader.items[n] EXCEPT !.revisions = RevisionsOf(reader.items[n].id)] \in ListItem
    BY <2>2, <2>3 DEF ListItem
  <2>5. items \in [1 .. Len(reader.items) -> ListItem]
    BY <2>2, <2>4
  <2>6. items \in Seq(ListItem)
    BY <2>2, <2>5
  <2> HIDE DEF items
  <2> QED
    BY <1>1, <2>1, <2>6 DEF ListReader
<1> QED
  BY <1>4, <1>5

LEMMA AuditShape ==
  ASSUME ShapeInv, AuditPage
  PROVE  reader' \in AuditReader
<1>1. reader \in AuditReader
  BY Holdings DEF AuditPage
<1>2. reader.page \in Nat \ {0} /\ reader.seen \in SUBSET AuditLog /\ auditLog \subseteq AuditLog
  BY <1>1 DEF AuditReader, ShapeInv
<1>3. PICK order \in AuditOrders :
        reader' = [reader EXCEPT !.at = "answered", !.items = PageOf(order, reader.page),
                                 !.seen = @ \cup ToSet(PageOf(order, reader.page))]
  BY DEF AuditPage, Read
<1> DEFINE entries == PageOf(order, reader.page)
           n == Cardinality(auditLog)
<1>4. n \in Nat /\ order \in [1 .. n -> auditLog]
  BY AuditsOrdered
<1> HIDE DEF n
<1>5. entries \in Seq(auditLog)
  BY <1>2, <1>4, PageOfOrder
<1> HIDE DEF entries
<1>6. entries \in Seq(AuditLog) /\ ToSet(entries) \in SUBSET AuditLog
  BY <1>2, <1>5 DEF ToSet
<1>7. reader' = [reader EXCEPT !.at = "answered", !.items = entries, !.seen = @ \cup ToSet(entries)]
  BY <1>3 DEF entries
<1> QED
  BY <1>1, <1>2, <1>6, <1>7 DEF AuditReader

\* The entries a summary counts are finitely many, each of a known action and row.
LEMMA CountedFinite ==
  ASSUME ShapeInv
  PROVE  /\ Counted \subseteq auditLog /\ IsFiniteSet(Counted) /\ Cardinality(Counted) \in Nat
         /\ \A a \in Counted : /\ a["action"] \in Action /\ a["entityType"] \in EntityType
                              /\ a["actor"] \in User
         /\ CountsBy(Action, "action") \in [Action -> Nat]
         /\ CountsBy(EntityType, "entityType") \in [EntityType -> Nat]
         /\ Total(CountsBy(Action, "action")) = Cardinality(Counted)
         /\ Total(CountsBy(EntityType, "entityType")) = Cardinality(Counted)
<1>1. Counted \subseteq auditLog /\ IsFiniteSet(Counted) /\ Cardinality(Counted) \in Nat
  BY FS_Subset, FS_CardinalityType DEF ShapeInv, Counted
<1>2. \A a \in Counted : /\ a["action"] \in Action /\ a["entityType"] \in EntityType
                         /\ a["actor"] \in User
  BY <1>1 DEF ShapeInv, AuditLog
<1> HIDE DEF Counted
<1>3. /\ CountsBy(Action, "action") \in [Action -> Nat]
      /\ Total(CountsBy(Action, "action")) = Cardinality(Counted)
  <2>1. FieldIn(Counted, "action", Action)
    BY <1>2 DEF FieldIn
  <2>2. CountsBy(Action, "action") = CountsIn(Counted, "action", Action)
    BY DEF CountsBy, CountsIn
  <2> QED
    BY <1>1, <2>1, <2>2, CountsAddUp
<1>4. /\ CountsBy(EntityType, "entityType") \in [EntityType -> Nat]
      /\ Total(CountsBy(EntityType, "entityType")) = Cardinality(Counted)
  <2>1. FieldIn(Counted, "entityType", EntityType)
    BY <1>2 DEF FieldIn
  <2>2. CountsBy(EntityType, "entityType") = CountsIn(Counted, "entityType", EntityType)
    BY DEF CountsBy, CountsIn
  <2> QED
    BY <1>1, <2>1, <2>2, CountsAddUp
<1> QED
  BY <1>1, <1>2, <1>3, <1>4

LEMMA SummaryShape ==
  ASSUME ShapeInv, SummarizeAudits
  PROVE  reader' \in SummaryReader
<1>1. reader \in SummaryReader
  BY Holdings DEF SummarizeAudits, Summarise
<1>2. /\ Cardinality(Counted) \in Nat
      /\ Cardinality({a \in Counted : a.action = "transition"}) \in Nat
      /\ Cardinality({a.actor : a \in Counted}) \in Nat
      /\ CountsBy(Action, "action") \in [Action -> Nat]
      /\ CountsBy(EntityType, "entityType") \in [EntityType -> Nat]
  <2>1. IsFiniteSet(Counted)
    BY CountedFinite
  <2>2. IsFiniteSet({a \in Counted : a.action = "transition"})
    BY <2>1, FS_Subset
  <2>3. IsFiniteSet({a.actor : a \in Counted})
    BY <2>1, ActorsCounted
  <2> QED
    BY <2>2, <2>3, CountedFinite, FS_CardinalityType
<1>3. CASE Summarise("total", "transitions", "total", Cardinality(Counted))
  BY <1>1, <1>2, <1>3 DEF Summarise, Read, SummaryReader
<1>4. CASE Summarise("transitions", "actors", "transitions",
                     Cardinality({a \in Counted : a.action = "transition"}))
  BY <1>1, <1>2, <1>4 DEF Summarise, Read, SummaryReader
<1>5. CASE Summarise("actors", "actions", "actors", Cardinality({a.actor : a \in Counted}))
  BY <1>1, <1>2, <1>5 DEF Summarise, Read, SummaryReader
<1>6. CASE Summarise("actions", "entities", "actions", CountsBy(Action, "action"))
  BY <1>1, <1>2, <1>6 DEF Summarise, Read, SummaryReader
<1>7. CASE Summarise("entities", "finished", "entities", CountsBy(EntityType, "entityType"))
  BY <1>1, <1>2, <1>7 DEF Summarise, Read, SummaryReader
<1> QED
  BY <1>3, <1>4, <1>5, <1>6, <1>7 DEF SummarizeAudits

\* Asking, counting, going on to the next page and failing keep the shape.
LEMMA AskShape ==
  ASSUME ShapeInv, Ask
  PROVE  ShapeInv'
<1>1. clock \in Int /\ Window \in Nat /\ table \in [Id -> Row] /\ auditLog \in SUBSET AuditLog
  BY ReadSideAssumption DEF ShapeInv
<1>2. UNCHANGED <<clock, table, auditLog, writer, answered>>
  BY DEF Ask, Read
<1>6. reader' \in ListReader \cup AuditReader \cup SummaryReader
  <2>1. ASSUME NEW f \in Filter
        PROVE  [op |-> "list", at |-> "counting", filter |-> f, page |-> 1, total |-> 0,
                items |-> <<>>, seen |-> {}] \in ListReader
    BY DEF ListReader
  <2>2. [op |-> "audits", at |-> "counting", page |-> 1, total |-> 0,
         items |-> <<>>, seen |-> {}] \in AuditReader
    BY DEF AuditReader
  <2>3. [op |-> "summary", at |-> "total", since |-> clock - Window, total |-> 0,
         transitions |-> 0, actors |-> 0, actions |-> <<>>, entities |-> <<>>] \in SummaryReader
    BY <1>1 DEF SummaryReader
  <2> QED
    BY <2>1, <2>2, <2>3 DEF Ask, Read
<1>7. walk' \in [table : [Id -> Row], log : SUBSET AuditLog,
                 left : BOOLEAN, fell : BOOLEAN, quiet : BOOLEAN, counted : BOOLEAN]
  BY <1>1 DEF Ask, ShapeInv
<1> QED
  BY <1>2, <1>6, <1>7 DEF ShapeInv

LEMMA CountShape ==
  ASSUME ShapeInv, CountRows
  PROVE  reader' \in ListReader \cup AuditReader
<1>1. reader \in ListReader \cup AuditReader
  BY Holdings DEF CountRows
<1>2. CountFound \in Nat
  BY FoundFinite, FS_CardinalityType DEF CountFound, ShapeInv
<1> QED
  BY <1>1, <1>2 DEF CountRows, Read, ListReader, AuditReader

LEMMA NextShape ==
  ASSUME ShapeInv, NextPage
  PROVE  reader' \in ListReader \cup AuditReader
<1> DEFINE used == [reader EXCEPT !.total = 0, !.items = <<>>]
<1>1. CASE reader \in ListReader
  <2>1. used \in ListReader /\ reader.page + 1 \in Nat \ {0}
    <3>1. reader.page \in Nat \ {0} /\ <<>> \in Seq(ListItem)
      BY <1>1 DEF ListReader
    <3>2. used \in ListReader
      BY <1>1, <3>1 DEF ListReader
    <3> HIDE DEF used
    <3> QED
      BY <3>1, <3>2
  <2>2. [used EXCEPT !.at = "counting", !.page = reader.page + 1] \in ListReader
        /\ [used EXCEPT !.at = "finished"] \in ListReader
    <3> HIDE DEF used
    <3> QED
      BY <2>1 DEF ListReader
  <2> QED
    BY <2>2 DEF NextPage, Read
<1>2. CASE reader \in AuditReader
  <2>1. used \in AuditReader /\ reader.page + 1 \in Nat \ {0}
    <3>1. reader.page \in Nat \ {0} /\ <<>> \in Seq(AuditLog)
      BY <1>2 DEF AuditReader
    <3>2. used \in AuditReader
      BY <1>2, <3>1 DEF AuditReader
    <3> HIDE DEF used
    <3> QED
      BY <3>1, <3>2
  <2>2. [used EXCEPT !.at = "counting", !.page = reader.page + 1] \in AuditReader
        /\ [used EXCEPT !.at = "finished"] \in AuditReader
    <3> HIDE DEF used
    <3> QED
      BY <2>1 DEF AuditReader
  <2> QED
    BY <2>2 DEF NextPage, Read
<1> QED
  BY <1>1, <1>2, Holdings DEF NextPage

\* Tables, writers, reader and walk keep their shapes.
LEMMA ShapeStep ==
  ASSUME ShapeInv, [Next]_vars
  PROVE  ShapeInv'
<1> DEFINE Walk == [table : [Id -> Row], log : SUBSET AuditLog,
                    left : BOOLEAN, fell : BOOLEAN, quiet : BOOLEAN, counted : BOOLEAN]
<1>1. /\ clock \in 0 .. MaxTime /\ table \in [Id -> Row]
      /\ auditLog \subseteq AuditLog /\ IsFiniteSet(auditLog)
      /\ writer \in [Writer -> WriterState]
      /\ answered \in [Writer -> SUBSET Writer]
      /\ reader \in NoReader \cup ListReader \cup AuditReader \cup SummaryReader
      /\ walk \in Walk
  BY DEF ShapeInv
<1>2. ASSUME NEW next, Read(next),
             next \in NoReader \cup ListReader \cup AuditReader \cup SummaryReader,
             walk' \in Walk
      PROVE  ShapeInv'
  BY <1>1, <1>2 DEF Read, ShapeInv
<1>3. CASE Tick
  <2>1. clock' \in 0 .. MaxTime
    BY <1>1, <1>3, ReadSideAssumption DEF Tick
  <2> QED
    BY <1>1, <1>3, <2>1 DEF Tick, ShapeInv
<1>4. ASSUME NEW w \in Writer, Works(w)
      PROVE  ShapeInv'
  BY <1>4, WriterShape
<1>5. CASE Ask
  BY <1>5, AskShape
<1>6. CASE CountRows
  <2>1. walk' \in Walk
    BY <1>1, <1>6 DEF CountRows
  <2> QED
    BY <1>1, <1>6, <2>1, CountShape DEF CountRows, Read, ShapeInv
<1>7. CASE ListPage
  <2>1. walk' \in Walk
    BY <1>1, <1>7 DEF ListPage
  <2> QED
    BY <1>1, <1>7, <2>1, ListShape DEF ListPage, Read, ShapeInv
<1>8. CASE ListRevisions
  BY <1>1, <1>8, ListShape DEF ListRevisions, Read, ShapeInv
<1>9. CASE AuditPage
  <2>1. walk' \in Walk
    BY <1>1, <1>9 DEF AuditPage
  <2> QED
    BY <1>1, <1>9, <2>1, AuditShape DEF AuditPage, Read, ShapeInv
<1>10. CASE NextPage
  <2>1. walk' \in Walk
    BY <1>1, <1>10 DEF NextPage
  <2> QED
    BY <1>1, <1>10, <2>1, NextShape DEF NextPage, Read, ShapeInv
<1>11. CASE SummarizeAudits
  BY <1>1, <1>11, SummaryShape DEF SummarizeAudits, Summarise, Read, ShapeInv
<1>12. CASE QueryFails
  BY <1>1, <1>12 DEF QueryFails, Read, ShapeInv, NoReader
<1>13. CASE UNCHANGED vars
  <2>1. /\ clock' = clock /\ table' = table /\ auditLog' = auditLog /\ writer' = writer
        /\ answered' = answered /\ reader' = reader /\ walk' = walk
    BY <1>13 DEF vars
  <2> QED
    BY <1>1, <2>1 DEF ShapeInv
<1> QED
  BY <1>3, <1>4, <1>5, <1>6, <1>7, <1>8, <1>9, <1>10, <1>11, <1>12, <1>13 DEF Next, Works

\* The tables there are at the start have their shapes.
LEMMA InitShape == Init => ShapeInv
<1> SUFFICES ASSUME Init PROVE ShapeInv
  OBVIOUS
<1>1. clock \in 0 .. MaxTime
  BY ReadSideAssumption DEF Init
<1>2. table \in [Id -> Row]
  <2>1. "draft" \in DecisionState
    BY DEF DecisionState
  <2> QED
    BY <2>1 DEF Init, Row
<1>3. auditLog \subseteq AuditLog /\ IsFiniteSet(auditLog)
  BY FS_EmptySet DEF Init
<1>4. /\ writer \in [Writer -> WriterState]
      /\ answered \in [Writer -> SUBSET Writer]
      /\ reader \in NoReader
  BY DEF Init, NoReader, WriterState
<1>5. walk \in [table : [Id -> Row], log : SUBSET AuditLog,
                left : BOOLEAN, fell : BOOLEAN, quiet : BOOLEAN, counted : BOOLEAN]
  BY <1>2 DEF Init
<1> QED
  BY <1>1, <1>2, <1>3, <1>4, <1>5 DEF ShapeInv

-----------------------------------------------------------------------------
(* Rows                                                                    *)

\* A row stays, is deleted as it is, or gets a higher version.
Grown(old, next) ==
  \/ next = old
  \/ /\ old.phase = "live" /\ next = [old EXCEPT !.phase = "deleted"]
  \/ /\ old.phase # "deleted" /\ next.phase = "live" /\ next.version > old.version

\* What an accepted plan stores.
LEMMA StoredGrows ==
  ASSUME RowsInv, NEW w \in Writer, writer[w].at = "writing", Holds(writer[w])
  PROVE  LET plan == writer[w]
         IN /\ plan \in Plan /\ plan.id \in Id /\ Stored(plan) \in Row
            /\ Grown(table[plan.id], Stored(plan))
            /\ Stored(plan).phase # "absent" /\ Stored(plan).stamp <= clock
<1> DEFINE plan == writer[w]
           old == table[plan.id]
<1>1. plan \in Plan /\ table \in [Id -> Row] /\ clock \in Nat
  BY Holdings, ReadSideAssumption DEF RowsInv, ShapeInv
<1>2. plan.id \in Id /\ plan.row \in Row /\ plan.op \in Action /\ old \in Row
  BY <1>1 DEF Plan
<1>3. old.stamp <= clock /\ (old.phase = "absent" => old.version = 0 /\ old.stamp = 0)
  BY <1>2 DEF RowsInv, RowsStamped
<1>4. CASE plan.op = "delete"
  <2>1. old.phase = "live" /\ Stored(plan) = [old EXCEPT !.phase = "deleted"]
    BY <1>4 DEF Holds, Stored
  <2> HIDE DEF old, plan
  <2> QED
    BY <1>1, <1>2, <1>3, <2>1 DEF Grown, Row, plan, old
<1>5. CASE plan.op = "create"
  <2>1. old.phase = "absent" /\ Stored(plan) = plan.row
    BY <1>5 DEF Holds, Stored
  <2>2. plan.row.phase = "live" /\ plan.row.stamp <= clock /\ plan.row.version = 1
    BY <1>5 DEF RowsInv, PlansSound, Planning
  <2> QED
    BY <1>1, <1>2, <1>3, <2>1, <2>2 DEF Grown, Row
<1>6. CASE plan.op \in {"update", "transition"}
  <2>1. old.phase = "live" /\ old.version + 1 = plan.row.version /\ Stored(plan) = plan.row
    BY <1>6 DEF Holds, Stored
  <2>2. plan.row.phase = "live" /\ plan.row.stamp <= clock
    BY <1>6 DEF RowsInv, PlansSound, Planning
  <2> QED
    BY <1>1, <1>2, <1>3, <2>1, <2>2 DEF Grown, Row
<1> QED
  BY <1>2, <1>4, <1>5, <1>6 DEF Action

\* Rows change in the writes that are accepted.
LEMMA RowsChange ==
  ASSUME RowsInv, [Next]_vars, NEW i \in Id, table'[i] # table[i]
  PROVE  \E w \in Writer :
           /\ Write(w) /\ Holds(writer[w]) /\ writer[w].at = "writing"
           /\ writer[w].id = i /\ table'[i] = Stored(writer[w])
<1>1. PICK w \in Writer : Write(w) /\ Holds(writer[w])
  BY DEF Next, vars, Tick, Begin, BuildStatement, Write, BuildAudit, InsertAudit, Ask, CountRows,
         ListPage, ListRevisions, AuditPage, NextPage, SummarizeAudits, Summarise, QueryFails, Read
<1> DEFINE plan == writer[w]
<1>2. plan.at = "writing" /\ table' = [table EXCEPT ![plan.id] = Stored(plan)]
  BY <1>1 DEF Write
<1>3. plan.id \in Id /\ table \in [Id -> Row]
  BY <1>1, <1>2, StoredGrows DEF RowsInv, ShapeInv
<1>4. table'[i] = IF i = plan.id THEN Stored(plan) ELSE table[i]
  BY <1>2, <1>3
<1> QED
  BY <1>1, <1>2, <1>4

LEMMA RowsGrow ==
  ASSUME RowsInv, [Next]_vars, NEW i \in Id
  PROVE  /\ Grown(table[i], table'[i])
         /\ table'[i] # table[i] => table'[i].phase # "absent" /\ table'[i].stamp <= clock
<1>1. CASE table'[i] = table[i]
  BY <1>1 DEF Grown
<1>2. CASE table'[i] # table[i]
  BY <1>2, RowsChange, StoredGrows
<1> QED
  BY <1>1, <1>2

\* The clock does not go back.
LEMMA ClockGrows ==
  ASSUME ShapeInv, [Next]_vars
  PROVE  clock \in Nat /\ clock' \in Nat /\ clock <= clock'
<1>1. clock \in Nat
  BY ReadSideAssumption DEF ShapeInv
<1>2. clock' = clock \/ clock' = clock + 1
  BY DEF Next, vars, Tick, Works, Begin, BuildStatement, Write, BuildAudit, InsertAudit, Ask,
         CountRows, ListPage,
         ListRevisions, AuditPage, NextPage, SummarizeAudits, Summarise, QueryFails, Read
<1> QED
  BY <1>1, <1>2

\* A plan is made by Begin and stamped by BuildStatement.
LEMMA WritersMove ==
  ASSUME ShapeInv, [Next]_vars, NEW w \in Writer, writer'[w].at \in {"building", "writing"}
  PROVE  writer'[w] = writer[w] \/ Begin(w) \/ BuildStatement(w)
<1>1. writer \in [Writer -> WriterState]
  BY DEF ShapeInv
<1>2. CASE writer' = writer
  BY <1>2
<1>3. ASSUME NEW v \in Writer, Works(v)
      PROVE  writer'[w] = writer[w] \/ Begin(w) \/ BuildStatement(w)
  <2>1. \A next : Lead(v, next) => /\ writer'[v] = next
                                   /\ v # w => writer'[w] = writer[w]
    BY <1>1 DEF Lead
  <2>2. CASE Begin(v)
    BY <2>1, <2>2 DEF Begin
  <2>3. CASE BuildStatement(v)
    BY <2>1, <2>3 DEF BuildStatement
  <2>4. CASE Write(v)
    BY <2>1, <2>4 DEF Write
  <2>5. CASE BuildAudit(v)
    BY <2>1, <2>5 DEF BuildAudit
  <2>6. CASE InsertAudit(v)
    BY <2>1, <2>6 DEF InsertAudit
  <2> QED
    BY <1>3, <2>2, <2>3, <2>4, <2>5, <2>6 DEF Works
<1>4. writer' = writer \/ \E v \in Writer : Works(v)
  BY DEF Next, Works, vars, Tick, Ask, CountRows, ListPage, ListRevisions, AuditPage, NextPage,
         SummarizeAudits, Summarise, QueryFails, Read
<1> QED
  BY <1>2, <1>3, <1>4

\* What a plan says when it is made.
LEMMA BeginFresh ==
  ASSUME ShapeInv, NEW w \in Writer, Begin(w)
  PROVE  LET plan == writer'[w]
         IN plan.op # "delete" =>
              /\ plan.at = "building" /\ plan.id \in Id /\ plan.row.phase = "live"
              /\ plan.op = "create" => plan.row.version = 1
              /\ plan.op # "create" =>
                   plan.row.version <= (table[plan.id].version + RunAhead) + 1
<1>1. writer \in [Writer -> WriterState] /\ table \in [Id -> Row] /\ RunAhead \in Nat
  BY ReadSideAssumption DEF ShapeInv
<1>2. PICK op \in Action, u \in User, i \in Id, s \in DecisionState, e \in Nat :
        /\ Lead(w, Planned(op, u, i, s, e))
        /\ op = "create" => e = 0
        /\ op \in {"update", "transition"} => e <= table[i].version + RunAhead
  BY BeginPlans
<1>3. writer'[w] = Planned(op, u, i, s, e)
  BY <1>1, <1>2 DEF Lead
<1>4. table[i].version \in Nat
  BY <1>1 DEF Row
<1> QED
  BY <1>1, <1>2, <1>3, <1>4 DEF Planned, Action

\* What building the statement adds: the stamp.
LEMMA BuildStamps ==
  ASSUME ShapeInv, NEW w \in Writer, BuildStatement(w)
  PROVE  LET was  == writer[w]
             plan == writer'[w]
         IN /\ was \in Plan /\ was.at = "building" /\ plan.at = "writing"
            /\ plan.op = was.op /\ plan.id = was.id /\ plan.row.stamp = clock
            /\ plan.row.phase = was.row.phase /\ plan.row.version = was.row.version
<1>1. writer[w] \in Plan /\ writer \in [Writer -> WriterState]
  BY Holdings DEF BuildStatement, ShapeInv
<1>2. /\ writer[w].at = "building"
      /\ writer'[w] = [writer[w] EXCEPT !.at = "writing", !.row.stamp = clock]
  BY <1>1 DEF BuildStatement, Lead
<1> QED
  BY <1>1, <1>2 DEF Plan, Row

\* Rows are stamped with a time that has been.
LEMMA StampedStep ==
  ASSUME RowsInv, [Next]_vars
  PROVE  RowsStamped'
<1> SUFFICES ASSUME NEW i \in Id
             PROVE  /\ table'[i].stamp <= clock'
                    /\ table'[i].phase = "absent" => table'[i].version = 0 /\ table'[i].stamp = 0
  BY DEF RowsStamped
<1>1. /\ clock \in Nat /\ clock' \in Nat /\ clock <= clock'
      /\ table[i] \in Row /\ table'[i] \in Row
  BY ClockGrows, ShapeStep DEF RowsInv, ShapeInv
<1>2. table'[i].stamp \in Nat
  BY <1>1 DEF Row
<1>3. CASE table'[i] = table[i]
  BY <1>1, <1>2, <1>3 DEF RowsInv, RowsStamped
<1>4. CASE table'[i] # table[i]
  <2>1. table'[i].phase # "absent" /\ table'[i].stamp <= clock
    BY <1>4, RowsGrow
  <2> QED
    BY <1>1, <1>2, <2>1
<1> QED
  BY <1>3, <1>4

\* Plans stay what they were made to be.
LEMMA PlansStep ==
  ASSUME RowsInv, [Next]_vars
  PROVE  PlansSound'
<1> SUFFICES ASSUME NEW w \in Writer, Planning(w)'
             PROVE  /\ writer'[w].row.phase = "live"
                    /\ writer'[w].op = "create" => writer'[w].row.version = 1
                    /\ writer'[w].at = "writing" => writer'[w].row.stamp <= clock'
  BY DEF PlansSound
<1>1. /\ clock \in Nat /\ clock' \in Nat /\ clock <= clock' /\ ShapeInv /\ ShapeInv'
      /\ writer'[w].at \in {"building", "writing"} /\ writer'[w].op # "delete"
  BY ClockGrows, ShapeStep DEF RowsInv, Planning
<1>2. writer'[w].row.stamp \in Nat
  <2>1. writer'[w] \in WriterState
    BY <1>1 DEF ShapeInv
  <2>2. writer'[w] \in Plan
    BY <1>1, <2>1 DEF WriterState, Idle, Plan, Sent, Entry
  <2> QED
    BY <2>2 DEF Plan, Row
<1>3. CASE writer'[w] = writer[w]
  <2>1. Planning(w)
    BY <1>1, <1>3 DEF Planning
  <2>2. /\ writer[w].row.phase = "live"
        /\ writer[w].op = "create" => writer[w].row.version = 1
        /\ writer[w].at = "writing" => writer[w].row.stamp <= clock
    BY <2>1 DEF RowsInv, PlansSound
  <2> QED
    BY <1>1, <1>2, <1>3, <2>2
<1>4. CASE Begin(w)
  BY <1>1, <1>4, BeginFresh
<1>5. CASE BuildStatement(w)
  <2>1. /\ writer[w].at = "building" /\ writer'[w].op = writer[w].op
        /\ writer'[w].row.stamp = clock /\ writer'[w].row.phase = writer[w].row.phase
        /\ writer'[w].row.version = writer[w].row.version
    BY <1>1, <1>5, BuildStamps
  <2>2. Planning(w)
    BY <1>1, <2>1 DEF Planning
  <2> QED
    BY <1>1, <2>1, <2>2 DEF RowsInv, PlansSound
<1> QED
  BY <1>1, <1>3, <1>4, <1>5, WritersMove

\* A row is never older than it was when the reader began.
LEMMA OlderStep ==
  ASSUME RowsInv, [Next]_vars
  PROVE  WalkOlder'
<1>1. /\ table \in [Id -> Row] /\ table' \in [Id -> Row]
      /\ walk.table \in [Id -> Row]
      /\ walk \in [table : [Id -> Row], log : SUBSET AuditLog,
                   left : BOOLEAN, fell : BOOLEAN, quiet : BOOLEAN, counted : BOOLEAN]
  BY ShapeStep DEF RowsInv, ShapeInv
<1>2. CASE Ask
  <2>1. table' = table /\ (walk'.table = walk.table \/ walk'.table = table)
    BY <1>1, <1>2 DEF Ask, Read
  <2>2. \A i \in Id : table[i].version \in Nat
    BY <1>1 DEF Row
  <2> QED
    BY <2>1, <2>2 DEF RowsInv, WalkOlder
<1>3. CASE ~Ask
  <2>1. walk'.table = walk.table
    BY <1>1, <1>3 DEF Next, vars, Tick, Works, Begin, BuildStatement, Write, BuildAudit,
         InsertAudit, CountRows, ListPage,
         ListRevisions, AuditPage, NextPage, SummarizeAudits, Summarise, QueryFails, Read
  <2>2. ASSUME NEW i \in Id PROVE walk'.table[i].version <= table'[i].version
    <3>1. walk.table[i].version \in Nat /\ table[i] \in Row /\ table'[i] \in Row
      BY <1>1 DEF Row
    <3>2. table[i].version <= table'[i].version
      <4>1. Grown(table[i], table'[i])
        BY RowsGrow
      <4> QED
        BY <3>1, <4>1 DEF Grown, Row
    <3>3. walk.table[i].version <= table[i].version
      BY DEF RowsInv, WalkOlder
    <3> QED
      BY <2>1, <3>1, <3>2, <3>3 DEF Row
  <2> QED
    BY <2>2 DEF WalkOlder
<1> QED
  BY <1>2, <1>3

LEMMA RowsStep ==
  ASSUME RowsInv, [Next]_vars
  PROVE  RowsInv'
<1>1. ShapeInv'
  BY ShapeStep DEF RowsInv
<1> QED
  BY <1>1, StampedStep, PlansStep, OlderStep DEF RowsInv

LEMMA RowsInit == Init => RowsInv
<1> SUFFICES ASSUME Init PROVE RowsInv
  OBVIOUS
<1>1. \A i \in Id : /\ table[i].stamp = 0
                    /\ table[i].phase = "absent" => table[i].version = 0
                    /\ table[i].version \in Nat
  BY InitShape DEF Init, ShapeInv, Row
<1>2. RowsStamped /\ WalkOlder
  BY <1>1 DEF RowsStamped, WalkOlder, Init
<1>3. PlansSound
  BY DEF PlansSound, Planning, Init, Idle
<1> QED
  BY <1>2, <1>3, InitShape DEF RowsInv

LEMMA RowsHold == Spec => []RowsInv
<1>1. RowsInv /\ [Next]_vars => RowsInv'
  BY RowsStep
<1> QED
  BY <1>1, RowsInit, PTL DEF Spec

\* However requests overlap and whichever version clients name, a row never goes back:
\* its version only grows, and a deleted row stays as it is.  The version stored comes
\* from the client, so this is the lock's doing.
THEOREM RowsMoveForward == Spec => [][\A i \in Id : Grown(table[i], table'[i])]_vars
<1>1. RowsInv /\ [Next]_vars => \A i \in Id : Grown(table[i], table'[i])
  BY RowsGrow
<1>2. RowsInv /\ [Next]_vars => [\A i \in Id : Grown(table[i], table'[i])]_vars
  BY <1>1
<1> QED
  BY <1>2, RowsHold, PTL DEF Spec

-----------------------------------------------------------------------------
(* The audit log                                                           *)

\* One request moves: the others stay where they are, and it was not done before.
LEMMA OneMoves ==
  ASSUME ShapeInv, NEW w \in Writer, Works(w)
  PROVE  /\ \A v \in Writer : v # w => writer'[v] = writer[v]
         /\ w \notin Done /\ Done \subseteq Done'
         /\ BuildAudit(w) \/ writer'[w].at # "inserting"
         /\ clock' = clock
         /\ InsertAudit(w) \/ auditLog' = auditLog
         /\ Begin(w) \/ answered' = answered
<1>1. writer \in [Writer -> WriterState]
  BY DEF ShapeInv
<1>2. \A next : Lead(w, next) => /\ writer'[w] = next
                                 /\ \A v \in Writer : v # w => writer'[v] = writer[v]
  BY <1>1 DEF Lead
<1>3. writer[w].at # "done"
  BY DEF Works, Begin, BuildStatement, Write, BuildAudit, InsertAudit
<1>4. /\ \A v \in Writer : v # w => writer'[v] = writer[v]
      /\ BuildAudit(w) \/ writer'[w].at # "inserting"
  <2>1. CASE Begin(w)
    <3>1. PICK op \in Action, u \in User, i \in Id, s \in DecisionState, e \in Nat :
            Lead(w, Planned(op, u, i, s, e))
      BY <2>1, BeginPlans
    <3>2. Planned(op, u, i, s, e).at # "inserting"
      BY DEF Planned
    <3> QED
      BY <1>2, <3>1, <3>2
  <2>2. CASE BuildStatement(w)
    <3>1. writer'[w].at = "writing"
      BY <2>2, BuildStamps
    <3> QED
      BY <1>2, <2>2, <3>1 DEF BuildStatement
  <2>3. CASE Write(w)
    <3> DEFINE plan == writer[w]
    <3>1. \/ Lead(w, [at |-> "auditing", op |-> plan.op, user |-> plan.user, id |-> plan.id])
          \/ Lead(w, [at |-> "done"])
      BY <2>3 DEF Write
    <3> QED
      BY <1>2, <3>1
  <2>4. CASE BuildAudit(w)
    BY <1>2, <2>4 DEF BuildAudit
  <2>5. CASE InsertAudit(w)
    BY <1>2, <2>5 DEF InsertAudit
  <2> QED
    BY <2>1, <2>2, <2>3, <2>4, <2>5 DEF Works
<1>5. w \notin Done /\ Done \subseteq Done'
  BY <1>3, <1>4 DEF Done
<1>6. /\ clock' = clock
      /\ InsertAudit(w) \/ auditLog' = auditLog
      /\ Begin(w) \/ answered' = answered
  BY DEF Works, Begin, BuildStatement, Write, BuildAudit, InsertAudit
<1> QED
  BY <1>4, <1>5, <1>6

\* What only the reader or the clock does leaves requests and log alone.
LEMMA OthersStay ==
  ASSUME [Next]_vars, ~ \E w \in Writer : Works(w)
  PROVE  UNCHANGED <<table, auditLog, writer, answered>>
BY DEF Next, Works, vars, Tick, Ask, CountRows, ListPage, ListRevisions, AuditPage, NextPage,
       SummarizeAudits, Summarise, QueryFails, Read

LEMMA LogStep ==
  ASSUME LogInv, [Next]_vars
  PROVE  LogInv'
<1>1. /\ ShapeInv /\ ShapeInv' /\ clock \in Nat /\ clock' \in Nat /\ clock <= clock'
      /\ auditLog \subseteq AuditLog /\ answered \in [Writer -> SUBSET Writer]
  BY ShapeStep, ClockGrows DEF LogInv, ShapeInv
<1>2. \A a \in AuditLog : a.stamp \in Nat /\ a.request \in Writer
  BY DEF AuditLog
<1>3. ASSUME NEW w \in Writer, writer[w].at = "inserting"
      PROVE  writer[w].entry \in AuditLog
  BY <1>1, <1>3, Holdings DEF Entry
<1>4. CASE ~ \E w \in Writer : Works(w)
  <2>1. UNCHANGED <<table, auditLog, writer, answered>>
    BY <1>4, OthersStay
  <2>2. LogOrdered'
    <3>1. \A a \in auditLog : a.stamp <= clock'
      BY <1>1, <1>2 DEF LogInv, LogOrdered
    <3>2. \A w \in Writer : writer[w].at = "inserting" => writer[w].entry.stamp <= clock'
      BY <1>1, <1>2, <1>3 DEF LogInv, LogOrdered
    <3> QED
      BY <2>1, <3>1, <3>2 DEF LogInv, LogOrdered, Done
  <2> QED
    BY <1>1, <2>1, <2>2 DEF LogInv, AuditOrderKeepsRealTime
<1>5. ASSUME NEW w \in Writer, Works(w)
      PROVE  LogInv'
  <2>1. /\ \A v \in Writer : v # w => writer'[v] = writer[v]
        /\ w \notin Done /\ Done \subseteq Done'
        /\ BuildAudit(w) \/ writer'[w].at # "inserting"
        /\ clock' = clock
        /\ InsertAudit(w) \/ auditLog' = auditLog
        /\ Begin(w) \/ answered' = answered
    BY <1>1, <1>5, OneMoves
  <2>2. \A v \in Writer : answered'[v] \subseteq Done'
    <3>1. CASE Begin(w)
      BY <1>1, <2>1, <3>1 DEF Begin, LogInv, LogOrdered
    <3>2. CASE answered' = answered
      BY <2>1, <3>2 DEF LogInv, LogOrdered
    <3> QED
      BY <2>1, <3>1, <3>2
  <2>3. \A v \in Writer : v # w => answered'[v] = answered[v]
    BY <1>1, <2>1 DEF Begin
  <2>4. CASE auditLog' = auditLog
    <3>1. \A a \in auditLog : a.request \in Done /\ a.request # w /\ a.stamp <= clock
      BY <2>1 DEF LogInv, LogOrdered
    <3>2. ASSUME NEW v \in Writer, writer'[v].at = "inserting"
          PROVE  /\ writer'[v].entry.request = v /\ writer'[v].entry.stamp <= clock
                 /\ \A a \in auditLog :
                      a.request \in answered'[v] => a.stamp <= writer'[v].entry.stamp
      <4>1. CASE v # w
        BY <2>1, <2>3, <3>2, <4>1 DEF LogInv, LogOrdered
      <4>2. CASE v = w
        <5>1. BuildAudit(w)
          BY <2>1, <3>2, <4>2
        <5>2. writer'[w].entry.request = w /\ writer'[w].entry.stamp = clock
          BY <1>1, <5>1 DEF BuildAudit, Lead, ShapeInv
        <5> QED
          BY <1>1, <3>1, <4>2, <5>2
      <4> QED
        BY <4>1, <4>2
    <3>3. LogOrdered'
      BY <2>1, <2>2, <2>4, <3>1, <3>2 DEF LogOrdered
    <3>4. AuditOrderKeepsRealTime'
      <4>1. \A b \in auditLog : answered'[b.request] = answered[b.request]
        BY <1>1, <1>2, <2>3, <3>1
      <4> QED
        BY <2>4, <4>1 DEF LogInv, AuditOrderKeepsRealTime
    <3> QED
      BY <1>1, <3>3, <3>4 DEF LogInv
  <2>5. CASE InsertAudit(w) /\ auditLog' = auditLog \cup {writer[w].entry}
    <3> DEFINE e == writer[w].entry
    <3>1. writer[w].at = "inserting" /\ writer'[w].at = "done" /\ answered' = answered
      BY <1>1, <2>5 DEF InsertAudit, Lead, ShapeInv
    <3>2. /\ e \in AuditLog /\ e.request = w /\ e.stamp <= clock
          /\ \A a \in auditLog : a.request \in answered[w] => a.stamp <= e.stamp
      BY <1>3, <3>1 DEF LogInv, LogOrdered
    <3>3. w \in Done'
      BY <3>1 DEF Done
    <3>4. \A v \in Writer : w \notin answered[v]
      BY <2>1 DEF LogInv, LogOrdered
    <3> HIDE DEF e
    <3>5. \A a \in auditLog' : a.request \in Done' /\ a.stamp <= clock
      BY <2>1, <2>5, <3>2, <3>3 DEF LogInv, LogOrdered, e
    <3>6. ASSUME NEW v \in Writer, writer'[v].at = "inserting"
          PROVE  /\ writer'[v].entry.request = v /\ writer'[v].entry.stamp <= clock
                 /\ \A a \in auditLog' :
                      a.request \in answered'[v] => a.stamp <= writer'[v].entry.stamp
      <4>1. v # w /\ writer'[v] = writer[v]
        BY <2>1, <3>1, <3>6
      <4> QED
        BY <2>5, <3>1, <3>2, <3>4, <3>6, <4>1 DEF LogInv, LogOrdered, e
    <3>7. LogOrdered'
      BY <2>1, <2>2, <3>5, <3>6 DEF LogOrdered
    <3>8. AuditOrderKeepsRealTime'
      <4> SUFFICES ASSUME NEW a \in auditLog', NEW b \in auditLog', a.request \in answered[b.request]
                   PROVE  a.stamp <= b.stamp
        BY <3>1 DEF AuditOrderKeepsRealTime
      <4>1. b.request \in Writer /\ auditLog' = auditLog \cup {e}
        BY <1>1, <1>2, <2>5, <3>2 DEF e
      <4>2. a \in auditLog
        BY <3>2, <3>4, <4>1
      <4>3. CASE b = e
        BY <3>2, <4>2, <4>3
      <4>4. CASE b \in auditLog
        BY <4>2, <4>4 DEF LogInv, AuditOrderKeepsRealTime
      <4> QED
        BY <4>1, <4>3, <4>4
    <3> QED
      BY <1>1, <3>7, <3>8 DEF LogInv
  <2> QED
    BY <2>1, <2>4, <2>5 DEF InsertAudit
<1> QED
  BY <1>4, <1>5

LEMMA LogHolds == Spec => []LogInv
<1>1. Init => LogInv
  BY InitShape DEF Init, Idle, LogInv, LogOrdered, AuditOrderKeepsRealTime
<1>2. LogInv /\ [Next]_vars => LogInv'
  BY LogStep
<1> QED
  BY <1>1, <1>2, PTL DEF Spec

\* The entries of two requests are in the order of the requests when one was
\* answered before the other was sent; SecurityService.Audit stamps an entry only
\* after its request has read and written the row.
THEOREM AuditKeepsRealTime == Spec => []AuditOrderKeepsRealTime
<1>1. LogInv => AuditOrderKeepsRealTime
  BY DEF LogInv
<1> QED
  BY <1>1, LogHolds, PTL

-----------------------------------------------------------------------------
(* A walk through the pages of the list                                    *)

\* A row is settled for the walk: seen, or behind full pages.
RowSettled(i) == i \in reader.seen \/ Passed(RowsAhead(i))

\* The rows ahead of one are counted.
LEMMA AheadCounted ==
  ASSUME NEW i
  PROVE  IsFiniteSet(RowsAhead(i)) /\ Cardinality(RowsAhead(i)) \in Nat
<1>1. RowsAhead(i) \in SUBSET Found(reader.filter)
  BY DEF RowsAhead
<1> QED
  BY <1>1, FoundFinite, FS_Subset, FS_CardinalityType

\* A step of the reader that settles what was settled keeps the walk's promise.
LEMMA ReaderKeepsWalk ==
  ASSUME ListWalk, table' = table, reader.op = "list", reader'.filter = reader.filter,
         walk'.left = walk.left, walk'.fell = walk.fell, walk'.table = walk.table,
         \A i \in Id : Matches(table[i], reader.filter) /\ RowSettled(i) => RowSettled(i)'
  PROVE  ListWalk'
BY DEF ListWalk, RowSettled

\* Ranks do not change while the table and the filter do not.
LEMMA SameAhead ==
  ASSUME table' = table, reader'.filter = reader.filter
  PROVE  \A i : RowsAhead(i)' = RowsAhead(i)
BY DEF RowsAhead, Found, Matches, NewestFirst

\* A first page has nothing before it.
LEMMA AskSettles ==
  ASSUME ShapeInv, Ask
  PROVE  ListWalk'
<1> SUFFICES ASSUME reader'.op = "list", NEW i \in Id PROVE RowSettled(i)'
  BY DEF ListWalk, RowSettled
<1>1. PICK f \in Filter :
        reader' = [op |-> "list", at |-> "counting", filter |-> f, page |-> 1, total |-> 0,
                   items |-> <<>>, seen |-> {}]
  BY DEF Ask, Read
<1>2. reader'.at = "counting" /\ reader'.page = 1
  BY <1>1
<1>3. PageSize \in Nat /\ (1 - 1) * PageSize = 0
  BY ReadSideAssumption
<1>4. IsFiniteSet(RowsAhead(i)') /\ Cardinality(RowsAhead(i)') \in Nat
  <2>1. RowsAhead(i)' \in SUBSET Id
    BY DEF RowsAhead, Found
  <2> QED
    BY <2>1, ReadSideAssumption, FS_Subset, FS_CardinalityType
<1>5. Cardinality(RowsAhead(i)') >= (reader'.page - 1) * PageSize
  BY <1>2, <1>3, <1>4
<1>6. Passed(RowsAhead(i))'
  BY <1>2, <1>5 DEF Passed
<1> QED
  BY <1>6 DEF RowSettled

LEMMA CountSettles ==
  ASSUME ShapeInv, ListWalk, CountRows
  PROVE  ListWalk'
<1> SUFFICES ASSUME reader'.op = "list" PROVE ListWalk'
  BY DEF ListWalk
<1>1. reader \in ListReader \cup AuditReader
  BY Holdings DEF CountRows
<1>2. /\ reader.at = "counting" /\ table' = table /\ walk'.left = walk.left
      /\ walk'.fell = walk.fell /\ walk'.table = walk.table
      /\ reader' = [reader EXCEPT !.at = "paging", !.total = CountFound]
  BY DEF CountRows, Read, ShapeInv
<1>3. reader \in ListReader
  BY <1>1, <1>2 DEF ListReader, AuditReader
<1> HIDE DEF CountFound
<1>4. /\ reader.op = "list" /\ reader'.filter = reader.filter /\ reader'.at = "paging"
      /\ reader'.page = reader.page /\ reader'.seen = reader.seen
  BY <1>2, <1>3 DEF ListReader
<1>5. ASSUME NEW i \in Id, RowSettled(i) PROVE RowSettled(i)'
  <2>1. RowsAhead(i)' = RowsAhead(i)
    BY <1>2, <1>4, SameAhead
  <2> QED
    BY <1>2, <1>4, <1>5, <2>1 DEF RowSettled, Passed
<1> QED
  BY <1>2, <1>4, <1>5, ReaderKeepsWalk

\* A row that pages so far did not show is on this one, or this one is full too.
LEMMA PageSettles ==
  ASSUME ShapeInv, ListWalk, ListPage
  PROVE  ListWalk'
<1> DEFINE F == Found(reader.filter)
           n == Cardinality(F)
           order == ListOrder(reader.filter)
           page == reader.page
           ids == PageOf(order, page)
           items == [m \in DOMAIN ids |->
                       [id |-> ids[m], row |-> table[ids[m]], revisions |-> {}]]
           next == IF ids = <<>> THEN "answered" ELSE "revising"
           from == (page - 1) * PageSize
<1>1. reader \in ListReader /\ reader.op = "list" /\ reader.at = "paging" /\ table \in [Id -> Row]
  BY Holdings DEF ListPage, ShapeInv
<1>2. page \in Nat \ {0}
  BY <1>1 DEF ListReader
<1>3. /\ table' = table /\ walk'.left = walk.left
      /\ walk'.fell = walk.fell /\ walk'.table = walk.table
      /\ reader' = [reader EXCEPT !.at = next, !.items = items, !.seen = @ \cup ToSet(ids)]
  BY DEF ListPage, Read, ShapeInv
<1>4. /\ n \in Nat /\ order \in [1 .. n -> F]
      /\ \A i \in F : \E k \in 1 .. n :
           order[k] = i /\ Cardinality({j \in F : NewestFirst(j, i)}) = k - 1
  BY <1>1, ListOrdered
<1>5. /\ PageSize \in Nat /\ from \in Nat /\ page * PageSize \in Nat
      /\ page * PageSize = from + PageSize
  BY <1>2, PageBounds
<1> HIDE DEF F, n, order, page
<1>6. /\ ids \in Seq(F)
      /\ Len(ids) = IF n <= from THEN 0 ELSE IF n <= from + PageSize THEN n - from ELSE PageSize
      /\ \A k \in 1 .. Len(ids) : from + k \in 1 .. n /\ ids[k] = order[from + k]
  <2>1. n \in Nat /\ order \in [1 .. n -> F]
    BY <1>4
  <2>2. ids \in Seq(F) /\ IsPage(ids, order, n, from)
    BY <1>2, <2>1, PageOfOrder
  <2> QED
    BY <2>2 DEF IsPage
<1> HIDE DEF ids
<1>7. Len(ids) \in Nat /\ items = [k \in 1 .. Len(ids) |-> items[k]]
  BY <1>6
<1>8. Len(items) = Len(ids)
  BY <1>7, LengthOf
<1> HIDE DEF items
<1>9. /\ reader'.filter = reader.filter /\ reader'.at = next /\ reader'.page = page
      /\ reader'.seen = reader.seen \cup ToSet(ids) /\ Len(reader'.items) = Len(ids)
  BY <1>1, <1>3, <1>8 DEF ListReader, page
<1> HIDE DEF from
<1>10. ASSUME NEW i \in Id, Matches(table[i], reader.filter), RowSettled(i) PROVE RowSettled(i)'
  <2>1. RowsAhead(i)' = RowsAhead(i)
    BY <1>3, <1>9, SameAhead
  <2>2. CASE i \in reader.seen
    BY <1>9, <2>2 DEF RowSettled
  <2>3. CASE Passed(RowsAhead(i))
    <3>1. Cardinality(RowsAhead(i)) >= from
      BY <1>1, <2>3 DEF Passed, from, page
    <3>2. i \in F /\ RowsAhead(i) = {j \in F : NewestFirst(j, i)}
      BY <1>10 DEF F, Found, RowsAhead
    <3>3. PICK k \in 1 .. n : order[k] = i /\ Cardinality(RowsAhead(i)) = k - 1
      BY <1>4, <3>2
    <3>4. CASE k <= from + PageSize
      <4>1. k - from \in 1 .. Len(ids) /\ from + (k - from) = k
        BY <1>4, <1>5, <1>6, <3>1, <3>3, <3>4
      <4>2. ids[k - from] = i
        BY <1>6, <3>3, <4>1
      <4>3. i \in ToSet(ids)
        BY <1>6, <4>1, <4>2 DEF ToSet
      <4> QED
        BY <1>9, <4>3 DEF RowSettled
    <3>5. CASE k > from + PageSize
      <4>1. Len(ids) = PageSize /\ Cardinality(RowsAhead(i)) >= page * PageSize
        BY <1>4, <1>5, <1>6, <3>3, <3>5
      <4> QED
        BY <1>9, <2>1, <4>1 DEF RowSettled, Passed
    <3> QED
      BY <1>4, <1>5, <3>4, <3>5
  <2> QED
    BY <1>10, <2>2, <2>3 DEF RowSettled
<1> QED
  BY <1>1, <1>3, <1>9, <1>10, ReaderKeepsWalk

LEMMA RevisionsSettle ==
  ASSUME ShapeInv, ListWalk, ListRevisions
  PROVE  ListWalk'
<1> DEFINE items == [n \in DOMAIN reader.items |->
                       [reader.items[n] EXCEPT !.revisions = RevisionsOf(reader.items[n].id)]]
<1>1. reader \in ListReader /\ reader.op = "list" /\ reader.at = "revising"
  BY Holdings DEF ListRevisions
<1>2. reader.items \in Seq(ListItem)
  BY <1>1 DEF ListReader
<1>3. /\ table' = table /\ walk' = walk
      /\ reader' = [reader EXCEPT !.at = "answered", !.items = items]
  BY DEF ListRevisions, Read
<1>4. DOMAIN items = 1 .. Len(reader.items) /\ Len(reader.items) \in Nat
  BY <1>2
<1>5. items = [k \in 1 .. Len(reader.items) |-> items[k]]
  BY <1>4
<1>6. Len(items) = Len(reader.items)
  BY <1>4, <1>5, LengthOf
<1> HIDE DEF items
<1>7. /\ reader'.filter = reader.filter /\ reader'.at = "answered" /\ reader'.page = reader.page
      /\ reader'.seen = reader.seen /\ Len(reader'.items) = Len(reader.items)
  BY <1>1, <1>3, <1>6 DEF ListReader
<1>8. ASSUME NEW i \in Id, RowSettled(i) PROVE RowSettled(i)'
  <2>1. RowsAhead(i)' = RowsAhead(i)
    BY <1>3, <1>7, SameAhead
  <2> QED
    BY <1>1, <1>7, <1>8, <2>1 DEF RowSettled, Passed
<1> QED
  BY <1>1, <1>3, <1>7, <1>8, ReaderKeepsWalk

LEMMA NextPageSettles ==
  ASSUME ShapeInv, ListWalk, NextPage
  PROVE  ListWalk'
<1> DEFINE used == [reader EXCEPT !.total = 0, !.items = <<>>]
<1>1. /\ table' = table /\ walk'.left = walk.left
      /\ walk'.fell = walk.fell /\ walk'.table = walk.table
      /\ reader.at = "answered"
      /\ reader' = IF Len(reader.items) = PageSize
                   THEN [used EXCEPT !.at = "counting", !.page = reader.page + 1]
                   ELSE [used EXCEPT !.at = "finished"]
  BY DEF NextPage, Read, ShapeInv
<1>2. CASE reader.op # "list"
  <2>1. reader \in AuditReader
    BY <1>2, Holdings DEF NextPage
  <2>2. reader'.op # "list"
    BY <1>1, <2>1 DEF AuditReader
  <2> QED
    BY <2>2 DEF ListWalk
<1>3. CASE reader.op = "list"
  <2>1. reader \in ListReader
    BY <1>3, Holdings
  <2>2. reader.page \in Nat \ {0}
    BY <2>1 DEF ListReader
  <2>3. /\ reader'.filter = reader.filter /\ reader'.seen = reader.seen
        /\ Len(reader.items) = PageSize =>
             reader'.at = "counting" /\ reader'.page = reader.page + 1
    BY <1>1, <2>1 DEF ListReader
  <2>4. (reader.page + 1) - 1 = reader.page
    BY <2>2
  <2>5. ASSUME NEW i \in Id, RowSettled(i) PROVE RowSettled(i)'
    <3>1. RowsAhead(i)' = RowsAhead(i)
      BY <1>1, <2>3, SameAhead
    <3>2. CASE Passed(RowsAhead(i))
      <4>1. Len(reader.items) = PageSize /\ Cardinality(RowsAhead(i)) >= reader.page * PageSize
        BY <1>1, <3>2 DEF Passed
      <4> QED
        BY <2>3, <2>4, <3>1, <4>1 DEF RowSettled, Passed
    <3> QED
      BY <2>3, <2>5, <3>2 DEF RowSettled
  <2> QED
    BY <1>1, <1>3, <2>3, <2>5, ReaderKeepsWalk
<1> QED
  BY <1>2, <1>3

\* A write leaves every other row behind at least as many as before, unless it takes
\* a row out of the list; and the row it writes has changed since the reader began.
LEMMA WriteSettles ==
  ASSUME RowsInv, RowsInv', ListWalk, NEW w \in Writer, Write(w), Holds(writer[w])
  PROVE  ListWalk'
<1> DEFINE plan == writer[w]
           next == Stored(plan)
           p == plan.id
<1>1. /\ table \in [Id -> Row] /\ table' \in [Id -> Row] /\ walk.table \in [Id -> Row]
      /\ walk \in [table : [Id -> Row], log : SUBSET AuditLog,
                   left : BOOLEAN, fell : BOOLEAN, quiet : BOOLEAN, counted : BOOLEAN]
  BY DEF RowsInv, ShapeInv
<1>2. /\ plan.at = "writing" /\ table' = [table EXCEPT ![p] = next] /\ reader' = reader
      /\ walk' = [walk EXCEPT !.left = @ \/ Leaves(p, next), !.fell = @ \/ Falls(p, next),
                              !.quiet = FALSE]
  BY DEF Write
<1>3. p \in Id /\ next \in Row /\ Grown(table[p], next)
  BY <1>2, StoredGrows
<1> HIDE DEF p, next
<1>4. /\ walk'.left <=> walk.left \/ Leaves(p, next)
      /\ walk'.fell <=> walk.fell \/ Falls(p, next)
      /\ walk'.table = walk.table
      /\ \A i \in Id : table'[i] = IF i = p THEN next ELSE table[i]
  BY <1>1, <1>2
<1> SUFFICES ASSUME reader.op = "list", ~walk.left, ~Leaves(p, next), ~walk.fell,
                    ~Falls(p, next), NEW i \in Id, Matches(table'[i], reader.filter),
                    table'[i] = walk.table[i]
             PROVE  RowSettled(i)'
  <2>1. \A i \in Id : RowSettled(i)' <=> i \in reader'.seen \/ Passed(RowsAhead(i))'
    BY DEF RowSettled
  <2>2. \A i \in Id : Matches(table[i], reader.filter)' <=> Matches(table'[i], reader'.filter)
    BY DEF Matches
  <2> QED
    BY <1>2, <1>4, <2>1, <2>2 DEF ListWalk
<1>5. /\ table[p].version \in Nat /\ table[p].stamp \in Nat /\ next.version \in Nat
      /\ next.stamp \in Nat /\ walk.table[p].version \in Nat /\ table[i].stamp \in Nat
      /\ table[i].version \in Nat
  BY <1>1, <1>3 DEF Row
<1>6. table'[i] = table[i]
  <2>1. CASE i = p
    <3>1. next.phase = "live" /\ next.version = walk.table[p].version
      BY <1>4, <2>1 DEF Matches
    <3>2. walk.table[p].version <= table[p].version
      BY <1>3 DEF RowsInv, WalkOlder
    <3>3. ~(next = [table[p] EXCEPT !.phase = "deleted"])
      BY <1>1, <1>3, <3>1 DEF Row
    <3>4. next = table[p]
      BY <1>3, <1>5, <3>1, <3>2, <3>3 DEF Grown
    <3> QED
      BY <1>4, <2>1, <3>4
  <2> QED
    BY <1>4, <2>1
<1>7. RowSettled(i)
  BY <1>4, <1>6 DEF ListWalk, RowSettled
<1>8. RowsAhead(i) \subseteq RowsAhead(i)'
  <2> SUFFICES ASSUME NEW j \in Id, Matches(table[j], reader.filter), NewestFirst(j, i)
               PROVE  j \in RowsAhead(i)'
    BY DEF RowsAhead, Found
  <2>1. CASE j # p
    BY <1>2, <1>4, <1>6, <2>1 DEF RowsAhead, Found, Matches, NewestFirst
  <2>2. CASE j = p
    <3>1. Matches(next, reader.filter)
      BY <2>2 DEF Leaves
    <3>3. next.stamp >= table[p].stamp
      BY <1>5 DEF Falls
    <3>4. next.stamp > table[i].stamp \/ (next.stamp = table[i].stamp /\ p > i)
      BY <1>5, <2>2, <3>3 DEF NewestFirst
    <3>5. table'[p] = next
      BY <1>3, <1>4
    <3> QED
      BY <1>2, <1>3, <1>6, <2>2, <3>1, <3>4, <3>5 DEF RowsAhead, Found, Matches, NewestFirst
  <2> QED
    BY <2>1, <2>2
<1>9. Cardinality(RowsAhead(i)) <= Cardinality(RowsAhead(i)')
  <2>1. RowsAhead(i)' \in SUBSET Id
    BY DEF RowsAhead, Found
  <2>2. IsFiniteSet(RowsAhead(i)')
    BY <2>1, ReadSideAssumption, FS_Subset
  <2> QED
    BY <1>8, <2>2, FS_Subset
<1>10. Passed(RowsAhead(i)) => Passed(RowsAhead(i))'
  <2>1. ASSUME reader \in ListReader
        PROVE  (reader.page - 1) * PageSize \in Nat /\ reader.page * PageSize \in Nat
    <3>1. reader.page \in Nat \ {0}
      BY <2>1 DEF ListReader
    <3> QED
      BY <3>1, PageBounds
  <2>2. Cardinality(RowsAhead(i)) \in Nat /\ Cardinality(RowsAhead(i)') \in Nat
    <3>1. RowsAhead(i)' \in SUBSET Id
      BY DEF RowsAhead, Found
    <3> QED
      BY <3>1, AheadCounted, ReadSideAssumption, FS_Subset, FS_CardinalityType
  <2>3. reader \in ListReader
    BY Holdings DEF RowsInv
  <2> DEFINE c == Cardinality(RowsAhead(i))
             d == Cardinality(RowsAhead(i)')
             before == (reader.page - 1) * PageSize
             upto == reader.page * PageSize
  <2>4. before \in Nat /\ upto \in Nat /\ c \in Nat /\ d \in Nat /\ c <= d
    BY <1>9, <2>1, <2>2, <2>3
  <2> HIDE DEF c, d, before, upto
  <2>5. (c >= before => d >= before) /\ (c >= upto => d >= upto)
    BY <2>4
  <2> QED
    BY <1>2, <2>5 DEF Passed, c, d, before, upto
<1> QED
  BY <1>2, <1>7, <1>10 DEF RowSettled

WalkInv == RowsInv /\ ListWalk

LEMMA WalkStep ==
  ASSUME WalkInv, [Next]_vars
  PROVE  WalkInv'
<1>1. RowsInv /\ ShapeInv /\ RowsInv' /\ ListWalk
  BY RowsStep DEF WalkInv, RowsInv
<1>2. CASE /\ table' = table /\ reader' = reader /\ walk' = walk
  BY <1>1, <1>2 DEF WalkInv, ListWalk, Matches, Passed, RowsAhead, Found, NewestFirst
<1>3. CASE reader'.op # "list"
  BY <1>1, <1>3 DEF WalkInv, ListWalk
<1>4. CASE UNCHANGED vars \/ Tick
  BY <1>2, <1>4 DEF vars, Tick
<1>5. ASSUME NEW w \in Writer, Works(w)
      PROVE  WalkInv'
  <2>1. CASE Write(w) /\ Holds(writer[w])
    BY <1>1, <2>1, WriteSettles DEF WalkInv
  <2>2. CASE ~(Write(w) /\ Holds(writer[w]))
    BY <1>2, <1>5, <2>2 DEF Works, Begin, BuildStatement, Write, BuildAudit, InsertAudit
  <2> QED
    BY <2>1, <2>2
<1>6. CASE Ask
  BY <1>1, <1>6, AskSettles DEF WalkInv
<1>7. CASE CountRows
  BY <1>1, <1>7, CountSettles DEF WalkInv
<1>8. CASE ListPage
  BY <1>1, <1>8, PageSettles DEF WalkInv
<1>9. CASE ListRevisions
  BY <1>1, <1>9, RevisionsSettle DEF WalkInv
<1>10. CASE NextPage
  BY <1>1, <1>10, NextPageSettles DEF WalkInv
<1>11. CASE AuditPage
  BY <1>1, <1>3, <1>11, AuditShape DEF AuditReader
<1>12. CASE SummarizeAudits
  BY <1>1, <1>3, <1>12, SummaryShape DEF SummaryReader
<1>13. CASE QueryFails
  BY <1>3, <1>13 DEF QueryFails, Read
<1> QED
  BY <1>4, <1>5, <1>6, <1>7, <1>8, <1>9, <1>10, <1>11, <1>12, <1>13 DEF Next, Works

LEMMA WalkHolds == Spec => []WalkInv
<1>1. Init => WalkInv
  BY RowsInit DEF Init, Unread, WalkInv, ListWalk
<1>2. WalkInv /\ [Next]_vars => WalkInv'
  BY WalkStep
<1> QED
  BY <1>1, <1>2, PTL DEF Spec

\* Who pages through a list to its end has seen every row that did not change
\* meanwhile, whatever others created, edited or moved and whichever version they
\* named, unless a row left the list or fell back in it: the order by updated_at and
\* id, the offset and the length of the last page are enough for that.
THEOREM WalkMissesNothing == Spec => []WalkMissesOnlyAfterRetreat
<1>1. WalkInv => WalkMissesOnlyAfterRetreat
  BY DEF WalkInv, ListWalk, Passed, WalkMissesOnlyAfterRetreat
<1> QED
  BY <1>1, WalkHolds, PTL

-----------------------------------------------------------------------------
(* Clients that do not run ahead                                           *)

\* Plans stay no older than the row they would replace.
LEMMA FreshStep ==
  ASSUME RunAhead = 0, RowsInv, PlansFresh, [Next]_vars
  PROVE  PlansFresh'
<1> SUFFICES ASSUME NEW w \in Writer, Planning(w)', writer'[w].op # "create"
             PROVE  LET row == writer'[w].row
                        old == table'[writer'[w].id]
                    IN /\ row.version <= old.version + 1
                       /\ writer'[w].at = "writing" /\ row.version = old.version + 1 =>
                            old.stamp <= row.stamp
  BY DEF PlansFresh
<1> DEFINE plan == writer'[w]
           row == plan.row
           was == table[plan.id]
           old == table'[plan.id]
<1>1. /\ clock \in Nat /\ table \in [Id -> Row] /\ table' \in [Id -> Row]
      /\ ShapeInv /\ ShapeInv'
      /\ plan.at \in {"building", "writing"} /\ plan.op # "delete" /\ plan.op # "create"
  BY ClockGrows, ShapeStep DEF RowsInv, ShapeInv, Planning
<1>2. plan \in Plan
  <2>1. writer'[w] \in WriterState
    BY <1>1 DEF ShapeInv
  <2> QED
    BY <1>1, <2>1 DEF WriterState, Idle, Plan, Sent, Entry
<1>3. plan.id \in Id /\ row \in Row /\ was \in Row /\ old \in Row
  BY <1>1, <1>2 DEF Plan
<1>4. /\ row.stamp \in Nat /\ row.version \in Nat /\ was.stamp \in Nat /\ was.version \in Nat
      /\ old.stamp \in Nat /\ old.version \in Nat
  BY <1>3 DEF Row
<1>5. /\ row.version <= was.version + 1
      /\ plan.at = "writing" /\ row.version = was.version + 1 => was.stamp <= row.stamp
  <2>1. CASE Begin(w)
    BY <1>1, <1>4, <2>1, BeginFresh
  <2>2. CASE BuildStatement(w)
    <3>1. /\ writer[w].at = "building" /\ plan.op = writer[w].op /\ plan.id = writer[w].id
          /\ row.stamp = clock /\ row.version = writer[w].row.version
      BY <1>1, <2>2, BuildStamps
    <3>2. Planning(w)
      BY <1>1, <3>1 DEF Planning
    <3>3. was.stamp <= clock
      BY <1>3 DEF RowsInv, RowsStamped
    <3>4. writer[w].row.version <= was.version + 1
      BY <1>1, <3>1, <3>2 DEF PlansFresh
    <3> QED
      BY <3>1, <3>3, <3>4
  <2>3. CASE writer'[w] = writer[w]
    <3>1. Planning(w)
      BY <1>1, <2>3 DEF Planning
    <3> QED
      BY <1>1, <2>3, <3>1 DEF PlansFresh
  <2> QED
    BY <1>1, <2>1, <2>2, <2>3, WritersMove
<1>6. Grown(was, old)
  BY <1>3, RowsGrow
<1>7. \/ old.version = was.version /\ old.stamp = was.stamp
      \/ old.version > was.version
  BY <1>3, <1>6 DEF Grown, Row
<1> HIDE DEF plan, row, was, old
<1>8. /\ row.version <= old.version + 1
      /\ plan.at = "writing" /\ row.version = old.version + 1 => old.stamp <= row.stamp
  BY <1>4, <1>5, <1>7
<1> QED
  BY <1>8 DEF plan, row, old

\* So no write gives a row an older stamp.
LEMMA StampsGrow ==
  ASSUME RowsInv, PlansFresh, [Next]_vars, NEW i \in Id
  PROVE  table[i].stamp <= table'[i].stamp
<1>1. table[i] \in Row /\ table[i].stamp \in Nat
  BY DEF RowsInv, ShapeInv, Row
<1>2. CASE table'[i] = table[i]
  BY <1>1, <1>2
<1>3. CASE table'[i] # table[i]
  <2>1. PICK w \in Writer : /\ Holds(writer[w]) /\ writer[w].at = "writing"
                           /\ writer[w].id = i /\ table'[i] = Stored(writer[w])
    BY <1>3, RowsChange
  <2> DEFINE plan == writer[w]
  <2>2. plan \in Plan
    BY <2>1, StoredGrows
  <2>3. CASE plan.op = "delete"
    BY <1>1, <2>1, <2>3 DEF Stored
  <2>4. CASE plan.op = "create"
    <3>1. table[i].phase = "absent" /\ table'[i] = plan.row
      BY <2>1, <2>4 DEF Holds, Stored
    <3>2. table[i].stamp = 0 /\ plan.row.stamp \in Nat
      BY <2>2, <3>1 DEF RowsInv, RowsStamped, Plan, Row
    <3> QED
      BY <3>1, <3>2
  <2>5. CASE plan.op # "delete" /\ plan.op # "create"
    <3>1. table[i].version + 1 = plan.row.version /\ table'[i] = plan.row
      BY <2>1, <2>5 DEF Holds, Stored
    <3>2. Planning(w)
      BY <2>1, <2>5 DEF Planning
    <3> QED
      BY <2>1, <2>5, <3>1, <3>2 DEF PlansFresh
  <2> QED
    BY <2>3, <2>4, <2>5
<1> QED
  BY <1>2, <1>3

FreshInv == RowsInv /\ PlansFresh /\ ~walk.fell

LEMMA FreshHolds ==
  ASSUME RunAhead = 0
  PROVE  Spec => []FreshInv
<1>1. Init => FreshInv
  BY RowsInit DEF FreshInv, PlansFresh, Planning, Init, Idle
<1>2. ASSUME FreshInv, [Next]_vars PROVE ~walk'.fell
  <2>1. /\ walk \in [table : [Id -> Row], log : SUBSET AuditLog,
                     left : BOOLEAN, fell : BOOLEAN, quiet : BOOLEAN, counted : BOOLEAN]
        /\ table \in [Id -> Row] /\ ~walk.fell
    BY <1>2 DEF FreshInv, RowsInv, ShapeInv
  <2>2. CASE \E w \in Writer : Write(w) /\ Holds(writer[w])
    <3>1. PICK w \in Writer : Write(w) /\ Holds(writer[w])
      BY <2>2
    <3> DEFINE plan == writer[w]
               next == Stored(plan)
    <3>2. /\ plan.at = "writing" /\ table' = [table EXCEPT ![plan.id] = next]
          /\ walk' = [walk EXCEPT !.left = @ \/ Leaves(plan.id, next),
                                  !.fell = @ \/ Falls(plan.id, next), !.quiet = FALSE]
      BY <3>1 DEF Write
    <3>3. plan.id \in Id /\ next \in Row
      BY <1>2, <3>1, <3>2, StoredGrows DEF FreshInv
    <3>4. table[plan.id].stamp <= next.stamp
      BY <1>2, <2>1, <3>2, <3>3, StampsGrow DEF FreshInv
    <3>5. table[plan.id].stamp \in Nat /\ next.stamp \in Nat
      BY <2>1, <3>3 DEF Row
    <3> HIDE DEF plan, next
    <3>6. ~Falls(plan.id, next)
      BY <3>4, <3>5 DEF Falls
    <3> QED
      BY <2>1, <3>2, <3>6
  <2>3. CASE ~ \E w \in Writer : Write(w) /\ Holds(writer[w])
    BY <1>2, <2>1, <2>3 DEF Next, vars, Tick, Begin, BuildStatement, Write, BuildAudit,
         InsertAudit, Ask, CountRows, ListPage, ListRevisions, AuditPage, NextPage,
         SummarizeAudits, Summarise, QueryFails, Read
  <2> QED
    BY <2>2, <2>3
<1>3. FreshInv /\ [Next]_vars => FreshInv'
  BY <1>2, RowsStep, FreshStep DEF FreshInv
<1> QED
  BY <1>1, <1>3, PTL DEF Spec

\* While no client names a version it has not seen, updated_at of a row does not go
\* back either.  The lock alone would not order the stamps, which gorm takes before
\* the database executes the statement: a statement whose stamp was overtaken by
\* another's commit finds its version gone.
THEOREM StampsMoveForward ==
  ASSUME RunAhead = 0
  PROVE  Spec => [][\A i \in Id : table[i].stamp <= table'[i].stamp]_vars
<1>1. FreshInv /\ [Next]_vars => \A i \in Id : table[i].stamp <= table'[i].stamp
  BY StampsGrow DEF FreshInv
<1>2. FreshInv /\ [Next]_vars => [\A i \in Id : table[i].stamp <= table'[i].stamp]_vars
  BY <1>1
<1> QED
  BY <1>2, FreshHolds, PTL DEF Spec

\* Then a row falls back in no list, and a walk misses an unchanged row only if some
\* row left.
THEOREM WalkMissesLess ==
  ASSUME RunAhead = 0
  PROVE  Spec => []WalkMissesOnlyAfterLeave
<1>1. WalkInv /\ FreshInv => WalkMissesOnlyAfterLeave
  BY DEF WalkInv, FreshInv, ListWalk, Passed, WalkMissesOnlyAfterLeave
<1> QED
  BY <1>1, WalkHolds, FreshHolds, PTL

-----------------------------------------------------------------------------
(* A walk through the pages of the audit log                               *)

\* An entry is settled for the walk: seen, at the instant of another, or behind full
\* pages.
Tied(a) == \E b \in auditLog \ {a} : b.stamp = a.stamp
EntrySettled(a) == a \in reader.seen \/ Tied(a) \/ Passed(EntriesAhead(a))

LEMMA AuditWalkMeans ==
  AuditWalk <=> (reader.op = "audits" =>
                   walk.log \subseteq auditLog /\ \A a \in walk.log : EntrySettled(a))
BY DEF AuditWalk, EntrySettled, Tied

\* The entries ahead of one are counted.
LEMMA EntriesCounted ==
  ASSUME ShapeInv, NEW a
  PROVE  IsFiniteSet(EntriesAhead(a)) /\ Cardinality(EntriesAhead(a)) \in Nat
<1>1. EntriesAhead(a) \in SUBSET auditLog
  BY DEF EntriesAhead
<1> QED
  BY <1>1, FS_Subset, FS_CardinalityType DEF ShapeInv

LEMMA AskSettlesAudits ==
  ASSUME ShapeInv, Ask
  PROVE  AuditWalk'
<1> SUFFICES ASSUME reader'.op = "audits"
             PROVE  /\ walk'.log \subseteq auditLog'
                    /\ \A a \in walk'.log : Passed(EntriesAhead(a))'
  BY DEF AuditWalk
<1>1. /\ reader' = [op |-> "audits", at |-> "counting", page |-> 1, total |-> 0,
                    items |-> <<>>, seen |-> {}]
      /\ walk' = [walk EXCEPT !.log = auditLog, !.quiet = TRUE] /\ auditLog' = auditLog
  BY DEF Ask, Read
<1> SUFFICES ASSUME NEW a PROVE Passed(EntriesAhead(a))'
  <2>1. walk'.log = auditLog
    BY <1>1 DEF ShapeInv
  <2> QED
    BY <1>1, <2>1
<1>2. reader'.at = "counting" /\ reader'.page = 1 /\ EntriesAhead(a)' = EntriesAhead(a)
  BY <1>1 DEF Ask, Read, EntriesAhead
<1>3. PageSize \in Nat /\ (1 - 1) * PageSize = 0
  BY ReadSideAssumption
<1>4. Cardinality(EntriesAhead(a)) >= (reader'.page - 1) * PageSize
  BY <1>2, <1>3, EntriesCounted
<1> QED
  BY <1>2, <1>4 DEF Passed

LEMMA CountSettlesAudits ==
  ASSUME ShapeInv, AuditWalk, CountRows, reader'.op = "audits"
  PROVE  AuditWalk'
<1>1. reader \in ListReader \cup AuditReader
  BY Holdings DEF CountRows
<1>2. /\ reader.at = "counting" /\ auditLog' = auditLog /\ walk'.log = walk.log
      /\ reader' = [reader EXCEPT !.at = "paging", !.total = CountFound]
  BY DEF CountRows, Read, ShapeInv
<1>3. reader \in AuditReader
  BY <1>1, <1>2 DEF ListReader, AuditReader
<1> HIDE DEF CountFound
<1>4. /\ reader.op = "audits" /\ reader'.at = "paging"
      /\ reader'.page = reader.page /\ reader'.seen = reader.seen
  BY <1>2, <1>3 DEF AuditReader
<1> QED
  BY <1>2, <1>4 DEF AuditWalk, Passed, EntriesAhead

LEMMA PageSettlesAudits ==
  ASSUME ShapeInv, AuditWalk, AuditPage
  PROVE  AuditWalk'
<1> DEFINE n == Cardinality(auditLog)
           page == reader.page
           from == (page - 1) * PageSize
<1>1. reader \in AuditReader /\ reader.op = "audits" /\ reader.at = "paging"
  BY Holdings DEF AuditPage
<1>2. page \in Nat \ {0}
  BY <1>1 DEF AuditReader
<1>3. PICK order \in AuditOrders :
        reader' = [reader EXCEPT !.at = "answered", !.items = PageOf(order, reader.page),
                                 !.seen = @ \cup ToSet(PageOf(order, reader.page))]
  BY DEF AuditPage, Read
<1> DEFINE entries == PageOf(order, page)
<1>4. auditLog' = auditLog /\ walk'.log = walk.log
  BY DEF AuditPage, Read, ShapeInv
<1>5. n \in Nat /\ order \in [1 .. n -> auditLog]
  BY AuditsOrdered
<1>6. \A a \in auditLog :
        Tied(a) \/ \E k \in 1 .. n : order[k] = a /\ Cardinality(EntriesAhead(a)) = k - 1
  BY AuditsOrdered DEF Tied
<1>7. /\ PageSize \in Nat /\ from \in Nat /\ page * PageSize \in Nat
      /\ page * PageSize = from + PageSize
  BY <1>2, PageBounds
<1>8. /\ reader'.at = "answered" /\ reader'.page = page /\ reader'.items = entries
      /\ reader'.seen = reader.seen \cup ToSet(entries)
  BY <1>1, <1>3 DEF AuditReader
<1> HIDE DEF n, page
<1>9. /\ entries \in Seq(auditLog)
      /\ Len(entries) = IF n <= from THEN 0 ELSE IF n <= from + PageSize THEN n - from ELSE PageSize
      /\ \A k \in 1 .. Len(entries) : from + k \in 1 .. n /\ entries[k] = order[from + k]
  <2>1. entries \in Seq(auditLog) /\ IsPage(entries, order, n, from)
    BY <1>2, <1>5, PageOfOrder
  <2> QED
    BY <2>1 DEF IsPage
<1> HIDE DEF entries, from
<1>10. ASSUME NEW a \in auditLog, EntrySettled(a) PROVE EntrySettled(a)'
  <2>1. EntriesAhead(a)' = EntriesAhead(a) /\ (Tied(a)' <=> Tied(a))
    BY <1>4 DEF EntriesAhead, Tied
  <2>2. CASE a \in reader.seen \/ Tied(a)
    BY <1>8, <2>1, <2>2 DEF EntrySettled
  <2>3. CASE Passed(EntriesAhead(a)) /\ ~Tied(a)
    <3>1. Cardinality(EntriesAhead(a)) >= from
      BY <1>1, <2>3 DEF Passed, from, page
    <3>2. PICK k \in 1 .. n : order[k] = a /\ Cardinality(EntriesAhead(a)) = k - 1
      BY <1>6, <2>3
    <3>3. CASE k <= from + PageSize
      <4>1. k - from \in 1 .. Len(entries) /\ from + (k - from) = k
        BY <1>5, <1>7, <1>9, <3>1, <3>2, <3>3
      <4>2. entries[k - from] = a
        BY <1>9, <3>2, <4>1
      <4>3. a \in ToSet(entries)
        BY <1>9, <4>1, <4>2 DEF ToSet
      <4> QED
        BY <1>8, <4>3 DEF EntrySettled
    <3>4. CASE k > from + PageSize
      <4>1. Len(entries) = PageSize /\ Cardinality(EntriesAhead(a)) >= page * PageSize
        BY <1>5, <1>7, <1>9, <3>2, <3>4
      <4> QED
        BY <1>8, <2>1, <4>1 DEF EntrySettled, Passed
    <3> QED
      BY <1>5, <1>7, <3>3, <3>4
  <2> QED
    BY <1>10, <2>2, <2>3 DEF EntrySettled
<1>11. walk.log \subseteq auditLog /\ \A a \in walk.log : EntrySettled(a)
  BY <1>1, AuditWalkMeans
<1>12. walk'.log \subseteq auditLog' /\ \A a \in walk'.log : EntrySettled(a)'
  BY <1>4, <1>10, <1>11
<1> QED
  BY <1>12 DEF AuditWalk, EntrySettled, Tied

LEMMA NextPageSettlesAudits ==
  ASSUME ShapeInv, AuditWalk, NextPage, reader'.op = "audits"
  PROVE  AuditWalk'
<1> DEFINE used == [reader EXCEPT !.total = 0, !.items = <<>>]
<1>1. /\ auditLog' = auditLog /\ walk'.log = walk.log /\ reader.at = "answered"
      /\ reader' = IF Len(reader.items) = PageSize
                   THEN [used EXCEPT !.at = "counting", !.page = reader.page + 1]
                   ELSE [used EXCEPT !.at = "finished"]
  BY DEF NextPage, Read, ShapeInv
<1>2. reader \in AuditReader
  <2>1. CASE reader.op = "list"
    <3>1. reader \in ListReader
      BY <2>1, Holdings
    <3> QED
      BY <1>1, <3>1 DEF ListReader
  <2> QED
    BY <2>1, Holdings DEF NextPage
<1>3. reader.page \in Nat \ {0} /\ reader.op = "audits"
  BY <1>2 DEF AuditReader
<1>4. /\ reader'.seen = reader.seen
      /\ Len(reader.items) = PageSize =>
           reader'.at = "counting" /\ reader'.page = reader.page + 1
  BY <1>1, <1>2 DEF AuditReader
<1>5. (reader.page + 1) - 1 = reader.page
  BY <1>3
<1>6. ASSUME NEW a \in walk.log, EntrySettled(a) PROVE EntrySettled(a)'
  <2>1. EntriesAhead(a)' = EntriesAhead(a) /\ (Tied(a)' <=> Tied(a))
    BY <1>1 DEF EntriesAhead, Tied
  <2>2. CASE Passed(EntriesAhead(a))
    <3>1. Len(reader.items) = PageSize /\ Cardinality(EntriesAhead(a)) >= reader.page * PageSize
      BY <1>1, <2>2 DEF Passed
    <3> QED
      BY <1>4, <1>5, <2>1, <3>1 DEF EntrySettled, Passed
  <2> QED
    BY <1>4, <1>6, <2>1, <2>2 DEF EntrySettled
<1>7. walk.log \subseteq auditLog /\ \A a \in walk.log : EntrySettled(a)
  BY <1>3, AuditWalkMeans
<1>8. walk'.log \subseteq auditLog' /\ \A a \in walk'.log : EntrySettled(a)'
  BY <1>1, <1>6, <1>7
<1> QED
  BY <1>8 DEF AuditWalk, EntrySettled, Tied

\* The log grows, and so does what is ahead of an entry.
LEMMA InsertSettlesAudits ==
  ASSUME ShapeInv, ShapeInv', AuditWalk, NEW w \in Writer, InsertAudit(w)
  PROVE  AuditWalk'
<1>1. auditLog \subseteq auditLog' /\ reader' = reader /\ walk' = walk
  BY DEF InsertAudit
<1> SUFFICES ASSUME reader.op = "audits" PROVE AuditWalk'
  BY <1>1 DEF AuditWalk
<1>2. reader \in AuditReader
  BY Holdings
<1>3. (reader.page - 1) * PageSize \in Nat /\ reader.page * PageSize \in Nat
  <2>1. reader.page \in Nat \ {0}
    BY <1>2 DEF AuditReader
  <2> QED
    BY <2>1, PageBounds
<1>4. ASSUME NEW a \in walk.log, EntrySettled(a) PROVE EntrySettled(a)'
  <2> DEFINE c == Cardinality(EntriesAhead(a))
             d == Cardinality(EntriesAhead(a)')
             before == (reader.page - 1) * PageSize
             upto == reader.page * PageSize
  <2>1. EntriesAhead(a) \in SUBSET (EntriesAhead(a)') /\ EntriesAhead(a)' \in SUBSET auditLog'
    BY <1>1 DEF EntriesAhead
  <2>2. IsFiniteSet(EntriesAhead(a)')
    BY <2>1, FS_Subset DEF ShapeInv
  <2>3. c \in Nat /\ d \in Nat /\ c <= d
    BY <2>1, <2>2, EntriesCounted, FS_Subset, FS_CardinalityType
  <2>4. before \in Nat /\ upto \in Nat
    BY <1>3
  <2> HIDE DEF c, d, before, upto
  <2>5. (c >= before => d >= before) /\ (c >= upto => d >= upto)
    BY <2>3, <2>4
  <2>6. Passed(EntriesAhead(a)) => Passed(EntriesAhead(a))'
    BY <1>1, <2>5 DEF Passed, c, d, before, upto
  <2>7. Tied(a) => Tied(a)'
    BY <1>1 DEF Tied
  <2> QED
    BY <1>1, <1>4, <2>6, <2>7 DEF EntrySettled
<1>5. walk.log \subseteq auditLog /\ \A a \in walk.log : EntrySettled(a)
  BY AuditWalkMeans
<1>6. walk'.log \subseteq auditLog' /\ \A a \in walk'.log : EntrySettled(a)'
  BY <1>1, <1>4, <1>5
<1> QED
  BY <1>6 DEF AuditWalk, EntrySettled, Tied

AuditWalkInv == ShapeInv /\ AuditWalk

LEMMA AuditWalkStep ==
  ASSUME AuditWalkInv, [Next]_vars
  PROVE  AuditWalkInv'
<1>1. ShapeInv /\ ShapeInv' /\ AuditWalk
  BY ShapeStep DEF AuditWalkInv
<1>2. CASE auditLog' = auditLog /\ reader' = reader /\ walk'.log = walk.log
  BY <1>1, <1>2 DEF AuditWalkInv, AuditWalk, Passed, EntriesAhead
<1>3. CASE reader'.op # "audits"
  BY <1>1, <1>3 DEF AuditWalkInv, AuditWalk
<1>4. CASE UNCHANGED vars \/ Tick
  BY <1>2, <1>4 DEF vars, Tick
<1>5. ASSUME NEW w \in Writer, Works(w)
      PROVE  AuditWalkInv'
  <2>1. CASE InsertAudit(w)
    BY <1>1, <2>1, InsertSettlesAudits DEF AuditWalkInv
  <2>2. CASE Begin(w) \/ BuildStatement(w) \/ BuildAudit(w)
    BY <1>2, <2>2 DEF Begin, BuildStatement, BuildAudit
  <2>3. CASE Write(w)
    <3>1. walk'.log = walk.log
      BY <1>1, <2>3 DEF Write, ShapeInv
    <3> QED
      BY <1>2, <2>3, <3>1 DEF Write
  <2> QED
    BY <1>5, <2>1, <2>2, <2>3 DEF Works
<1>6. CASE Ask
  BY <1>1, <1>6, AskSettlesAudits DEF AuditWalkInv
<1>7. CASE CountRows
  BY <1>1, <1>3, <1>7, CountSettlesAudits DEF AuditWalkInv
<1>8. CASE AuditPage
  BY <1>1, <1>8, PageSettlesAudits DEF AuditWalkInv
<1>9. CASE NextPage
  BY <1>1, <1>3, <1>9, NextPageSettlesAudits DEF AuditWalkInv
<1>10. CASE ListPage \/ ListRevisions
  BY <1>1, <1>3, <1>10, ListShape DEF ListReader
<1>11. CASE SummarizeAudits
  BY <1>1, <1>3, <1>11, SummaryShape DEF SummaryReader
<1>12. CASE QueryFails
  BY <1>3, <1>12 DEF QueryFails, Read
<1> QED
  BY <1>4, <1>5, <1>6, <1>7, <1>8, <1>9, <1>10, <1>11, <1>12 DEF Next, Works

\* Who pages through the audit log to its end misses no entry that was there when it
\* began, but one that shares its created_at with another: the query orders by
\* nothing else.
THEOREM AuditWalkMissesNothing == Spec => []AuditWalkMissesOnlyTies
<1>1. Init => AuditWalkInv
  BY InitShape DEF Init, Unread, AuditWalkInv, AuditWalk
<1>2. AuditWalkInv /\ [Next]_vars => AuditWalkInv'
  BY AuditWalkStep
<1>3. AuditWalkInv => AuditWalkMissesOnlyTies
  BY DEF AuditWalkInv, AuditWalk, Passed, AuditWalkMissesOnlyTies
<1> QED
  BY <1>1, <1>2, <1>3, PTL DEF Spec

-----------------------------------------------------------------------------
(* What the parts of a list answer say of each other                       *)

PageInv == RowsInv /\ TotalsCounted /\ ItemsCovered

\* The total is the count of now.
LEMMA CountKeepsPage ==
  ASSUME PageInv, CountRows
  PROVE  TotalsCounted' /\ ItemsCovered'
<1> SUFFICES ASSUME reader'.op = "list" PROVE TotalsCounted' /\ ItemsCovered'
  BY DEF TotalsCounted, ItemsCovered
<1>1. reader \in ListReader \cup AuditReader
  BY Holdings DEF CountRows, PageInv, RowsInv
<1>2. /\ reader.at = "counting" /\ table' = table
      /\ reader' = [reader EXCEPT !.at = "paging", !.total = CountFound]
  BY DEF CountRows, Read
<1>3. reader \in ListReader /\ reader.op = "list"
  BY <1>1, <1>2 DEF ListReader, AuditReader
<1>4. CountFound = Cardinality(Found(reader.filter))
  BY <1>3 DEF CountFound
<1> HIDE DEF CountFound
<1>5. /\ reader'.at = "paging" /\ reader'.total = CountFound /\ reader'.filter = reader.filter
  BY <1>2, <1>3 DEF ListReader
<1>6. Found(reader.filter)' = Found(reader.filter)
  BY <1>2, <1>5 DEF Found, Matches
<1> QED
  BY <1>4, <1>5, <1>6 DEF TotalsCounted, ItemsCovered

\* A page has the length its total leaves for it, if the table is as it was counted;
\* its items are the rows of now.
LEMMA ListKeepsPage ==
  ASSUME PageInv, ListPage
  PROVE  TotalsCounted' /\ ItemsCovered'
<1> DEFINE F == Found(reader.filter)
           n == Cardinality(F)
           order == ListOrder(reader.filter)
           page == reader.page
           ids == PageOf(order, page)
           items == [m \in DOMAIN ids |->
                       [id |-> ids[m], row |-> table[ids[m]], revisions |-> {}]]
           next == IF ids = <<>> THEN "answered" ELSE "revising"
           from == (page - 1) * PageSize
<1>1. /\ reader \in ListReader /\ reader.op = "list" /\ reader.at = "paging"
      /\ table \in [Id -> Row] /\ ShapeInv
  BY Holdings DEF ListPage, PageInv, RowsInv, ShapeInv
<1>2. page \in Nat \ {0}
  BY <1>1 DEF ListReader
<1>3. /\ table' = table /\ walk'.counted = walk.quiet
      /\ reader' = [reader EXCEPT !.at = next, !.items = items, !.seen = @ \cup ToSet(ids)]
  BY <1>1 DEF ListPage, Read, ShapeInv
<1>4. n \in Nat /\ order \in [1 .. n -> F] /\ F \subseteq Id
  BY <1>1, ListOrdered, FoundFinite
<1>5. PageSize \in Nat /\ 1 <= PageSize /\ from \in Nat
  BY <1>2, PageBounds
<1>6. walk.quiet => reader.total = n
  BY <1>1 DEF PageInv, TotalsCounted
<1> HIDE DEF F, n, order, page
<1>7. /\ ids \in Seq(F)
      /\ Len(ids) = IF n <= from THEN 0 ELSE IF n <= from + PageSize THEN n - from ELSE PageSize
  <2>1. ids \in Seq(F) /\ IsPage(ids, order, n, from)
    BY <1>2, <1>4, PageOfOrder
  <2> QED
    BY <2>1 DEF IsPage
<1> HIDE DEF ids
<1>8. Len(ids) \in Nat /\ DOMAIN ids = 1 .. Len(ids) /\ items = [k \in 1 .. Len(ids) |-> items[k]]
      /\ (ids = <<>> => Len(ids) = 0)
  BY <1>7
<1>9. Len(items) = Len(ids)
  BY <1>8, LengthOf
<1>10. /\ DOMAIN items = 1 .. Len(ids)
       /\ \A k \in 1 .. Len(ids) : items[k].row = table[items[k].id] /\ items[k].id \in Id
  BY <1>4, <1>7, <1>8
<1> HIDE DEF items
<1>11. /\ reader'.at = next /\ reader'.page = page /\ reader'.total = reader.total
       /\ reader'.items = items
  BY <1>1, <1>3 DEF ListReader, page
<1> HIDE DEF from
<1>12. Min({PageSize, Max({0, n - from})}) = Len(ids)
  <2>1. Max({0, n - from}) = IF 0 <= n - from THEN n - from ELSE 0
    BY <1>4, <1>5, Larger
  <2> DEFINE rest == IF 0 <= n - from THEN n - from ELSE 0
  <2>2. Min({PageSize, rest}) = IF PageSize <= rest THEN PageSize ELSE rest
    BY <1>4, <1>5, Smaller
  <2>3. (IF PageSize <= rest THEN PageSize ELSE rest) = Len(ids)
    BY <1>4, <1>5, <1>7
  <2> QED
    BY <2>1, <2>2, <2>3
<1>13. TotalsCounted'
  <2>1. Len(ids) <= PageSize
    BY <1>4, <1>5, <1>7
  <2>2. walk'.counted =>
          Len(reader'.items) = Min({PageSize, Max({0, reader'.total - (reader'.page - 1) * PageSize})})
    BY <1>3, <1>6, <1>9, <1>11, <1>12 DEF from
  <2> QED
    BY <1>9, <1>11, <2>1, <2>2 DEF TotalsCounted
<1>14. ItemsCovered'
  <2>1. \A k \in 1 .. Len(ids) : items[k].row.version <= table[items[k].id].version
    BY <1>1, <1>10 DEF Row
  <2>2. next = "answered" => DOMAIN items = {}
    BY <1>8, <1>10
  <2> QED
    BY <1>3, <1>10, <1>11, <2>1, <2>2 DEF ItemsCovered
<1> QED
  BY <1>13, <1>14

\* The revisions of now go up to the version of now.
LEMMA RevisionsKeepPage ==
  ASSUME PageInv, ListRevisions
  PROVE  TotalsCounted' /\ ItemsCovered'
<1> DEFINE items == [n \in DOMAIN reader.items |->
                       [reader.items[n] EXCEPT !.revisions = RevisionsOf(reader.items[n].id)]]
<1>1. reader \in ListReader /\ reader.op = "list" /\ reader.at = "revising"
      /\ table \in [Id -> Row]
  BY Holdings DEF ListRevisions, PageInv, RowsInv, ShapeInv
<1>2. reader.items \in Seq(ListItem)
  BY <1>1 DEF ListReader
<1>3. /\ table' = table /\ walk' = walk
      /\ reader' = [reader EXCEPT !.at = "answered", !.items = items]
  BY DEF ListRevisions, Read
<1>4. /\ DOMAIN reader.items = 1 .. Len(reader.items) /\ Len(reader.items) \in Nat
      /\ DOMAIN items = 1 .. Len(reader.items)
      /\ \A k \in DOMAIN reader.items : reader.items[k] \in ListItem
  BY <1>2
<1>5. ASSUME NEW k \in DOMAIN items
      PROVE  1 .. items[k].row.version \subseteq items[k].revisions
  <2> DEFINE item == reader.items[k]
  <2>1. item \in ListItem /\ item.row.version <= table[item.id].version
    BY <1>1, <1>4 DEF PageInv, ItemsCovered
  <2>2. items[k] = [item EXCEPT !.revisions = RevisionsOf(item.id)]
    OBVIOUS
  <2> HIDE DEF item
  <2>3. items[k].row = item.row /\ items[k].revisions = 1 .. table[item.id].version
    BY <2>1, <2>2 DEF ListItem, RevisionsOf
  <2>4. item.row.version \in Nat /\ table[item.id].version \in Nat
    BY <1>1, <2>1 DEF ListItem, Row
  <2> QED
    BY <2>1, <2>3, <2>4
<1>6. items = [k \in 1 .. Len(reader.items) |-> items[k]]
  BY <1>4
<1>7. Len(items) = Len(reader.items)
  BY <1>4, <1>6, LengthOf
<1> HIDE DEF items
<1>8. /\ reader'.at = "answered" /\ reader'.page = reader.page
      /\ reader'.total = reader.total /\ reader'.items = items
  BY <1>1, <1>3 DEF ListReader
<1>9. TotalsCounted'
  BY <1>1, <1>3, <1>7, <1>8 DEF TotalsCounted, PageInv
<1>10. ItemsCovered'
  BY <1>5, <1>8 DEF ItemsCovered
<1> QED
  BY <1>9, <1>10

\* Rows move on under an answer that is being made.
LEMMA WritersKeepPage ==
  ASSUME PageInv, [Next]_vars, reader' = reader,
         \/ table' = table /\ walk' = walk
         \/ walk'.quiet = FALSE /\ walk'.counted = walk.counted
  PROVE  TotalsCounted' /\ ItemsCovered'
<1>1. /\ table \in [Id -> Row] /\ table' \in [Id -> Row]
  BY ShapeStep DEF PageInv, RowsInv, ShapeInv
<1>2. TotalsCounted'
  <2>1. table' = table => Found(reader.filter)' = Found(reader.filter)
    BY DEF Found, Matches
  <2> QED
    BY <2>1 DEF PageInv, TotalsCounted
<1>3. ItemsCovered'
  <2> SUFFICES ASSUME reader.op = "list", reader.at = "revising", NEW n \in DOMAIN reader.items
               PROVE  reader.items[n].row.version <= table'[reader.items[n].id].version
    BY DEF PageInv, ItemsCovered
  <2> DEFINE item == reader.items[n]
  <2>1. item \in ListItem
    <3>1. reader.items \in Seq(ListItem)
      BY Holdings DEF PageInv, RowsInv, ListReader
    <3> QED
      BY <3>1
  <2>2. item.row.version <= table[item.id].version
    BY DEF PageInv, ItemsCovered
  <2>3. item.id \in Id /\ item.row.version \in Nat
    BY <2>1 DEF ListItem, Row
  <2> HIDE DEF item
  <2>4. Grown(table[item.id], table'[item.id])
    BY <2>3, RowsGrow DEF PageInv
  <2>5. table[item.id] \in Row /\ table'[item.id] \in Row
    BY <1>1, <2>3
  <2>6. table[item.id].version <= table'[item.id].version
    BY <2>4, <2>5 DEF Grown, Row
  <2> QED
    BY <2>2, <2>3, <2>5, <2>6 DEF Row, item
<1> QED
  BY <1>2, <1>3

LEMMA PageStep ==
  ASSUME PageInv, [Next]_vars
  PROVE  PageInv'
<1>1. RowsInv /\ ShapeInv /\ RowsInv'
  BY RowsStep DEF PageInv, RowsInv
<1>2. CASE reader' = reader /\ table' = table /\ walk' = walk
  BY <1>1, <1>2, WritersKeepPage DEF PageInv
<1>3. CASE reader'.op # "list" \/ reader'.at \in {"counting", "finished"}
  BY <1>1, <1>3 DEF PageInv, TotalsCounted, ItemsCovered
<1>4. CASE UNCHANGED vars \/ Tick
  BY <1>2, <1>4 DEF vars, Tick
<1>5. ASSUME NEW w \in Writer, Works(w)
      PROVE  PageInv'
  <2>1. CASE Write(w) /\ Holds(writer[w])
    <3>1. reader' = reader /\ walk'.quiet = FALSE /\ walk'.counted = walk.counted
      BY <1>1, <2>1 DEF Write, ShapeInv
    <3> QED
      BY <1>1, <3>1, WritersKeepPage DEF PageInv
  <2>2. CASE ~(Write(w) /\ Holds(writer[w]))
    BY <1>2, <1>5, <2>2 DEF Works, Begin, BuildStatement, Write, BuildAudit, InsertAudit
  <2> QED
    BY <2>1, <2>2
<1>6. CASE Ask
  <2>1. reader'.op # "list" \/ reader'.at = "counting"
    BY <1>6 DEF Ask, Read
  <2> QED
    BY <1>3, <2>1
<1>7. CASE CountRows
  BY <1>1, <1>7, CountKeepsPage DEF PageInv
<1>8. CASE ListPage
  BY <1>1, <1>8, ListKeepsPage DEF PageInv
<1>9. CASE ListRevisions
  BY <1>1, <1>9, RevisionsKeepPage DEF PageInv
<1>10. CASE AuditPage
  BY <1>1, <1>3, <1>10, AuditShape DEF AuditReader
<1>11. CASE NextPage
  <2>1. reader \in ListReader \cup AuditReader
    BY <1>1, <1>11, Holdings DEF NextPage
  <2>2. reader'.at \in {"counting", "finished"}
    BY <1>11, <2>1 DEF NextPage, Read, ListReader, AuditReader
  <2> QED
    BY <1>3, <2>2
<1>12. CASE SummarizeAudits
  BY <1>1, <1>3, <1>12, SummaryShape DEF SummaryReader
<1>13. CASE QueryFails
  BY <1>3, <1>13 DEF QueryFails, Read
<1> QED
  BY <1>4, <1>5, <1>6, <1>7, <1>8, <1>9, <1>10, <1>11, <1>12, <1>13 DEF Next, Works

LEMMA PageHolds == Spec => []PageInv
<1>1. Init => PageInv
  BY RowsInit DEF Init, Unread, PageInv, TotalsCounted, ItemsCovered
<1>2. PageInv /\ [Next]_vars => PageInv'
  BY PageStep
<1> QED
  BY <1>1, <1>2, PTL DEF Spec

\* The total counted first and the page queried second agree, unless a write was
\* committed between the two queries.
THEOREM TotalAgrees == Spec => []TotalAgreesWithPage
<1>1. PageInv => TotalAgreesWithPage
  BY DEF PageInv, TotalsCounted, TotalAgreesWithPage
<1> QED
  BY <1>1, PageHolds, PTL

\* The revisions that a later query puts with a decision go up to the version it is
\* shown in.
THEOREM RevisionsCover == Spec => []RevisionsCoverItem
<1>1. PageInv => RevisionsCoverItem
  BY DEF PageInv, ItemsCovered, RevisionsCoverItem
<1> QED
  BY <1>1, PageHolds, PTL

\* Tables, log and answers have their shapes, and no page of the list is longer than
\* was asked for.
THEOREM TypeCorrect == Spec => []TypeOK
<1>1. PageInv => TypeOK
  <2> SUFFICES ASSUME PageInv PROVE TypeOK
    OBVIOUS
  <2>1. ShapeInv
    BY DEF PageInv, RowsInv
  <2>2. ASSUME reader.op = "list", reader.at = "answered"
        PROVE  /\ Len(reader.items) <= PageSize
               /\ \A n \in DOMAIN reader.items : reader.items[n].row \in Row
    <3>1. reader.items \in Seq(ListItem)
      BY <2>1, <2>2, Holdings DEF ListReader
    <3>2. \A n \in DOMAIN reader.items : reader.items[n] \in ListItem
      BY <3>1
    <3> QED
      BY <2>2, <3>2 DEF PageInv, TotalsCounted, ListItem
  <2> QED
    BY <2>1, <2>2 DEF ShapeInv, TypeOK
<1> QED
  BY <1>1, PageHolds, PTL

-----------------------------------------------------------------------------
(* The summary                                                             *)

SummaryInv == ShapeInv /\ SummaryOrdered

Transitions == {a \in Counted : a.action = "transition"}

\* A log that grows has more to count.
LEMMA CountsGrow ==
  ASSUME ShapeInv, ShapeInv', auditLog \subseteq auditLog', reader'.since = reader.since
  PROVE  /\ Cardinality(Counted) \in Nat /\ Cardinality(Counted') \in Nat
         /\ Cardinality(Counted) <= Cardinality(Counted')
         /\ Cardinality(Transitions) \in Nat /\ Cardinality(Transitions') \in Nat
         /\ Cardinality(Transitions) <= Cardinality(Transitions')
<1>1. Counted \in SUBSET (Counted') /\ Transitions \in SUBSET (Transitions')
  BY DEF Counted, Transitions
<1>2. Counted' \in SUBSET (auditLog') /\ Transitions' \in SUBSET (auditLog')
  BY DEF Counted, Transitions
<1>3. IsFiniteSet(auditLog')
  BY DEF ShapeInv
<1>4. IsFiniteSet(Counted') /\ IsFiniteSet(Transitions')
  BY <1>2, <1>3, FS_Subset
<1>5. IsFiniteSet(Counted) /\ IsFiniteSet(Transitions)
  BY <1>1, <1>4, FS_Subset
<1> QED
  BY <1>1, <1>4, <1>5, FS_Subset, FS_CardinalityType

\* Entries that come while a summary is made, or after, do not disorder its counts.
LEMMA LogKeepsSummary ==
  ASSUME SummaryInv, ShapeInv', auditLog \subseteq auditLog', reader' = reader
  PROVE  SummaryOrdered'
<1> SUFFICES ASSUME reader.op = "summary" PROVE SummaryOrdered'
  BY DEF SummaryOrdered
<1>1. reader \in SummaryReader
  BY Holdings DEF SummaryInv
<1>2. reader.total \in Nat /\ reader.transitions \in Nat /\ reader.actors \in Nat
  BY <1>1 DEF SummaryReader
<1> DEFINE c == Cardinality(Counted)
           d == Cardinality(Counted')
           s == Cardinality(Transitions)
           t == Cardinality(Transitions')
           sum == Total(reader.actions)
<1>3. c \in Nat /\ d \in Nat /\ c <= d /\ s \in Nat /\ t \in Nat /\ s <= t
  BY CountsGrow DEF SummaryInv
<1>4. /\ After({"transitions", "actors", "actions"}) => reader.total <= c
      /\ After({"actors", "actions"}) => reader.transitions <= s
      /\ After({"actions"}) => reader.actors <= c
      /\ After({"entities"}) => sum <= c
  BY DEF SummaryInv, SummaryOrdered, Transitions
<1>5. /\ After({"entities", "finished"}) => sum \in Nat
      /\ After({"entities"}) => After({"entities", "finished"})
  BY DEF SummaryInv, SummaryOrdered, After
<1> HIDE DEF c, d, s, t, sum
<1>6. /\ After({"transitions", "actors", "actions"}) => reader.total <= d
      /\ After({"actors", "actions"}) => reader.transitions <= t
      /\ After({"actions"}) => reader.actors <= d
      /\ After({"entities"}) => sum <= d
  BY <1>2, <1>3, <1>4, <1>5
<1>7. reader' = reader /\ \A stages : After(stages)' <=> After(stages)
  BY DEF After
<1> QED
  BY <1>6, <1>7 DEF SummaryInv, SummaryOrdered, Transitions, d, t, sum

\* Each count of the summary is of what there is by then.
LEMMA CountKeepsSummary ==
  ASSUME SummaryInv, SummarizeAudits
  PROVE  SummaryOrdered'
<1> DEFINE c == Cardinality(Counted)
           s == Cardinality(Transitions)
           v == Cardinality({a.actor : a \in Counted})
           byAction == CountsBy(Action, "action")
           byEntity == CountsBy(EntityType, "entityType")
<1>1. reader \in SummaryReader /\ reader.op = "summary" /\ auditLog' = auditLog
  BY Holdings DEF SummarizeAudits, Summarise, Read, SummaryInv
<1>2. /\ c \in Nat /\ s \in Nat /\ v \in Nat /\ v <= c
      /\ byAction \in [Action -> Nat] /\ Total(byAction) = c
      /\ byEntity \in [EntityType -> Nat] /\ Total(byEntity) = c
  <2>1. ShapeInv /\ IsFiniteSet(Counted)
    BY CountedFinite DEF SummaryInv
  <2>2. Transitions \in SUBSET Counted
    BY DEF Transitions
  <2>3. s \in Nat
    BY <2>1, <2>2, FS_Subset, FS_CardinalityType
  <2> QED
    BY <2>1, <2>3, CountedFinite, ActorsCounted
<1>3. byAction["transition"] = s
  BY DEF CountsBy, Action, Transitions
<1>4. reader'.since = reader.since => Counted' = Counted /\ Transitions' = Transitions
  BY <1>1 DEF Counted, Transitions
<1>5. /\ After({"transitions", "actors", "actions"}) => reader.total <= c
      /\ After({"actors", "actions"}) => reader.transitions <= s
      /\ After({"actions"}) => reader.actors <= c
      /\ After({"entities"}) =>
           /\ reader.actions \in [Action -> Nat] /\ Total(reader.actions) \in Nat
           /\ reader.total <= Total(reader.actions)
           /\ reader.transitions <= reader.actions["transition"]
           /\ reader.actors <= Total(reader.actions)
           /\ Total(reader.actions) <= c
  BY <1>1 DEF SummaryInv, SummaryOrdered, Transitions, After
<1> HIDE DEF c, s, v, byAction, byEntity
<1>6. CASE Summarise("total", "transitions", "total", c)
  <2>1. /\ reader'.at = "transitions" /\ reader'.total = c /\ reader'.since = reader.since
    BY <1>1, <1>6 DEF Summarise, Read, SummaryReader
  <2> QED
    BY <1>2, <1>4, <2>1 DEF SummaryOrdered, After, c
<1>7. CASE Summarise("transitions", "actors", "transitions", s)
  <2>1. /\ reader'.at = "actors" /\ reader'.transitions = s /\ reader'.since = reader.since
        /\ reader'.total = reader.total /\ reader.total <= c
    BY <1>1, <1>5, <1>7 DEF Summarise, Read, SummaryReader, After
  <2>2. s <= s
    BY <1>2
  <2> QED
    BY <1>4, <2>1, <2>2 DEF SummaryOrdered, After, Transitions, c, s
<1>8. CASE Summarise("actors", "actions", "actors", v)
  <2>1. /\ reader'.at = "actions" /\ reader'.actors = v /\ reader'.since = reader.since
        /\ reader'.total = reader.total /\ reader.total <= c
        /\ reader'.transitions = reader.transitions /\ reader.transitions <= s
    BY <1>1, <1>5, <1>8 DEF Summarise, Read, SummaryReader, After
  <2> QED
    BY <1>2, <1>4, <2>1 DEF SummaryOrdered, After, Transitions, c, s
<1>9. CASE Summarise("actions", "entities", "actions", byAction)
  <2>1. /\ reader'.at = "entities" /\ reader'.actions = byAction /\ reader'.since = reader.since
        /\ reader'.total = reader.total /\ reader.total <= c
        /\ reader'.transitions = reader.transitions /\ reader.transitions <= s
        /\ reader'.actors = reader.actors /\ reader.actors <= c
    BY <1>1, <1>5, <1>9 DEF Summarise, Read, SummaryReader, After
  <2>2. c <= c
    BY <1>2
  <2> QED
    BY <1>2, <1>3, <1>4, <2>1, <2>2 DEF SummaryOrdered, After, c
<1>10. CASE Summarise("entities", "finished", "entities", byEntity)
  <2>1. /\ reader'.at = "finished" /\ reader'.entities = byEntity
        /\ reader'.total = reader.total /\ reader'.actions = reader.actions
        /\ reader'.transitions = reader.transitions /\ reader'.actors = reader.actors
        /\ reader.at = "entities"
    BY <1>1, <1>10 DEF Summarise, Read, SummaryReader
  <2> QED
    BY <1>2, <1>5, <2>1 DEF SummaryOrdered, After
<1> QED
  BY <1>6, <1>7, <1>8, <1>9, <1>10 DEF SummarizeAudits, Transitions, c, s, v, byAction, byEntity

LEMMA SummaryStep ==
  ASSUME SummaryInv, [Next]_vars
  PROVE  SummaryInv'
<1>1. ShapeInv /\ ShapeInv'
  BY ShapeStep DEF SummaryInv
<1>2. CASE auditLog \subseteq auditLog' /\ reader' = reader
  BY <1>1, <1>2, LogKeepsSummary DEF SummaryInv
<1>3. CASE reader'.op # "summary"
  BY <1>1, <1>3 DEF SummaryInv, SummaryOrdered
<1>4. CASE UNCHANGED vars \/ Tick \/ \E w \in Writer : Works(w)
  BY <1>2, <1>4 DEF vars, Tick, Works, Begin, BuildStatement, Write, BuildAudit, InsertAudit
<1>5. CASE Ask
  <2>1. reader'.op # "summary" \/ reader'.at = "total"
    BY <1>5 DEF Ask, Read
  <2> QED
    BY <1>1, <1>3, <2>1 DEF SummaryInv, SummaryOrdered, After
<1>6. CASE CountRows
  BY <1>1, <1>3, <1>6, CountShape DEF ListReader, AuditReader
<1>7. CASE ListPage \/ ListRevisions
  BY <1>1, <1>3, <1>7, ListShape DEF ListReader
<1>8. CASE AuditPage
  BY <1>1, <1>3, <1>8, AuditShape DEF AuditReader
<1>9. CASE NextPage
  BY <1>1, <1>3, <1>9, NextShape DEF ListReader, AuditReader
<1>10. CASE SummarizeAudits
  BY <1>1, <1>10, CountKeepsSummary DEF SummaryInv
<1>11. CASE QueryFails
  BY <1>3, <1>11 DEF QueryFails, Read
<1> QED
  BY <1>4, <1>5, <1>6, <1>7, <1>8, <1>9, <1>10, <1>11 DEF Next, Works

\* No later count of a summary is smaller than an earlier one of the same entries:
\* all five look back to one instant, and the log only grows.
THEOREM SummaryCountsGrow == Spec => []SummaryGrows
<1>1. Init => SummaryInv
  BY InitShape DEF Init, Unread, SummaryInv, SummaryOrdered
<1>2. SummaryInv /\ [Next]_vars => SummaryInv'
  BY SummaryStep
<1>3. SummaryInv => SummaryGrows
  BY DEF SummaryInv, SummaryOrdered, SummaryGrows, After
<1> QED
  BY <1>1, <1>2, <1>3, PTL DEF Spec
==============================================================================
