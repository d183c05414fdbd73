-------------------------- MODULE PortfolioProofs ---------------------------
(***************************************************************************)
(* Proofs about Portfolio, for whatever the files, the APIs and the node   *)
(* report, for any number of days, snapshots and goroutines.               *)
(*                                                                         *)
(* A reconstruction is two folds: one keeps the rows a cycle stored, the   *)
(* other inserts a row for each other day.  What they make of the table is *)
(* settled first, of any table; the rest is what a step does to it.        *)
(***************************************************************************)
EXTENDS Portfolio, ImportBookProofs

-----------------------------------------------------------------------------
(* Rows for the days of a table.                                            *)

\* One day more: of the last of s, on top of the rows for the others.
DayMore(F, rows, table, s) ==
    IF s = {} THEN rows ELSE Append(F[s \ {Max(s)}], Backfilled(Max(s), table[Max(s)]))
InsertedBy(F, rows, table, sets) == F = [s \in sets |-> DayMore(F, rows, table, s)]

LEMMA SmallInserts ==
    ASSUME NEW rows, NEW table, NEW A, IsFiniteSet(A), A \subseteq Nat, NEW n \in Nat
    PROVE  \E F : InsertedBy(F, rows, table, Small(A, n))
<1> DEFINE P == {k \in 0 .. n : \E F : InsertedBy(F, rows, table, Small(A, k))}
<1>1. 0 \in P
  <2> DEFINE F == [s \in Small(A, 0) |-> rows]
  <2>1. InsertedBy(F, rows, table, Small(A, 0))
    BY NoneIsSmall DEF InsertedBy, DayMore
  <2> QED BY <2>1
<1>2. ASSUME NEW k \in 1 .. n, k - 1 \in P
      PROVE  k \in P
  <2>1. PICK F : InsertedBy(F, rows, table, Small(A, k - 1))
    BY <1>2
  <2> DEFINE G == [s \in Small(A, k) |-> DayMore(F, rows, table, s)]
  <2>2. ASSUME NEW s \in Small(A, k)
        PROVE  DayMore(F, rows, table, s) = DayMore(G, rows, table, s)
    <3>1. CASE s = {}
      BY <3>1 DEF DayMore
    <3>2. CASE s # {}
      <4>1. Max(s) \in s
        BY <3>2, Largest, FS_Subset DEF Small
      <4>2. s \ {Max(s)} \in Small(A, k - 1) /\ s \ {Max(s)} \in Small(A, k)
        BY <4>1, OneOfSmall
      <4>3. F[s \ {Max(s)}] = DayMore(F, rows, table, s \ {Max(s)})
        BY <2>1, <4>2 DEF InsertedBy
      <4>4. G[s \ {Max(s)}] = DayMore(F, rows, table, s \ {Max(s)})
        BY <4>2
      <4> HIDE DEF G
      <4> QED BY <3>2, <4>3, <4>4, Zenon DEF DayMore
    <3> QED BY <3>1, <3>2
  <2> DEFINE H == [s \in Small(A, k) |-> DayMore(G, rows, table, s)]
  <2>3. G = H
    BY <2>2
  <2> HIDE DEF G
  <2>4. InsertedBy(G, rows, table, Small(A, k))
    BY <2>3 DEF InsertedBy
  <2> QED BY <2>4
<1> HIDE DEF P
<1>3. n \in P
  BY <1>1, <1>2, UpTo
<1> QED
  BY <1>3 DEF P

LEMMA InsertIsDefined ==
    ASSUME NEW rows, NEW table, IsFiniteSet(DOMAIN table), DOMAIN table \subseteq Nat
    PROVE  \E F : InsertedBy(F, rows, table, SUBSET DOMAIN table) /\ Inserted(rows, table) = F[DOMAIN table]
<1> DEFINE F == CHOOSE F : InsertedBy(F, rows, table, SUBSET DOMAIN table)
<1>1. InsertedBy(F, rows, table, SUBSET DOMAIN table)
  <2>1. \E G : InsertedBy(G, rows, table, Small(DOMAIN table, Cardinality(DOMAIN table)))
    BY AllAreSmall, SmallInserts
  <2> QED BY <2>1, AllAreSmall
<1>2. Inserted(rows, table) = F[DOMAIN table]
  BY DEF Inserted, MapThenFoldSet, InsertedBy, DayMore
<1> HIDE DEF F
<1> QED
  BY <1>1, <1>2

\* The rows that were there, then one for each day of s.
OneRowPerDay(result, rows, table, s) ==
    /\ result \in Seq(UNION {Range(rows), {Backfilled(d, table[d]) : d \in s}})
    /\ Len(rows) <= Len(result)
    /\ \A i \in 1 .. Len(rows) : result[i] = rows[i]
    /\ \A i \in Len(rows) + 1 .. Len(result) : \E d \in s : result[i] = Backfilled(d, table[d])
    /\ \A d \in s : \E i \in Len(rows) + 1 .. Len(result) : result[i] = Backfilled(d, table[d])
    /\ \A i, j \in Len(rows) + 1 .. Len(result) : result[i].day = result[j].day => i = j

LEMMA DayOnTop ==
    ASSUME NEW V, NEW rows \in Seq(V), NEW table, NEW s, NEW d, d \notin s,
           NEW result, OneRowPerDay(result, rows, table, s)
    PROVE  OneRowPerDay(Append(result, Backfilled(d, table[d])), rows, table, s \cup {d})
<1> DEFINE n == Len(rows)
           m == Len(result)
           row == Backfilled(d, table[d])
           more == Append(result, row)
           W == UNION {Range(rows), {Backfilled(e, table[e]) : e \in s \cup {d}}}
<1>1. \A e : Backfilled(e, table[e]).day = e
  BY DEF Backfilled
<1>2. result \in Seq(W) /\ m \in Nat /\ n \in Nat /\ n <= m /\ row \in W
  <2>1. UNION {Range(rows), {Backfilled(e, table[e]) : e \in s}} \subseteq W
    OBVIOUS
  <2>2. result \in Seq(UNION {Range(rows), {Backfilled(e, table[e]) : e \in s}}) /\ n <= m
    BY DEF OneRowPerDay
  <2> HIDE DEF W
  <2>3. result \in Seq(W)
    BY <2>1, <2>2
  <2>4. row \in W
    BY DEF W
  <2> QED BY <2>2, <2>3, <2>4
<1>3. /\ more \in Seq(W) /\ Len(more) = m + 1 /\ more[m + 1] = row
      /\ \A i \in 1 .. m : more[i] = result[i]
  <2> HIDE DEF W, row
  <2> QED BY <1>2
<1>4. /\ \A i \in 1 .. n : result[i] = rows[i]
      /\ \A i \in n + 1 .. m : \E e \in s : result[i] = Backfilled(e, table[e])
      /\ \A e \in s : \E i \in n + 1 .. m : result[i] = Backfilled(e, table[e])
      /\ \A i, j \in n + 1 .. m : result[i].day = result[j].day => i = j
  BY DEF OneRowPerDay
<1>5. row = Backfilled(d, table[d])
  OBVIOUS
<1> HIDE DEF more, row, W, n, m
<1>6. n <= m + 1 /\ 1 .. n \subseteq 1 .. m /\ n + 1 .. m \subseteq 1 .. m /\ n + 1 .. m \subseteq n + 1 .. m + 1
      /\ m + 1 \in n + 1 .. m + 1 /\ \A i \in n + 1 .. m + 1 : i \in n + 1 .. m \/ i = m + 1
  BY <1>2
<1>7. \A i \in 1 .. n : more[i] = rows[i]
  BY <1>3, <1>4, <1>6, Zenon
<1>8. ASSUME NEW i \in n + 1 .. m
      PROVE  \E e \in s : more[i] = Backfilled(e, table[e])
  <2>1. PICK e \in s : result[i] = Backfilled(e, table[e])
    BY <1>4, Zenon
  <2>2. more[i] = result[i]
    BY <1>3, <1>6, Zenon
  <2> QED BY <2>1, <2>2
<1>9. \A i \in n + 1 .. m + 1 : \E e \in s \cup {d} : more[i] = Backfilled(e, table[e])
  <2>1. \A e \in s : e \in s \cup {d}
    OBVIOUS
  <2>2. d \in s \cup {d}
    OBVIOUS
  <2> QED BY <1>3, <1>5, <1>6, <1>8, <2>1, <2>2, Zenon
<1>10. \A e \in s \cup {d} : \E i \in n + 1 .. m + 1 : more[i] = Backfilled(e, table[e])
  <2> SUFFICES ASSUME NEW e \in s \cup {d}
               PROVE  \E i \in n + 1 .. m + 1 : more[i] = Backfilled(e, table[e])
    OBVIOUS
  <2>1. CASE e = d
    BY <1>3, <1>5, <1>6, <2>1, Zenon
  <2>2. CASE e \in s
    <3>1. PICK i \in n + 1 .. m : result[i] = Backfilled(e, table[e])
      BY <1>4, <2>2, Zenon
    <3> QED BY <1>3, <1>6, <3>1, Zenon
  <2> QED BY <2>1, <2>2
<1>11. ASSUME NEW i \in n + 1 .. m
       PROVE  more[i].day # more[m + 1].day
  <2>1. PICK e \in s : more[i] = Backfilled(e, table[e])
    BY <1>8
  <2> QED BY <1>1, <1>3, <1>5, <2>1
<1>12. \A i, j \in n + 1 .. m + 1 : more[i].day = more[j].day => i = j
  <2> SUFFICES ASSUME NEW i \in n + 1 .. m + 1, NEW j \in n + 1 .. m + 1, more[i].day = more[j].day
               PROVE  i = j
    OBVIOUS
  <2>1. CASE i \in n + 1 .. m /\ j \in n + 1 .. m
    BY <1>3, <1>4, <1>6, <2>1, Zenon
  <2>2. CASE ~ (i \in n + 1 .. m /\ j \in n + 1 .. m)
    BY <1>6, <1>11, <2>2, Zenon
  <2> QED BY <2>1, <2>2
<1>13. more = Append(result, Backfilled(d, table[d]))
  BY DEF more, row
<1>14. more \in Seq(UNION {Range(rows), {Backfilled(e, table[e]) : e \in s \cup {d}}})
  BY <1>3 DEF W
<1>15. Len(rows) = n
  BY DEF n
<1>16. Len(rows) <= Len(more)
  BY <1>3, <1>6, <1>15
<1>17. OneRowPerDay(more, rows, table, s \cup {d})
  BY <1>3, <1>7, <1>9, <1>10, <1>12, <1>14, <1>15, <1>16, Zenon DEF OneRowPerDay
<1> QED
  BY <1>13, <1>17

LEMMA InsertedIs ==
    ASSUME NEW V, NEW rows \in Seq(V), NEW table, IsFiniteSet(DOMAIN table), DOMAIN table \subseteq Nat
    PROVE  OneRowPerDay(Inserted(rows, table), rows, table, DOMAIN table)
<1> DEFINE D == DOMAIN table
           n == Cardinality(D)
<1>1. PICK F : InsertedBy(F, rows, table, SUBSET D) /\ Inserted(rows, table) = F[D]
  BY InsertIsDefined
<1>2. n \in Nat /\ Small(D, n) = SUBSET D
  BY AllAreSmall
<1>3. \A s \in SUBSET D : F[s] = DayMore(F, rows, table, s)
  BY <1>1 DEF InsertedBy
<1> HIDE DEF n
<1> DEFINE P == {k \in 0 .. n : \A s \in Small(D, k) : OneRowPerDay(F[s], rows, table, s)}
<1>4. OneRowPerDay(rows, rows, table, {})
  <2>1. Len(rows) \in Nat /\ rows \in Seq(UNION {Range(rows), {}}) /\ {Backfilled(d, table[d]) : d \in {}} = {}
    BY DEF Range
  <2>2. \A i \in Len(rows) + 1 .. Len(rows) : FALSE
    BY <2>1
  <2> QED BY <2>1, <2>2 DEF OneRowPerDay
<1>5. \A s \in SUBSET D : s = {} => OneRowPerDay(F[s], rows, table, s)
  <2>1. F[{}] = rows
    BY <1>3 DEF DayMore
  <2> QED BY <1>4, <2>1
<1>6. 0 \in P
  BY <1>2, <1>5, NoneIsSmall
<1>7. ASSUME NEW k \in 1 .. n, k - 1 \in P
      PROVE  k \in P
  <2> SUFFICES ASSUME NEW s \in Small(D, k), s # {}
               PROVE  OneRowPerDay(F[s], rows, table, s)
    BY <1>2, <1>5 DEF Small
  <2>1. s \in SUBSET D /\ IsFiniteSet(s)
    BY FS_Subset DEF Small
  <2> DEFINE d == Max(s)
             u == s \ {d}
  <2>2. d \in s
    BY <2>1, Largest
  <2>3. u \in Small(D, k - 1)
    <3>1. k \in Nat
      BY <1>2
    <3> HIDE DEF d
    <3> QED BY <2>2, <3>1, OneOfSmall, Zenon
  <2>4. OneRowPerDay(F[u], rows, table, u)
    BY <1>7, <2>3
  <2>5. F[s] = Append(F[u], Backfilled(d, table[d]))
    BY <1>3, <2>1 DEF DayMore
  <2>6. d \notin u /\ u \cup {d} = s
    BY <2>2
  <2> HIDE DEF d, u
  <2>7. OneRowPerDay(Append(F[u], Backfilled(d, table[d])), rows, table, u \cup {d})
    BY <2>4, <2>6, DayOnTop, Zenon
  <2> QED BY <2>5, <2>6, <2>7
<1>8. n \in P
  <2> HIDE DEF P
  <2>1. n \in Nat /\ n \in 0 .. n
    BY <1>2
  <2>2. \A k \in 1 .. n : k - 1 \in P => k \in P
    BY <1>7
  <2>3. \A k \in 0 .. n : k \in P
    BY <1>6, <2>1, <2>2, UpTo, Zenon
  <2> QED BY <2>1, <2>3
<1>9. D \in Small(D, n)
  BY <1>2
<1> QED
  BY <1>1, <1>8, <1>9

-----------------------------------------------------------------------------
(* The invariant, of the rows of portfolio_snapshots.                       *)

SnapshotRow == [day : Nat, total : Int, details : Int, live : BOOLEAN]
LiveDaysOf(rows) == {rows[i].day : i \in {k \in DOMAIN rows : rows[k].live}}

\* What a cycle stored of a day comes after what was reconstructed of it.
SeenAfter(rows) ==
    \A i, j \in DOMAIN rows : rows[i].day = rows[j].day /\ rows[i].live /\ ~rows[j].live => j < i

OneBackfill(rows) ==
    \A i, j \in DOMAIN rows : rows[i].day = rows[j].day /\ ~rows[i].live /\ ~rows[j].live => i = j

Detailed(rows) == \A i \in DOMAIN rows : rows[i].live => rows[i].details = rows[i].total

RowsFine(rows) ==
    rows \in Seq(SnapshotRow) /\ SeenAfter(rows) /\ OneBackfill(rows) /\ Detailed(rows)

Reconstructed(rows, table) == \A d \in DOMAIN table : \E i \in DOMAIN rows : rows[i] = Backfilled(d, table[d])

LEMMA BackfillType ==
    ASSUME NEW d \in Nat, NEW t \in Int
    PROVE  /\ Backfilled(d, t) \in SnapshotRow /\ Backfilled(d, t).day = d
           /\ Backfilled(d, t).total = t /\ ~Backfilled(d, t).live
  BY DEF Backfilled, SnapshotRow

\* After a reconstruction: rows a cycle stored, then one for each other day.
ReplacedIn(result, rows, table) ==
    /\ RowsFine(result) /\ LiveDaysOf(result) = LiveDaysOf(rows) /\ Reconstructed(result, table)

LEMMA BackfillKeeps ==
    ASSUME NEW rows, RowsFine(rows), NEW table, IsFiniteSet(DOMAIN table), DOMAIN table \subseteq Nat,
           \A d \in DOMAIN table : table[d] \in Int /\ d \notin LiveDaysOf(rows)
    PROVE  ReplacedIn(Inserted(Only(rows, {row \in Range(rows) : row.live}), table), rows, table)
<1> DEFINE S == {row \in Range(rows) : row.live}
           kept == Only(rows, S)
           result == Inserted(kept, table)
<1>1. rows \in Seq(SnapshotRow) /\ DOMAIN rows = 1 .. Len(rows) /\ Len(rows) \in Nat
  BY DEF RowsFine
<1>2. \A j \in 1 .. Len(rows) : rows[j] \in S <=> rows[j].live
  BY <1>1, Zenon DEF Range
<1> HIDE DEF S
<1>3. KeptOf(kept, rows, S, Len(rows), SnapshotRow)
  BY <1>1, OnlyKeeps, Zenon
<1>4. kept \in Seq(SnapshotRow) /\ Len(kept) \in Nat /\ DOMAIN kept = 1 .. Len(kept)
  BY <1>3 DEF KeptOf
<1>5. OneRowPerDay(result, kept, table, DOMAIN table)
  BY <1>4, InsertedIs, Zenon
<1> HIDE DEF kept, result
<1> DEFINE n == Len(kept)
           m == Len(result)
<1>6. m \in Nat /\ DOMAIN result = 1 .. m /\ n <= m
  BY <1>5 DEF OneRowPerDay
<1>7. /\ \A i \in 1 .. n : result[i] = kept[i]
      /\ \A i \in n + 1 .. m : \E d \in DOMAIN table : result[i] = Backfilled(d, table[d])
      /\ \A d \in DOMAIN table : \E i \in n + 1 .. m : result[i] = Backfilled(d, table[d])
      /\ \A i, j \in n + 1 .. m : result[i].day = result[j].day => i = j
  BY <1>5 DEF OneRowPerDay
<1>8. /\ \A i \in 1 .. n : \E j \in 1 .. Len(rows) : kept[i] = rows[j] /\ rows[j] \in S
      /\ \A j \in 1 .. Len(rows) : rows[j] \in S => \E i \in 1 .. n : kept[i] = rows[j]
  BY <1>3, Zenon DEF KeptOf
<1>9. /\ \A i \in 1 .. m : i \in 1 .. n \/ i \in n + 1 .. m
      /\ 1 .. n \subseteq 1 .. m /\ n + 1 .. m \subseteq 1 .. m
      /\ \A i \in 1 .. n, j \in n + 1 .. m : i < j
  BY <1>4, <1>6
<1>20. result = [i \in 1 .. m |-> result[i]]
  BY <1>5, <1>6 DEF OneRowPerDay
<1> HIDE DEF n, m
\* An old row.
<1>10. ASSUME NEW i \in 1 .. n
       PROVE  \E j \in 1 .. Len(rows) : result[i] = rows[j] /\ rows[j].live
  <2>1. PICK j \in 1 .. Len(rows) : kept[i] = rows[j] /\ rows[j] \in S
    BY <1>8, Zenon
  <2>2. result[i] = kept[i] /\ rows[j].live
    BY <1>2, <1>7, <2>1, Zenon
  <2> QED BY <2>1, <2>2, Zenon
<1>11. \A i \in 1 .. n : /\ result[i] \in SnapshotRow /\ result[i].live
                         /\ result[i].day \in LiveDaysOf(rows) /\ result[i].details = result[i].total
  <2> SUFFICES ASSUME NEW i \in 1 .. n
               PROVE  /\ result[i] \in SnapshotRow /\ result[i].live
                      /\ result[i].day \in LiveDaysOf(rows) /\ result[i].details = result[i].total
    OBVIOUS
  <2>1. PICK j \in 1 .. Len(rows) : result[i] = rows[j] /\ rows[j].live
    BY <1>10
  <2>2. rows[j] \in SnapshotRow
    BY <1>1
  <2>3. rows[j].details = rows[j].total
    BY <1>1, <2>1, Zenon DEF RowsFine, Detailed
  <2>4. rows[j].day \in LiveDaysOf(rows)
    BY <1>1, <2>1, Zenon DEF LiveDaysOf
  <2> QED BY <2>1, <2>2, <2>3, <2>4, Zenon
\* A new row.
<1>12. \A i \in n + 1 .. m : /\ result[i] \in SnapshotRow /\ ~result[i].live
                             /\ result[i].day \notin LiveDaysOf(rows)
  <2> SUFFICES ASSUME NEW i \in n + 1 .. m
               PROVE  result[i] \in SnapshotRow /\ ~result[i].live /\ result[i].day \notin LiveDaysOf(rows)
    OBVIOUS
  <2>1. PICK d \in DOMAIN table : result[i] = Backfilled(d, table[d])
    BY <1>7, Zenon
  <2>2. d \in Nat /\ table[d] \in Int /\ d \notin LiveDaysOf(rows)
    OBVIOUS
  <2>3. PICK t \in Int : t = table[d]
    BY <2>2
  <2>4. Backfilled(d, t) \in SnapshotRow /\ Backfilled(d, t).day = d /\ ~Backfilled(d, t).live
    BY <2>2, BackfillType, Zenon
  <2>5. result[i] = Backfilled(d, t)
    BY <2>1, <2>3
  <2> QED BY <2>2, <2>4, <2>5, Zenon
<1>13. result \in Seq(SnapshotRow)
  <2>1. \A i \in 1 .. m : result[i] \in SnapshotRow
    BY <1>9, <1>11, <1>12, Zenon
  <2>2. result \in [1 .. m -> SnapshotRow]
    BY <1>20, <2>1, Zenon
  <2> QED BY <1>6, <2>2, FunctionIsSequence, Zenon
<1>14. SeenAfter(result)
  BY <1>6, <1>9, <1>11, <1>12, Zenon DEF SeenAfter
<1>15. OneBackfill(result)
  BY <1>6, <1>7, <1>9, <1>11, Zenon DEF OneBackfill
<1>16. Detailed(result)
  BY <1>6, <1>9, <1>11, <1>12, Zenon DEF Detailed
<1>17. LiveDaysOf(result) = LiveDaysOf(rows)
  <2>1. ASSUME NEW d \in LiveDaysOf(result)
        PROVE  d \in LiveDaysOf(rows)
    <3>1. PICK i \in 1 .. m : result[i].live /\ d = result[i].day
      BY <1>6, Zenon DEF LiveDaysOf
    <3> QED BY <1>9, <1>11, <1>12, <3>1, Zenon
  <2>2. ASSUME NEW d \in LiveDaysOf(rows)
        PROVE  d \in LiveDaysOf(result)
    <3>1. PICK j \in 1 .. Len(rows) : rows[j].live /\ d = rows[j].day
      BY <1>1, Zenon DEF LiveDaysOf
    <3>2. PICK i \in 1 .. n : kept[i] = rows[j]
      BY <1>2, <1>8, <3>1, Zenon
    <3>3. i \in 1 .. m /\ result[i].live /\ d = result[i].day
      BY <1>7, <1>9, <3>1, <3>2, Zenon
    <3> QED BY <1>6, <3>3, Zenon DEF LiveDaysOf
  <2> QED BY <2>1, <2>2, Zenon
<1>18. Reconstructed(result, table)
  <2> SUFFICES ASSUME NEW d \in DOMAIN table
               PROVE  \E i \in DOMAIN result : result[i] = Backfilled(d, table[d])
    BY DEF Reconstructed
  <2>1. PICK i \in n + 1 .. m : result[i] = Backfilled(d, table[d])
    BY <1>7, Zenon
  <2> QED BY <1>6, <1>9, <2>1, Zenon
<1>19. ReplacedIn(result, rows, table)
  BY <1>13, <1>14, <1>15, <1>16, <1>17, <1>18, Zenon DEF ReplacedIn, RowsFine
<1> QED
  BY <1>19 DEF result, kept, S

\* A cycle's row goes on top.
LEMMA CaptureKeeps ==
    ASSUME NEW rows, RowsFine(rows), NEW row \in SnapshotRow, row.live, row.details = row.total
    PROVE  RowsFine(Append(rows, row))
<1> DEFINE n == Len(rows)
           more == Append(rows, row)
<1>1. rows \in Seq(SnapshotRow) /\ n \in Nat /\ DOMAIN rows = 1 .. n
  BY DEF RowsFine
<1>2. /\ more \in Seq(SnapshotRow) /\ DOMAIN more = 1 .. n + 1 /\ more[n + 1] = row
      /\ \A i \in 1 .. n : more[i] = rows[i]
  BY <1>1
<1>3. \A i \in 1 .. n + 1 : i = n + 1 \/ (i \in 1 .. n /\ i < n + 1)
  BY <1>1
<1> HIDE DEF more, n
<1>4. SeenAfter(more)
  BY <1>1, <1>2, <1>3, Zenon DEF RowsFine, SeenAfter
<1>5. OneBackfill(more)
  BY <1>1, <1>2, <1>3, Zenon DEF RowsFine, OneBackfill
<1>6. Detailed(more)
  BY <1>1, <1>2, <1>3, Zenon DEF RowsFine, Detailed
<1>7. RowsFine(more)
  BY <1>2, <1>4, <1>5, <1>6, Zenon DEF RowsFine
<1> QED
  BY <1>7 DEF more

-----------------------------------------------------------------------------
(* Sums of sats and days.                                                   *)

WalletOK(w, now) == DOMAIN w \subseteq 0 .. now /\ \A d \in DOMAIN w : w[d] \in Nat
DaysOf(rows, w) == {rows[key].at : key \in DOMAIN rows} \cup DOMAIN w
\* What the rows and the wallet of up to a day come to.
ThenOf(rows, w, day) ==
    AsOf(w, day) + SumFunction([key \in {k \in DOMAIN rows : rows[k].at <= day} |-> rows[key].sat])

LEMMA SatsAreNumber ==
    ASSUME NEW rows, RowsOK(rows), IsFiniteSet(DOMAIN rows), NEW S, S \subseteq DOMAIN rows
    PROVE  SumFunction([key \in S |-> rows[key].sat]) \in Int
<1> DEFINE c == [key \in S |-> rows[key].sat]
<1>1. DOMAIN c = S /\ IsFiniteSet(S)
  BY FS_Subset
<1>2. \A key \in S : c[key] = rows[key].sat /\ rows[key].sat \in Int
  <2>1. \A key \in S : rows[key].sat \in Int
    BY Zenon DEF RowsOK
  <2> QED BY <2>1
<1> HIDE DEF c
<1>3. SumFunction(c) \in Int
  BY <1>1, <1>2, SumIsNumber, Zenon
<1> QED
  BY <1>3 DEF c

LEMMA AsOfIsNumber ==
    ASSUME NEW w, NEW now \in Nat, WalletOK(w, now), NEW day
    PROVE  AsOf(w, day) \in Nat
<1> DEFINE before == {d \in DOMAIN w : d <= day}
<1>1. before \subseteq 0 .. now
  BY DEF WalletOK
<1>2. IsFiniteSet(before) /\ before \subseteq Nat
  <2>1. IsFiniteSet(0 .. now)
    BY FS_Interval
  <2> QED BY <1>1, <2>1, FS_Subset
<1>3. before # {} => Max(before) \in before
  <2> HIDE DEF before
  <2> QED BY <1>2, Largest, Zenon
<1>4. AsOf(w, day) = IF before = {} THEN 0 ELSE w[Max(before)]
  BY DEF AsOf
<1>5. before # {} => w[Max(before)] \in Nat
  <2>1. \A d \in before : w[d] \in Nat
    BY Zenon DEF WalletOK
  <2> HIDE DEF before
  <2> QED BY <1>3, <2>1, Zenon
<1>6. 0 \in Nat
  OBVIOUS
<1> QED
  BY <1>4, <1>5, <1>6, Zenon

LEMMA DaysAreNumbers ==
    ASSUME NEW rows, RowsOK(rows), IsFiniteSet(DOMAIN rows), NEW w, NEW now \in Nat, WalletOK(w, now)
    PROVE  IsFiniteSet(DaysOf(rows, w)) /\ DaysOf(rows, w) \subseteq Nat
<1> DEFINE T == {rows[key].at : key \in DOMAIN rows}
           f == [key \in DOMAIN rows |-> rows[key].at]
<1>1. f \in Surjection(DOMAIN rows, T)
  BY DEF Surjection
<1>2. IsFiniteSet(T)
  <2> HIDE DEF f, T
  <2> QED BY <1>1, FS_Surjection, Zenon
<1>3. T \subseteq Nat
  BY Zenon DEF RowsOK
<1>4. IsFiniteSet(DOMAIN w) /\ DOMAIN w \subseteq Nat
  <2>1. IsFiniteSet(0 .. now) /\ DOMAIN w \subseteq 0 .. now
    BY FS_Interval DEF WalletOK
  <2> QED BY <2>1, FS_Subset
<1>5. DaysOf(rows, w) = T \cup DOMAIN w
  BY DEF DaysOf
<1> HIDE DEF T
<1>6. IsFiniteSet(T \cup DOMAIN w)
  BY <1>2, <1>4, FS_Union, Zenon
<1> QED
  BY <1>3, <1>4, <1>5, <1>6

-----------------------------------------------------------------------------
(* The invariant.                                                           *)

\* Each day that was not seen has the row that is due.
UpToDate(shown, rows, w) ==
    \A day \in DaysOf(rows, w) \ LiveDaysOf(shown) :
        \E i \in DOMAIN shown : shown[i] = Backfilled(day, ThenOf(rows, w, day))

PortfolioInv ==
    /\ BookInv /\ RowsFine(snapshots)
    /\ today \in Day /\ asked \in 0 .. MaxAsked
    /\ WalletOK(wallet, today) /\ liveBalance \in [strike : Int, coinbase : Int]
    /\ asked = 0 /\ ~excused => UpToDate(snapshots, imports, wallet)

LEMMA BookFacts ==
    ASSUME BookInv
    PROVE  RowsOK(imports) /\ IsFiniteSet(DOMAIN imports)
  BY BookParts, Zenon DEF BookInv, BookOK

LEMMA ReplayIs ==
    Replay = [day \in DaysOf(imports, wallet) \ LiveDaysOf(snapshots) |-> ThenOf(imports, wallet, day)]
  BY DEF Replay, Days, LiveDays, DaysOf, LiveDaysOf, ThenOf, Sats

LEMMA ThenIsNumber ==
    ASSUME PortfolioInv, NEW day
    PROVE  ThenOf(imports, wallet, day) \in Int
<1>1. today \in Nat
  <2>1. today \in 0 .. LastDay
    BY DEF PortfolioInv, Day
  <2> QED BY <2>1
<1>2. AsOf(wallet, day) \in Nat
  BY <1>1, AsOfIsNumber, Zenon DEF PortfolioInv
<1>3. SumFunction([key \in {k \in DOMAIN imports : imports[k].at <= day} |-> imports[key].sat]) \in Int
  <2>1. {k \in DOMAIN imports : imports[k].at <= day} \subseteq DOMAIN imports
    OBVIOUS
  <2> QED BY <2>1, BookFacts, SatsAreNumber, Zenon DEF PortfolioInv
<1>4. PICK a \in Nat, b \in Int :
         /\ a = AsOf(wallet, day)
         /\ b = SumFunction([key \in {k \in DOMAIN imports : imports[k].at <= day} |-> imports[key].sat])
  BY <1>2, <1>3, Zenon
<1>5. ThenOf(imports, wallet, day) = a + b
  BY <1>4, Zenon DEF ThenOf
<1> QED
  BY <1>5

LEMMA ReplaceIs ==
    ASSUME PortfolioInv
    PROVE  ReplacedIn(ReplaceBackfill, snapshots, Replay)
<1>1. IsFiniteSet(DOMAIN Replay) /\ DOMAIN Replay \subseteq Nat
  <2>1. today \in Nat
    <3>1. today \in 0 .. LastDay
      BY DEF PortfolioInv, Day
    <3> QED BY <3>1
  <2>2. IsFiniteSet(DaysOf(imports, wallet)) /\ DaysOf(imports, wallet) \subseteq Nat
    BY <2>1, BookFacts, DaysAreNumbers, Zenon DEF PortfolioInv
  <2>3. DOMAIN Replay \subseteq DaysOf(imports, wallet)
    BY ReplayIs
  <2> QED BY <2>2, <2>3, FS_Subset, Zenon
<1>2. ASSUME NEW d \in DOMAIN Replay
      PROVE  Replay[d] \in Int /\ d \notin LiveDaysOf(snapshots)
  <2>1. d \notin LiveDaysOf(snapshots) /\ Replay[d] = ThenOf(imports, wallet, d)
    BY ReplayIs
  <2> QED BY <2>1, ThenIsNumber, Zenon
<1>3. RowsFine(snapshots)
  BY DEF PortfolioInv
<1> QED
  BY <1>1, <1>2, <1>3, BackfillKeeps, Zenon DEF ReplaceBackfill

\* No row of the collateral is ever booked, so there is nothing to add.
LEMMA NoCollateral ==
    ASSUME BookInv
    PROVE  StrikeCollateralSats = 0
<1> DEFINE S == {key \in RowsOf("strike") : imports[key].type = "Loan collateral"}
<1>1. S = {}
  <2> SUFFICES ASSUME NEW key \in DOMAIN imports, key[1] = "strike", imports[key].type = "Loan collateral"
               PROVE  FALSE
    BY DEF RowsOf
  <2> QED BY BookFacts, Zenon DEF RowsOK
<1>2. Sats(S) = 0
  <2>1. DOMAIN [key \in S |-> imports[key].sat] = {}
    BY <1>1
  <2> QED BY <2>1, SumOfNone, Zenon DEF Sats
<1>3. StrikeCollateralSats = IF Sats(S) >= 0 THEN 0 ELSE -Sats(S)
  BY DEF StrikeCollateralSats
<1> HIDE DEF S
<1> QED
  BY <1>2, <1>3

LEMMA ExchangeIsNumber ==
    ASSUME PortfolioInv
    PROVE  ExchangeSats \in Int
<1>1. IsFiniteSet(Source)
  <2>1. Source = (({"strike"} \cup {"river"}) \cup {"coinbase"}) \cup {"swan"}
    BY DEF Source
  <2>2. IsFiniteSet({"strike"})
    BY FS_Singleton
  <2> QED BY <2>1, <2>2, FS_AddElement, Zenon
<1>2. ASSUME NEW src
      PROVE  ExchangeBalance(src) \in Int
  <2>1. Sats(RowsOf(src)) \in Int
    <3>1. RowsOf(src) \subseteq DOMAIN imports
      BY DEF RowsOf
    <3> QED BY <3>1, BookFacts, SatsAreNumber, Zenon DEF PortfolioInv, Sats
  <2>2. liveBalance.strike \in Int /\ liveBalance.coinbase \in Int
    BY DEF PortfolioInv
  <2> QED BY <2>1, <2>2, Zenon DEF ExchangeBalance
<1> DEFINE c == [src \in Source |-> ExchangeBalance(src)]
<1>3. DOMAIN c = Source /\ \A src \in Source : c[src] \in Int
  BY <1>2
<1> HIDE DEF c
<1>4. SumFunction(c) \in Int
  BY <1>1, <1>3, SumIsNumber, Zenon
<1> QED
  BY <1>4 DEF ExchangeSats, c

-----------------------------------------------------------------------------
(* Steps.                                                                   *)

LEMMA TodayIsDay ==
    ASSUME PortfolioInv
    PROVE  today \in Nat /\ asked \in Nat
<1>1. today \in 0 .. LastDay /\ asked \in 0 .. MaxAsked
  BY DEF PortfolioInv, Day
<1> QED
  BY <1>1

LEMMA SameBook ==
    ASSUME PortfolioInv, UNCHANGED bookVars
    PROVE  BookInv' /\ imports' = imports
  BY Zenon DEF PortfolioInv, bookVars, BookInv, book

LEMMA CaptureRow ==
    ASSUME PortfolioInv, NEW onchain \in Onchain, NEW channels \in Channels, NEW cold \in Cold,
           NEW b, b = PortfolioBreakdownQuery(onchain, channels, cold),
           NEW row, row = Snapshot(today, b.total, b.details)
    PROVE  row \in SnapshotRow /\ row.live /\ row.details = row.total /\ onchain \in Nat
<1>1. onchain \in Nat /\ channels \in Nat /\ cold \in Nat
  BY PortfolioAssumption
<1>2. PICK x \in Int : x = ExchangeSats
  BY ExchangeIsNumber
<1>3. StrikeCollateralSats = 0
  BY NoCollateral, Zenon DEF PortfolioInv
<1>4. b.total = onchain + channels + cold + 0 + x /\ b.details = onchain + channels + cold + x
  BY <1>2, <1>3 DEF PortfolioBreakdownQuery
<1>5. b.total \in Int /\ b.details = b.total
  BY <1>1, <1>4
<1>6. row.live /\ row.day = today /\ row.total = b.total /\ row.details = b.details
  BY DEF Snapshot
<1>7. row \in SnapshotRow
  <2>1. today \in Nat
    BY TodayIsDay
  <2> QED BY <1>5, <2>1 DEF Snapshot, SnapshotRow
<1> QED
  BY <1>1, <1>5, <1>6, <1>7, Zenon

LEMMA CycleStep ==
    ASSUME PortfolioInv, Cycle
    PROVE  PortfolioInv'
<1>1. PICK onchain \in Onchain, channels \in Channels, cold \in Cold :
         LET b == PortfolioBreakdownQuery(onchain, channels, cold) IN
         /\ wallet' = Put(wallet, today, onchain)
         /\ snapshots' = Append(snapshots, Snapshot(today, b.total, b.details))
  BY DEF Cycle, Capture
<1>2. PICK b : b = PortfolioBreakdownQuery(onchain, channels, cold)
  OBVIOUS
<1>3. PICK row : row = Snapshot(today, b.total, b.details)
  OBVIOUS
<1>4. wallet' = Put(wallet, today, onchain) /\ snapshots' = Append(snapshots, row)
  BY <1>1, <1>2, <1>3
<1>5. excused' = TRUE /\ UNCHANGED <<bookVars, today, liveBalance, asked>>
  BY DEF Cycle, Capture
<1>6. row \in SnapshotRow /\ row.live /\ row.details = row.total /\ onchain \in Nat
  BY <1>2, <1>3, CaptureRow, Zenon
<1>7. RowsFine(snapshots')
  BY <1>4, <1>6, CaptureKeeps, Zenon DEF PortfolioInv
<1>8. WalletOK(wallet', today)
  <2>1. IsPut(wallet', wallet, today, onchain)
    BY <1>4, PutIs
  <2>2. today \in 0 .. today
    BY TodayIsDay
  <2>3. WalletOK(wallet, today)
    BY DEF PortfolioInv
  <2> QED BY <1>6, <2>1, <2>2, <2>3, Zenon DEF IsPut, WalletOK
<1>9. BookInv'
  BY <1>5, SameBook, Zenon
<1> QED
  BY <1>5, <1>7, <1>8, <1>9, Zenon DEF PortfolioInv

LEMMA DayStep ==
    ASSUME PortfolioInv, NextDay
    PROVE  PortfolioInv'
<1>1. /\ today < LastDay /\ today' = today + 1
      /\ UNCHANGED <<bookVars, wallet, liveBalance, snapshots, asked, excused>>
  BY DEF NextDay
<1>2. today \in 0 .. LastDay /\ LastDay \in Nat
  BY PortfolioAssumption DEF PortfolioInv, Day
<1>3. today' \in Day /\ 0 .. today \subseteq 0 .. today'
  BY <1>1, <1>2 DEF Day
<1>4. WalletOK(wallet, today')
  <2>1. WalletOK(wallet, today)
    BY DEF PortfolioInv
  <2> QED BY <1>3, <2>1, Zenon DEF WalletOK
<1>5. BookInv' /\ imports' = imports
  BY <1>1, SameBook, Zenon
<1> QED
  BY <1>1, <1>3, <1>4, <1>5, Zenon DEF PortfolioInv

LEMMA LiveBalanceStep ==
    ASSUME PortfolioInv, StoreLiveBalance
    PROVE  PortfolioInv'
<1>1. /\ \/ \E src \in {"strike", "coinbase"}, sat \in Live : liveBalance' = [liveBalance EXCEPT ![src] = sat]
         \/ liveBalance' = [liveBalance EXCEPT !.coinbase = None]
      /\ UNCHANGED <<bookVars, today, wallet, snapshots, asked, excused>>
  BY DEF StoreLiveBalance
<1>2. liveBalance' \in [strike : Int, coinbase : Int]
  <2>1. liveBalance \in [strike : Int, coinbase : Int] /\ Live \subseteq Int /\ None \in Int
    BY PortfolioAssumption DEF PortfolioInv, None
  <2>2. CASE liveBalance' = [liveBalance EXCEPT !.coinbase = None]
    BY <2>1, <2>2
  <2>3. ASSUME NEW src \in {"strike", "coinbase"}, NEW sat \in Live,
               liveBalance' = [liveBalance EXCEPT ![src] = sat]
        PROVE  liveBalance' \in [strike : Int, coinbase : Int]
    <3>1. CASE src = "strike"
      BY <2>1, <2>3, <3>1
    <3>2. CASE src = "coinbase"
      BY <2>1, <2>3, <3>2
    <3> QED BY <3>1, <3>2
  <2> QED BY <1>1, <2>2, <2>3, Zenon
<1>3. BookInv' /\ imports' = imports
  BY <1>1, SameBook, Zenon
<1> QED
  BY <1>1, <1>2, <1>3, Zenon DEF PortfolioInv

LEMMA ImportStep ==
    ASSUME PortfolioInv, Import
    PROVE  PortfolioInv'
<1>1. BookInv'
  <2>1. BookInv
    BY DEF PortfolioInv
  <2>2. \/ HandleStrikeImport
        \/ \E lines \in Lines("river") : HandleRiverImport(lines)
        \/ \E lines \in Lines("coinbase") : HandleCoinbaseImport(lines)
        \/ \E lines \in Lines("swan") : HandleSwanImport(lines)
    BY DEF Import
  <2>3. BookNext
    BY <2>2, Zenon DEF BookNext
  <2> QED BY <2>1, <2>3, BookStep
<1>2. /\ asked < MaxAsked /\ asked' = asked + 1
      /\ UNCHANGED <<today, wallet, liveBalance, snapshots>>
  BY DEF Import, Rest
<1>3. asked' \in 0 .. MaxAsked /\ asked' # 0
  <2>1. asked \in 0 .. MaxAsked /\ MaxAsked \in Nat
    BY PortfolioAssumption DEF PortfolioInv
  <2> QED BY <1>2, <2>1
<1> QED
  BY <1>1, <1>2, <1>3, Zenon DEF PortfolioInv

LEMMA PreviewStep ==
    ASSUME PortfolioInv, Preview
    PROVE  PortfolioInv'
<1>1. PICK lines \in Lines("strike") : StrikePreview(lines)
  BY DEF Preview
<1>2. UNCHANGED <<asked, excused, today, wallet, liveBalance, snapshots>>
  BY DEF Preview, Rest
<1>3. BookInv'
  BY <1>1, PreviewKeeps, Zenon DEF PortfolioInv
<1>4. imports' = imports
  BY <1>1 DEF StrikePreview
<1> QED
  BY <1>2, <1>3, <1>4, Zenon DEF PortfolioInv

LEMMA UnannouncedStep ==
    ASSUME PortfolioInv, Unannounced
    PROVE  PortfolioInv'
<1>1. BookInv'
  <2>1. BookNext
    BY Zenon DEF Unannounced, BookNext
  <2> QED BY <2>1, BookStep DEF PortfolioInv
<1>2. excused' = TRUE /\ UNCHANGED <<asked, today, wallet, liveBalance, snapshots>>
  BY DEF Unannounced, Rest
<1> QED
  BY <1>1, <1>2, Zenon DEF PortfolioInv

LEMMA BackfillStep ==
    ASSUME PortfolioInv, BackfillPortfolioSnapshots, asked' \in 0 .. MaxAsked
    PROVE  PortfolioInv'
<1>1. snapshots' = ReplaceBackfill /\ UNCHANGED <<bookVars, today, wallet, liveBalance>>
  BY DEF BackfillPortfolioSnapshots
<1>2. ReplacedIn(snapshots', snapshots, Replay)
  BY <1>1, ReplaceIs
<1>3. BookInv' /\ imports' = imports
  BY <1>1, SameBook, Zenon
<1>4. RowsFine(snapshots') /\ LiveDaysOf(snapshots') = LiveDaysOf(snapshots) /\ Reconstructed(snapshots', Replay)
  BY <1>2 DEF ReplacedIn
<1>5. UpToDate(snapshots', imports, wallet)
  <2> SUFFICES ASSUME NEW day \in DaysOf(imports, wallet) \ LiveDaysOf(snapshots)
               PROVE  \E i \in DOMAIN snapshots' : snapshots'[i] = Backfilled(day, ThenOf(imports, wallet, day))
    BY <1>4, Zenon DEF UpToDate
  <2>1. day \in DOMAIN Replay /\ Replay[day] = ThenOf(imports, wallet, day)
    BY ReplayIs
  <2> QED BY <1>4, <2>1, Zenon DEF Reconstructed
<1> QED
  BY <1>1, <1>3, <1>4, <1>5, Zenon DEF PortfolioInv

LEMMA GoroutineStep ==
    ASSUME PortfolioInv, backfillSnapshots
    PROVE  PortfolioInv'
<1>1. asked > 0 /\ asked' = asked - 1
  BY DEF backfillSnapshots
<1>2. asked' \in 0 .. MaxAsked
  <2>1. asked \in 0 .. MaxAsked /\ MaxAsked \in Nat
    BY PortfolioAssumption DEF PortfolioInv
  <2> QED BY <1>1, <2>1
<1>3. CASE BackfillPortfolioSnapshots
  BY <1>2, <1>3, BackfillStep
<1>4. CASE excused' = TRUE /\ UNCHANGED <<bookVars, today, wallet, liveBalance, snapshots>>
  <2>1. BookInv'
    BY <1>4, SameBook, Zenon
  <2> QED BY <1>2, <1>4, <2>1, Zenon DEF PortfolioInv
<1> QED
  BY <1>3, <1>4, Zenon DEF backfillSnapshots

LEMMA PortfolioInit ==
    ASSUME Init
    PROVE  PortfolioInv
<1>1. BookInv
  BY InitialBook DEF Init
<1>2. snapshots = <<>> /\ RowsFine(<<>>)
  BY DEF Init, RowsFine, SeenAfter, OneBackfill, Detailed
<1>3. today \in Day /\ asked \in 0 .. MaxAsked /\ liveBalance \in [strike : Int, coinbase : Int]
  BY PortfolioAssumption DEF Init, Day, None
<1>4. WalletOK(wallet, today)
  BY DEF Init, WalletOK
<1>5. UpToDate(snapshots, imports, wallet)
  <2>1. DOMAIN imports = {} /\ DOMAIN wallet = {}
    BY DEF Init, BookInit
  <2>2. DaysOf(imports, wallet) = {}
    BY <2>1 DEF DaysOf
  <2> QED BY <2>2 DEF UpToDate
<1> QED
  BY <1>1, <1>2, <1>3, <1>4, <1>5, Zenon DEF PortfolioInv

LEMMA PortfolioStep ==
    ASSUME PortfolioInv, [Next]_vars
    PROVE  PortfolioInv'
<1>1. CASE HandlePortfolioBackfill
  <2>1. BackfillPortfolioSnapshots /\ asked' = asked
    BY <1>1 DEF HandlePortfolioBackfill
  <2>2. asked' \in 0 .. MaxAsked
    BY <2>1 DEF PortfolioInv
  <2> QED BY <2>1, <2>2, BackfillStep
<1>2. CASE UNCHANGED vars
  <2>1. UNCHANGED <<bookVars, today, wallet, liveBalance, snapshots, asked, excused>>
    BY <1>2 DEF vars
  <2>2. BookInv' /\ imports' = imports
    BY <2>1, SameBook, Zenon
  <2> QED BY <2>1, <2>2, Zenon DEF PortfolioInv
<1> QED
  BY <1>1, <1>2, CycleStep, DayStep, LiveBalanceStep, ImportStep, PreviewStep, UnannouncedStep,
     GoroutineStep, Zenon DEF Next

-----------------------------------------------------------------------------
(* Theorems.                                                                *)

LEMMA PortfolioInvariant == PortfolioSpec => []PortfolioInv
  BY PortfolioInit, PortfolioStep, PTL DEF PortfolioSpec

\* Rows are dated no later than today, and what is stored are amounts, for every
\* history and any number of goroutines.
THEOREM PortfolioTypeCorrect == PortfolioSpec => []PortfolioTypeOK
<1>1. PortfolioInv => PortfolioTypeOK
  <2> SUFFICES ASSUME PortfolioInv
               PROVE  PortfolioTypeOK
    OBVIOUS
  <2>1. TypeOK
    BY InvariantGivesType DEF PortfolioInv
  <2>2. today \in Day /\ DOMAIN wallet \subseteq 0 .. today /\ asked \in 0 .. MaxAsked
    BY DEF PortfolioInv, WalletOK
  <2>3. \A i \in DOMAIN snapshots : snapshots[i] \in [day : Nat, total : Int, details : Int, live : BOOLEAN]
    <3>1. snapshots \in Seq(SnapshotRow)
      BY DEF PortfolioInv, RowsFine
    <3>2. \A i \in DOMAIN snapshots : snapshots[i] \in SnapshotRow
      BY <3>1
    <3> QED BY <3>2, Zenon DEF SnapshotRow
  <2> QED BY <2>1, <2>2, <2>3, Zenon DEF PortfolioTypeOK
<1> QED
  BY <1>1, PortfolioInvariant, PTL

\* The row of a day with the largest id.
LEMMA ShownRow ==
    ASSUME RowsFine(snapshots), NEW i \in DOMAIN snapshots
    PROVE  \E k \in DOMAIN snapshots :
              /\ PortfolioSnapshots(snapshots[i].day) = snapshots[k]
              /\ snapshots[k].day = snapshots[i].day /\ k >= i
<1> DEFINE S == {k \in DOMAIN snapshots : snapshots[k].day = snapshots[i].day}
<1>1. DOMAIN snapshots = 1 .. Len(snapshots) /\ Len(snapshots) \in Nat
  BY DEF RowsFine
<1>2. IsFiniteSet(S) /\ S \subseteq Nat /\ i \in S
  <2>1. IsFiniteSet(DOMAIN snapshots)
    BY <1>1, FS_Interval
  <2>2. S \subseteq DOMAIN snapshots
    OBVIOUS
  <2> QED BY <1>1, <2>1, <2>2, FS_Subset
<1>3. PortfolioSnapshots(snapshots[i].day) = snapshots[Max(S)]
  BY DEF PortfolioSnapshots
<1>4. \A k \in S : k \in DOMAIN snapshots /\ snapshots[k].day = snapshots[i].day
  OBVIOUS
<1> HIDE DEF S
<1>5. Max(S) \in S /\ \A y \in S : y <= Max(S)
  BY <1>2, Largest, Zenon
<1>6. Max(S) >= i
  BY <1>2, <1>5
<1> QED
  BY <1>3, <1>4, <1>5, <1>6, Zenon

\* InsertPortfolioSnapshot and ReplaceBackfilledSnapshots: in whatever order cycles,
\* imports and reconstructions come, the chart shows of a day that was seen what
\* was seen last, and no day is reconstructed twice.
THEOREM SeenIsShown == PortfolioSpec => []ChartShowsWhatWasSeen
<1>1. PortfolioInv => ChartShowsWhatWasSeen
  <2> SUFFICES ASSUME PortfolioInv, NEW i \in DOMAIN snapshots, NEW j \in DOMAIN snapshots,
                      snapshots[i].day = snapshots[j].day
               PROVE  /\ snapshots[i].live => PortfolioSnapshots(snapshots[i].day).live
                      /\ ~snapshots[i].live /\ ~snapshots[j].live => i = j
    BY Zenon DEF ChartShowsWhatWasSeen
  <2>1. RowsFine(snapshots)
    BY DEF PortfolioInv
  <2>2. ~snapshots[i].live /\ ~snapshots[j].live => i = j
    BY <2>1, Zenon DEF RowsFine, OneBackfill
  <2>3. PICK k \in DOMAIN snapshots : /\ PortfolioSnapshots(snapshots[i].day) = snapshots[k]
                                     /\ snapshots[k].day = snapshots[i].day /\ k >= i
    BY <2>1, ShownRow, Zenon
  <2>4. snapshots[i].live /\ ~snapshots[k].live => k < i
    BY <2>1, <2>3, Zenon DEF RowsFine, SeenAfter
  <2>5. ~ (k < i)
    <3>1. k \in Nat /\ i \in Nat
      BY <2>1 DEF RowsFine
    <3> QED BY <2>3, <3>1
  <2>6. snapshots[i].live => snapshots[k].live
    BY <2>4, <2>5, Zenon
  <2> QED BY <2>2, <2>3, <2>6, Zenon
<1> QED
  BY <1>1, PortfolioInvariant, PTL

\* backfillSnapshots, in handler.go: once no goroutine is left, none was called off
\* and no rows came that start none, every day that was not seen shows what the
\* rows and the wallet of up to that day come to.
THEOREM HistoryIsRight == PortfolioSpec => []HistoryIsCurrent
<1>1. PortfolioInv => HistoryIsCurrent
  <2> SUFFICES ASSUME PortfolioInv, asked = 0, ~excused, NEW day \in Days \ LiveDays
               PROVE  /\ \E i \in DOMAIN snapshots : snapshots[i].day = day
                      /\ PortfolioSnapshots(day).total =
                           AsOf(wallet, day) + Sats({key \in DOMAIN imports : imports[key].at <= day})
    BY Zenon DEF HistoryIsCurrent
  <2> DEFINE then == ThenOf(imports, wallet, day)
  <2>1. RowsFine(snapshots) /\ UpToDate(snapshots, imports, wallet)
    BY Zenon DEF PortfolioInv
  <2>2. day \in DaysOf(imports, wallet) \ LiveDaysOf(snapshots)
    BY DEF Days, LiveDays, DaysOf, LiveDaysOf
  <2>3. PICK i \in DOMAIN snapshots : snapshots[i] = Backfilled(day, then)
    BY <2>1, <2>2, Zenon DEF UpToDate
  <2> HIDE DEF then
  <2>4. snapshots[i].day = day /\ ~snapshots[i].live /\ snapshots[i].total = then
    BY <2>3 DEF Backfilled
  <2>5. PICK k \in DOMAIN snapshots : /\ PortfolioSnapshots(snapshots[i].day) = snapshots[k]
                                     /\ snapshots[k].day = snapshots[i].day
    BY <2>1, ShownRow, Zenon
  <2>6. ~snapshots[k].live
    BY <2>2, <2>4, <2>5, Zenon DEF LiveDaysOf
  <2>7. k = i
    BY <2>1, <2>4, <2>5, <2>6, Zenon DEF RowsFine, OneBackfill
  <2>8. PortfolioSnapshots(day).total = then
    BY <2>4, <2>5, <2>7, Zenon
  <2>9. then = AsOf(wallet, day) + Sats({key \in DOMAIN imports : imports[key].at <= day})
    BY DEF then, ThenOf, Sats
  <2> QED BY <2>4, <2>8, <2>9, Zenon
<1> QED
  BY <1>1, PortfolioInvariant, PTL

\* GetPortfolioBreakdown: the total counts Strike's collateral, of which the details
\* have no part, and still they add up, for whatever lines the files have.
THEOREM PartsAddUp == PortfolioSpec => []DetailsAddUp
<1>1. PortfolioInv => DetailsAddUp
  BY Zenon DEF PortfolioInv, RowsFine, Detailed, DetailsAddUp
<1> QED
  BY <1>1, PortfolioInvariant, PTL
=============================================================================
