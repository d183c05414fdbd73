-------------------------- MODULE ImportBookProofs --------------------------
(***************************************************************************)
(* Whatever lines the files have and however often they are imported,      *)
(* corrected, mixed with rows of the APIs and cleared, the lots agree with *)
(* the rows, and the reports sell each sat of a lot once and leave the     *)
(* years that are over alone.                                              *)
(*                                                                         *)
(* An import is a fold over its rows, a match one over the sales and one   *)
(* over the lots in each.  What such a fold does is first settled for a    *)
(* step of it, then for the fold, and then for the request or the report.  *)
(***************************************************************************)
EXTENDS ImportBook, WellFoundedInduction, FiniteSetTheorems, TLAPS

-----------------------------------------------------------------------------
(* Folds over sequences.                                                    *)

\* A non-empty set of naturals has a smallest element.
LEMMA Smallest ==
    ASSUME NEW S \in SUBSET Nat, S # {}
    PROVE  \E x \in S : \A y \in S : x <= y
<1>1. PICK x \in S : \A y \in S : ~ (<<y, x>> \in OpToRel(<, Nat))
  BY NatLessThanWellFounded, WFMin
<1>2. \A y \in S : y < x => <<y, x>> \in OpToRel(<, Nat)
  BY DEF OpToRel
<1>3. \A y \in S : ~ (y < x)
  BY <1>1, <1>2, Zenon
<1> QED
  BY <1>3

\* What holds of 0 and of the next number holds of all up to n.
LEMMA UpTo ==
    ASSUME NEW n \in Nat, NEW P, 0 \in P, \A k \in 1 .. n : k - 1 \in P => k \in P
    PROVE  \A k \in 0 .. n : k \in P
<1> DEFINE Bad == {k \in 0 .. n : k \notin P}
<1> SUFFICES ASSUME Bad # {}
             PROVE  FALSE
  BY Zenon
<1>1. PICK k \in Bad : \A j \in Bad : k <= j
  <2>1. Bad \in SUBSET Nat
    OBVIOUS
  <2> QED BY <2>1, Smallest
<1>2. k \in 1 .. n
  BY <1>1
<1>3. k - 1 \in 0 .. n /\ ~ (k <= k - 1)
  BY <1>2
<1>4. k - 1 \in P
  BY <1>1, <1>3
<1> QED
  BY <1>1, <1>2, <1>4

LEMMA LargestOfInterval ==
    ASSUME NEW n \in Nat, NEW s \in SUBSET (1 .. n), n \in s
    PROVE  Max(s) = n
<1>1. \A y \in s : y \in Int /\ n >= y
  OBVIOUS
<1>2. \A x \in s : (\A y \in s : x >= y) => x = n
  BY <1>1
<1> QED
  BY <1>1, <1>2 DEF Max

LEMMA IntervalSteps ==
    ASSUME NEW n \in Nat, NEW k \in 1 .. n
    PROVE  /\ Max(1 .. k) = k /\ (1 .. k) \ {k} = 1 .. k - 1
           /\ 1 .. k # {} /\ 1 .. k \in SUBSET (1 .. n)
<1>1. Max(1 .. k) = k
  BY LargestOfInterval
<1> QED
  BY <1>1

\* The function behind an import: of the positions whose rows are in the book.
ImportedBy(F, src, b, rows, n) ==
    F = [s \in SUBSET (1 .. n) |->
            IF s = {} THEN b ELSE ImportRow(src, F[s \ {Max(s)}], rows[Max(s)])]

LEMMA ImportIsDefined ==
    ASSUME NEW src, NEW b, NEW rows, NEW n \in Nat
    PROVE  \E F : ImportedBy(F, src, b, rows, n)
<1> DEFINE P == {k \in 0 .. n : \E F : ImportedBy(F, src, b, rows, k)}
<1>1. 0 \in P
  <2> DEFINE F == [s \in SUBSET (1 .. 0) |-> b]
  <2>1. ImportedBy(F, src, b, rows, 0)
    BY DEF ImportedBy
  <2> QED BY <2>1
<1>2. ASSUME NEW k \in 1 .. n, k - 1 \in P
      PROVE  k \in P
  <2>1. PICK F : ImportedBy(F, src, b, rows, k - 1)
    BY <1>2
  <2> DEFINE G == [s \in SUBSET (1 .. k) |->
                     IF k \in s THEN ImportRow(src, F[s \ {k}], rows[k]) ELSE F[s]]
  <2>2. ASSUME NEW s \in SUBSET (1 .. k)
        PROVE  G[s] = IF s = {} THEN b ELSE ImportRow(src, G[s \ {Max(s)}], rows[Max(s)])
    <3>1. CASE k \in s
      <4>1. Max(s) = k
        BY <3>1, LargestOfInterval
      <4>2. s \ {k} \in SUBSET (1 .. k) /\ k \notin s \ {k}
        OBVIOUS
      <4>3. G[s \ {k}] = F[s \ {k}]
        BY <4>2
      <4>4. G[s] = ImportRow(src, F[s \ {k}], rows[k])
        BY <3>1
      <4> HIDE DEF G
      <4> QED BY <3>1, <4>1, <4>3, <4>4
    <3>2. CASE k \notin s
      <4>1. s \in SUBSET (1 .. k - 1)
        BY <3>2
      <4>2. F[s] = IF s = {} THEN b ELSE ImportRow(src, F[s \ {Max(s)}], rows[Max(s)])
        BY <2>1, <4>1 DEF ImportedBy
      <4>3. G[s] = F[s]
        BY <3>2
      <4>4. G[s \ {Max(s)}] = F[s \ {Max(s)}]
        BY <3>2
      <4> HIDE DEF G
      <4> QED BY <4>2, <4>3, <4>4
    <3> QED BY <3>1, <3>2
  <2>3. ImportedBy(G, src, b, rows, k)
    <3>1. G = [s \in SUBSET (1 .. k) |-> G[s]]
      OBVIOUS
    <3> HIDE DEF G
    <3> QED BY <2>2, <3>1 DEF ImportedBy
  <2> QED BY <2>3
<1>3. n \in P
  <2> HIDE DEF P
  <2> QED BY <1>1, <1>2, UpTo
<1> QED
  BY <1>3

ImportInTurn(F, src, b, rows, n) ==
    /\ F[{}] = b /\ ImportRows(src, b, rows) = F[1 .. n]
    /\ \A k \in 1 .. n : F[1 .. k] = ImportRow(src, F[1 .. k - 1], rows[k])

\* An import ends with the book after its last row, and each row is put in the
\* book the rows before it have left.
LEMMA ImportByRows ==
    ASSUME NEW src, NEW b, NEW rows, NEW n \in Nat, DOMAIN rows = 1 .. n
    PROVE  \E F : ImportInTurn(F, src, b, rows, n)
<1> DEFINE F == CHOOSE F : ImportedBy(F, src, b, rows, n)
<1>1. ImportedBy(F, src, b, rows, n)
  BY ImportIsDefined
<1>2. ImportRows(src, b, rows) = F[1 .. n]
  BY DEF ImportRows, FoldLeft, MapThenFoldSet, ImportedBy
<1> HIDE DEF F
<1>3. F[{}] = b
  BY <1>1 DEF ImportedBy
<1>4. ASSUME NEW k \in 1 .. n
      PROVE  F[1 .. k] = ImportRow(src, F[1 .. k - 1], rows[k])
  <2>1. F[1 .. k] = IF 1 .. k = {} THEN b
                    ELSE ImportRow(src, F[(1 .. k) \ {Max(1 .. k)}], rows[Max(1 .. k)])
    BY <1>1, IntervalSteps DEF ImportedBy
  <2> QED BY <2>1, IntervalSteps
<1> QED
  BY <1>2, <1>3, <1>4, Zenon DEF ImportInTurn

\* The function behind a file that is read: of the positions that are behind it.
ReadBy(F, reader, lines, n) ==
    F = [s \in SUBSET (1 .. n) |->
            IF s = {} THEN <<>> ELSE F[s \ {Max(s)}] \o SetToSeq(Made(reader, lines[Max(s)]))]

LEMMA ReadIsDefined ==
    ASSUME NEW reader, NEW lines, NEW n \in Nat
    PROVE  \E F : ReadBy(F, reader, lines, n)
<1> DEFINE P == {k \in 0 .. n : \E F : ReadBy(F, reader, lines, k)}
<1>1. 0 \in P
  <2> DEFINE F == [s \in SUBSET (1 .. 0) |-> <<>>]
  <2>1. \A s \in SUBSET (1 .. 0) : s = {}
    OBVIOUS
  <2>2. ReadBy(F, reader, lines, 0)
    BY <2>1, Zenon DEF ReadBy
  <2> QED BY <2>2
<1>2. ASSUME NEW k \in 1 .. n, k - 1 \in P
      PROVE  k \in P
  <2>1. PICK F : ReadBy(F, reader, lines, k - 1)
    BY <1>2
  <2> DEFINE G == [s \in SUBSET (1 .. k) |->
                     IF k \in s THEN F[s \ {k}] \o SetToSeq(Made(reader, lines[k])) ELSE F[s]]
  <2>2. ASSUME NEW s \in SUBSET (1 .. k)
        PROVE  G[s] = IF s = {} THEN <<>> ELSE G[s \ {Max(s)}] \o SetToSeq(Made(reader, lines[Max(s)]))
    <3>1. CASE k \in s
      <4>1. Max(s) = k
        BY <3>1, LargestOfInterval
      <4>2. s \ {k} \in SUBSET (1 .. k) /\ k \notin s \ {k}
        OBVIOUS
      <4>3. G[s \ {k}] = F[s \ {k}]
        BY <4>2
      <4>4. G[s] = F[s \ {k}] \o SetToSeq(Made(reader, lines[k]))
        BY <3>1
      <4> HIDE DEF G
      <4> QED BY <3>1, <4>1, <4>3, <4>4
    <3>2. CASE k \notin s
      <4>1. s \in SUBSET (1 .. k - 1)
        BY <3>2
      <4>2. F[s] = IF s = {} THEN <<>> ELSE F[s \ {Max(s)}] \o SetToSeq(Made(reader, lines[Max(s)]))
        BY <2>1, <4>1 DEF ReadBy
      <4>3. G[s] = F[s]
        BY <3>2
      <4>4. G[s \ {Max(s)}] = F[s \ {Max(s)}]
        BY <3>2
      <4> HIDE DEF G
      <4> QED BY <4>2, <4>3, <4>4
    <3> QED BY <3>1, <3>2
  <2>3. ReadBy(G, reader, lines, k)
    <3>1. G = [s \in SUBSET (1 .. k) |-> G[s]]
      OBVIOUS
    <3> HIDE DEF G
    <3> QED BY <2>2, <3>1 DEF ReadBy
  <2> QED BY <2>3
<1>3. n \in P
  <2> HIDE DEF P
  <2> QED BY <1>1, <1>2, UpTo
<1> QED
  BY <1>3

ReadInTurn(F, reader, lines, n) ==
    /\ F[{}] = <<>> /\ Read(reader, lines) = F[1 .. n]
    /\ \A k \in 1 .. n : F[1 .. k] = F[1 .. k - 1] \o SetToSeq(Made(reader, lines[k]))

\* What a file is read as: what is made of its lines, one after the other.
LEMMA ReadByLines ==
    ASSUME NEW reader, NEW lines, NEW n \in Nat, DOMAIN lines = 1 .. n
    PROVE  \E F : ReadInTurn(F, reader, lines, n)
<1> DEFINE F == CHOOSE F : ReadBy(F, reader, lines, n)
<1>1. ReadBy(F, reader, lines, n)
  BY ReadIsDefined
<1>2. Read(reader, lines) = F[1 .. n]
  BY DEF Read, FoldLeft, MapThenFoldSet, ReadBy
<1> HIDE DEF F
<1>3. F[{}] = <<>>
  BY <1>1 DEF ReadBy
<1>4. ASSUME NEW k \in 1 .. n
      PROVE  F[1 .. k] = F[1 .. k - 1] \o SetToSeq(Made(reader, lines[k]))
  <2>1. F[1 .. k] = IF 1 .. k = {} THEN <<>>
                    ELSE F[(1 .. k) \ {Max(1 .. k)}] \o SetToSeq(Made(reader, lines[Max(1 .. k)]))
    BY <1>1, IntervalSteps DEF ReadBy
  <2> QED BY <2>1, IntervalSteps
<1> QED
  BY <1>2, <1>3, <1>4, Zenon DEF ReadInTurn

-----------------------------------------------------------------------------
(* Sums.                                                                    *)

One(s) == CHOOSE x \in s : TRUE
Small(A, n) == {s \in SUBSET A : Cardinality(s) <= n}

LEMMA OneOfSmall ==
    ASSUME NEW A, IsFiniteSet(A), NEW n \in Nat, NEW s \in Small(A, n), NEW x \in s
    PROVE  /\ n # 0 /\ s \in SUBSET A
           /\ s \ {x} \in Small(A, n - 1) /\ s \ {x} \in Small(A, n)
<1>1. s \in SUBSET A /\ Cardinality(s) <= n
  BY DEF Small
<1>2. IsFiniteSet(s) /\ Cardinality(s) \in Nat /\ Cardinality(s) # 0
  BY <1>1, FS_Subset, FS_CardinalityType, FS_EmptySet
<1>3. Cardinality(s \ {x}) = Cardinality(s) - 1
  BY <1>2, FS_RemoveElement
<1> QED
  BY <1>1, <1>2, <1>3 DEF Small

LEMMA AllAreSmall ==
    ASSUME NEW A, IsFiniteSet(A)
    PROVE  Cardinality(A) \in Nat /\ Small(A, Cardinality(A)) = SUBSET A
  BY FS_CardinalityType, FS_Subset DEF Small

LEMMA NoneIsSmall ==
    ASSUME NEW A, IsFiniteSet(A), NEW s \in Small(A, 0)
    PROVE  s = {}
<1>1. \A x \in s : FALSE
  BY OneOfSmall
<1> QED
  BY <1>1

\* A sum over s takes an element, and has the sum over the others in F.
Added(F, c, s) == IF s = {} THEN 0 ELSE c[One(s)] + F[s \ {One(s)}]
SumBy(F, c, sets) == F = [s \in sets |-> Added(F, c, s)]

LEMMA OneIsIn ==
    ASSUME NEW s, s # {}
    PROVE  One(s) \in s
  BY DEF One

LEMMA SmallSums ==
    ASSUME NEW A, IsFiniteSet(A), NEW c, NEW n \in Nat
    PROVE  \E F : SumBy(F, c, Small(A, n))
<1> DEFINE P == {k \in 0 .. n : \E F : SumBy(F, c, Small(A, k))}
<1>1. 0 \in P
  <2> DEFINE F == [s \in Small(A, 0) |-> 0]
  <2>1. SumBy(F, c, Small(A, 0))
    BY NoneIsSmall DEF SumBy, Added
  <2> QED BY <2>1
<1>2. ASSUME NEW k \in 1 .. n, k - 1 \in P
      PROVE  k \in P
  <2>1. PICK F : SumBy(F, c, Small(A, k - 1))
    BY <1>2
  <2> DEFINE G == [s \in Small(A, k) |-> Added(F, c, s)]
  <2>2. ASSUME NEW s \in Small(A, k)
        PROVE  Added(F, c, s) = Added(G, c, s)
    <3>1. CASE s = {}
      BY <3>1 DEF Added
    <3>2. CASE s # {}
      <4>1. s \ {One(s)} \in Small(A, k - 1) /\ s \ {One(s)} \in Small(A, k)
        BY <3>2, OneIsIn, OneOfSmall
      <4>2. F[s \ {One(s)}] = Added(F, c, s \ {One(s)})
        BY <2>1, <4>1 DEF SumBy
      <4>3. G[s \ {One(s)}] = Added(F, c, s \ {One(s)})
        BY <4>1
      <4> QED BY <4>2, <4>3 DEF Added
    <3> QED BY <3>1, <3>2
  <2> DEFINE H == [s \in Small(A, k) |-> Added(G, c, s)]
  <2>3. G = H
    BY <2>2
  <2> HIDE DEF G
  <2>4. SumBy(G, c, Small(A, k))
    BY <2>3 DEF SumBy
  <2> QED BY <2>4
<1> HIDE DEF P
<1>3. n \in P
  BY <1>1, <1>2, UpTo
<1> QED
  BY <1>3 DEF P

LEMMA SumIsDefined ==
    ASSUME NEW A, IsFiniteSet(A), NEW c
    PROVE  \E F : SumBy(F, c, SUBSET A)
<1>1. \E F : SumBy(F, c, Small(A, Cardinality(A)))
  BY AllAreSmall, SmallSums
<1> QED
  BY <1>1, AllAreSmall, Zenon

\* The sum of a table is the one F has for its domain.
LEMMA SumIsThat ==
    ASSUME NEW c, IsFiniteSet(DOMAIN c)
    PROVE  \E F : SumBy(F, c, SUBSET DOMAIN c) /\ SumFunction(c) = F[DOMAIN c]
<1> DEFINE F == CHOOSE F : SumBy(F, c, SUBSET DOMAIN c)
<1>1. SumBy(F, c, SUBSET DOMAIN c)
  BY SumIsDefined
<1>2. SumFunction(c) = F[DOMAIN c]
  BY DEF SumFunction, SumFunctionOnSet, FoldFunctionOnSet, MapThenFoldSet, SumBy, Added, One
<1> HIDE DEF F
<1> QED
  BY <1>1, <1>2

\* A sum is a number, and is the same in whatever order it is taken.
Grows(F, c, A) ==
    \A s \in SUBSET A : F[s] \in Int /\ \A a \in A \ s : F[s \cup {a}] = F[s] + c[a]

LEMMA SumGrows ==
    ASSUME NEW A, IsFiniteSet(A), NEW c, \A a \in A : c[a] \in Int,
           NEW F, SumBy(F, c, SUBSET A)
    PROVE  Grows(F, c, A)
<1> DEFINE n == Cardinality(A)
           P == {k \in 0 .. n : \A s \in Small(A, k) : F[s] \in Int /\ \A a \in A \ s : F[s \cup {a}] = F[s] + c[a]}
<1>1. \A s \in SUBSET A : F[s] = Added(F, c, s)
  BY DEF SumBy
<1>2. n \in Nat /\ Small(A, n) = SUBSET A
  BY AllAreSmall
<1>3. ASSUME NEW s \in SUBSET A, NEW a \in A \ s, One(s \cup {a}) = a, F[s] \in Int
      PROVE  F[s \cup {a}] = F[s] + c[a]
  <2>1. s \cup {a} # {} /\ (s \cup {a}) \ {a} = s /\ s \cup {a} \in SUBSET A
    OBVIOUS
  <2>2. F[s \cup {a}] = c[a] + F[s]
    BY <1>1, <1>3, <2>1 DEF Added
  <2>3. c[a] \in Int
    OBVIOUS
  <2> QED BY <1>3, <2>2, <2>3
<1>4. 0 \in P
  <2> SUFFICES ASSUME NEW s \in Small(A, 0)
               PROVE  F[s] \in Int /\ \A a \in A \ s : F[s \cup {a}] = F[s] + c[a]
    BY <1>2
  <2>1. s = {} /\ s \in SUBSET A
    BY NoneIsSmall
  <2>2. F[s] = 0
    BY <1>1, <2>1 DEF Added
  <2>3. ASSUME NEW a \in A \ s
        PROVE  F[s \cup {a}] = F[s] + c[a]
    <3>1. One(s \cup {a}) = a
      BY <2>1 DEF One
    <3> QED BY <1>3, <2>1, <2>2, <3>1
  <2> QED BY <2>2, <2>3
<1>5. ASSUME NEW k \in 1 .. n, k - 1 \in P
      PROVE  k \in P
  <2>1. ASSUME NEW s \in Small(A, k), s # {}
        PROVE  /\ One(s) \in s /\ s \in SUBSET A /\ F[s] = c[One(s)] + F[s \ {One(s)}]
               /\ F[s \ {One(s)}] \in Int /\ c[One(s)] \in Int
               /\ \A a \in A \ (s \ {One(s)}) : F[(s \ {One(s)}) \cup {a}] = F[s \ {One(s)}] + c[a]
    <3>1. One(s) \in s /\ s \in SUBSET A /\ s \ {One(s)} \in Small(A, k - 1)
      BY <2>1, OneIsIn, OneOfSmall
    <3>2. F[s] = Added(F, c, s)
      BY <1>1, <3>1
    <3> QED BY <1>5, <2>1, <3>1, <3>2 DEF Added
  <2>2. ASSUME NEW s \in Small(A, k)
        PROVE  F[s] \in Int
    <3>1. CASE s = {}
      <4>1. s \in SUBSET A /\ F[s] = Added(F, c, s)
        BY <1>1, <3>1
      <4> QED BY <3>1, <4>1 DEF Added
    <3>2. CASE s # {}
      <4>1. /\ F[s] = c[One(s)] + F[s \ {One(s)}]
            /\ F[s \ {One(s)}] \in Int /\ c[One(s)] \in Int
        BY <2>1, <3>2, Zenon
      <4> QED BY <4>1
    <3> QED BY <3>1, <3>2
  <2>3. ASSUME NEW s \in Small(A, k), NEW a \in A \ s
        PROVE  F[s \cup {a}] = F[s] + c[a]
    <3> DEFINE x == One(s \cup {a})
               u == s \ {x}
    <3>1. s \in SUBSET A
      BY DEF Small
    <3>2. x \in s \cup {a}
      BY DEF One
    <3>3. CASE x = a
      BY <1>3, <2>2, <3>1, <3>3
    <3>4. CASE x # a
      <4>1. x \in s /\ u \in SUBSET A /\ u \cup {x} = s /\ x \in A \ u /\ a \in A \ u /\ x \in A
        BY <3>1, <3>2, <3>4
      <4>2. u \in Small(A, k - 1)
        <5> HIDE DEF x
        <5> QED BY <4>1, OneOfSmall
      <4>3. F[u] \in Int /\ F[u \cup {x}] = F[u] + c[x] /\ F[u \cup {a}] = F[u] + c[a]
        BY <1>5, <4>1, <4>2
      <4>4. (s \cup {a}) \ {x} = u \cup {a} /\ s \cup {a} # {} /\ s \cup {a} \in SUBSET A
        BY <3>1, <4>1, <3>4
      <4>5. F[s \cup {a}] = c[x] + F[u \cup {a}]
        BY <1>1, <4>4 DEF Added
      <4>6. c[x] \in Int /\ c[a] \in Int
        BY <4>1
      <4>7. F[s] = F[u] + c[x]
        BY <4>1, <4>3
      <4> HIDE DEF x, u
      <4> QED BY <4>3, <4>5, <4>6, <4>7
    <3> QED BY <3>3, <3>4
  <2> QED BY <2>2, <2>3, <1>2
<1> HIDE DEF P
<1>6. n \in P
  BY <1>2, <1>4, <1>5, UpTo
<1> QED
  BY <1>2, <1>6 DEF P, Grows

SameAt(F, G, s) == F[s] = G[s]

\* Two tables that agree on a set have the same sum over it.
LEMMA SumsAgree ==
    ASSUME NEW A, IsFiniteSet(A), NEW B, B \in SUBSET A, NEW c, NEW d, \A b \in B : c[b] = d[b],
           NEW F, SumBy(F, c, SUBSET A), NEW G, SumBy(G, d, SUBSET B)
    PROVE  SameAt(F, G, B)
<1> DEFINE n == Cardinality(B)
           P == {k \in 0 .. n : \A s \in Small(B, k) : F[s] = G[s]}
<1>1. \A s \in SUBSET B : F[s] = Added(F, c, s) /\ G[s] = Added(G, d, s)
  BY DEF SumBy
<1>2. IsFiniteSet(B) /\ n \in Nat /\ B \in Small(B, n)
  BY FS_CardinalityType, FS_Subset DEF Small
<1>3. ASSUME NEW k \in 0 .. n, k # 0 => k - 1 \in P
      PROVE  k \in P
  <2> SUFFICES ASSUME NEW s \in Small(B, k)
               PROVE  F[s] = G[s]
    OBVIOUS
  <2>1. s \in SUBSET B
    BY DEF Small
  <2>2. CASE s = {}
    BY <1>1, <2>1, <2>2 DEF Added
  <2>3. CASE s # {}
    <3>1. k # 0 /\ s \ {One(s)} \in Small(B, k - 1) /\ One(s) \in B
      <4>1. k \in Nat /\ One(s) \in s
        BY <1>2, <2>3, OneIsIn
      <4> QED BY <1>2, <2>1, <4>1, OneOfSmall, Zenon
    <3>2. F[s \ {One(s)}] = G[s \ {One(s)}]
      BY <1>3, <3>1
    <3> QED BY <1>1, <2>1, <3>1, <3>2 DEF Added
  <2> QED BY <2>2, <2>3
<1>4. 0 \in P /\ \A k \in 1 .. n : k - 1 \in P => k \in P
  <2> HIDE DEF P
  <2> QED BY <1>2, <1>3
<1> HIDE DEF P
<1>5. n \in P
  BY <1>2, <1>4, UpTo
<1> QED
  BY <1>2, <1>5 DEF P, SameAt

LEMMA SumOfNone ==
    ASSUME NEW c, DOMAIN c = {}
    PROVE  SumFunction(c) = 0
<1>1. PICK F : SumBy(F, c, SUBSET DOMAIN c) /\ SumFunction(c) = F[DOMAIN c]
  BY FS_EmptySet, SumIsThat
<1> QED
  BY <1>1 DEF SumBy, Added

LEMMA SumIsNumber ==
    ASSUME NEW c, IsFiniteSet(DOMAIN c), \A x \in DOMAIN c : c[x] \in Int
    PROVE  SumFunction(c) \in Int
<1>1. PICK F : SumBy(F, c, SUBSET DOMAIN c) /\ SumFunction(c) = F[DOMAIN c]
  BY SumIsThat
<1>2. Grows(F, c, DOMAIN c)
  BY <1>1, SumGrows, Zenon
<1> QED
  BY <1>1, <1>2 DEF Grows

\* A table with one entry more has its value on top.
LEMMA SumOfOneMore ==
    ASSUME NEW c, IsFiniteSet(DOMAIN c), NEW a, a \notin DOMAIN c,
           NEW d, DOMAIN d = DOMAIN c \cup {a}, \A x \in DOMAIN c : d[x] = c[x],
           \A x \in DOMAIN d : d[x] \in Int
    PROVE  SumFunction(d) = SumFunction(c) + d[a]
<1>1. IsFiniteSet(DOMAIN d)
  BY FS_AddElement
<1>2. PICK F : SumBy(F, d, SUBSET DOMAIN d) /\ SumFunction(d) = F[DOMAIN d]
  BY <1>1, SumIsThat
<1>3. PICK G : SumBy(G, c, SUBSET DOMAIN c) /\ SumFunction(c) = G[DOMAIN c]
  BY SumIsThat
<1>4. F[DOMAIN c] = G[DOMAIN c]
  <2>1. SumBy(F, d, SUBSET DOMAIN d) /\ SumBy(G, c, SUBSET DOMAIN c) /\ DOMAIN c \in SUBSET DOMAIN d
    BY <1>2, <1>3
  <2>2. SameAt(F, G, DOMAIN c)
    BY <1>1, <2>1, SumsAgree
  <2> QED BY <2>2 DEF SameAt
<1>5. Grows(F, d, DOMAIN d)
  BY <1>1, <1>2, SumGrows, Zenon
<1>6. DOMAIN c \in SUBSET DOMAIN d /\ a \in DOMAIN d \ DOMAIN c
  OBVIOUS
<1>7. F[DOMAIN c \cup {a}] = F[DOMAIN c] + d[a]
  BY <1>5, <1>6, Zenon DEF Grows
<1> QED
  BY <1>2, <1>3, <1>4, <1>7, Zenon

\* What holds of the empty set, and of a set if of it without any one element, holds.
LEMMA SetBySet ==
    ASSUME NEW A, IsFiniteSet(A), NEW P, {} \in P,
           \A s \in SUBSET A : s # {} /\ (\A x \in s : s \ {x} \in P) => s \in P
    PROVE  \A s \in SUBSET A : s \in P
<1> DEFINE n == Cardinality(A)
           Q == {k \in 0 .. n : \A s \in Small(A, k) : s \in P}
<1>1. n \in Nat /\ Small(A, n) = SUBSET A
  BY AllAreSmall
<1>2. 0 \in Q
  BY <1>1, NoneIsSmall
<1>3. ASSUME NEW k \in 1 .. n, k - 1 \in Q
      PROVE  k \in Q
  <2> SUFFICES ASSUME NEW s \in Small(A, k)
               PROVE  s \in P
    BY <1>1
  <2>1. k \in Nat
    BY <1>1
  <2>2. CASE s = {}
    BY <2>2
  <2>3. CASE s # {}
    <3>1. ASSUME NEW x \in s
          PROVE  s \in SUBSET A /\ s \ {x} \in P
      <4>1. s \in SUBSET A /\ s \ {x} \in Small(A, k - 1)
        BY <2>1, OneOfSmall, Zenon
      <4> QED BY <1>3, <4>1
    <3> QED BY <2>3, <3>1
  <2> QED BY <2>2, <2>3
<1>4. n \in Q
  <2> HIDE DEF Q, n
  <2> QED BY <1>1, <1>2, <1>3, UpTo
<1> QED
  BY <1>1, <1>4

-----------------------------------------------------------------------------
(* The elements of a sequence that are in a set.                            *)

KeptBy(F, seq, S, n) ==
    F = [s \in SUBSET (1 .. n) |->
            IF s = {} THEN <<>>
            ELSE IF seq[Max(s)] \in S THEN Append(F[s \ {Max(s)}], seq[Max(s)]) ELSE F[s \ {Max(s)}]]

LEMMA KeptIsDefined ==
    ASSUME NEW seq, NEW S, NEW n \in Nat
    PROVE  \E F : KeptBy(F, seq, S, n)
<1> DEFINE P == {k \in 0 .. n : \E F : KeptBy(F, seq, S, k)}
<1>1. 0 \in P
  <2> DEFINE F == [s \in SUBSET (1 .. 0) |-> <<>>]
  <2>1. \A s \in SUBSET (1 .. 0) : s = {}
    OBVIOUS
  <2>2. KeptBy(F, seq, S, 0)
    BY <2>1, Zenon DEF KeptBy
  <2> QED BY <2>2
<1>2. ASSUME NEW k \in 1 .. n, k - 1 \in P
      PROVE  k \in P
  <2>1. PICK F : KeptBy(F, seq, S, k - 1)
    BY <1>2
  <2> DEFINE KeepLast(H, s, m) == IF seq[m] \in S THEN Append(H[s \ {m}], seq[m]) ELSE H[s \ {m}]
             G == [s \in SUBSET (1 .. k) |-> IF k \in s THEN KeepLast(F, s, k) ELSE F[s]]
  <2>2. ASSUME NEW s \in SUBSET (1 .. k)
        PROVE  G[s] = IF s = {} THEN <<>> ELSE KeepLast(G, s, Max(s))
    <3>1. CASE k \in s
      <4>1. Max(s) = k
        BY <3>1, LargestOfInterval
      <4>2. s \ {k} \in SUBSET (1 .. k) /\ k \notin s \ {k}
        OBVIOUS
      <4>3. G[s \ {k}] = F[s \ {k}]
        BY <4>2
      <4>4. G[s] = KeepLast(F, s, k)
        BY <3>1
      <4> HIDE DEF G
      <4> QED BY <3>1, <4>1, <4>3, <4>4
    <3>2. CASE k \notin s
      <4>1. s \in SUBSET (1 .. k - 1)
        BY <3>2
      <4>2. F[s] = IF s = {} THEN <<>> ELSE KeepLast(F, s, Max(s))
        BY <2>1, <4>1 DEF KeptBy
      <4>3. G[s] = F[s]
        BY <3>2
      <4>4. G[s \ {Max(s)}] = F[s \ {Max(s)}]
        BY <3>2
      <4> HIDE DEF G
      <4> QED BY <4>2, <4>3, <4>4
    <3> QED BY <3>1, <3>2
  <2>3. KeptBy(G, seq, S, k)
    <3>1. G = [s \in SUBSET (1 .. k) |-> G[s]]
      OBVIOUS
    <3> HIDE DEF G
    <3> QED BY <2>2, <3>1 DEF KeptBy
  <2> QED BY <2>3
<1>3. n \in P
  <2> HIDE DEF P
  <2> QED BY <1>1, <1>2, UpTo
<1> QED
  BY <1>3

KeptInTurn(F, seq, S, n) ==
    /\ F[{}] = <<>> /\ Only(seq, S) = F[1 .. n]
    /\ \A k \in 1 .. n :
         F[1 .. k] = IF seq[k] \in S THEN Append(F[1 .. k - 1], seq[k]) ELSE F[1 .. k - 1]

LEMMA OnlyInTurn ==
    ASSUME NEW seq, NEW S, NEW n \in Nat, DOMAIN seq = 1 .. n
    PROVE  \E F : KeptInTurn(F, seq, S, n)
<1> DEFINE F == CHOOSE F : KeptBy(F, seq, S, n)
<1>1. KeptBy(F, seq, S, n)
  BY KeptIsDefined
<1>2. Only(seq, S) = F[1 .. n]
  BY DEF Only, FoldLeft, MapThenFoldSet, KeptBy
<1> HIDE DEF F
<1>3. F[{}] = <<>>
  BY <1>1 DEF KeptBy
<1>4. ASSUME NEW k \in 1 .. n
      PROVE  F[1 .. k] = IF seq[k] \in S THEN Append(F[1 .. k - 1], seq[k]) ELSE F[1 .. k - 1]
  <2>1. F[1 .. k] = IF 1 .. k = {} THEN <<>>
                    ELSE IF seq[Max(1 .. k)] \in S
                    THEN Append(F[(1 .. k) \ {Max(1 .. k)}], seq[Max(1 .. k)])
                    ELSE F[(1 .. k) \ {Max(1 .. k)}]
    BY <1>1, IntervalSteps DEF KeptBy
  <2> QED BY <2>1, IntervalSteps
<1> QED
  BY <1>2, <1>3, <1>4, Zenon DEF KeptInTurn

\* Of the first m elements of a sequence, those in S are what is in kept.
KeptOf(kept, seq, S, m, V) ==
    /\ kept \in Seq(V)
    /\ \A i \in 1 .. Len(kept) : \E j \in 1 .. m : kept[i] = seq[j] /\ seq[j] \in S
    /\ \A j \in 1 .. m : seq[j] \in S => \E i \in 1 .. Len(kept) : kept[i] = seq[j]

LEMMA KeptNext ==
    ASSUME NEW V, NEW kept, NEW seq, NEW S, NEW m \in Nat, KeptOf(kept, seq, S, m, V), seq[m + 1] \in V
    PROVE  KeptOf(IF seq[m + 1] \in S THEN Append(kept, seq[m + 1]) ELSE kept, seq, S, m + 1, V)
<1>1. kept \in Seq(V) /\ Len(kept) \in Nat
  BY DEF KeptOf
<1>2. /\ \A i \in 1 .. Len(kept) : \E j \in 1 .. m : kept[i] = seq[j] /\ seq[j] \in S
      /\ \A j \in 1 .. m : seq[j] \in S => \E i \in 1 .. Len(kept) : kept[i] = seq[j]
  BY DEF KeptOf
<1>3. \A j \in 1 .. m + 1 : j \in 1 .. m \/ j = m + 1
  OBVIOUS
<1>4. 1 .. m \subseteq 1 .. m + 1 /\ m + 1 \in 1 .. m + 1
  OBVIOUS
<1>5. CASE seq[m + 1] \notin S
  BY <1>1, <1>2, <1>3, <1>4, <1>5, Zenon DEF KeptOf
<1>6. CASE seq[m + 1] \in S
  <2> DEFINE more == Append(kept, seq[m + 1])
  <2>1. /\ more \in Seq(V) /\ Len(more) = Len(kept) + 1 /\ more[Len(kept) + 1] = seq[m + 1]
        /\ \A i \in 1 .. Len(kept) : more[i] = kept[i]
    BY <1>1
  <2>2. \A i \in 1 .. Len(more) : i \in 1 .. Len(kept) \/ i = Len(kept) + 1
    BY <1>1, <2>1
  <2>3. 1 .. Len(kept) \subseteq 1 .. Len(more) /\ Len(kept) + 1 \in 1 .. Len(more)
    BY <1>1, <2>1
  <2> HIDE DEF more
  <2>4. KeptOf(more, seq, S, m + 1, V)
    <3>1. \A i \in 1 .. Len(more) : \E j \in 1 .. m + 1 : more[i] = seq[j] /\ seq[j] \in S
      <4> SUFFICES ASSUME NEW i \in 1 .. Len(more)
                   PROVE  \E j \in 1 .. m + 1 : more[i] = seq[j] /\ seq[j] \in S
        OBVIOUS
      <4>1. CASE i = Len(kept) + 1
        BY <1>4, <1>6, <2>1, <4>1, Zenon
      <4>2. CASE i \in 1 .. Len(kept)
        <5>1. PICK j \in 1 .. m : kept[i] = seq[j] /\ seq[j] \in S
          BY <1>2, <4>2, Zenon
        <5> QED BY <1>4, <2>1, <4>2, <5>1, Zenon
      <4> QED BY <2>2, <4>1, <4>2, Zenon
    <3>2. \A j \in 1 .. m + 1 : seq[j] \in S => \E i \in 1 .. Len(more) : more[i] = seq[j]
      <4> SUFFICES ASSUME NEW j \in 1 .. m + 1, seq[j] \in S
                   PROVE  \E i \in 1 .. Len(more) : more[i] = seq[j]
        OBVIOUS
      <4>1. CASE j = m + 1
        BY <2>1, <2>3, <4>1, Zenon
      <4>2. CASE j \in 1 .. m
        <5>1. PICK i \in 1 .. Len(kept) : kept[i] = seq[j]
          BY <1>2, <4>2, Zenon
        <5> QED BY <2>1, <2>3, <5>1, Zenon
      <4> QED BY <1>3, <4>1, <4>2, Zenon
    <3> QED BY <2>1, <3>1, <3>2, Zenon DEF KeptOf
  <2> QED BY <1>6, <2>4 DEF more
<1> QED
  BY <1>5, <1>6

\* The elements in S are kept, and no others.
LEMMA OnlyKeeps ==
    ASSUME NEW V, NEW seq \in Seq(V), NEW S
    PROVE  KeptOf(Only(seq, S), seq, S, Len(seq), V)
<1> DEFINE n == Len(seq)
<1>1. n \in Nat /\ DOMAIN seq = 1 .. n /\ \A k \in 1 .. n : seq[k] \in V
  OBVIOUS
<1> HIDE DEF n
<1>2. PICK F : KeptInTurn(F, seq, S, n)
  BY <1>1, OnlyInTurn, Zenon
<1> DEFINE P == {k \in 0 .. n : KeptOf(F[1 .. k], seq, S, k, V)}
<1>3. 0 \in P
  <2>1. 1 .. 0 = {} /\ 0 \in 0 .. n /\ F[{}] = <<>>
    BY <1>1, <1>2 DEF KeptInTurn
  <2>2. KeptOf(<<>>, seq, S, 0, V)
    BY DEF KeptOf
  <2> QED BY <2>1, <2>2, Zenon
<1>4. ASSUME NEW k \in 1 .. n, k - 1 \in P
      PROVE  k \in P
  <2>1. k - 1 \in Nat /\ (k - 1) + 1 = k /\ k \in 0 .. n
    BY <1>1
  <2>2. KeptOf(F[1 .. k - 1], seq, S, k - 1, V)
    BY <1>4
  <2>3. F[1 .. k] = IF seq[k] \in S THEN Append(F[1 .. k - 1], seq[k]) ELSE F[1 .. k - 1]
    BY <1>2, Zenon DEF KeptInTurn
  <2>4. PICK m \in Nat : m = k - 1 /\ m + 1 = k
    BY <2>1
  <2>5. KeptOf(IF seq[m + 1] \in S THEN Append(F[1 .. m], seq[m + 1]) ELSE F[1 .. m], seq, S, m + 1, V)
    <3>1. seq[m + 1] \in V
      BY <1>1, <2>4, Zenon
    <3>2. KeptOf(F[1 .. m], seq, S, m, V)
      BY <2>2, <2>4
    <3> QED BY <3>1, <3>2, KeptNext, Zenon
  <2>6. KeptOf(F[1 .. k], seq, S, k, V)
    <3>1. KeptOf(IF seq[k] \in S THEN Append(F[1 .. k - 1], seq[k]) ELSE F[1 .. k - 1], seq, S, k, V)
      BY <2>4, <2>5
    <3> QED BY <2>3, <3>1
  <2> QED BY <2>1, <2>6
<1>5. n \in P
  <2> HIDE DEF P
  <2> QED BY <1>1, <1>3, <1>4, UpTo
<1>6. KeptOf(F[1 .. n], seq, S, n, V) /\ Only(seq, S) = F[1 .. n]
  BY <1>2, <1>5 DEF KeptInTurn
<1> QED
  BY <1>6, Zenon DEF n

\* A sequence with one element more, that is kept or not.
LEMMA OnlyOfOneMore ==
    ASSUME NEW n \in Nat, NEW s, DOMAIN s = 1 .. n, NEW t, DOMAIN t = 1 .. n + 1,
           NEW S, NEW T, \A k \in 1 .. n : s[k] = t[k] /\ (s[k] \in S <=> t[k] \in T)
    PROVE  Only(t, T) = IF t[n + 1] \in T THEN Append(Only(s, S), t[n + 1]) ELSE Only(s, S)
<1>1. PICK F : KeptInTurn(F, s, S, n)
  BY OnlyInTurn, Zenon
<1>2. PICK m \in Nat : m = n + 1 /\ m - 1 = n /\ n \in 0 .. n /\ m \in 1 .. m
  OBVIOUS
<1>3. PICK G : KeptInTurn(G, t, T, m)
  BY <1>2, OnlyInTurn
<1> DEFINE P == {k \in 0 .. n : F[1 .. k] = G[1 .. k]}
<1>4. 0 \in P
  <2>1. 1 .. 0 = {} /\ 0 \in 0 .. n
    OBVIOUS
  <2>2. F[{}] = <<>> /\ G[{}] = <<>>
    BY <1>1, <1>3, Zenon DEF KeptInTurn
  <2> QED BY <2>1, <2>2
<1>5. ASSUME NEW k \in 1 .. n, k - 1 \in P
      PROVE  k \in P
  <2>1. k \in 1 .. m /\ k \in 0 .. n
    BY <1>2
  <2>2. F[1 .. k] = IF s[k] \in S THEN Append(F[1 .. k - 1], s[k]) ELSE F[1 .. k - 1]
    BY <1>1, Zenon DEF KeptInTurn
  <2>3. G[1 .. k] = IF t[k] \in T THEN Append(G[1 .. k - 1], t[k]) ELSE G[1 .. k - 1]
    BY <1>3, <2>1, Zenon DEF KeptInTurn
  <2>4. F[1 .. k - 1] = G[1 .. k - 1] /\ s[k] = t[k] /\ (s[k] \in S <=> t[k] \in T)
    BY <1>5
  <2> QED BY <2>1, <2>2, <2>3, <2>4
<1>6. n \in P
  <2> HIDE DEF P
  <2>1. \A k \in 0 .. n : k \in P
    BY <1>4, <1>5, UpTo
  <2> QED BY <1>2, <2>1
<1>7. F[1 .. n] = Only(s, S) /\ G[1 .. m] = Only(t, T)
  BY <1>1, <1>3, Zenon DEF KeptInTurn
<1>8. G[1 .. m] = IF t[m] \in T THEN Append(G[1 .. m - 1], t[m]) ELSE G[1 .. m - 1]
  BY <1>2, <1>3, Zenon DEF KeptInTurn
<1> QED
  BY <1>2, <1>6, <1>7, <1>8

\* If all are kept, the sequence is as it was.
LEMMA OnlyOfAll ==
    ASSUME NEW V, NEW seq \in Seq(V), NEW S, \A k \in 1 .. Len(seq) : seq[k] \in S
    PROVE  Only(seq, S) = seq
<1> DEFINE n == Len(seq)
<1>1. n \in Nat /\ DOMAIN seq = 1 .. n /\ \A k \in 1 .. n : seq[k] \in V /\ seq[k] \in S
  OBVIOUS
<1> HIDE DEF n
<1>2. PICK F : KeptInTurn(F, seq, S, n)
  BY <1>1, OnlyInTurn, Zenon
<1> DEFINE Same(q, k) == q \in Seq(V) /\ Len(q) = k /\ \A i \in 1 .. k : q[i] = seq[i]
           P == {k \in 0 .. n : Same(F[1 .. k], k)}
<1>3. 0 \in P
  <2>1. 1 .. 0 = {} /\ 0 \in 0 .. n /\ F[{}] = <<>>
    BY <1>1, <1>2 DEF KeptInTurn
  <2>2. Same(<<>>, 0)
    OBVIOUS
  <2> HIDE DEF Same
  <2> QED BY <2>1, <2>2
<1>4. ASSUME NEW k \in 1 .. n, k - 1 \in P
      PROVE  k \in P
  <2>1. F[1 .. k] = Append(F[1 .. k - 1], seq[k])
    BY <1>1, <1>2, Zenon DEF KeptInTurn
  <2>2. PICK q : q = F[1 .. k - 1]
    OBVIOUS
  <2>3. Same(q, k - 1) /\ seq[k] \in V /\ k \in Nat
    BY <1>1, <1>4, <2>2
  <2>4. Same(Append(q, seq[k]), k)
    BY <2>3
  <2> HIDE DEF Same
  <2>5. k \in 0 .. n
    BY <1>1
  <2> QED BY <2>1, <2>2, <2>4, <2>5
<1>5. n \in P
  <2> HIDE DEF P
  <2>1. \A k \in 0 .. n : k \in P
    BY <1>1, <1>3, <1>4, UpTo
  <2> QED BY <1>1, <2>1
<1>6. PICK q : q = Only(seq, S)
  OBVIOUS
<1>7. q = F[1 .. n]
  BY <1>2, <1>6 DEF KeptInTurn
<1>8. Same(q, n)
  BY <1>5, <1>7
<1>9. q = seq
  BY <1>8 DEF n
<1> QED
  BY <1>6, <1>9

-----------------------------------------------------------------------------
(* Finite sets of numbers.                                                  *)

LEMMA Largest ==
    ASSUME NEW S, IsFiniteSet(S), S \subseteq Nat, S # {}
    PROVE  Max(S) \in S /\ \A y \in S : y <= Max(S)
<1> DEFINE n == Cardinality(S)
           P == {k \in 0 .. n : \A s \in Small(S, k) : s # {} => \E x \in s : \A y \in s : x >= y}
<1>1. n \in Nat /\ Small(S, n) = SUBSET S
  BY AllAreSmall
<1>2. 0 \in P
  BY <1>1, NoneIsSmall
<1>3. ASSUME NEW k \in 1 .. n, k - 1 \in P
      PROVE  k \in P
  <2> SUFFICES ASSUME NEW s \in Small(S, k), s # {}
               PROVE  \E x \in s : \A y \in s : x >= y
    BY <1>1
  <2>1. PICK z : z \in s
    OBVIOUS
  <2>2. s \ {z} \in Small(S, k - 1) /\ s \in SUBSET S
    <3>1. k \in Nat
      BY <1>1
    <3> QED BY <2>1, <3>1, OneOfSmall, Zenon
  <2>3. CASE s \ {z} = {}
    BY <2>1, <2>2, <2>3
  <2>4. CASE s \ {z} # {}
    <3>1. PICK x \in s \ {z} : \A y \in s \ {z} : x >= y
      BY <1>3, <2>2, <2>4
    <3>2. x \in Nat /\ z \in Nat /\ \A y \in s : y \in Nat
      BY <2>1, <2>2, <3>1
    <3>3. CASE x >= z
      BY <3>1, <3>3
    <3>4. CASE z >= x
      <4>1. \A y \in s : z >= y
        BY <3>1, <3>2, <3>4
      <4> QED BY <2>1, <4>1
    <3> QED BY <3>2, <3>3, <3>4
  <2> QED BY <2>3, <2>4
<1>4. n \in P
  <2> HIDE DEF P, n
  <2> QED BY <1>1, <1>2, <1>3, UpTo
<1>5. \E x \in S : \A y \in S : x >= y
  BY <1>1, <1>4
<1>6. Max(S) \in S /\ \A y \in S : Max(S) >= y
  BY <1>5, Zenon DEF Max
<1> QED
  BY <1>6

LEMMA ImageIsFinite ==
    ASSUME NEW f, IsFiniteSet(DOMAIN f)
    PROVE  IsFiniteSet({f[x] : x \in DOMAIN f})
<1> DEFINE g == [x \in DOMAIN f |-> f[x]]
<1>1. g \in Surjection(DOMAIN f, {f[x] : x \in DOMAIN f})
  BY DEF Surjection
<1> QED
  BY <1>1, FS_Surjection, Zenon

-----------------------------------------------------------------------------
(* Years: the day divided by the days of a year.                            *)

LEMMA DivIs ==
    ASSUME NEW a \in Nat, NEW b \in Nat \ {0}
    PROVE  a \div b \in Nat /\ (a \div b) * b <= a /\ a < (a \div b) * b + b
  OBVIOUS

LEMMA TimesGrows ==
    ASSUME NEW p \in Nat, NEW q \in Nat, NEW b \in Nat, p < q
    PROVE  p * b + b <= q * b
<1>1. PICK k \in Nat : q = p + 1 + k
  <2>1. q - p - 1 \in Nat /\ q = p + 1 + (q - p - 1)
    OBVIOUS
  <2> QED BY <2>1
<1>2. q * b = p * b + b + k * b /\ k * b \in Nat /\ p * b \in Nat
  BY <1>1
<1> QED
  BY <1>2

LEMMA YearIs ==
    ASSUME NEW a \in Nat
    PROVE  YearOf(a) \in Nat /\ YearOf(a) * Year <= a /\ a < YearOf(a) * Year + Year
  BY CostBasisAssumption, DivIs DEF YearOf

LEMMA YearsInOrder ==
    ASSUME NEW a \in Nat, NEW b \in Nat, a <= b
    PROVE  YearOf(a) <= YearOf(b)
<1>1. PICK p \in Nat, q \in Nat : p = YearOf(a) /\ q = YearOf(b)
  BY YearIs
<1>2. SUFFICES ASSUME q < p
               PROVE  FALSE
  BY <1>1
<1>3. q * Year + Year <= p * Year
  BY <1>2, CostBasisAssumption, TimesGrows
<1>4. p * Year <= a /\ b < q * Year + Year
  BY <1>1, YearIs
<1>5. p * Year \in Nat /\ q * Year + Year \in Nat
  BY CostBasisAssumption
<1> QED
  BY <1>3, <1>4, <1>5

\* The last day of a year is in it, and no other day of it is later.
LEMMA EndOfYear ==
    ASSUME NEW year \in Nat
    PROVE  /\ YearOf((year + 1) * Year - 1) = year
           /\ \A a \in Nat : YearOf(a) = year => a <= (year + 1) * Year - 1
<1>1. (year + 1) * Year = year * Year + Year /\ year * Year \in Nat /\ Year \in Nat /\ Year > 0
  BY CostBasisAssumption
<1>2. ASSUME NEW a \in Nat, YearOf(a) = year
      PROVE  a <= (year + 1) * Year - 1
  BY <1>1, <1>2, YearIs
<1> DEFINE day == (year + 1) * Year - 1
<1>3. day \in Nat /\ year * Year <= day /\ day < year * Year + Year
  BY <1>1
<1> HIDE DEF day
<1>4. YearOf(day) = year
  <2>1. PICK q \in Nat : q = YearOf(day)
    BY <1>3, YearIs
  <2>2. q * Year <= day /\ day < q * Year + Year
    BY <1>3, <2>1, YearIs
  <2>3. ~ (q < year)
    <3>1. q < year => q * Year + Year <= year * Year
      BY <1>1, TimesGrows
    <3>2. q * Year \in Nat
      BY <1>1
    <3> QED BY <1>1, <1>3, <2>2, <3>1, <3>2
  <2>4. ~ (year < q)
    <3>1. year < q => year * Year + Year <= q * Year
      BY <1>1, TimesGrows
    <3>2. q * Year \in Nat
      BY <1>1
    <3> QED BY <1>1, <1>3, <2>2, <3>1, <3>2
  <2> QED BY <2>1, <2>3, <2>4
<1> QED
  BY <1>2, <1>4 DEF day

-----------------------------------------------------------------------------
(* Parsers: one row of the right exchange, or none.                         *)

Refs == {l.ref : l \in Line} \cup {r.ref : r \in ApiRow} \cup {NoRef}
Booked(src) == RowOf(src, IF src = "strike" THEN Refs \ {NoRef} ELSE Refs)
\* A line of Strike calls what has the reference so.
Named(ref, type) == \E l \in Line : l.src = "strike" /\ l.ref = ref /\ l.tag = type
\* What is imported of an exchange: Strike's other types are left out, and its API
\* has no purchases.
Kept(src) ==
    {r \in Booked(src) : src = "strike" => ~Ignored(r) /\ (Purchase(r) => Named(r.ref, r.type))}
\* The lines a preview keeps.
Shown == {l \in Line : l.src = "strike" /\ l.ref # NoRef}

AtMostOne(S, V) == S = {} \/ \E x \in V : S = {x}

LEMMA FunctionIsSequence ==
    ASSUME NEW V, NEW n \in Nat, NEW f \in [1 .. n -> V]
    PROVE  f \in Seq(V)
OBVIOUS

LEMMA SmallSetAsSequence ==
    ASSUME NEW S, NEW V, AtMostOne(S, V)
    PROVE  SetToSeq(S) \in Seq(V)
<1> DEFINE f == SetToSeq(S)
<1>1. CASE S = {}
  <2>1. Cardinality(S) = 0
    BY <1>1, FS_EmptySet
  <2>2. \E g \in [1 .. 0 -> S] : IsInjective(g)
    <3>1. [i \in 1 .. 0 |-> i] \in [1 .. 0 -> S] /\ IsInjective([i \in 1 .. 0 |-> i])
      BY DEF IsInjective
    <3> QED BY <3>1
  <2>3. f \in [1 .. 0 -> S]
    BY <2>1, <2>2 DEF SetToSeq
  <2> QED BY <1>1, <2>3
<1>2. ASSUME NEW x \in V, S = {x}
      PROVE  f \in Seq(V)
  <2>1. Cardinality(S) = 1
    BY <1>2, FS_Singleton
  <2>2. \E g \in [1 .. 1 -> S] : IsInjective(g)
    <3>1. [i \in 1 .. 1 |-> x] \in [1 .. 1 -> S] /\ IsInjective([i \in 1 .. 1 |-> x])
      BY <1>2 DEF IsInjective
    <3> QED BY <3>1
  <2>3. f \in [1 .. 1 -> S]
    BY <2>1, <2>2 DEF SetToSeq
  <2>4. f \in [1 .. 1 -> V]
    <3> HIDE DEF f
    <3> QED BY <1>2, <2>3
  <2> HIDE DEF f
  <2> QED BY <2>4, FunctionIsSequence
<1> QED
  BY <1>1, <1>2 DEF AtMostOne

LEMMA ReadIsSequence ==
    ASSUME NEW reader, NEW V, NEW n \in Nat, NEW lines, DOMAIN lines = 1 .. n,
           \A k \in 1 .. n : AtMostOne(Made(reader, lines[k]), V)
    PROVE  Read(reader, lines) \in Seq(V)
<1>1. PICK F : ReadInTurn(F, reader, lines, n)
  BY ReadByLines, Zenon
<1> DEFINE P == {k \in 0 .. n : F[1 .. k] \in Seq(V)}
<1>2. 0 \in P
  <2>1. 1 .. 0 = {}
    OBVIOUS
  <2>2. F[1 .. 0] = <<>>
    BY <1>1, <2>1, Zenon DEF ReadInTurn
  <2>3. 0 \in 0 .. n /\ <<>> \in Seq(V)
    OBVIOUS
  <2> QED BY <2>2, <2>3, Zenon
<1>3. ASSUME NEW k \in 1 .. n, k - 1 \in P
      PROVE  k \in P
  <2>1. SetToSeq(Made(reader, lines[k])) \in Seq(V)
    BY SmallSetAsSequence
  <2>2. F[1 .. k - 1] \in Seq(V)
    BY <1>3
  <2>3. F[1 .. k - 1] \o SetToSeq(Made(reader, lines[k])) \in Seq(V)
    BY <2>1, <2>2
  <2>4. F[1 .. k] \in Seq(V)
    BY <1>1, <2>3, Zenon DEF ReadInTurn
  <2> QED BY <2>4
<1>4. n \in P
  <2> HIDE DEF P
  <2> QED BY <1>2, <1>3, UpTo
<1> QED
  BY <1>1, <1>4 DEF ReadInTurn

LEMMA RowType ==
    ASSUME NEW l, NEW src, NEW refs, l.src = src, l.ref \in refs, l.at \in Nat,
           NEW type \in Type, NEW sat \in Int, NEW usd \in Nat, NEW cost \in Nat
    PROVE  Row(l, type, sat, usd, cost) \in RowOf(src, refs)
  BY DEF Row, RowOf

LEMMA Thousandth ==
    ASSUME NEW l, l.usd \in Nat
    PROVE  Thousands(l.usd) \in Nat
BY Z3 DEF Thousands

LEMMA LineType ==
    ASSUME NEW l \in Line
    PROVE  /\ l.src \in Source /\ l.ref \in Refs /\ l.at \in Nat /\ l.tag \in Type
           /\ l.sat \in Nat /\ l.usd \in Nat /\ -l.sat \in Int /\ l.price \in Nat /\ l.cost \in Nat
           /\ l.comma \in {"none", "dollar fee", "no fee"}
           /\ [l EXCEPT !.ref = NoRef].src = l.src /\ [l EXCEPT !.ref = NoRef].ref = NoRef
           /\ [l EXCEPT !.ref = NoRef].at = l.at
<1>1. l \in [src : Source, ref : {l.ref}, at : Nat, tag : {l.tag}, out : {l.out}, sat : Nat, usd : Nat,
             price : Nat, cost : Nat, comma : {"none", "dollar fee", "no fee"}]
  BY BookAssumption
<1>2. l.tag \in Type
  BY Zenon DEF Type
<1>3. /\ l.src \in Source /\ l.at \in Nat
      /\ l.sat \in Nat /\ l.usd \in Nat /\ l.price \in Nat /\ l.cost \in Nat
      /\ l.comma \in {"none", "dollar fee", "no fee"}
  BY <1>1
<1>4. l.ref \in Refs
  BY Zenon DEF Refs
<1>5. \A k : k = [l EXCEPT !.ref = NoRef] => k.src = l.src /\ k.ref = NoRef /\ k.at = l.at
  BY <1>1
<1>6. -l.sat \in Int
  <2>1. l.sat \in Nat
    BY <1>3
  <2> QED BY <2>1
<1> QED
  BY <1>2, <1>3, <1>4, <1>5, <1>6, Zenon

LEMMA TypesOfRows ==
    /\ "purchase" \in Type /\ "buy" \in Type /\ "sale" \in Type /\ "receive" \in Type
    /\ "send" \in Type /\ "deposit" \in Type /\ "withdrawal" \in Type
BY Zenon DEF Type

\* A row that is made of a line, with or without its reference.
LEMMA RowIsBooked ==
    ASSUME NEW l \in Line, NEW k \in {l, [l EXCEPT !.ref = NoRef]},
           l.src = "strike" => k = l /\ l.ref # NoRef,
           NEW type \in Type, NEW sat \in Int, NEW usd \in Nat, NEW cost \in Nat
    PROVE  Row(k, type, sat, usd, cost) \in Booked(l.src)
<1>1. k.src = l.src /\ k.ref \in Refs /\ k.at \in Nat
  <2>1. NoRef \in Refs
    BY Zenon DEF Refs
  <2>2. k = l \/ k = [l EXCEPT !.ref = NoRef]
    OBVIOUS
  <2> QED BY <2>1, <2>2, LineType, Zenon
<1>2. k.ref \in IF l.src = "strike" THEN Refs \ {NoRef} ELSE Refs
  BY <1>1
<1> QED
  BY <1>1, <1>2, RowType, Zenon DEF Booked

\* What a parser may make of a line: nothing or a row with some signs and prices.
MadeRow(l, S) ==
    \E k \in {l, [l EXCEPT !.ref = NoRef]}, type \in Type, sat \in Int, usd, cost \in Nat :
        S = {Row(k, type, sat, usd, cost)} /\ (l.src = "strike" => k = l /\ l.ref # NoRef)

LEMMA MadeRowIsBooked ==
    ASSUME NEW l \in Line, NEW S, S = {} \/ MadeRow(l, S)
    PROVE  AtMostOne(S, Booked(l.src))
  BY RowIsBooked, Zenon DEF MadeRow, AtMostOne

LEMMA MadeRowOf ==
    ASSUME NEW l \in Line, NEW k \in {l, [l EXCEPT !.ref = NoRef]},
           l.src = "strike" => k = l /\ l.ref # NoRef,
           NEW type \in Type, NEW sat \in Int, NEW usd \in Nat, NEW cost \in Nat
    PROVE  MadeRow(l, {Row(k, type, sat, usd, cost)})
  BY Zenon DEF MadeRow

LEMMA AmountTypes ==
    ASSUME NEW l \in Line
    PROVE  /\ l.sat \in Int /\ -l.sat \in Int /\ 0 \in Int /\ 0 \in Nat /\ l.usd \in Nat
           /\ l.price \in Nat /\ l.cost \in Nat
           /\ \A sent : (IF sent THEN -l.sat ELSE 0) \in Int
           /\ \A sent : (IF sent THEN -l.sat ELSE l.sat) \in Int
           /\ \A sent : (IF sent THEN 0 ELSE l.usd) \in Nat
<1>1. l.sat \in Nat /\ l.usd \in Nat /\ -l.sat \in Int /\ l.price \in Nat /\ l.cost \in Nat
  BY LineType, Zenon
<1>2. 0 \in Int /\ 0 \in Nat /\ \A n \in Nat : n \in Int
  OBVIOUS
<1> QED
  BY <1>1, <1>2, Zenon

LEMMA RiverLine ==
    ASSUME NEW l \in Line, l.src = "river"
    PROVE  AtMostOne(Made("river", l), Booked("river"))
<1> DEFINE sent == l.out = "btc"
           send == IF sent THEN -l.sat ELSE 0
           usd == IF sent THEN 0 ELSE l.usd
           moved == IF sent THEN -l.sat ELSE l.sat
           kind == IF sent THEN "send" ELSE "receive"
<1>1. l \in {l, [l EXCEPT !.ref = NoRef]} /\ l.src # "strike"
  OBVIOUS
<1>2. \A type \in Type, sat \in Int, u, cost \in Nat : MadeRow(l, {Row(l, type, sat, u, cost)})
  BY <1>1, MadeRowOf, Zenon
<1>3. l.sat \in Int /\ l.usd \in Nat /\ 0 \in Nat /\ send \in Int /\ usd \in Nat /\ moved \in Int
  BY AmountTypes, Zenon
<1>4. kind \in Type
  BY TypesOfRows, Zenon
<1>5. parseRiverRow(l) = {} \/ MadeRow(l, parseRiverRow(l))
  <2>1. CASE l.tag = "buy"
    <3>1. parseRiverRow(l) = {Row(l, "buy", l.sat, l.usd, l.usd)}
      BY <2>1 DEF parseRiverRow
    <3>2. MadeRow(l, {Row(l, "buy", l.sat, l.usd, l.usd)})
      BY <1>2, <1>3, TypesOfRows, Zenon
    <3> QED BY <3>1, <3>2, Zenon
  <2>2. CASE l.tag = "sell"
    <3>1. parseRiverRow(l) = {Row(l, "sale", send, l.usd, 0)}
      BY <2>2 DEF parseRiverRow
    <3> HIDE DEF send
    <3>2. MadeRow(l, {Row(l, "sale", send, l.usd, 0)})
      BY <1>2, <1>3, TypesOfRows, Zenon
    <3> QED BY <3>1, <3>2, Zenon
  <2>3. CASE l.tag = "receive"
    <3>1. parseRiverRow(l) = {Row(l, "receive", l.sat, 0, 0)}
      BY <2>3 DEF parseRiverRow
    <3>2. MadeRow(l, {Row(l, "receive", l.sat, 0, 0)})
      BY <1>2, <1>3, TypesOfRows, Zenon
    <3> QED BY <3>1, <3>2, Zenon
  <2>4. CASE l.tag \in {"withdrawal", ""}
    <3>1. parseRiverRow(l) = {Row(l, "send", send, usd, 0)}
      BY <2>4 DEF parseRiverRow
    <3> HIDE DEF send, usd
    <3>2. MadeRow(l, {Row(l, "send", send, usd, 0)})
      BY <1>2, <1>3, TypesOfRows, Zenon
    <3> QED BY <3>1, <3>2, Zenon
  <2>5. CASE l.tag \notin {"buy", "sell", "receive", "withdrawal", ""}
    <3>1. parseRiverRow(l) = IF l.sat = 0 THEN {} ELSE {Row(l, kind, moved, 0, 0)}
      BY <2>5 DEF parseRiverRow
    <3> HIDE DEF kind, moved
    <3>2. MadeRow(l, {Row(l, kind, moved, 0, 0)})
      BY <1>2, <1>3, <1>4, Zenon
    <3> QED BY <3>1, <3>2, Zenon
  <2> QED BY <2>1, <2>2, <2>3, <2>4, <2>5
<1>6. AtMostOne(parseRiverRow(l), Booked("river"))
  BY <1>5, MadeRowIsBooked, Zenon
<1> QED
  BY <1>6 DEF Made

LEMMA CoinbaseLine ==
    ASSUME NEW l \in Line, l.src = "coinbase"
    PROVE  AtMostOne(Made("coinbase", l), Booked("coinbase"))
<1> DEFINE k == [l EXCEPT !.ref = NoRef]
           signed == IF l.out = "btc" THEN -l.sat ELSE l.sat
<1>1. k \in {l, k} /\ l.src # "strike"
  OBVIOUS
<1>2. \A type \in Type, sat \in Int, u, cost \in Nat : MadeRow(l, {Row(k, type, sat, u, cost)})
  BY <1>1, MadeRowOf, Zenon
<1>3. l.sat \in Int /\ -l.sat \in Int /\ l.usd \in Nat /\ 0 \in Nat /\ signed \in Int
  BY AmountTypes, Zenon
<1>4. l.tag \in Type
  BY LineType, Zenon
<1>5. parseCoinbaseRow(l) = {} \/ MadeRow(l, parseCoinbaseRow(l))
  <2>1. CASE l.tag \in {"buy", "advanced trade buy"}
    <3>1. parseCoinbaseRow(l) = {Row(k, "buy", l.sat, 0, l.usd)}
      BY <2>1 DEF parseCoinbaseRow
    <3> HIDE DEF k
    <3>2. MadeRow(l, {Row(k, "buy", l.sat, 0, l.usd)})
      BY <1>2, <1>3, TypesOfRows, Zenon
    <3> QED BY <3>1, <3>2, Zenon
  <2>2. CASE l.tag \in {"sell", "advanced trade sell"}
    <3>1. parseCoinbaseRow(l) = {Row(k, "sale", -l.sat, l.usd, 0)}
      BY <2>2 DEF parseCoinbaseRow
    <3> HIDE DEF k
    <3>2. MadeRow(l, {Row(k, "sale", -l.sat, l.usd, 0)})
      BY <1>2, <1>3, TypesOfRows, Zenon
    <3> QED BY <3>1, <3>2, Zenon
  <2>3. CASE l.tag \in {"send", "receive"}
    <3>1. parseCoinbaseRow(l) = {Row(k, l.tag, signed, 0, 0)}
      BY <2>3 DEF parseCoinbaseRow
    <3> HIDE DEF k, signed
    <3>2. MadeRow(l, {Row(k, l.tag, signed, 0, 0)})
      BY <1>2, <1>3, <1>4, Zenon
    <3> QED BY <3>1, <3>2, Zenon
  <2>4. CASE l.tag = "convert"
    <3>1. parseCoinbaseRow(l) = {Row(k, "sale", signed, l.usd, 0)}
      BY <2>4 DEF parseCoinbaseRow
    <3> HIDE DEF k, signed
    <3>2. MadeRow(l, {Row(k, "sale", signed, l.usd, 0)})
      BY <1>2, <1>3, TypesOfRows, Zenon
    <3> QED BY <3>1, <3>2, Zenon
  <2>5. CASE l.tag = "staking income"
    <3>1. parseCoinbaseRow(l) = {Row(k, "receive", signed, 0, l.usd)}
      BY <2>5 DEF parseCoinbaseRow
    <3> HIDE DEF k, signed
    <3>2. MadeRow(l, {Row(k, "receive", signed, 0, l.usd)})
      BY <1>2, <1>3, TypesOfRows, Zenon
    <3> QED BY <3>1, <3>2, Zenon
  <2>6. CASE l.tag \notin {"buy", "advanced trade buy", "sell", "advanced trade sell", "send", "receive",
                          "convert", "staking income"}
    BY <2>6 DEF parseCoinbaseRow
  <2> QED BY <2>1, <2>2, <2>3, <2>4, <2>5, <2>6
<1>6. ParseCoinbaseCSV(l) = {} \/ MadeRow(l, ParseCoinbaseCSV(l))
  BY <1>5, Zenon DEF ParseCoinbaseCSV
<1>7. AtMostOne(ParseCoinbaseCSV(l), Booked("coinbase"))
  BY <1>6, MadeRowIsBooked, Zenon
<1> QED
  BY <1>7 DEF Made

LEMMA SwanLine ==
    ASSUME NEW l \in Line, l.src = "swan"
    PROVE  AtMostOne(Made("swan", l), Booked("swan"))
<1> DEFINE k == [l EXCEPT !.ref = NoRef]
<1>1. k \in {l, k} /\ l \in {l, k} /\ l.src # "strike"
  OBVIOUS
<1>2. \A j \in {l, k}, type \in Type, sat \in Int, u, cost \in Nat : MadeRow(l, {Row(j, type, sat, u, cost)})
  BY <1>1, MadeRowOf, Zenon
<1>3. l.sat \in Int /\ -l.sat \in Int /\ l.usd \in Nat /\ 0 \in Nat
  BY AmountTypes, Zenon
<1>4. ParseSwan(l) = {} \/ MadeRow(l, ParseSwan(l))
  <2>1. CASE l.tag = "trade"
    <3>1. ParseSwan(l) = IF l.sat > 0 THEN {Row(k, "purchase", l.sat, l.usd, l.usd)} ELSE {}
      BY <2>1 DEF ParseSwan, parseSwanTradeRow
    <3> HIDE DEF k
    <3>2. MadeRow(l, {Row(k, "purchase", l.sat, l.usd, l.usd)})
      BY <1>1, <1>2, <1>3, TypesOfRows, Zenon
    <3> QED BY <3>1, <3>2, Zenon
  <2>2. CASE l.tag = "deposit"
    <3>1. ParseSwan(l) = IF l.sat > 0 THEN {Row(k, "deposit", l.sat, 0, 0)} ELSE {}
      BY <2>2 DEF ParseSwan, ParseSwanTransfersCSV
    <3> HIDE DEF k
    <3>2. MadeRow(l, {Row(k, "deposit", l.sat, 0, 0)})
      BY <1>1, <1>2, <1>3, TypesOfRows, Zenon
    <3> QED BY <3>1, <3>2, Zenon
  <2>3. CASE l.tag = "withdrawal"
    <3>1. ParseSwan(l) = IF l.sat > 0 THEN {Row(l, "withdrawal", -l.sat, 0, 0)} ELSE {}
      BY <2>3 DEF ParseSwan, ParseSwanWithdrawalsCSV
    <3> HIDE DEF k
    <3>2. MadeRow(l, {Row(l, "withdrawal", -l.sat, 0, 0)})
      BY <1>1, <1>2, <1>3, TypesOfRows, Zenon
    <3> QED BY <3>1, <3>2, Zenon
  <2>4. CASE l.tag \notin {"trade", "deposit", "withdrawal"}
    BY <2>4 DEF ParseSwan
  <2> QED BY <2>1, <2>2, <2>3, <2>4
<1>5. AtMostOne(ParseSwan(l), Booked("swan"))
  BY <1>4, MadeRowIsBooked, Zenon
<1> QED
  BY <1>5 DEF Made

\* The lines of a preview have a reference, so has what is confirmed of them.
LEMMA ShownLine ==
    ASSUME NEW l \in Line, l.src = "strike"
    PROVE  AtMostOne(Made("shown", l), Shown)
<1>1. Made("shown", l) = {l : r \in {k \in ParseStrikeCSV(l) : ~Ignored(k)}}
  BY DEF Made
<1>2. l.ref = NoRef => ParseStrikeCSV(l) = {}
  BY Zenon DEF ParseStrikeCSV
<1>3. Made("shown", l) = {} \/ Made("shown", l) = {l}
  BY <1>1
<1>4. Made("shown", l) # {} => l \in Shown
  BY <1>1, <1>2 DEF Shown
<1> QED
  BY <1>3, <1>4, Zenon DEF AtMostOne

LEMMA ConfirmedLine ==
    ASSUME NEW l \in Shown
    PROVE  AtMostOne(Made("confirmed", l), Kept("strike"))
<1> DEFINE bitcoin == IF l.out = "btc" THEN -l.sat ELSE l.sat
<1>1. l \in Line /\ l.src = "strike" /\ l.ref # NoRef /\ l \in {l, [l EXCEPT !.ref = NoRef]}
  BY DEF Shown
<1>2. \A type \in Type, sat \in Int, u, cost \in Nat : MadeRow(l, {Row(l, type, sat, u, cost)})
  BY <1>1, MadeRowOf, Zenon
<1>3. l.usd \in Nat /\ l.cost \in Nat /\ l.price \in Nat /\ bitcoin \in Int /\ 0 \in Int /\ l.tag \in Type
  BY <1>1, AmountTypes, LineType, Zenon
<1>4. Thousands(l.usd) \in Nat
  BY <1>3, Thousandth
<1> DEFINE S == ParseStrikeRawLine(l)
<1>5. S = {} \/ MadeRow(l, S)
  <2>1. CASE l.comma = "none"
    <3>1. S = {Row(l, l.tag, bitcoin, l.usd, l.cost)}
      BY <2>1 DEF ParseStrikeRawLine, parseStrikeRow
    <3> HIDE DEF bitcoin, S
    <3>2. MadeRow(l, {Row(l, l.tag, bitcoin, l.usd, l.cost)})
      BY <1>2, <1>3, Zenon
    <3> QED BY <3>1, <3>2, Zenon
  <2>2. CASE l.comma = "dollar fee"
    BY <2>2 DEF ParseStrikeRawLine
  <2>3. CASE l.comma = "no fee"
    <3> HIDE DEF bitcoin
    <3>1. S = {Row(l, l.tag, 0, Thousands(l.usd), l.price)}
      BY <2>3 DEF ParseStrikeRawLine
    <3>2. PICK u \in Nat : u = Thousands(l.usd)
      BY <1>4
    <3>3. S = {Row(l, l.tag, 0, u, l.price)}
      BY <3>1, <3>2
    <3> HIDE DEF S
    <3>4. MadeRow(l, {Row(l, l.tag, 0, u, l.price)})
      BY <1>2, <1>3, Zenon
    <3> QED BY <3>3, <3>4, Zenon
  <2>4. l.comma \in {"none", "dollar fee", "no fee"}
    BY <1>1, LineType, Zenon
  <2> QED BY <2>1, <2>2, <2>3, <2>4, Zenon
<1>6. AtMostOne(S, Booked("strike"))
  <2> HIDE DEF S
  <2> QED BY <1>1, <1>5, MadeRowIsBooked, Zenon
<1>7. Made("confirmed", l) = {r \in S : ~Ignored(r)}
  BY DEF Made
<1>8. \A r \in S : r.ref = l.ref /\ r.type = l.tag
  <2>1. \A sat, usd, cost : Row(l, l.tag, sat, usd, cost).ref = l.ref /\ Row(l, l.tag, sat, usd, cost).type = l.tag
    BY DEF Row
  <2>2. CASE l.comma = "none"
    <3>1. S = {Row(l, l.tag, bitcoin, l.usd, l.cost)}
      BY <2>2 DEF ParseStrikeRawLine, parseStrikeRow
    <3> HIDE DEF S, bitcoin
    <3> QED BY <2>1, <3>1
  <2>3. CASE l.comma = "dollar fee"
    BY <2>3 DEF ParseStrikeRawLine
  <2>4. CASE l.comma = "no fee"
    <3>1. S = {Row(l, l.tag, 0, Thousands(l.usd), l.price)}
      BY <2>4 DEF ParseStrikeRawLine
    <3> HIDE DEF S
    <3> QED BY <2>1, <3>1
  <2>5. l.comma \in {"none", "dollar fee", "no fee"}
    BY <1>1, LineType, Zenon
  <2> HIDE DEF S
  <2> QED BY <2>2, <2>3, <2>4, <2>5, Zenon
<1> HIDE DEF S
<1>9. \A r \in Booked("strike") : r \in S /\ ~Ignored(r) => r \in Kept("strike")
  BY <1>1, <1>8, Zenon DEF Kept, Named
<1>10. CASE S = {}
  BY <1>7, <1>10 DEF AtMostOne
<1>11. ASSUME NEW x \in Booked("strike"), S = {x}
       PROVE  AtMostOne(Made("confirmed", l), Kept("strike"))
  <2>1. CASE Ignored(x)
    <3>1. Made("confirmed", l) = {}
      BY <1>7, <1>11, <2>1
    <3> QED BY <3>1 DEF AtMostOne
  <2>2. CASE ~Ignored(x)
    <3>1. Made("confirmed", l) = {x}
      BY <1>7, <1>11, <2>2
    <3>2. x \in S
      BY <1>11
    <3> QED BY <1>9, <2>2, <3>1, <3>2, Zenon DEF AtMostOne
  <2> QED BY <2>1, <2>2
<1> QED
  BY <1>6, <1>10, <1>11, Zenon DEF AtMostOne

-----------------------------------------------------------------------------
(* The invariant, of the rows and lots as two functions.                    *)

KeyOf(lot, type) == <<lot[1], lot[2], type>>
LotOf(key) == <<key[1], key[2]>>

\* A row is kept under its exchange, its id and its type, an id that stands for a
\* row without a reference has its amount, one of River the type, Strike's
\* collateral has no row and its purchases are called as in its files.
RowsOK(rows) ==
    \A key \in DOMAIN rows :
        /\ key \in Source \X Id \X Type
        /\ rows[key].src = key[1] /\ rows[key].type = key[3]
        /\ rows[key].at \in Nat /\ rows[key].sat \in Int
        /\ rows[key].usd \in Nat /\ rows[key].cost \in Nat
        /\ key[2].ref = NoRef => rows[key].sat = key[2].sat
        /\ key[1] = "river" => key[2].type = key[3]
        /\ key[1] = "strike" => rows[key].type # "Loan collateral"
        /\ key[1] = "strike" /\ Purchase(rows[key]) => Named(key[2].ref, key[3])

LotsOK(ls) ==
    \A lot \in DOMAIN ls :
        /\ lot \in Source \X Id
        /\ ls[lot] \in [n : {lot}, at : Nat, sat : Int \ {0}, usd : Nat]
        /\ lot[2].ref = NoRef => ls[lot].sat = lot[2].sat

\* A lot has a row behind it.
LotsHaveRows(rows, ls) ==
    \A lot \in DOMAIN ls : \E key \in DOMAIN rows : LotOf(key) = lot

Priced(r) == Purchase(r) /\ r.sat > 0 /\ Price(r) # 0

\* Another row sets the price of the lot: a purchase, at Swan a transfer too.
Shared(rows, key) ==
    \E k \in DOMAIN rows : k # key /\ LotOf(k) = LotOf(key) /\ (key[1] = "swan" \/ Purchase(rows[k]))

\* A purchase with a price has its lot, at that price if no other row sets it.
PurchasesHaveLots(rows, ls) ==
    \A key \in DOMAIN rows :
        Priced(rows[key]) =>
            /\ LotOf(key) \in DOMAIN ls
            /\ ~Shared(rows, key) => ls[LotOf(key)].usd = Price(rows[key])

IsTable(f) == f = [k \in DOMAIN f |-> f[k]]

BookOK(b) ==
    /\ RowsOK(b.imports) /\ LotsOK(b.lots) /\ IsTable(b.lots)
    /\ LotsHaveRows(b.imports, b.lots) /\ PurchasesHaveLots(b.imports, b.lots)
    /\ IsFiniteSet(DOMAIN b.imports) /\ IsFiniteSet(DOMAIN b.lots)

IsPut(g, f, key, row) ==
    /\ DOMAIN g = DOMAIN f \cup {key} /\ g[key] = row
    /\ \A k \in DOMAIN f : k # key => g[k] = f[k]

LEMMA PutIs ==
    ASSUME NEW f, NEW key, NEW row
    PROVE  IsPut(Put(f, key, row), f, key, row)
  BY DEF Put, IsPut

\* What one row does to the lots: nothing, or its own lot has its price after it.
LotChange(ls, after, lot, r) ==
    \/ after = ls /\ ~Priced(r)
    \/ /\ lot \in DOMAIN ls /\ DOMAIN after = DOMAIN ls
       /\ \A k \in DOMAIN ls : /\ k # lot => after[k] = ls[k]
                               /\ k = lot => after[k] = [ls[k] EXCEPT !.usd = after[k].usd]
       /\ after[lot].usd \in Nat
       /\ Priced(r) => after[lot].usd = Price(r)
    \/ /\ lot \notin DOMAIN ls /\ r.sat # 0
       /\ \E usd \in Nat : /\ after = Put(ls, lot, [n |-> lot, at |-> r.at, sat |-> r.sat, usd |-> usd])
                           /\ Priced(r) => usd = Price(r)

LEMMA SetLotChange ==
    ASSUME NEW ls, LotsOK(ls), NEW lot, NEW r, NEW usd \in Nat, r.sat # 0,
           Priced(r) => usd = Price(r)
    PROVE  LotChange(ls, SetLot(ls, lot, r.at, r.sat, usd), lot, r)
<1> SUFFICES ASSUME NEW after, after = SetLot(ls, lot, r.at, r.sat, usd)
             PROVE  LotChange(ls, after, lot, r)
  OBVIOUS
<1>1. CASE lot \notin DOMAIN ls
  <2>1. after = Put(ls, lot, [n |-> lot, at |-> r.at, sat |-> r.sat, usd |-> usd])
    BY <1>1 DEF SetLot
  <2> QED BY <1>1, <2>1, Zenon DEF LotChange
<1>2. CASE lot \in DOMAIN ls
  <2>1. after = [ls EXCEPT ![lot].usd = usd]
    BY <1>2 DEF SetLot
  <2>2. ls[lot] \in [n : {lot}, at : Nat, sat : Int \ {0}, usd : Nat]
    BY <1>2 DEF LotsOK
  <2>3. DOMAIN after = DOMAIN ls /\ after[lot] = [ls[lot] EXCEPT !.usd = usd]
    BY <1>2, <2>1
  <2>4. \A k \in DOMAIN ls : k # lot => after[k] = ls[k]
    BY <2>1
  <2>5. after[lot].usd = usd
    BY <2>2, <2>3
  <2>6. \A k \in DOMAIN ls : k = lot => after[k] = [ls[k] EXCEPT !.usd = after[k].usd]
    BY <2>3, <2>5, Zenon
  <2> QED BY <1>2, <2>3, <2>4, <2>5, <2>6, Zenon DEF LotChange
<1> QED
  BY <1>1, <1>2, Zenon

LEMMA PriceIsAmount ==
    ASSUME NEW src, NEW r \in Booked(src)
    PROVE  /\ r.src = src /\ r.ref \in Refs /\ (src = "strike" => r.ref # NoRef)
           /\ r.at \in Nat /\ r.type \in Type /\ r.sat \in Int /\ r.usd \in Nat /\ r.cost \in Nat
           /\ Price(r) \in Nat
<1>1. /\ r.src = src /\ r.ref \in IF src = "strike" THEN Refs \ {NoRef} ELSE Refs
      /\ r.at \in Nat /\ r.type \in Type /\ r.sat \in Int /\ r.usd \in Nat /\ r.cost \in Nat
  BY DEF Booked, RowOf
<1>2. Price(r) \in Nat
  BY <1>1, Zenon DEF Price
<1> QED
  BY <1>1, <1>2, Zenon

LEMMA KeptIsBooked ==
    ASSUME NEW src, NEW r \in Kept(src)
    PROVE  /\ r \in Booked(src) /\ r.src = src /\ (r.src = "strike" => r.type # "Loan collateral")
           /\ r.src = "strike" /\ Purchase(r) => Named(r.ref, r.type)
<1>1. r \in Booked(src) /\ (src = "strike" => ~Ignored(r) /\ (Purchase(r) => Named(r.ref, r.type)))
  BY DEF Kept
<1>2. r.src = src
  BY <1>1, PriceIsAmount, Zenon
<1>3. r.type = "Loan collateral" => Ignored(r)
  BY DEF Ignored, Purchase
<1> QED
  BY <1>1, <1>2, <1>3, Zenon

LEMMA PurchaseLotChange ==
    ASSUME NEW ls, LotsOK(ls), NEW src, NEW id, NEW r \in Booked(src)
    PROVE  LotChange(ls, PurchaseLot(ls, id, r), <<r.src, id>>, r)
<1>1. r.sat \in Int /\ Price(r) \in Nat
  BY PriceIsAmount, Zenon
<1>2. CASE Priced(r)
  <2>1. PurchaseLot(ls, id, r) = SetLot(ls, <<r.src, id>>, r.at, r.sat, Price(r))
    BY <1>2, Zenon DEF PurchaseLot, Priced
  <2>2. r.sat # 0
    BY <1>1, <1>2 DEF Priced
  <2> QED BY <1>1, <2>1, <2>2, SetLotChange, Zenon
<1>3. CASE ~Priced(r)
  <2>1. PurchaseLot(ls, id, r) = ls
    BY <1>3, Zenon DEF PurchaseLot, Priced
  <2> QED BY <1>3, <2>1, Zenon DEF LotChange
<1> QED
  BY <1>2, <1>3, Zenon

LEMMA SwanLotChange ==
    ASSUME NEW ls, LotsOK(ls), NEW src, NEW id, NEW r \in Booked(src)
    PROVE  LotChange(ls, SwanLot(ls, id, r), <<r.src, id>>, r)
<1>1. r.sat \in Int /\ Price(r) \in Nat
  BY PriceIsAmount, Zenon
<1>2. CASE Purchase(r) /\ r.sat > 0
  <2>1. SwanLot(ls, id, r) = SetLot(ls, <<r.src, id>>, r.at, r.sat, Price(r))
    BY <1>2, Zenon DEF SwanLot
  <2>2. r.sat # 0
    BY <1>1, <1>2
  <2> QED BY <1>1, <2>1, <2>2, SetLotChange, Zenon
<1>3. CASE ~ (Purchase(r) /\ r.sat > 0)
  <2>1. ~Priced(r)
    BY <1>3, Zenon DEF Priced
  <2>2. CASE (r.type = "deposit" /\ r.sat > 0) \/ (r.type = "withdrawal" /\ r.sat < 0)
    <3>1. SwanLot(ls, id, r) = SetLot(ls, <<r.src, id>>, r.at, r.sat, 0)
      BY <1>3, <2>2, Zenon DEF SwanLot
    <3>2. r.sat # 0 /\ 0 \in Nat
      BY <1>1, <2>2
    <3> QED BY <2>1, <3>1, <3>2, SetLotChange, Zenon
  <2>3. CASE ~ ((r.type = "deposit" /\ r.sat > 0) \/ (r.type = "withdrawal" /\ r.sat < 0))
    <3>1. SwanLot(ls, id, r) = ls
      BY <1>3, <2>3, Zenon DEF SwanLot
    <3> QED BY <2>1, <3>1, Zenon DEF LotChange
  <2> QED BY <2>2, <2>3, Zenon
<1> QED
  BY <1>2, <1>3, Zenon

LEMMA LotIsTable ==
    ASSUME NEW ls, IsTable(ls), NEW id, NEW r
    PROVE  IsTable(PurchaseLot(ls, id, r)) /\ IsTable(SwanLot(ls, id, r))
<1>1. \A lot, at, sat, usd : IsTable(SetLot(ls, lot, at, sat, usd))
  BY DEF IsTable, SetLot, Put
<1> QED
  BY <1>1, Zenon DEF PurchaseLot, SwanLot

\* What that means for the lots as a whole.
LotsKept(ls, after, lot, r) ==
    /\ LotsOK(after)
    /\ DOMAIN ls \subseteq DOMAIN after /\ DOMAIN after \subseteq DOMAIN ls \cup {lot}
    /\ \A k \in DOMAIN ls : k # lot => after[k] = ls[k]
    /\ Priced(r) => lot \in DOMAIN after /\ after[lot].usd = Price(r)

LEMMA LotsAfter ==
    ASSUME NEW ls, LotsOK(ls), NEW lot \in Source \X Id, NEW r, r.at \in Nat, r.sat \in Int,
           lot[2].ref = NoRef => lot[2].sat = r.sat,
           NEW after, LotChange(ls, after, lot, r)
    PROVE  LotsKept(ls, after, lot, r)
<1>1. CASE after = ls /\ ~Priced(r)
  BY <1>1, Zenon DEF LotsKept
<1>2. CASE /\ lot \in DOMAIN ls /\ DOMAIN after = DOMAIN ls
           /\ \A k \in DOMAIN ls : /\ k # lot => after[k] = ls[k]
                                   /\ k = lot => after[k] = [ls[k] EXCEPT !.usd = after[k].usd]
           /\ after[lot].usd \in Nat
           /\ Priced(r) => after[lot].usd = Price(r)
  <2>1. ls[lot] \in [n : {lot}, at : Nat, sat : Int \ {0}, usd : Nat]
    BY <1>2, Zenon DEF LotsOK
  <2>2. after[lot] = [ls[lot] EXCEPT !.usd = after[lot].usd]
    BY <1>2, Zenon
  <2>3. \A u \in Nat : \A x : x = [ls[lot] EXCEPT !.usd = u]
          => x \in [n : {lot}, at : Nat, sat : Int \ {0}, usd : Nat] /\ x.sat = ls[lot].sat
    BY <2>1
  <2>4. after[lot] \in [n : {lot}, at : Nat, sat : Int \ {0}, usd : Nat] /\ after[lot].sat = ls[lot].sat
    BY <1>2, <2>2, <2>3, Zenon
  <2>5. LotsOK(after)
    <3> SUFFICES ASSUME NEW k \in DOMAIN after
                 PROVE  /\ k \in Source \X Id
                        /\ after[k] \in [n : {k}, at : Nat, sat : Int \ {0}, usd : Nat]
                        /\ k[2].ref = NoRef => after[k].sat = k[2].sat
      BY Zenon DEF LotsOK
    <3>1. /\ k \in Source \X Id
          /\ ls[k] \in [n : {k}, at : Nat, sat : Int \ {0}, usd : Nat]
          /\ k[2].ref = NoRef => ls[k].sat = k[2].sat
      BY <1>2, Zenon DEF LotsOK
    <3>2. CASE k = lot
      BY <2>4, <3>1, <3>2, Zenon
    <3>3. CASE k # lot
      BY <1>2, <3>1, <3>3, Zenon
    <3> QED BY <3>2, <3>3, Zenon
  <2> QED BY <1>2, <2>5, Zenon DEF LotsKept
<1>3. CASE /\ lot \notin DOMAIN ls /\ r.sat # 0
           /\ \E usd \in Nat : /\ after = Put(ls, lot, [n |-> lot, at |-> r.at, sat |-> r.sat, usd |-> usd])
                               /\ Priced(r) => usd = Price(r)
  <2>1. PICK usd \in Nat : /\ after = Put(ls, lot, [n |-> lot, at |-> r.at, sat |-> r.sat, usd |-> usd])
                           /\ Priced(r) => usd = Price(r)
    BY <1>3, Zenon
  <2> DEFINE new == [n |-> lot, at |-> r.at, sat |-> r.sat, usd |-> usd]
  <2>2. new \in [n : {lot}, at : Nat, sat : Int \ {0}, usd : Nat] /\ new.sat = r.sat /\ new.usd = usd
    BY <1>3
  <2>3. after = Put(ls, lot, new)
    BY <2>1
  <2> HIDE DEF new
  <2>4. /\ DOMAIN after = DOMAIN ls \cup {lot} /\ after[lot] = new
        /\ \A k \in DOMAIN ls : k # lot => after[k] = ls[k]
    <3>1. IsPut(after, ls, lot, new)
      BY <2>3, PutIs
    <3> QED BY <3>1, Zenon DEF IsPut
  <2>5. LotsOK(after)
    <3> SUFFICES ASSUME NEW k \in DOMAIN after
                 PROVE  /\ k \in Source \X Id
                        /\ after[k] \in [n : {k}, at : Nat, sat : Int \ {0}, usd : Nat]
                        /\ k[2].ref = NoRef => after[k].sat = k[2].sat
      BY Zenon DEF LotsOK
    <3>1. CASE k = lot
      BY <2>2, <2>4, <3>1, Zenon
    <3>2. CASE k # lot
      <4>1. k \in DOMAIN ls /\ after[k] = ls[k]
        BY <2>4, <3>2, Zenon
      <4> QED BY <4>1, Zenon DEF LotsOK
    <3> QED BY <3>1, <3>2, Zenon
  <2>6. Priced(r) => lot \in DOMAIN after /\ after[lot].usd = Price(r)
    BY <2>1, <2>2, <2>4, Zenon
  <2>7. DOMAIN ls \subseteq DOMAIN after /\ DOMAIN after \subseteq DOMAIN ls \cup {lot}
    BY <2>4, Zenon
  <2> QED BY <2>4, <2>5, <2>6, <2>7, Zenon DEF LotsKept
<1> QED
  BY <1>1, <1>2, <1>3, Zenon DEF LotChange

LEMMA UpsertKeeps ==
    ASSUME NEW b, BookOK(b), NEW src \in Source, NEW r \in Kept(src),
           NEW id \in Id, id.ref = NoRef => id.sat = r.sat,
           src = "river" => id.type = r.type, src = "strike" => id.ref = r.ref,
           NEW after, LotChange(b.lots, after, <<r.src, id>>, r), IsTable(after),
           src # "swan" /\ ~Purchase(r) => after = b.lots
    PROVE  BookOK(Upsert(b, r, id, after))
<1> DEFINE key == <<r.src, id, r.type>>
           lot == <<r.src, id>>
           rows == Put(b.imports, key, r)
<1>1. CASE key \in DOMAIN b.imports /\ b.imports[key] = r
  BY <1>1, Zenon DEF Upsert
<1>2. CASE ~ (key \in DOMAIN b.imports /\ b.imports[key] = r)
  <2>1. Upsert(b, r, id, after) = [imports |-> rows, lots |-> after]
    BY <1>2, Zenon DEF Upsert
  <2>2. Upsert(b, r, id, after).imports = rows /\ Upsert(b, r, id, after).lots = after
    BY <2>1
  <2>3. /\ r.src = src /\ r.src \in Source /\ r.at \in Nat /\ r.type \in Type
        /\ r.sat \in Int /\ r.usd \in Nat /\ r.cost \in Nat
    <3>1. r \in Booked(src) /\ r.src = src
      BY KeptIsBooked, Zenon
    <3>2. /\ r.at \in Nat /\ r.type \in Type
          /\ r.sat \in Int /\ r.usd \in Nat /\ r.cost \in Nat
      BY <3>1, PriceIsAmount, Zenon
    <3>3. r.src \in Source
      BY <3>1
    <3> QED BY <3>1, <3>2, <3>3, Zenon
  <2>4. /\ key \in Source \X Id \X Type /\ lot \in Source \X Id /\ LotOf(key) = lot
        /\ key[1] = r.src /\ key[2] = id /\ key[3] = r.type /\ lot[2] = id
    BY <2>3 DEF LotOf
  <2>5. /\ DOMAIN rows = DOMAIN b.imports \cup {key} /\ rows[key] = r
        /\ \A k \in DOMAIN b.imports : k # key => rows[k] = b.imports[k]
    <3>1. IsPut(rows, b.imports, key, r)
      BY PutIs
    <3> QED BY <3>1, Zenon DEF IsPut
  <2> HIDE DEF rows, key, lot
  <2>6. LotChange(b.lots, after, lot, r)
    BY DEF lot
  <2>7. /\ LotsOK(after)
        /\ DOMAIN b.lots \subseteq DOMAIN after /\ DOMAIN after \subseteq DOMAIN b.lots \cup {lot}
        /\ \A k \in DOMAIN b.lots : k # lot => after[k] = b.lots[k]
        /\ Priced(r) => lot \in DOMAIN after /\ after[lot].usd = Price(r)
    <3>1. LotsOK(b.lots) /\ (lot[2].ref = NoRef => lot[2].sat = r.sat)
      BY <2>4, Zenon DEF BookOK
    <3>2. LotsKept(b.lots, after, lot, r)
      BY <2>3, <2>4, <2>6, <3>1, LotsAfter, Zenon
    <3> QED BY <3>2, Zenon DEF LotsKept
  <2>8. RowsOK(rows)
    <3> SUFFICES ASSUME NEW k \in DOMAIN rows
                 PROVE  /\ k \in Source \X Id \X Type
                        /\ rows[k].src = k[1] /\ rows[k].type = k[3]
                        /\ rows[k].at \in Nat /\ rows[k].sat \in Int
                        /\ rows[k].usd \in Nat /\ rows[k].cost \in Nat
                        /\ k[2].ref = NoRef => rows[k].sat = k[2].sat
                        /\ k[1] = "river" => k[2].type = k[3]
                        /\ k[1] = "strike" => rows[k].type # "Loan collateral"
                        /\ k[1] = "strike" /\ Purchase(rows[k]) => Named(k[2].ref, k[3])
      BY Zenon DEF RowsOK
    <3>1. CASE k = key
      <4>1. /\ r.src = "strike" => r.type # "Loan collateral"
            /\ r.src = "strike" /\ Purchase(r) => Named(id.ref, r.type)
            /\ r.src = "river" => id.type = r.type
        BY <2>3, KeptIsBooked, Zenon
      <4> QED BY <2>3, <2>4, <2>5, <3>1, <4>1, Zenon
    <3>2. CASE k # key
      <4>1. k \in DOMAIN b.imports /\ rows[k] = b.imports[k]
        BY <2>5, <3>2, Zenon
      <4> QED BY <4>1, Zenon DEF BookOK, RowsOK
    <3> QED BY <3>1, <3>2, Zenon
  <2>9. LotsHaveRows(rows, after)
    BY <2>4, <2>5, <2>7, Zenon DEF BookOK, LotsHaveRows
  <2>10. PurchasesHaveLots(rows, after)
    <3> SUFFICES ASSUME NEW k \in DOMAIN rows, Priced(rows[k])
                 PROVE  /\ LotOf(k) \in DOMAIN after
                        /\ ~Shared(rows, k) => after[LotOf(k)].usd = Price(rows[k])
      BY Zenon DEF PurchasesHaveLots
    <3>1. CASE k = key
      BY <2>4, <2>5, <2>7, <3>1, Zenon
    <3>2. CASE k # key
      <4>1. k \in DOMAIN b.imports /\ rows[k] = b.imports[k]
        BY <2>5, <3>2, Zenon
      <4>2. /\ LotOf(k) \in DOMAIN b.lots
            /\ ~Shared(b.imports, k) => b.lots[LotOf(k)].usd = Price(b.imports[k])
        BY <4>1, Zenon DEF BookOK, PurchasesHaveLots
      <4>3. CASE Shared(rows, k)
        BY <2>7, <4>2, <4>3, Zenon
      <4>4. ASSUME ~Shared(rows, k), LotOf(k) = lot
            PROVE  after = b.lots /\ ~Purchase(r)
        <5>1. key \in DOMAIN rows /\ key # k /\ LotOf(key) = LotOf(k) /\ rows[key] = r
          BY <2>4, <2>5, <3>2, <4>4, Zenon
        <5>2. k[1] # "swan" /\ ~Purchase(r)
          BY <4>4, <5>1, Zenon DEF Shared
        <5>3. LotOf(k)[1] = k[1] /\ lot[1] = r.src
          BY DEF LotOf, lot
        <5> QED BY <2>3, <4>4, <5>2, <5>3, Zenon
      <4>5. ASSUME ~Shared(rows, k), LotOf(k) = lot => ~Purchase(r)
            PROVE  ~Shared(b.imports, k)
        <5> SUFFICES ASSUME NEW j \in DOMAIN b.imports, j # k, LotOf(j) = LotOf(k),
                            k[1] = "swan" \/ Purchase(b.imports[j])
                     PROVE  FALSE
          BY Zenon DEF Shared
        <5>1. j \in DOMAIN rows /\ ~(k[1] = "swan" \/ Purchase(rows[j]))
          BY <2>5, <4>5, Zenon DEF Shared
        <5>2. j = key
          BY <2>5, <5>1, Zenon
        <5>3. b.imports[j].type = r.type /\ ~Purchase(r)
          BY <2>4, <4>5, <5>2, Zenon DEF BookOK, RowsOK
        <5> QED BY <5>1, <5>3 DEF Purchase
      <4>6. CASE ~Shared(rows, k)
        <5>1. ~Shared(b.imports, k)
          BY <4>4, <4>5, <4>6, Zenon
        <5>2. after[LotOf(k)] = b.lots[LotOf(k)]
          BY <2>7, <4>2, <4>4, <4>6, Zenon
        <5> QED BY <2>7, <4>1, <4>2, <5>1, <5>2, Zenon
      <4> QED BY <4>3, <4>6, Zenon
    <3> QED BY <3>1, <3>2, Zenon
  <2>11. IsFiniteSet(DOMAIN rows) /\ IsFiniteSet(DOMAIN after)
    <3>1. IsFiniteSet(DOMAIN b.imports) /\ IsFiniteSet(DOMAIN b.lots)
      BY Zenon DEF BookOK
    <3>2. IsFiniteSet(DOMAIN b.imports \cup {key}) /\ IsFiniteSet(DOMAIN b.lots \cup {lot})
      BY <3>1, FS_AddElement, Zenon
    <3> QED BY <2>5, <2>7, <3>2, FS_Subset, Zenon
  <2> QED BY <2>2, <2>7, <2>8, <2>9, <2>10, <2>11, Zenon DEF BookOK
<1> QED
  BY <1>1, <1>2, Zenon

LEMMA Ids ==
    ASSUME NEW src \in Source, NEW r \in Booked(src)
    PROVE  /\ Composite(r) \in Id /\ Composite(r).ref = NoRef /\ Composite(r).sat = r.sat
           /\ Composite(r).type = r.type
           /\ Ref(r) \in Id /\ Ref(r).ref = r.ref
<1>1. r.ref \in Refs /\ r.at \in Nat /\ r.type \in Type /\ r.sat \in Int
  BY PriceIsAmount, Zenon
<1>2. Id = [ref : Refs, at : Nat, type : Type \cup {""}, sat : Int] /\ NoRef \in Refs
  BY DEF Id, Refs
<1>3. /\ Composite(r) \in Id /\ Composite(r).ref = NoRef /\ Composite(r).sat = r.sat
      /\ Composite(r).type = r.type
  BY <1>1, <1>2 DEF Composite
<1>4. Ref(r) \in Id /\ Ref(r).ref = r.ref
  <2>1. "" \in Type \cup {""} /\ 0 \in Nat /\ 0 \in Int
    OBVIOUS
  <2>2. \A ref \in Refs, at \in Nat, type \in Type \cup {""}, sat \in Int :
          /\ [ref |-> ref, at |-> at, type |-> type, sat |-> sat] \in Id
          /\ [ref |-> ref, at |-> at, type |-> type, sat |-> sat].ref = ref
    BY <1>2
  <2> QED BY <1>1, <2>1, <2>2, Zenon DEF Ref
<1> QED
  BY <1>3, <1>4, Zenon

\* One row of an exchange keeps the invariant, whatever the book holds.
LEMMA ImportRowKeeps ==
    ASSUME NEW b, BookOK(b), NEW src \in Source, NEW r \in Kept(src)
    PROVE  BookOK(ImportRow(src, b, r))
<1> DEFINE id == CASE src = "strike" -> Ref(r)
                   [] src = "river" -> Composite(r)
                   [] OTHER -> StableId(r)
           after == IF src = "swan" THEN SwanLot(b.lots, id, r) ELSE PurchaseLot(b.lots, id, r)
<1>1. ImportRow(src, b, r) = Upsert(b, r, id, after)
  BY DEF ImportRow
<1> r \in Booked(src)
  BY KeptIsBooked, Zenon
<1>2. src = "strike" => r.ref # NoRef
  BY PriceIsAmount, Zenon
<1>3. /\ id = Composite(r) \/ (id = Ref(r) /\ r.ref # NoRef)
      /\ src = "strike" => id = Ref(r)
      /\ src = "river" => id = Composite(r)
  BY <1>2 DEF StableId
<1>4. src # "swan" /\ ~Purchase(r) => after = b.lots
  BY Zenon DEF PurchaseLot
<1> HIDE DEF id
<1>5. /\ id \in Id /\ (id.ref = NoRef => id.sat = r.sat)
      /\ src = "river" => id.type = r.type
      /\ src = "strike" => id.ref = r.ref
  BY <1>3, Ids, Zenon
<1>6. LotsOK(b.lots) /\ IsTable(b.lots)
  BY Zenon DEF BookOK
<1>7. IsTable(after)
  BY <1>6, LotIsTable, Zenon
<1>8. LotChange(b.lots, after, <<r.src, id>>, r)
  BY <1>6, SwanLotChange, PurchaseLotChange, Zenon
<1> HIDE DEF after
<1> QED
  BY <1>1, <1>4, <1>5, <1>7, <1>8, UpsertKeeps, Zenon

LEMMA ImportRowsKeep ==
    ASSUME NEW b, BookOK(b), NEW src \in Source, NEW rows \in Seq(Kept(src))
    PROVE  BookOK(ImportRows(src, b, rows))
<1> DEFINE n == Len(rows)
<1>1. n \in Nat /\ DOMAIN rows = 1 .. n /\ \A k \in 1 .. n : rows[k] \in Kept(src)
  OBVIOUS
<1> HIDE DEF n
<1>2. PICK F : ImportInTurn(F, src, b, rows, n)
  BY <1>1, ImportByRows, Zenon
<1> DEFINE P == {k \in 0 .. n : BookOK(F[1 .. k])}
<1>3. 0 \in P
  <2>1. 1 .. 0 = {} /\ 0 \in 0 .. n
    BY <1>1
  <2> QED BY <1>2, <2>1, Zenon DEF ImportInTurn
<1>4. ASSUME NEW k \in 1 .. n, k - 1 \in P
      PROVE  k \in P
  <2>1. BookOK(ImportRow(src, F[1 .. k - 1], rows[k]))
    BY <1>1, <1>4, ImportRowKeeps, Zenon
  <2>2. k \in 0 .. n
    BY <1>1
  <2> QED BY <1>2, <2>1, <2>2, Zenon DEF ImportInTurn
<1>5. n \in P
  <2> HIDE DEF P
  <2> QED BY <1>1, <1>3, <1>4, UpTo
<1> QED
  BY <1>2, <1>5, Zenon DEF ImportInTurn

\* What is left of a book when an exchange is cleared.
LeftOf(b, src, left) ==
    /\ \A key : key \in DOMAIN left.imports <=> key \in DOMAIN b.imports /\ key[1] # src
    /\ \A key \in DOMAIN left.imports : left.imports[key] = b.imports[key]
    /\ \A lot : lot \in DOMAIN left.lots <=> lot \in DOMAIN b.lots /\ lot[1] # src
    /\ \A lot \in DOMAIN left.lots : left.lots[lot] = b.lots[lot]
    /\ IsTable(left.lots)

LEMMA ClearLeaves ==
    ASSUME NEW b, NEW src, NEW left,
           left = [imports |-> Restrict(b.imports, {key \in DOMAIN b.imports : key[1] # src}),
                   lots |-> Restrict(b.lots, {key \in DOMAIN b.lots : key[1] # src})]
    PROVE  LeftOf(b, src, left)
  BY DEF Restrict, LeftOf, IsTable

\* To clear an exchange takes all rows that share a lot, and the lot.
LEMMA ClearKeeps ==
    ASSUME NEW b, BookOK(b), NEW src, NEW left, LeftOf(b, src, left)
    PROVE  BookOK(left)
<1>1. \A key : LotOf(key)[1] = key[1]
  BY DEF LotOf
<1>2. RowsOK(left.imports)
  <2> SUFFICES ASSUME NEW k \in DOMAIN left.imports
               PROVE  k \in DOMAIN b.imports /\ left.imports[k] = b.imports[k]
    BY Zenon DEF RowsOK, BookOK
  <2> QED BY Zenon DEF LeftOf
<1>3. LotsOK(left.lots)
  <2> SUFFICES ASSUME NEW k \in DOMAIN left.lots
               PROVE  k \in DOMAIN b.lots /\ left.lots[k] = b.lots[k]
    BY Zenon DEF LotsOK, BookOK
  <2> QED BY Zenon DEF LeftOf
<1>4. LotsHaveRows(left.imports, left.lots)
  <2> SUFFICES ASSUME NEW lot \in DOMAIN left.lots
               PROVE  \E key \in DOMAIN left.imports : LotOf(key) = lot
    BY Zenon DEF LotsHaveRows
  <2>1. lot \in DOMAIN b.lots /\ lot[1] # src
    BY Zenon DEF LeftOf
  <2>2. PICK key \in DOMAIN b.imports : LotOf(key) = lot
    BY <2>1, Zenon DEF BookOK, LotsHaveRows
  <2>3. key[1] # src
    BY <1>1, <2>1, <2>2, Zenon
  <2> QED BY <2>2, <2>3, Zenon DEF LeftOf
<1>5. PurchasesHaveLots(left.imports, left.lots)
  <2> SUFFICES ASSUME NEW k \in DOMAIN left.imports, Priced(left.imports[k])
               PROVE  /\ LotOf(k) \in DOMAIN left.lots
                      /\ ~Shared(left.imports, k) => left.lots[LotOf(k)].usd = Price(left.imports[k])
    BY Zenon DEF PurchasesHaveLots
  <2>1. k \in DOMAIN b.imports /\ k[1] # src /\ left.imports[k] = b.imports[k]
    BY Zenon DEF LeftOf
  <2>2. /\ LotOf(k) \in DOMAIN b.lots
        /\ ~Shared(b.imports, k) => b.lots[LotOf(k)].usd = Price(b.imports[k])
    BY <2>1, Zenon DEF BookOK, PurchasesHaveLots
  <2>3. LotOf(k)[1] # src
    BY <1>1, <2>1, Zenon
  <2>4. LotOf(k) \in DOMAIN left.lots /\ left.lots[LotOf(k)] = b.lots[LotOf(k)]
    BY <2>2, <2>3, Zenon DEF LeftOf
  <2>5. ASSUME NEW j \in DOMAIN b.imports, j # k, LotOf(j) = LotOf(k)
        PROVE  j \in DOMAIN left.imports /\ left.imports[j] = b.imports[j]
    <3>1. j[1] # src
      BY <1>1, <2>3, <2>5, Zenon
    <3> QED BY <3>1, Zenon DEF LeftOf
  <2>6. Shared(b.imports, k) => Shared(left.imports, k)
    BY <2>5, Zenon DEF Shared
  <2> QED BY <2>1, <2>2, <2>4, <2>6, Zenon
<1>6. IsFiniteSet(DOMAIN left.imports) /\ IsFiniteSet(DOMAIN left.lots)
  <2>1. IsFiniteSet(DOMAIN b.imports) /\ IsFiniteSet(DOMAIN b.lots)
    BY Zenon DEF BookOK
  <2>2. DOMAIN left.imports \subseteq DOMAIN b.imports /\ DOMAIN left.lots \subseteq DOMAIN b.lots
    BY Zenon DEF LeftOf
  <2> QED BY <2>1, <2>2, FS_Subset, Zenon
<1> QED
  BY <1>2, <1>3, <1>4, <1>5, <1>6, Zenon DEF BookOK, LeftOf

-----------------------------------------------------------------------------
(* A file that is loaded again.                                             *)

\* The files of Strike have one name for a purchase, so lines that share a
\* reference call it the same.  The code knows two more and keeps a row for each,
\* although all set the price of the one lot.
OneNamePerPurchase ==
    \A l, k \in Line :
        l.src = "strike" /\ k.src = "strike" /\ l.ref = k.ref
          /\ {l.tag, k.tag} \subseteq {"Purchase", "purchase", "buy"} => l.tag = k.tag

IdOf(src, r) == IF src = "strike" THEN Ref(r) ELSE Composite(r)
RowKey(src, r) == <<src, IdOf(src, r), r.type>>
Known(src, b, r) == RowKey(src, r) \in DOMAIN b.imports /\ b.imports[RowKey(src, r)] = r
LotAfter(src, ls, r) == PurchaseLot(ls, IdOf(src, r), r)

LEMMA OneRow ==
    ASSUME NEW src \in {"strike", "river"}, NEW b, NEW r, r.src = src
    PROVE  ImportRow(src, b, r)
             = IF Known(src, b, r) THEN b
               ELSE [imports |-> Put(b.imports, RowKey(src, r), r), lots |-> LotAfter(src, b.lots, r)]
<1>1. (CASE src = "strike" -> Ref(r) [] src = "river" -> Composite(r) [] OTHER -> StableId(r)) = IdOf(src, r)
  BY DEF IdOf
<1>2. ImportRow(src, b, r) = Upsert(b, r, IdOf(src, r), LotAfter(src, b.lots, r))
  BY <1>1 DEF ImportRow, LotAfter
<1> QED
  BY <1>2 DEF Upsert, Known, RowKey

LEMMA RowIsKnown ==
    ASSUME NEW src \in {"strike", "river"}, NEW b, NEW r, r.src = src
    PROVE  /\ Known(src, ImportRow(src, b, r), r)
           /\ \A q : Known(src, b, q) /\ RowKey(src, q) # RowKey(src, r) => Known(src, ImportRow(src, b, r), q)
<1>1. CASE Known(src, b, r)
  BY <1>1, OneRow
<1>2. CASE ~Known(src, b, r)
  <2>1. ImportRow(src, b, r).imports = Put(b.imports, RowKey(src, r), r)
    BY <1>2, OneRow
  <2>2. PICK rows : rows = ImportRow(src, b, r).imports
    OBVIOUS
  <2>3. IsPut(rows, b.imports, RowKey(src, r), r)
    BY <2>1, <2>2, PutIs
  <2> QED BY <2>2, <2>3 DEF Known, IsPut
<1> QED
  BY <1>1, <1>2

\* A lot of the price it has already, and one whose price is changed and changed back.
LEMMA SetLotAgain ==
    ASSUME NEW ls, NEW lot, NEW at, NEW sat, NEW usd
    PROVE  /\ \A a, s : SetLot(SetLot(ls, lot, at, sat, usd), lot, a, s, usd) = SetLot(ls, lot, at, sat, usd)
           /\ \A a, s, u : SetLot(SetLot(SetLot(ls, lot, at, sat, usd), lot, a, s, u), lot, at, sat, usd)
                             = SetLot(ls, lot, at, sat, usd)
<1>1. CASE lot \in DOMAIN ls
  <2>1. PICK after : after = [ls EXCEPT ![lot].usd = usd]
    OBVIOUS
  <2>2. SetLot(ls, lot, at, sat, usd) = after /\ lot \in DOMAIN after
    BY <1>1, <2>1 DEF SetLot
  <2>3. \A a, s, u : SetLot(after, lot, a, s, u) = [after EXCEPT ![lot].usd = u]
    BY <2>2 DEF SetLot
  <2>4. [after EXCEPT ![lot].usd = usd] = after
    BY <1>1, <2>1
  <2>5. ASSUME NEW u, NEW other, other = [after EXCEPT ![lot].usd = u]
        PROVE  SetLot(other, lot, at, sat, usd) = after
    <3>1. lot \in DOMAIN other
      BY <2>2, <2>5
    <3>2. SetLot(other, lot, at, sat, usd) = [other EXCEPT ![lot].usd = usd]
      BY <3>1 DEF SetLot
    <3>3. [other EXCEPT ![lot].usd = usd] = after
      BY <1>1, <2>1, <2>5
    <3> QED BY <3>2, <3>3
  <2>6. \A a, s, u : SetLot(SetLot(after, lot, a, s, u), lot, at, sat, usd) = after
    BY <2>3, <2>5
  <2> QED BY <2>2, <2>3, <2>4, <2>6
<1>2. CASE lot \notin DOMAIN ls
  <2>1. PICK new : new = [n |-> lot, at |-> at, sat |-> sat, usd |-> usd]
    OBVIOUS
  <2>2. /\ [new EXCEPT !.usd = usd] = new
        /\ \A u : \A other : other = [new EXCEPT !.usd = u] => [other EXCEPT !.usd = usd] = new
    BY <2>1
  <2>3. PICK more : more = Put(ls, lot, new)
    OBVIOUS
  <2>4. SetLot(ls, lot, at, sat, usd) = more
    BY <1>2, <2>1, <2>3 DEF SetLot
  <2>5. lot \in DOMAIN more /\ more[lot] = new /\ more = [k \in DOMAIN more |-> more[k]]
    BY <2>3 DEF Put
  <2>6. \A a, s, u : SetLot(more, lot, a, s, u) = [more EXCEPT ![lot].usd = u]
    BY <2>5 DEF SetLot
  <2>7. [more EXCEPT ![lot].usd = usd] = more
    BY <2>2, <2>5
  <2>8. ASSUME NEW u, NEW other, other = [more EXCEPT ![lot].usd = u]
        PROVE  [other EXCEPT ![lot].usd = usd] = more
    <3>1. PICK changed : changed = [new EXCEPT !.usd = u]
      OBVIOUS
    <3>2. [changed EXCEPT !.usd = usd] = new
      BY <2>2, <3>1
    <3>3. /\ DOMAIN other = DOMAIN more /\ other[lot] = changed
          /\ \A k \in DOMAIN more : k # lot => other[k] = more[k]
      BY <2>5, <2>8, <3>1
    <3>4. [other EXCEPT ![lot].usd = usd] = [k \in DOMAIN more |-> IF k = lot THEN new ELSE more[k]]
      BY <3>2, <3>3
    <3> QED BY <2>5, <3>4
  <2>9. \A a, s, u : SetLot(SetLot(more, lot, a, s, u), lot, at, sat, usd) = more
    <3> TAKE a, s, u
    <3>1. PICK other : other = [more EXCEPT ![lot].usd = u]
      OBVIOUS
    <3>2. lot \in DOMAIN other
      BY <2>5, <3>1
    <3>3. SetLot(other, lot, at, sat, usd) = [other EXCEPT ![lot].usd = usd]
      BY <3>2 DEF SetLot
    <3> QED BY <2>6, <2>8, <3>1, <3>3
  <2> QED BY <2>4, <2>6, <2>7, <2>9
<1> QED
  BY <1>1, <1>2

\* In a book that is reached, the lot of a purchase with a price has that price.
LEMMA KnownIsPriced ==
    ASSUME OneNamePerPurchase, NEW src \in {"strike", "river"}, NEW b, BookOK(b), NEW r, r.src = src,
           Known(src, b, r), Priced(r)
    PROVE  /\ <<src, IdOf(src, r)>> \in DOMAIN b.lots
           /\ SetLot(b.lots, <<src, IdOf(src, r)>>, r.at, r.sat, Price(r)) = b.lots
<1> DEFINE id == IdOf(src, r)
           key == RowKey(src, r)
           lot == <<src, id>>
           rows == b.imports
<1>1. key[1] = src /\ key[2] = id /\ key[3] = r.type /\ LotOf(key) = lot
  BY DEF RowKey, LotOf
<1>2. key \in DOMAIN rows /\ rows[key] = r
  BY DEF Known
<1> HIDE DEF key, lot, id, rows
<1>3. RowsOK(rows) /\ LotsOK(b.lots) /\ PurchasesHaveLots(rows, b.lots) /\ IsTable(b.lots)
  BY Zenon DEF BookOK, rows
<1>4. ASSUME NEW k \in DOMAIN rows, LotOf(k) = lot, Purchase(rows[k])
      PROVE  k = key
  <2>1. /\ k \in Source \X Id \X Type /\ rows[k].type = k[3]
        /\ k[1] = "river" => k[2].type = k[3]
        /\ k[1] = "strike" /\ Purchase(rows[k]) => Named(k[2].ref, k[3])
    BY <1>3, Zenon DEF RowsOK
  <2>2. /\ key \in Source \X Id \X Type /\ rows[key].type = key[3]
        /\ key[1] = "river" => key[2].type = key[3]
        /\ key[1] = "strike" /\ Purchase(rows[key]) => Named(key[2].ref, key[3])
    BY <1>2, <1>3, Zenon DEF RowsOK
  <2>3. k[1] = key[1] /\ k[2] = key[2]
    BY <1>1, <1>4 DEF LotOf
  <2>4. k[3] = key[3]
    <3>1. CASE src = "river"
      BY <1>1, <2>1, <2>2, <2>3, <3>1, Zenon
    <3>2. CASE src = "strike"
      <4>1. Purchase(rows[key])
        BY <1>2, Zenon DEF Priced
      <4>2. PICK l \in Line : l.src = "strike" /\ l.ref = key[2].ref /\ l.tag = k[3]
        BY <1>1, <1>4, <2>1, <2>3, <3>2, Zenon DEF Named
      <4>3. PICK m \in Line : m.src = "strike" /\ m.ref = key[2].ref /\ m.tag = key[3]
        BY <1>1, <2>2, <3>2, <4>1, Zenon DEF Named
      <4>4. {l.tag, m.tag} \subseteq {"Purchase", "purchase", "buy"}
        BY <1>4, <2>1, <2>2, <4>1, <4>2, <4>3 DEF Purchase
      <4> QED BY <4>2, <4>3, <4>4 DEF OneNamePerPurchase
    <3> QED BY <3>1, <3>2
  <2> QED BY <2>1, <2>2, <2>3, <2>4
<1>5. ~Shared(rows, key)
  <2> SUFFICES ASSUME NEW k \in DOMAIN rows, k # key, LotOf(k) = LotOf(key), key[1] = "swan" \/ Purchase(rows[k])
               PROVE  FALSE
    BY Zenon DEF Shared
  <2>1. key[1] # "swan"
    BY <1>1
  <2> QED BY <1>1, <1>4, <2>1, Zenon
<1>6. lot \in DOMAIN b.lots /\ b.lots[lot].usd = Price(r)
  BY <1>1, <1>2, <1>3, <1>5, Zenon DEF PurchasesHaveLots
<1>7. b.lots[lot] \in [n : {lot}, at : Nat, sat : Int \ {0}, usd : Nat]
  BY <1>3, <1>6, Zenon DEF LotsOK
<1>8. PICK ls : ls = b.lots
  OBVIOUS
<1>9. PICK p : p = Price(r)
  OBVIOUS
<1>10. [ls[lot] EXCEPT !.usd = p] = ls[lot]
  BY <1>6, <1>7, <1>8, <1>9
<1>11. ls = [k \in DOMAIN ls |-> ls[k]]
  BY <1>3, <1>8 DEF IsTable
<1>12. [ls EXCEPT ![lot].usd = p] = ls
  BY <1>6, <1>8, <1>10, <1>11
<1>13. SetLot(ls, lot, r.at, r.sat, p) = ls
  BY <1>6, <1>8, <1>12 DEF SetLot
<1> QED
  BY <1>6, <1>8, <1>9, <1>13 DEF lot, id

\* The first of two rows of the same key, and then the second without a price: the
\* price the first has set is its own.
LEMMA PricedByFirst ==
    ASSUME OneNamePerPurchase, NEW src \in {"strike", "river"}, NEW b, BookOK(b), NEW r, r.src = src,
           Priced(r)
    PROVE  LotAfter(src, ImportRow(src, b, r).lots, r) = ImportRow(src, b, r).lots
<1> DEFINE lot == <<src, IdOf(src, r)>>
<1>1. \A ls : LotAfter(src, ls, r) = SetLot(ls, lot, r.at, r.sat, Price(r))
  BY DEF LotAfter, PurchaseLot, Priced
<1>2. CASE Known(src, b, r)
  <2>1. ImportRow(src, b, r) = b
    BY <1>2, OneRow
  <2> QED BY <1>1, <1>2, <2>1, KnownIsPriced
<1>3. CASE ~Known(src, b, r)
  <2>1. ImportRow(src, b, r).lots = LotAfter(src, b.lots, r)
    BY <1>3, OneRow
  <2>2. PICK ls : ls = b.lots
    OBVIOUS
  <2>3. PICK after : after = ImportRow(src, b, r).lots
    OBVIOUS
  <2>4. after = SetLot(ls, lot, r.at, r.sat, Price(r))
    BY <1>1, <2>1, <2>2, <2>3
  <2>5. SetLot(SetLot(ls, lot, r.at, r.sat, Price(r)), lot, r.at, r.sat, Price(r))
          = SetLot(ls, lot, r.at, r.sat, Price(r))
    BY SetLotAgain, SMT
  <2>6. SetLot(after, lot, r.at, r.sat, Price(r)) = after
    BY <2>4, <2>5
  <2> QED BY <1>1, <2>3, <2>6
<1> QED
  BY <1>2, <1>3

\* Two rows of a file, put in a book a second time.  If they have the same key the
\* second takes the place of the first each time, and both are applied again.
LEMMA TwoRows ==
    ASSUME OneNamePerPurchase, NEW src \in {"strike", "river"}, NEW b, BookOK(b),
           NEW r, r.src = src, NEW q, q.src = src,
           NEW first, first = ImportRow(src, b, r), NEW both, both = ImportRow(src, first, q)
    PROVE  ImportRow(src, ImportRow(src, both, r), q) = both
<1>1. \A c, x : x.src = src => Known(src, ImportRow(src, c, x), x)
  BY RowIsKnown, Zenon
<1>2. \A c, x : x.src = src /\ Known(src, c, x) => ImportRow(src, c, x) = c
  BY OneRow, Zenon
<1>3. CASE RowKey(src, r) # RowKey(src, q)
  <2>1. Known(src, first, r)
    BY <1>1
  <2>2. Known(src, both, r)
    BY <1>3, <2>1, RowIsKnown, Zenon
  <2>3. Known(src, both, q)
    BY <1>1
  <2> QED BY <1>2, <2>2, <2>3
<1>4. CASE r = q
  <2>1. both = first
    BY <1>1, <1>2, <1>4
  <2> QED BY <1>1, <1>2, <1>4, <2>1
<1>5. CASE RowKey(src, r) = RowKey(src, q) /\ r # q
  <2> DEFINE key == RowKey(src, r)
             lot == <<src, IdOf(src, r)>>
  <2>1. \A c : Known(src, c, r) => ~Known(src, c, q)
    BY <1>5 DEF Known
  <2>2. \A c : Known(src, c, q) => ~Known(src, c, r)
    BY <1>5 DEF Known
  <2>3. IdOf(src, q) = IdOf(src, r) /\ q.type = r.type
    BY <1>5 DEF RowKey
  <2>4. both = [imports |-> Put(first.imports, key, q), lots |-> LotAfter(src, first.lots, q)]
    <3>1. ~Known(src, first, q)
      BY <1>1, <2>1
    <3> QED BY <1>5, <3>1, OneRow
  <2>5. PICK third : third = ImportRow(src, both, r)
    OBVIOUS
  <2>6. third = [imports |-> Put(both.imports, key, r), lots |-> LotAfter(src, both.lots, r)]
    <3>1. ~Known(src, both, r)
      BY <1>1, <2>2
    <3> QED BY <2>5, <3>1, OneRow
  <2>7. ImportRow(src, third, q) = [imports |-> Put(third.imports, key, q), lots |-> LotAfter(src, third.lots, q)]
    <3>1. ~Known(src, third, q)
      BY <1>1, <2>1, <2>5
    <3> QED BY <1>5, <3>1, OneRow
  <2>8. Put(third.imports, key, q) = both.imports
    <3>1. \A f : Put(Put(Put(f, key, q), key, r), key, q) = Put(f, key, q)
      BY DEF Put
    <3>2. third.imports = Put(both.imports, key, r) /\ both.imports = Put(first.imports, key, q)
      BY <2>4, <2>6
    <3> QED BY <3>1, <3>2
  <2>9. third.lots = LotAfter(src, both.lots, r) /\ both.lots = LotAfter(src, first.lots, q)
    BY <2>4, <2>6
  <2>10. /\ \A ls : Priced(r) => LotAfter(src, ls, r) = SetLot(ls, lot, r.at, r.sat, Price(r))
         /\ \A ls : ~Priced(r) => LotAfter(src, ls, r) = ls
         /\ \A ls : Priced(q) => LotAfter(src, ls, q) = SetLot(ls, lot, q.at, q.sat, Price(q))
         /\ \A ls : ~Priced(q) => LotAfter(src, ls, q) = ls
    BY <2>3 DEF LotAfter, PurchaseLot, Priced
  <2> HIDE DEF lot
  <2>11. LotAfter(src, third.lots, q) = both.lots
    <3>1. CASE Priced(q) /\ Priced(r)
      <4>1. PICK ls : ls = first.lots
        OBVIOUS
      <4>2. SetLot(SetLot(SetLot(ls, lot, q.at, q.sat, Price(q)), lot, r.at, r.sat, Price(r)),
                   lot, q.at, q.sat, Price(q)) = SetLot(ls, lot, q.at, q.sat, Price(q))
        BY SetLotAgain, SMT
      <4>3. both.lots = SetLot(ls, lot, q.at, q.sat, Price(q))
        BY <2>9, <2>10, <3>1, <4>1
      <4>4. LotAfter(src, third.lots, q)
              = SetLot(SetLot(both.lots, lot, r.at, r.sat, Price(r)), lot, q.at, q.sat, Price(q))
        BY <2>9, <2>10, <3>1
      <4> QED BY <4>2, <4>3, <4>4
    <3>2. CASE Priced(q) /\ ~Priced(r)
      <4>1. PICK ls : ls = first.lots
        OBVIOUS
      <4>2. SetLot(SetLot(ls, lot, q.at, q.sat, Price(q)), lot, q.at, q.sat, Price(q))
              = SetLot(ls, lot, q.at, q.sat, Price(q))
        BY SetLotAgain, SMT
      <4>3. both.lots = SetLot(ls, lot, q.at, q.sat, Price(q)) /\ third.lots = both.lots
        BY <2>9, <2>10, <3>2, <4>1
      <4>4. LotAfter(src, third.lots, q) = SetLot(both.lots, lot, q.at, q.sat, Price(q))
        BY <2>10, <3>2, <4>3
      <4> QED BY <4>2, <4>3, <4>4
    <3>3. CASE ~Priced(q) /\ Priced(r)
      <4>1. LotAfter(src, first.lots, r) = first.lots
        BY <3>3, PricedByFirst
      <4> QED BY <2>9, <2>10, <3>3, <4>1, Zenon
    <3>4. CASE ~Priced(q) /\ ~Priced(r)
      BY <2>9, <2>10, <3>4, Zenon
    <3> QED BY <3>1, <3>2, <3>3, <3>4
  <2>12. both = [imports |-> both.imports, lots |-> both.lots]
    BY <2>4
  <2> QED BY <2>5, <2>7, <2>8, <2>11, <2>12
<1> QED
  BY <1>3, <1>4, <1>5
\* The rows of a set that has one at most.
LEMMA AsSequence ==
    /\ SetToSeq({}) = <<>>
    /\ \A x : SetToSeq({x}) = <<x>>
<1>1. SetToSeq({}) = <<>>
  <2>1. AtMostOne({}, {})
    BY DEF AtMostOne
  <2>2. SetToSeq({}) \in Seq({})
    BY <2>1, SmallSetAsSequence, Zenon
  <2> QED BY <2>2
<1>2. ASSUME NEW x
      PROVE  SetToSeq({x}) = <<x>>
  <2>1. Cardinality({x}) = 1
    BY FS_Singleton
  <2>2. \E g \in [1 .. 1 -> {x}] : IsInjective(g)
    <3>1. [i \in 1 .. 1 |-> x] \in [1 .. 1 -> {x}] /\ IsInjective([i \in 1 .. 1 |-> x])
      BY DEF IsInjective
    <3> QED BY <3>1
  <2>3. SetToSeq({x}) \in [1 .. 1 -> {x}]
    BY <2>1, <2>2 DEF SetToSeq
  <2> QED BY <2>3
<1> QED
  BY <1>1, <1>2

\* What the rows of one exchange are made of is of that exchange.
AtMostOneOf(S, src) == S = {} \/ \E x : S = {x} /\ x.src = src

TwoAtMost(rows, src) ==
    \/ rows = <<>>
    \/ \E x : rows = <<x>> /\ x.src = src
    \/ \E x, y : rows = <<x, y>> /\ x.src = src /\ y.src = src

\* What two lines are read as: no row, one, or two.
LEMMA TwoLines ==
    ASSUME NEW reader, NEW src, NEW l, NEW m,
           AtMostOneOf(Made(reader, l), src), AtMostOneOf(Made(reader, m), src)
    PROVE  TwoAtMost(Read(reader, <<l, m>>), src)
<1> DEFINE lines == <<l, m>>
<1>1. DOMAIN lines = 1 .. 2 /\ 2 \in Nat /\ lines[1] = l /\ lines[2] = m
  OBVIOUS
<1> HIDE DEF lines
<1>2. PICK F : ReadInTurn(F, reader, lines, 2)
  BY <1>1, ReadByLines, Zenon
<1>3. F[1 .. 0] = <<>>
  <2>1. 1 .. 0 = {}
    OBVIOUS
  <2> QED BY <1>2, <2>1, Zenon DEF ReadInTurn
<1>4. 1 - 1 = 0 /\ 2 - 1 = 1 /\ 1 \in 1 .. 2 /\ 2 \in 1 .. 2
  OBVIOUS
<1>5. F[1 .. 1] = <<>> \o SetToSeq(Made(reader, l)) /\ F[1 .. 2] = F[1 .. 1] \o SetToSeq(Made(reader, m))
  BY <1>1, <1>2, <1>3, <1>4 DEF ReadInTurn
<1>6. Read(reader, lines) = F[1 .. 2]
  BY <1>2, Zenon DEF ReadInTurn
<1>7. \A S : AtMostOneOf(S, src) => SetToSeq(S) = <<>> \/ \E x : SetToSeq(S) = <<x>> /\ x.src = src
  BY AsSequence, Zenon DEF AtMostOneOf
<1>8. PICK s : s = SetToSeq(Made(reader, l))
  OBVIOUS
<1>9. PICK t : t = SetToSeq(Made(reader, m))
  OBVIOUS
<1>10. s = <<>> \/ \E x : s = <<x>> /\ x.src = src
  BY <1>7, <1>8
<1>11. t = <<>> \/ \E x : t = <<x>> /\ x.src = src
  BY <1>7, <1>9
<1>12. Read(reader, lines) = (<<>> \o s) \o t
  BY <1>5, <1>6, <1>8, <1>9
<1>13. ASSUME s = <<>>, t = <<>>
       PROVE  Read(reader, lines) = <<>>
  BY <1>12, <1>13
<1>14. ASSUME NEW x, s = <<x>>, x.src = src, t = <<>>
       PROVE  Read(reader, lines) = <<x>>
  BY <1>12, <1>14
<1>15. ASSUME NEW x, t = <<x>>, x.src = src, s = <<>>
       PROVE  Read(reader, lines) = <<x>>
  BY <1>12, <1>15
<1>16. ASSUME NEW x, NEW y, s = <<x>>, t = <<y>>
       PROVE  Read(reader, lines) = <<x, y>>
  <2>1. <<>> \o <<x>> = <<x>>
    OBVIOUS
  <2>2. <<x>> \o <<y>> = <<x, y>>
    <3>1. PICK p : p = <<x>> \o <<y>>
      OBVIOUS
    <3>2. Len(p) = 2 /\ DOMAIN p = 1 .. 2 /\ p[1] = x /\ p[2] = y /\ p \in Seq({x, y})
      BY <3>1
    <3>3. p = <<x, y>>
      BY <3>2
    <3> QED BY <3>1, <3>3
  <2> QED BY <1>12, <1>16, <2>1, <2>2
<1> QED
  BY <1>10, <1>11, <1>13, <1>14, <1>15, <1>16, Zenon DEF lines, TwoAtMost

\* The rows of two lines change nothing the second time.
LEMMA FileAgain ==
    ASSUME OneNamePerPurchase, NEW src \in {"strike", "river"}, NEW b, BookOK(b), NEW rows,
           TwoAtMost(rows, src)
    PROVE  ImportRows(src, ImportRows(src, b, rows), rows) = ImportRows(src, b, rows)
<1>1. \A c : ImportRows(src, c, <<>>) = c
  <2> TAKE c
  <2>1. PICK none : none = <<>>
    OBVIOUS
  <2>2. DOMAIN none = 1 .. 0 /\ 0 \in Nat /\ 1 .. 0 = {}
    BY <2>1
  <2>3. PICK F : ImportInTurn(F, src, c, none, 0)
    BY <2>2, ImportByRows, Zenon
  <2>4. ImportRows(src, c, none) = c
    BY <2>2, <2>3, Zenon DEF ImportInTurn
  <2> QED BY <2>1, <2>4
<1>2. \A c, x : ImportRows(src, c, <<x>>) = ImportRow(src, c, x)
  <2> TAKE c, x
  <2>1. PICK one : one = <<x>>
    OBVIOUS
  <2>2. DOMAIN one = 1 .. 1 /\ one[1] = x /\ 1 \in Nat /\ 1 .. 0 = {} /\ 1 - 1 = 0 /\ 1 \in 1 .. 1
    BY <2>1
  <2>3. PICK F : ImportInTurn(F, src, c, one, 1)
    BY <2>2, ImportByRows, Zenon
  <2>4. F[1 .. 1] = ImportRow(src, F[1 .. 0], x) /\ F[1 .. 0] = c
    BY <2>2, <2>3 DEF ImportInTurn
  <2>5. ImportRows(src, c, one) = ImportRow(src, c, x)
    BY <2>3, <2>4 DEF ImportInTurn
  <2> QED BY <2>1, <2>5
<1>3. \A c, x, y : ImportRows(src, c, <<x, y>>) = ImportRow(src, ImportRow(src, c, x), y)
  <2> TAKE c, x, y
  <2>1. PICK two : two = <<x, y>>
    OBVIOUS
  <2>2. /\ DOMAIN two = 1 .. 2 /\ two[1] = x /\ two[2] = y /\ 2 \in Nat /\ 1 .. 0 = {}
        /\ 1 - 1 = 0 /\ 2 - 1 = 1 /\ 1 \in 1 .. 2 /\ 2 \in 1 .. 2
    BY <2>1
  <2>3. PICK F : ImportInTurn(F, src, c, two, 2)
    BY <2>2, ImportByRows, Zenon
  <2>4. F[1 .. 1] = ImportRow(src, F[1 .. 0], x) /\ F[1 .. 0] = c /\ F[1 .. 2] = ImportRow(src, F[1 .. 1], y)
    BY <2>2, <2>3 DEF ImportInTurn
  <2>5. ImportRows(src, c, two) = ImportRow(src, ImportRow(src, c, x), y)
    BY <2>3, <2>4 DEF ImportInTurn
  <2> QED BY <2>1, <2>5
<1>4. CASE rows = <<>>
  BY <1>1, <1>4
<1>5. ASSUME NEW x, rows = <<x>>, x.src = src
      PROVE  ImportRows(src, ImportRows(src, b, rows), rows) = ImportRows(src, b, rows)
  <2>1. Known(src, ImportRow(src, b, x), x)
    BY <1>5, RowIsKnown, Zenon
  <2>2. ImportRow(src, ImportRow(src, b, x), x) = ImportRow(src, b, x)
    BY <1>5, <2>1, OneRow, Zenon
  <2> QED BY <1>2, <1>5, <2>2
<1>6. ASSUME NEW x, NEW y, rows = <<x, y>>, x.src = src, y.src = src
      PROVE  ImportRows(src, ImportRows(src, b, rows), rows) = ImportRows(src, b, rows)
  <2>1. PICK first : first = ImportRow(src, b, x)
    OBVIOUS
  <2>2. PICK both : both = ImportRow(src, first, y)
    OBVIOUS
  <2>3. ImportRow(src, ImportRow(src, both, x), y) = both
    BY <1>6, <2>1, <2>2, TwoRows, SMT
  <2>4. \A c : ImportRows(src, c, rows) = ImportRow(src, ImportRow(src, c, x), y)
    BY <1>3, <1>6
  <2> QED BY <2>1, <2>2, <2>3, <2>4
<1> QED
  BY <1>4, <1>5, <1>6, Zenon DEF TwoAtMost

LEMMA RiverRow ==
    ASSUME NEW l \in Line, l.src = "river"
    PROVE  AtMostOneOf(Made("river", l), "river")
<1>1. AtMostOne(Made("river", l), Booked("river"))
  BY RiverLine, Zenon
<1> QED
  BY <1>1, PriceIsAmount, Zenon DEF AtMostOne, AtMostOneOf

LEMMA StrikeRow ==
    ASSUME NEW l \in Line, l.src = "strike"
    PROVE  AtMostOneOf(Made("form", l), "strike")
<1>1. Made("form", l) = ParseStrikeRawLine(l)
  BY DEF Made
<1>2. \A sat, usd, cost : Row(l, l.tag, sat, usd, cost).src = "strike"
  BY DEF Row
<1>3. l.comma \in {"none", "dollar fee", "no fee"}
  BY LineType, Zenon
<1>4. \/ ParseStrikeRawLine(l) = {}
      \/ \E sat, usd, cost : ParseStrikeRawLine(l) = {Row(l, l.tag, sat, usd, cost)}
  <2>1. CASE l.comma = "none"
    BY <2>1 DEF ParseStrikeRawLine, parseStrikeRow
  <2>2. CASE l.comma = "dollar fee"
    BY <2>2 DEF ParseStrikeRawLine
  <2>3. CASE l.comma = "no fee"
    BY <2>3 DEF ParseStrikeRawLine
  <2> QED BY <1>3, <2>1, <2>2, <2>3
<1> QED
  BY <1>1, <1>2, <1>4, Zenon DEF AtMostOneOf

-----------------------------------------------------------------------------
(* Matching: one lot after the other, one sale after the other.             *)

IsSeq(s) == \E V : s \in Seq(V)

LEMMA SeqParts ==
    ASSUME NEW s, IsSeq(s)
    PROVE  Len(s) \in Nat /\ DOMAIN s = 1 .. Len(s)
  BY DEF IsSeq

\* A sequence with one element more.
Longer(t, s, e) ==
    /\ IsSeq(t) /\ Len(t) = Len(s) + 1 /\ DOMAIN t = DOMAIN s \cup {Len(s) + 1}
    /\ t[Len(s) + 1] = e /\ \A i \in DOMAIN s : t[i] = s[i]

LEMMA AppendIs ==
    ASSUME NEW s, IsSeq(s), NEW e
    PROVE  Longer(Append(s, e), s, e)
<1>1. PICK V : s \in Seq(V)
  BY DEF IsSeq
<1>2. s \in Seq(V \cup {e})
  BY <1>1
<1>3. Append(s, e) \in Seq(V \cup {e})
  BY <1>2
<1>4. IsSeq(Append(s, e))
  BY <1>3, Zenon DEF IsSeq
<1>5. /\ Len(Append(s, e)) = Len(s) + 1 /\ DOMAIN Append(s, e) = DOMAIN s \cup {Len(s) + 1}
      /\ Append(s, e)[Len(s) + 1] = e /\ \A i \in DOMAIN s : Append(s, e)[i] = s[i]
  BY <1>2
<1> QED
  BY <1>4, <1>5, Zenon DEF Longer

SatsIn(events) == SumFunction([i \in DOMAIN events |-> events[i].sat])
SatsOf(events, n) == SumFunction([i \in DOMAIN events |-> IF events[i].lot = n THEN events[i].sat ELSE 0])

LEMMA ConsumedIs ==
    ASSUME NEW events, NEW lot
    PROVE  Consumed(events, lot) = SatsOf(events, lot.n)
  BY DEF Consumed, Total, SatsOf

Amounts(events) == IsSeq(events) /\ \A i \in DOMAIN events : events[i].sat \in Nat /\ events[i].at \in Nat

LEMMA SatsOfNoEvent ==
    ASSUME NEW n
    PROVE  SatsIn(<<>>) = 0 /\ SatsOf(<<>>, n) = 0 /\ Amounts(<<>>)
<1>1. DOMAIN <<>> = {}
  OBVIOUS
<1>2. \A c : DOMAIN c = {} => SumFunction(c) = 0
  BY SumOfNone, Zenon
<1>3. DOMAIN [i \in DOMAIN <<>> |-> <<>>[i].sat] = {}
  BY <1>1
<1>4. DOMAIN [i \in DOMAIN <<>> |-> IF <<>>[i].lot = n THEN <<>>[i].sat ELSE 0] = {}
  BY <1>1
<1>5. Amounts(<<>>)
  <2>1. <<>> \in Seq({})
    OBVIOUS
  <2> QED BY <1>1, <2>1, Zenon DEF Amounts, IsSeq
<1> QED
  BY <1>2, <1>3, <1>4, <1>5, Zenon DEF SatsIn, SatsOf

\* An event more counts for its lot and for the whole.
OnTop(more, events, e) ==
    /\ Amounts(more) /\ SatsIn(more) = SatsIn(events) + e.sat
    /\ \A n : SatsOf(more, n) = SatsOf(events, n) + (IF e.lot = n THEN e.sat ELSE 0)

LEMMA EventOnTop ==
    ASSUME NEW events, Amounts(events), NEW e, e.sat \in Nat, e.at \in Nat
    PROVE  OnTop(Append(events, e), events, e)
<1> DEFINE more == Append(events, e)
           m == Len(events) + 1
<1>1. Longer(more, events, e)
  BY AppendIs DEF Amounts
<1>2. /\ IsSeq(more) /\ DOMAIN more = DOMAIN events \cup {m} /\ more[m] = e
      /\ \A i \in DOMAIN events : more[i] = events[i]
  BY <1>1, Zenon DEF Longer
<1>3. m \notin DOMAIN events /\ IsFiniteSet(DOMAIN events)
  <2>1. Len(events) \in Nat /\ DOMAIN events = 1 .. Len(events)
    BY SeqParts DEF Amounts
  <2> QED BY <2>1, FS_Interval
<1> HIDE DEF more, m
<1>4. \A i \in DOMAIN more : more[i].sat \in Nat /\ more[i].at \in Nat
  BY <1>2, Zenon DEF Amounts
<1>5. SatsIn(more) = SatsIn(events) + e.sat
  <2> DEFINE c == [i \in DOMAIN events |-> events[i].sat]
             d == [i \in DOMAIN more |-> more[i].sat]
  <2>1. DOMAIN c = DOMAIN events /\ DOMAIN d = DOMAIN events \cup {m} /\ d[m] = e.sat
    BY <1>2
  <2>2. \A i \in DOMAIN c : d[i] = c[i]
    BY <1>2
  <2>3. \A i \in DOMAIN d : d[i] \in Int
    BY <1>4
  <2> HIDE DEF c, d
  <2>4. SumFunction(d) = SumFunction(c) + d[m]
    BY <1>3, <2>1, <2>2, <2>3, SumOfOneMore, Zenon
  <2>5. SumFunction(d) = SumFunction(c) + e.sat
    BY <2>1, <2>4
  <2> QED BY <2>5, Zenon DEF SatsIn, c, d
<1>6. ASSUME NEW n
      PROVE  SatsOf(more, n) = SatsOf(events, n) + (IF e.lot = n THEN e.sat ELSE 0)
  <2> DEFINE c == [i \in DOMAIN events |-> IF events[i].lot = n THEN events[i].sat ELSE 0]
             d == [i \in DOMAIN more |-> IF more[i].lot = n THEN more[i].sat ELSE 0]
             last == IF e.lot = n THEN e.sat ELSE 0
  <2>1. DOMAIN c = DOMAIN events /\ DOMAIN d = DOMAIN events \cup {m} /\ d[m] = last
    BY <1>2
  <2>2. \A i \in DOMAIN c : d[i] = c[i]
    BY <1>2
  <2>3. \A i \in DOMAIN d : d[i] \in Int
    BY <1>4
  <2> HIDE DEF c, d, last
  <2>4. SumFunction(d) = SumFunction(c) + d[m]
    BY <1>3, <2>1, <2>2, <2>3, SumOfOneMore, Zenon
  <2>5. SumFunction(d) = SumFunction(c) + last
    BY <2>1, <2>4
  <2> QED BY <2>5, Zenon DEF SatsOf, c, d, last
<1>7. OnTop(more, events, e)
  BY <1>2, <1>4, <1>5, <1>6, Zenon DEF OnTop, Amounts
<1> QED
  BY <1>7 DEF more

LEMMA SatsAreInt ==
    ASSUME NEW events, Amounts(events), NEW n
    PROVE  SatsIn(events) \in Int /\ SatsOf(events, n) \in Int
<1>1. IsFiniteSet(DOMAIN events)
  <2>1. Len(events) \in Nat /\ DOMAIN events = 1 .. Len(events)
    BY SeqParts DEF Amounts
  <2> QED BY <2>1, FS_Interval
<1>2. \A i \in DOMAIN events : events[i].sat \in Int
  BY DEF Amounts
<1> DEFINE c == [i \in DOMAIN events |-> events[i].sat]
           d == [i \in DOMAIN events |-> IF events[i].lot = n THEN events[i].sat ELSE 0]
<1>3. /\ DOMAIN c = DOMAIN events /\ DOMAIN d = DOMAIN events
      /\ \A i \in DOMAIN events : c[i] \in Int /\ d[i] \in Int
  BY <1>2
<1> HIDE DEF c, d
<1>4. SumFunction(c) \in Int /\ SumFunction(d) \in Int
  BY <1>1, <1>3, SumIsNumber, Zenon
<1> QED
  BY <1>4 DEF SatsIn, SatsOf, c, d

\* Lots are told apart by their ids.
LotsFine(ls) ==
    /\ IsFiniteSet(ls) /\ \A l \in ls : l.at \in Nat /\ l.sat \in Int
    /\ \A l, k \in ls : l.n = k.n => l = k

\* What is left in a lot: some part of it, and all of it if that is negative.
OpenOK(open, ls) ==
    /\ DOMAIN open = {l.n : l \in ls}
    /\ \A l \in ls : /\ open[l.n] \in Int
                     /\ l.sat > 0 => open[l.n] \in 0 .. l.sat
                     /\ ~ (l.sat > 0) => open[l.n] = l.sat

\* The events have taken from each lot what is missing in it.
EventsOK(events, open, ls) ==
    Amounts(events) /\ \A l \in ls : SatsOf(events, l.n) = l.sat - open[l.n]

\* While a sale is served: what it still needs and what all have got is constant.
Serving(acc, ls, c) ==
    /\ OpenOK(acc.open, ls) /\ EventsOK(acc.events, acc.open, ls)
    /\ acc.left \in Nat /\ acc.left + SatsIn(acc.events) = c

Given(acc, lot) == IF acc.open[lot.n] > acc.left THEN acc.left ELSE acc.open[lot.n]
EventOf(lot, d, taken) ==
    [lot |-> lot.n, ref |-> d.ref, acquired |-> lot.at, at |-> d.at, sat |-> taken,
     cost |-> Part(lot.usd, taken, lot.sat), proceeds |-> Part(d.usd, taken, d.sat),
     longTerm |-> d.at - lot.at > Year]

LEMMA TakeIs ==
    ASSUME NEW acc, NEW lot, NEW d
    PROVE  Take(acc, lot, d) =
             IF acc.left <= 0 THEN acc
             ELSE [open |-> [acc.open EXCEPT ![lot.n] = @ - Given(acc, lot)],
                   left |-> acc.left - Given(acc, lot),
                   events |-> Append(acc.events, EventOf(lot, d, Given(acc, lot)))]
  BY DEF Take, Given, EventOf

LEMMA TakeKeeps ==
    ASSUME NEW ls, LotsFine(ls), NEW acc, NEW c \in Int, Serving(acc, ls, c),
           NEW lot \in ls, lot.sat > 0, NEW d, d.at \in Nat
    PROVE  Serving(Take(acc, lot, d), ls, c)
<1>1. CASE acc.left <= 0
  BY <1>1, TakeIs
<1>2. CASE ~ (acc.left <= 0)
  <2> DEFINE t == Given(acc, lot)
             e == EventOf(lot, d, t)
             open == [acc.open EXCEPT ![lot.n] = @ - t]
             events == Append(acc.events, e)
             after == [open |-> open, left |-> acc.left - t, events |-> events]
  <2>1. Take(acc, lot, d) = after
    BY <1>2, TakeIs
  <2>2. after.open = open /\ after.left = acc.left - t /\ after.events = events
    OBVIOUS
  <2>3. /\ acc.left \in Nat /\ acc.open[lot.n] \in 0 .. lot.sat /\ lot.sat \in Int
        /\ DOMAIN acc.open = {l.n : l \in ls}
    BY Zenon DEF Serving, OpenOK, LotsFine
  <2>4. t \in Nat /\ t <= acc.left /\ t <= acc.open[lot.n]
    BY <2>3 DEF Given
  <2>5. e.sat = t /\ e.lot = lot.n /\ e.at = d.at
    BY DEF EventOf
  <2>6. /\ DOMAIN open = {l.n : l \in ls} /\ open[lot.n] = acc.open[lot.n] - t
        /\ \A l \in ls : l.n # lot.n => open[l.n] = acc.open[l.n]
    BY <2>3
  <2> HIDE DEF open, e, t, after
  <2>7. OnTop(events, acc.events, e)
    BY <2>4, <2>5, EventOnTop, Zenon DEF Serving, EventsOK
  <2> HIDE DEF events
  <2>8. \A l \in ls : l.n = lot.n => l = lot
    BY Zenon DEF LotsFine
  <2>9. OpenOK(open, ls)
    <3> SUFFICES ASSUME NEW l \in ls
                 PROVE  /\ open[l.n] \in Int
                        /\ l.sat > 0 => open[l.n] \in 0 .. l.sat
                        /\ ~ (l.sat > 0) => open[l.n] = l.sat
      BY <2>6, Zenon DEF OpenOK
    <3>1. CASE l.n # lot.n
      BY <2>6, <3>1, Zenon DEF Serving, OpenOK
    <3>2. CASE l = lot
      BY <2>3, <2>4, <2>6, <3>2
    <3> QED BY <2>8, <3>1, <3>2, Zenon
  <2>10. ASSUME NEW l \in ls
         PROVE  SatsOf(events, l.n) = l.sat - open[l.n]
    <3>1. SatsOf(acc.events, l.n) = l.sat - acc.open[l.n] /\ l.sat \in Int /\ acc.open[l.n] \in Int
      BY Zenon DEF Serving, EventsOK, OpenOK, LotsFine
    <3>2. SatsOf(events, l.n) = SatsOf(acc.events, l.n) + (IF e.lot = l.n THEN e.sat ELSE 0)
      BY <2>7, Zenon DEF OnTop
    <3>3. CASE l.n # lot.n
      <4>1. open[l.n] = acc.open[l.n]
        BY <2>6, <3>3, Zenon
      <4>2. SatsOf(events, l.n) = SatsOf(acc.events, l.n) + 0
        BY <2>5, <3>2, <3>3
      <4> QED BY <3>1, <4>1, <4>2
    <3>4. CASE l = lot
      <4>1. SatsOf(events, l.n) = SatsOf(acc.events, l.n) + t
        BY <2>5, <3>2, <3>4
      <4>2. open[l.n] = acc.open[l.n] - t
        BY <2>6, <3>4
      <4> QED BY <2>4, <3>1, <4>1, <4>2
    <3> QED BY <2>8, <3>3, <3>4, Zenon
  <2>11. acc.left - t \in Nat /\ (acc.left - t) + SatsIn(events) = c
    <3>1. SatsIn(acc.events) \in Int /\ acc.left + SatsIn(acc.events) = c
      BY SatsAreInt, Zenon DEF Serving, EventsOK
    <3>2. SatsIn(events) = SatsIn(acc.events) + t
      BY <2>5, <2>7 DEF OnTop
    <3> QED BY <2>3, <2>4, <3>1, <3>2
  <2>12. EventsOK(events, open, ls)
    BY <2>7, <2>10, Zenon DEF EventsOK, OnTop
  <2>13. Serving(after, ls, c)
    BY <2>2, <2>9, <2>11, <2>12, Zenon DEF Serving
  <2> QED BY <2>1, <2>13
<1> QED
  BY <1>1, <1>2

\* Sales and lots are of days.
Dated(S) == IsFiniteSet(S) /\ \A x \in S : x.at \in Nat

LEMMA DaysAreFinite ==
    ASSUME NEW S, Dated(S)
    PROVE  IsFiniteSet({x.at : x \in S}) /\ {x.at : x \in S} \subseteq Nat
<1> DEFINE f == [x \in S |-> x.at]
<1>1. f \in Surjection(S, {x.at : x \in S})
  BY DEF Surjection
<1>2. IsFiniteSet({x.at : x \in S})
  BY <1>1, FS_Surjection, Zenon DEF Dated
<1> QED
  BY <1>2 DEF Dated

LEMMA LatestIs ==
    ASSUME NEW S, Dated(S), S # {}
    PROVE  Latest(S) \in S /\ \A z \in S : z.at <= Latest(S).at
<1> DEFINE T == {x.at : x \in S}
<1>1. Max(T) \in T /\ \A y \in T : y <= Max(T)
  <2>1. T # {}
    OBVIOUS
  <2> HIDE DEF T
  <2>2. IsFiniteSet(T) /\ T \subseteq Nat
    BY DaysAreFinite DEF T
  <2> QED BY <2>1, <2>2, Largest, Zenon
<1>2. PICK x \in S : x.at = Max(T)
  BY <1>1
<1>3. \A z \in S : z.at <= x.at
  BY <1>1, <1>2
<1> QED
  BY <1>3, Zenon DEF Latest

LEMMA EarliestIs ==
    ASSUME NEW S, Dated(S), S # {}
    PROVE  Earliest(S) \in S /\ \A z \in S : Earliest(S).at <= z.at
<1> DEFINE T == {x.at : x \in S}
<1>1. PICK m \in T : \A y \in T : m <= y
  <2>1. T # {}
    OBVIOUS
  <2> HIDE DEF T
  <2>2. T \in SUBSET Nat
    BY DaysAreFinite DEF T
  <2> QED BY <2>1, <2>2, Smallest, Zenon
<1>2. PICK x \in S : x.at = m
  BY <1>1
<1>3. \A z \in S : x.at <= z.at
  BY <1>1, <1>2
<1> QED
  BY <1>3, Zenon DEF Earliest

LEMMA LastTakenIsIn ==
    ASSUME NEW S, Dated(S), S # {}, NEW method
    PROVE  LastTaken(S, method) \in S
  BY LatestIs, EarliestIs, Zenon DEF LastTaken

\* The function behind a sale: what is left after a set of candidates.
Taken(F, start, d, method, s) ==
    IF s = {} THEN start
    ELSE Take(F[s \ {LastTaken(s, method)}], LastTaken(s, method), d)
TakenBy(F, start, d, method, sets) == F = [s \in sets |-> Taken(F, start, d, method, s)]

LEMMA PartsAreDated ==
    ASSUME NEW A, Dated(A), NEW n \in Nat, NEW s \in Small(A, n)
    PROVE  s \in SUBSET A /\ Dated(s)
<1>1. s \in SUBSET A
  BY DEF Small
<1> QED
  BY <1>1, FS_Subset DEF Dated

LEMMA SmallTakes ==
    ASSUME NEW A, Dated(A), NEW start, NEW d, NEW method, NEW n \in Nat
    PROVE  \E F : TakenBy(F, start, d, method, Small(A, n))
<1> DEFINE P == {k \in 0 .. n : \E F : TakenBy(F, start, d, method, Small(A, k))}
<1>0. IsFiniteSet(A)
  BY DEF Dated
<1>1. 0 \in P
  <2> DEFINE F == [s \in Small(A, 0) |-> start]
  <2>1. TakenBy(F, start, d, method, Small(A, 0))
    BY <1>0, NoneIsSmall DEF TakenBy, Taken
  <2> QED BY <2>1
<1>2. ASSUME NEW k \in 1 .. n, k - 1 \in P
      PROVE  k \in P
  <2>1. PICK F : TakenBy(F, start, d, method, Small(A, k - 1))
    BY <1>2
  <2> DEFINE G == [s \in Small(A, k) |-> Taken(F, start, d, method, s)]
  <2>2. ASSUME NEW s \in Small(A, k)
        PROVE  Taken(F, start, d, method, s) = Taken(G, start, d, method, s)
    <3>1. CASE s = {}
      BY <3>1 DEF Taken
    <3>2. CASE s # {}
      <4> DEFINE x == LastTaken(s, method)
      <4>1. s \ {x} \in Small(A, k - 1) /\ s \ {x} \in Small(A, k)
        <5>1. k \in Nat
          OBVIOUS
        <5>2. x \in s
          BY <3>2, <5>1, PartsAreDated, LastTakenIsIn, Zenon
        <5> HIDE DEF x
        <5> QED BY <1>0, <5>1, <5>2, OneOfSmall, Zenon
      <4>2. F[s \ {x}] = Taken(F, start, d, method, s \ {x})
        BY <2>1, <4>1 DEF TakenBy
      <4>3. G[s \ {x}] = Taken(F, start, d, method, s \ {x})
        BY <4>1
      <4> QED BY <4>2, <4>3 DEF Taken
    <3> QED BY <3>1, <3>2
  <2> DEFINE H == [s \in Small(A, k) |-> Taken(G, start, d, method, s)]
  <2>3. G = H
    BY <2>2
  <2> HIDE DEF G
  <2>4. TakenBy(G, start, d, method, Small(A, k))
    BY <2>3 DEF TakenBy
  <2> QED BY <2>4
<1> HIDE DEF P
<1>3. n \in P
  BY <1>1, <1>2, UpTo
<1> QED
  BY <1>3 DEF P

\* A sale has what F has for its candidates.
LEMMA SaleIsThat ==
    ASSUME NEW A, Dated(A), NEW start, NEW d, NEW method
    PROVE  \E F : TakenBy(F, start, d, method, SUBSET A) /\ TakeInOrder(start, A, d, method) = F[A]
<1> DEFINE F == CHOOSE F : TakenBy(F, start, d, method, SUBSET A)
<1>1. TakenBy(F, start, d, method, SUBSET A)
  <2>1. \E G : TakenBy(G, start, d, method, SUBSET A)
    <3>1. IsFiniteSet(A)
      BY DEF Dated
    <3>2. Cardinality(A) \in Nat /\ Small(A, Cardinality(A)) = SUBSET A
      BY <3>1, AllAreSmall, Zenon
    <3>3. \E G : TakenBy(G, start, d, method, Small(A, Cardinality(A)))
      BY <3>2, SmallTakes, Zenon
    <3> QED BY <3>2, <3>3
  <2> QED BY <2>1, Zenon
<1>2. TakeInOrder(start, A, d, method) = F[A]
  BY DEF TakeInOrder, MapThenFoldSet, TakenBy, Taken
<1> HIDE DEF F
<1> QED
  BY <1>1, <1>2

TakenLast(F, s, x, d) == F[s] = Take(F[s \ {x}], x, d)

LEMMA TakenOfOneMore ==
    ASSUME NEW A, Dated(A), NEW start, NEW d, NEW method, NEW F, TakenBy(F, start, d, method, SUBSET A),
           NEW s \in SUBSET A, s # {}
    PROVE  LastTaken(s, method) \in s /\ TakenLast(F, s, LastTaken(s, method), d)
<1>1. Dated(s)
  BY FS_Subset DEF Dated
<1>2. LastTaken(s, method) \in s
  BY <1>1, LastTakenIsIn
<1>3. F[s] = Taken(F, start, d, method, s)
  BY DEF TakenBy
<1> QED
  BY <1>2, <1>3 DEF Taken, TakenLast

\* A sale served from lots of ls.
LEMMA SaleKeeps ==
    ASSUME NEW ls, LotsFine(ls), NEW start, NEW c \in Int, Serving(start, ls, c),
           NEW A, A \subseteq {l \in ls : l.sat > 0}, NEW d, d.at \in Nat, NEW method
    PROVE  Serving(TakeInOrder(start, A, d, method), ls, c)
<1>1. Dated(A)
  BY FS_Subset DEF Dated, LotsFine
<1>2. PICK F : TakenBy(F, start, d, method, SUBSET A) /\ TakeInOrder(start, A, d, method) = F[A]
  BY <1>1, SaleIsThat
<1> DEFINE P == {s \in SUBSET A : Serving(F[s], ls, c)}
<1>3. F[{}] = start
  BY <1>2 DEF TakenBy, Taken
<1>4. ASSUME NEW s \in SUBSET A, s # {}, \A x \in s : s \ {x} \in P
      PROVE  s \in P
  <2>1. PICK x \in s : F[s] = Take(F[s \ {x}], x, d)
    <3>1. s # {}
      BY <1>4
    <3>2. LastTaken(s, method) \in s /\ TakenLast(F, s, LastTaken(s, method), d)
      BY <1>1, <1>2, <3>1, TakenOfOneMore, Zenon
    <3> QED BY <3>2, Zenon DEF TakenLast
  <2>2. Serving(F[s \ {x}], ls, c)
    BY <1>4
  <2>3. x \in ls /\ x.sat > 0
    OBVIOUS
  <2>4. Serving(Take(F[s \ {x}], x, d), ls, c)
    BY <2>2, <2>3, TakeKeeps, Zenon
  <2> QED BY <2>1, <2>4
<1>5. A \in P
  <2>1. {} \in P
    BY <1>3
  <2>2. IsFiniteSet(A)
    BY <1>1 DEF Dated
  <2> HIDE DEF P
  <2>3. \A s \in SUBSET A : s \in P
    BY <1>4, <2>1, <2>2, SetBySet
  <2> QED BY <2>3
<1> QED
  BY <1>2, <1>5

\* After some of the sales: they wanted c sats in all.
Matched(result, ls, c) ==
    /\ OpenOK(result.open, ls) /\ EventsOK(result.events, result.open, ls)
    /\ result.unmatched \in Nat /\ result.unmatched + SatsIn(result.events) = c

LEMMA CandidatesHaveSats ==
    ASSUME NEW ls, LotsFine(ls), NEW open, OpenOK(open, ls), NEW at
    PROVE  candidateLots(ls, open, at) \subseteq {l \in ls : l.sat > 0}
<1> SUFFICES ASSUME NEW l \in ls, open[l.n] > 0, ~ (l.sat > 0)
             PROVE  FALSE
  BY DEF candidateLots
<1>1. open[l.n] = l.sat
  BY Zenon DEF OpenOK
<1> QED
  BY <1>1

\* A sale starts with the lots as they are, and leaves what its candidates leave.
Disposes(start, done, result, ls, d, method) ==
    /\ start.open = result.open /\ start.left = d.sat /\ start.events = result.events
    /\ done = TakeInOrder(start, candidateLots(ls, result.open, d.at), d, method)
    /\ Dispose(result, ls, d, method)
         = [open |-> done.open, events |-> done.events, unmatched |-> result.unmatched + done.left]

LEMMA DisposeIs ==
    ASSUME NEW result, NEW ls, NEW d, NEW method
    PROVE  \E start, done : Disposes(start, done, result, ls, d, method)
<1> DEFINE start == [open |-> result.open, left |-> d.sat, events |-> result.events]
           done == TakeInOrder(start, candidateLots(ls, result.open, d.at), d, method)
<1>1. start.open = result.open /\ start.left = d.sat /\ start.events = result.events
  OBVIOUS
<1>2. Dispose(result, ls, d, method)
        = [open |-> done.open, events |-> done.events, unmatched |-> result.unmatched + done.left]
  BY DEF Dispose
<1>3. done = TakeInOrder(start, candidateLots(ls, result.open, d.at), d, method)
  OBVIOUS
<1> HIDE DEF start, done
<1>4. Disposes(start, done, result, ls, d, method)
  BY <1>1, <1>2, <1>3, Zenon DEF Disposes
<1> QED
  BY <1>4

LEMMA DisposeKeeps ==
    ASSUME NEW ls, LotsFine(ls), NEW result, NEW c \in Int, Matched(result, ls, c),
           NEW d, d.sat \in Nat, d.at \in Nat, NEW method
    PROVE  Matched(Dispose(result, ls, d, method), ls, c + d.sat)
<1>0. PICK start, done : Disposes(start, done, result, ls, d, method)
  BY DisposeIs
<1>1. /\ start.open = result.open /\ start.left = d.sat /\ start.events = result.events
      /\ done = TakeInOrder(start, candidateLots(ls, result.open, d.at), d, method)
      /\ Dispose(result, ls, d, method)
           = [open |-> done.open, events |-> done.events, unmatched |-> result.unmatched + done.left]
  BY <1>0, Zenon DEF Disposes
<1>2. /\ OpenOK(result.open, ls) /\ EventsOK(result.events, result.open, ls)
      /\ result.unmatched \in Nat /\ result.unmatched + SatsIn(result.events) = c
      /\ SatsIn(result.events) \in Int
  BY SatsAreInt, Zenon DEF Matched, EventsOK
<1>3. PICK k \in Int : k = d.sat + SatsIn(result.events)
  BY <1>2
<1>4. Serving(start, ls, k)
  BY <1>1, <1>2, <1>3, Zenon DEF Serving
<1>5. candidateLots(ls, result.open, d.at) \subseteq {l \in ls : l.sat > 0}
  BY <1>2, CandidatesHaveSats, Zenon
<1>6. Serving(done, ls, k)
  BY <1>1, <1>4, <1>5, SaleKeeps, Zenon
<1>7. done.left \in Nat /\ done.left + SatsIn(done.events) = k /\ SatsIn(done.events) \in Int
  BY <1>6, SatsAreInt, Zenon DEF Serving, EventsOK
<1>8. /\ result.unmatched + done.left \in Nat
      /\ (result.unmatched + done.left) + SatsIn(done.events) = c + d.sat
  BY <1>2, <1>3, <1>7
<1> DEFINE after == [open |-> done.open, events |-> done.events, unmatched |-> result.unmatched + done.left]
<1>9. after.open = done.open /\ after.events = done.events /\ after.unmatched = result.unmatched + done.left
  OBVIOUS
<1>10. Dispose(result, ls, d, method) = after
  BY <1>1
<1> HIDE DEF after
<1>11. OpenOK(done.open, ls) /\ EventsOK(done.events, done.open, ls)
  BY <1>6, Zenon DEF Serving
<1>12. Matched(after, ls, c + d.sat)
  <2>1. OpenOK(after.open, ls) /\ EventsOK(after.events, after.open, ls)
    BY <1>9, <1>11
  <2>2. after.unmatched \in Nat /\ after.unmatched + SatsIn(after.events) = c + d.sat
    BY <1>8, <1>9
  <2> QED BY <2>1, <2>2, Zenon DEF Matched
<1> QED
  BY <1>10, <1>12

LEMMA UnsoldIs ==
    ASSUME NEW ls, LotsFine(ls)
    PROVE  /\ Unsold(ls).events = <<>> /\ Unsold(ls).unmatched = 0
           /\ DOMAIN Unsold(ls).open = {l.n : l \in ls}
           /\ \A l \in ls : Unsold(ls).open[l.n] = l.sat
<1> DEFINE open == [n \in {l.n : l \in ls} |-> (CHOOSE l \in ls : l.n = n).sat]
<1>1. Unsold(ls).open = open /\ Unsold(ls).events = <<>> /\ Unsold(ls).unmatched = 0
  BY DEF Unsold
<1>2. ASSUME NEW l \in ls
      PROVE  open[l.n] = l.sat
  <2>1. (CHOOSE k \in ls : k.n = l.n) = l
    BY DEF LotsFine
  <2>2. open[l.n] = (CHOOSE k \in ls : k.n = l.n).sat
    OBVIOUS
  <2> QED BY <2>1, <2>2
<1>3. DOMAIN open = {l.n : l \in ls}
  OBVIOUS
<1> HIDE DEF open
<1> QED
  BY <1>1, <1>2, <1>3

LEMMA UnsoldIsMatched ==
    ASSUME NEW ls, LotsFine(ls)
    PROVE  Matched(Unsold(ls), ls, 0)
<1>1. PICK open : Unsold(ls).open = open
  OBVIOUS
<1>2. Unsold(ls).events = <<>> /\ Unsold(ls).unmatched = 0
  BY UnsoldIs
<1>3. DOMAIN open = {l.n : l \in ls} /\ \A l \in ls : open[l.n] = l.sat
  BY <1>1, UnsoldIs
<1>4. OpenOK(open, ls)
  BY <1>3 DEF OpenOK, LotsFine
<1>5. EventsOK(<<>>, open, ls)
  <2>1. \A l \in ls : l.sat - open[l.n] = 0
    BY <1>3 DEF LotsFine
  <2> QED BY <2>1, SatsOfNoEvent, Zenon DEF EventsOK
<1>6. 0 \in Nat /\ 0 + SatsIn(<<>>) = 0
  BY SatsOfNoEvent
<1> QED
  BY <1>1, <1>2, <1>4, <1>5, <1>6, Zenon DEF Matched

\* The function behind a match: the result after a set of sales.
Sold(F, ls, method, s) ==
    IF s = {} THEN Unsold(ls) ELSE Dispose(F[s \ {Latest(s)}], ls, Latest(s), method)
SoldBy(F, ls, method, sets) == F = [s \in sets |-> Sold(F, ls, method, s)]

LEMMA SmallMatches ==
    ASSUME NEW A, Dated(A), NEW ls, NEW method, NEW n \in Nat
    PROVE  \E F : SoldBy(F, ls, method, Small(A, n))
<1> DEFINE P == {k \in 0 .. n : \E F : SoldBy(F, ls, method, Small(A, k))}
<1>0. IsFiniteSet(A)
  BY DEF Dated
<1>1. 0 \in P
  <2> DEFINE F == [s \in Small(A, 0) |-> Unsold(ls)]
  <2>1. SoldBy(F, ls, method, Small(A, 0))
    BY <1>0, NoneIsSmall DEF SoldBy, Sold
  <2> QED BY <2>1
<1>2. ASSUME NEW k \in 1 .. n, k - 1 \in P
      PROVE  k \in P
  <2>1. PICK F : SoldBy(F, ls, method, Small(A, k - 1))
    BY <1>2
  <2> DEFINE G == [s \in Small(A, k) |-> Sold(F, ls, method, s)]
  <2>2. ASSUME NEW s \in Small(A, k)
        PROVE  Sold(F, ls, method, s) = Sold(G, ls, method, s)
    <3>1. CASE s = {}
      BY <3>1 DEF Sold
    <3>2. CASE s # {}
      <4> DEFINE x == Latest(s)
      <4>1. s \ {x} \in Small(A, k - 1) /\ s \ {x} \in Small(A, k)
        <5>1. k \in Nat
          OBVIOUS
        <5>2. x \in s
          BY <3>2, <5>1, PartsAreDated, LatestIs, Zenon
        <5> HIDE DEF x
        <5> QED BY <1>0, <5>1, <5>2, OneOfSmall, Zenon
      <4>2. F[s \ {x}] = Sold(F, ls, method, s \ {x})
        BY <2>1, <4>1 DEF SoldBy
      <4>3. G[s \ {x}] = Sold(F, ls, method, s \ {x})
        BY <4>1
      <4> QED BY <4>2, <4>3 DEF Sold
    <3> QED BY <3>1, <3>2
  <2> DEFINE H == [s \in Small(A, k) |-> Sold(G, ls, method, s)]
  <2>3. G = H
    BY <2>2
  <2> HIDE DEF G
  <2>4. SoldBy(G, ls, method, Small(A, k))
    BY <2>3 DEF SoldBy
  <2> QED BY <2>4
<1> HIDE DEF P
<1>3. n \in P
  BY <1>1, <1>2, UpTo
<1> QED
  BY <1>3 DEF P

LEMMA MatchIsThat ==
    ASSUME NEW A, Dated(A), NEW ls, NEW method
    PROVE  \E F : SoldBy(F, ls, method, SUBSET A) /\ Match(ls, A, method) = F[A]
<1> DEFINE F == CHOOSE F : SoldBy(F, ls, method, SUBSET A)
<1>1. SoldBy(F, ls, method, SUBSET A)
  <2>1. \E G : SoldBy(G, ls, method, SUBSET A)
    <3>1. IsFiniteSet(A)
      BY DEF Dated
    <3>2. Cardinality(A) \in Nat /\ Small(A, Cardinality(A)) = SUBSET A
      BY <3>1, AllAreSmall, Zenon
    <3>3. \E G : SoldBy(G, ls, method, Small(A, Cardinality(A)))
      BY <3>2, SmallMatches, Zenon
    <3> QED BY <3>2, <3>3
  <2> QED BY <2>1, Zenon
<1>2. Match(ls, A, method) = F[A]
  BY DEF Match, MapThenFoldSet, SoldBy, Sold
<1> HIDE DEF F
<1> QED
  BY <1>1, <1>2

\* What sales want, of finitely many.
Wanted(s) == SumFunction([d \in s |-> d.sat])

LEMMA WantedOfOneMore ==
    ASSUME NEW s, IsFiniteSet(s), \A d \in s : d.sat \in Nat, NEW x \in s
    PROVE  Wanted(s) = Wanted(s \ {x}) + x.sat /\ Wanted(s \ {x}) \in Int
<1> DEFINE c == [d \in s \ {x} |-> d.sat]
           e == [d \in s |-> d.sat]
<1>1. /\ DOMAIN c = s \ {x} /\ x \notin DOMAIN c /\ DOMAIN e = DOMAIN c \cup {x}
      /\ (\A d \in DOMAIN c : e[d] = c[d] /\ c[d] \in Int) /\ (\A d \in DOMAIN e : e[d] \in Int)
      /\ e[x] = x.sat
  OBVIOUS
<1>2. IsFiniteSet(s \ {x})
  BY FS_RemoveElement
<1> HIDE DEF c, e
<1>3. SumFunction(e) = SumFunction(c) + e[x] /\ SumFunction(c) \in Int
  BY <1>1, <1>2, SumOfOneMore, SumIsNumber, Zenon
<1> QED
  BY <1>1, <1>3 DEF Wanted, c, e

SoldLast(F, s, x, ls, method) ==
    (\A z \in s : z.at <= x.at) /\ F[s] = Dispose(F[s \ {x}], ls, x, method)

LEMMA SoldOfOneMore ==
    ASSUME NEW A, Dated(A), NEW ls, NEW method, NEW F, SoldBy(F, ls, method, SUBSET A),
           NEW s \in SUBSET A, s # {}
    PROVE  Latest(s) \in s /\ SoldLast(F, s, Latest(s), ls, method)
<1>1. Dated(s)
  BY FS_Subset DEF Dated
<1>2. Latest(s) \in s /\ \A z \in s : z.at <= Latest(s).at
  BY <1>1, LatestIs
<1>3. F[s] = Sold(F, ls, method, s)
  BY DEF SoldBy
<1> QED
  BY <1>2, <1>3 DEF Sold, SoldLast

LEMMA MatchesAreMatched ==
    ASSUME NEW ls, LotsFine(ls), NEW A, Dated(A), \A d \in A : d.sat \in Nat, NEW method,
           NEW F, SoldBy(F, ls, method, SUBSET A)
    PROVE  \A s \in SUBSET A : Matched(F[s], ls, Wanted(s))
<1> DEFINE P == {s \in SUBSET A : Matched(F[s], ls, Wanted(s))}
<1>1. {} \in P
  <2>1. DOMAIN [d \in {} |-> d.sat] = {}
    OBVIOUS
  <2>2. Wanted({}) = 0
    BY <2>1, SumOfNone, Zenon DEF Wanted
  <2>3. F[{}] = Unsold(ls)
    BY DEF SoldBy, Sold
  <2> QED BY <2>2, <2>3, UnsoldIsMatched
<1>2. ASSUME NEW s \in SUBSET A, s # {}, \A x \in s : s \ {x} \in P
      PROVE  s \in P
  <2>1. PICK x \in s : F[s] = Dispose(F[s \ {x}], ls, x, method)
    <3>1. s # {}
      BY <1>2
    <3>2. Latest(s) \in s /\ SoldLast(F, s, Latest(s), ls, method)
      BY <3>1, SoldOfOneMore, Zenon
    <3> QED BY <3>2, Zenon DEF SoldLast
  <2>2. Matched(F[s \ {x}], ls, Wanted(s \ {x}))
    BY <1>2
  <2>3. x.sat \in Nat /\ x.at \in Nat /\ IsFiniteSet(s) /\ \A d \in s : d.sat \in Nat
    BY FS_Subset DEF Dated
  <2>4. Wanted(s) = Wanted(s \ {x}) + x.sat /\ Wanted(s \ {x}) \in Int
    BY <2>3, WantedOfOneMore
  <2>5. Matched(Dispose(F[s \ {x}], ls, x, method), ls, Wanted(s \ {x}) + x.sat)
    BY <2>2, <2>3, <2>4, DisposeKeeps, Zenon
  <2> QED BY <2>1, <2>4, <2>5
<1>3. IsFiniteSet(A)
  BY DEF Dated
<1> QED
  <2> HIDE DEF P
  <2>1. \A s \in SUBSET A : s \in P
    BY <1>1, <1>2, <1>3, SetBySet
  <2> QED BY <2>1 DEF P

LEMMA MatchIsMatched ==
    ASSUME NEW ls, LotsFine(ls), NEW A, Dated(A), \A d \in A : d.sat \in Nat, NEW method
    PROVE  Matched(Match(ls, A, method), ls, Wanted(A))
<1>1. PICK F : SoldBy(F, ls, method, SUBSET A) /\ Match(ls, A, method) = F[A]
  BY MatchIsThat
<1>2. \A s \in SUBSET A : Matched(F[s], ls, Wanted(s))
  BY <1>1, MatchesAreMatched
<1> QED
  BY <1>1, <1>2

-----------------------------------------------------------------------------
(* The events of a year.                                                    *)

OfYear(events, year) == {e \in Range(events) : YearOf(e.at) = year}

LEMMA EventsOfOneMore ==
    ASSUME NEW events, IsSeq(events), NEW e, NEW year
    PROVE  EventsOfYear(Append(events, e), year)
             = IF YearOf(e.at) = year THEN Append(EventsOfYear(events, year), e)
               ELSE EventsOfYear(events, year)
<1> DEFINE n == Len(events)
           more == Append(events, e)
<1>1. n \in Nat /\ DOMAIN events = 1 .. n
  BY SeqParts
<1>2. Longer(more, events, e)
  BY AppendIs
<1>3. DOMAIN more = 1 .. n + 1 /\ more[n + 1] = e /\ \A i \in 1 .. n : more[i] = events[i]
  <2> HIDE DEF more
  <2>1. DOMAIN more = DOMAIN events \cup {n + 1} /\ more[n + 1] = e /\ \A i \in DOMAIN events : more[i] = events[i]
    BY <1>2, Zenon DEF Longer
  <2> HIDE DEF n
  <2> QED BY <1>1, <2>1
<1> HIDE DEF more, n
<1>4. /\ \A i \in 1 .. n : events[i] \in OfYear(events, year) <=> YearOf(events[i].at) = year
      /\ \A i \in 1 .. n + 1 : more[i] \in OfYear(more, year) <=> YearOf(more[i].at) = year
  <2>1. \A i \in 1 .. n : events[i] \in Range(events)
    BY <1>1 DEF Range
  <2>2. \A i \in 1 .. n + 1 : more[i] \in Range(more)
    BY <1>3 DEF Range
  <2> QED BY <2>1, <2>2 DEF OfYear
<1>5. \A i \in 1 .. n : /\ events[i] = more[i]
                        /\ events[i] \in OfYear(events, year) <=> more[i] \in OfYear(more, year)
  <2>1. \A i \in 1 .. n : i \in 1 .. n + 1
    BY <1>1
  <2> QED BY <1>3, <1>4, <2>1
<1>6. Only(more, OfYear(more, year))
        = IF more[n + 1] \in OfYear(more, year) THEN Append(Only(events, OfYear(events, year)), more[n + 1])
          ELSE Only(events, OfYear(events, year))
  BY <1>1, <1>3, <1>5, OnlyOfOneMore
<1>7. more[n + 1] \in OfYear(more, year) <=> YearOf(e.at) = year
  <2>1. n + 1 \in 1 .. n + 1
    BY <1>1
  <2> QED BY <1>3, <1>4, <2>1
<1>8. EventsOfYear(more, year) = Only(more, OfYear(more, year))
      /\ EventsOfYear(events, year) = Only(events, OfYear(events, year))
  BY DEF EventsOfYear, OfYear
<1> QED
  BY <1>3, <1>6, <1>7, <1>8 DEF more

\* Sales of other years leave the events of a year.
SameYear(more, events, year) ==
    IsSeq(more) /\ EventsOfYear(more, year) = EventsOfYear(events, year)

LEMMA TakeOfOtherYear ==
    ASSUME NEW acc, IsSeq(acc.events), NEW lot, NEW d, NEW year, YearOf(d.at) # year
    PROVE  SameYear(Take(acc, lot, d).events, acc.events, year)
<1>1. CASE acc.left <= 0
  BY <1>1, TakeIs DEF SameYear
<1>2. CASE ~ (acc.left <= 0)
  <2> DEFINE e == EventOf(lot, d, Given(acc, lot))
             after == [open |-> [acc.open EXCEPT ![lot.n] = @ - Given(acc, lot)],
                       left |-> acc.left - Given(acc, lot), events |-> Append(acc.events, e)]
  <2>1. Take(acc, lot, d) = after
    BY <1>2, TakeIs
  <2>2. after.events = Append(acc.events, e)
    OBVIOUS
  <2>3. e.at = d.at
    BY DEF EventOf
  <2> HIDE DEF e, after
  <2>4. IsSeq(Append(acc.events, e))
    BY AppendIs, Zenon DEF Longer
  <2>5. EventsOfYear(Append(acc.events, e), year) = EventsOfYear(acc.events, year)
    BY <2>3, EventsOfOneMore
  <2> QED BY <2>1, <2>2, <2>4, <2>5 DEF SameYear
<1> QED
  BY <1>1, <1>2

LEMMA SaleOfOtherYear ==
    ASSUME NEW A, Dated(A), NEW start, IsSeq(start.events), NEW d, NEW method, NEW year, YearOf(d.at) # year
    PROVE  SameYear(TakeInOrder(start, A, d, method).events, start.events, year)
<1>1. PICK F : TakenBy(F, start, d, method, SUBSET A) /\ TakeInOrder(start, A, d, method) = F[A]
  BY SaleIsThat
<1> DEFINE P == {s \in SUBSET A : SameYear(F[s].events, start.events, year)}
<1>2. {} \in P
  <2>1. F[{}] = start
    BY <1>1 DEF TakenBy, Taken
  <2> QED BY <2>1 DEF SameYear
<1>3. ASSUME NEW s \in SUBSET A, s # {}, \A x \in s : s \ {x} \in P
      PROVE  s \in P
  <2>1. PICK x \in s : F[s] = Take(F[s \ {x}], x, d)
    <3>1. s # {}
      BY <1>3
    <3>2. LastTaken(s, method) \in s /\ TakenLast(F, s, LastTaken(s, method), d)
      BY <1>1, <3>1, TakenOfOneMore, Zenon
    <3> QED BY <3>2, Zenon DEF TakenLast
  <2>2. SameYear(F[s \ {x}].events, start.events, year)
    BY <1>3
  <2>3. SameYear(Take(F[s \ {x}], x, d).events, F[s \ {x}].events, year)
    <3>1. PICK acc : acc = F[s \ {x}]
      OBVIOUS
    <3>2. IsSeq(acc.events)
      BY <2>2, <3>1 DEF SameYear
    <3>3. SameYear(Take(acc, x, d).events, acc.events, year)
      BY <3>2, TakeOfOtherYear, Zenon
    <3> QED BY <3>1, <3>3
  <2> QED BY <2>1, <2>2, <2>3 DEF SameYear
<1>4. A \in P
  <2>1. IsFiniteSet(A)
    BY DEF Dated
  <2> HIDE DEF P
  <2>2. \A s \in SUBSET A : s \in P
    BY <1>2, <1>3, <2>1, SetBySet
  <2> QED BY <2>2
<1> QED
  BY <1>1, <1>4

LEMMA DisposeOfOtherYear ==
    ASSUME NEW ls, LotsFine(ls), NEW result, IsSeq(result.events), NEW d, NEW method,
           NEW year, YearOf(d.at) # year
    PROVE  SameYear(Dispose(result, ls, d, method).events, result.events, year)
<1>1. PICK start, done : Disposes(start, done, result, ls, d, method)
  BY DisposeIs
<1>2. Dated(candidateLots(ls, result.open, d.at))
  <2>1. candidateLots(ls, result.open, d.at) \in SUBSET ls
    BY DEF candidateLots
  <2> QED BY <2>1, FS_Subset DEF LotsFine, Dated
<1>3. /\ start.events = result.events
      /\ done = TakeInOrder(start, candidateLots(ls, result.open, d.at), d, method)
      /\ Dispose(result, ls, d, method).events = done.events
  BY <1>1 DEF Disposes
<1>4. SameYear(done.events, start.events, year)
  BY <1>2, <1>3, SaleOfOtherYear
<1> QED
  BY <1>3, <1>4

-----------------------------------------------------------------------------
(* The lots and sales up to a year, and all of them.                        *)

\* Two results with the same events and as much left in each of the lots.
Alike(a, b, ls) ==
    /\ a.events = b.events
    /\ \A l \in ls : l.n \in DOMAIN a.open /\ l.n \in DOMAIN b.open /\ a.open[l.n] = b.open[l.n]

LEMMA TakesAlike ==
    ASSUME NEW ls, NEW a, NEW b, Alike(a, b, ls), a.left = b.left, NEW lot \in ls, NEW d
    PROVE  Alike(Take(a, lot, d), Take(b, lot, d), ls) /\ Take(a, lot, d).left = Take(b, lot, d).left
<1>1. Given(a, lot) = Given(b, lot)
  BY DEF Alike, Given
<1>2. CASE a.left <= 0
  BY <1>2, TakeIs
<1>3. CASE ~ (a.left <= 0)
  <2> DEFINE t == Given(a, lot)
             e == EventOf(lot, d, t)
             after(acc) == [open |-> [acc.open EXCEPT ![lot.n] = @ - t], left |-> acc.left - t,
                            events |-> Append(acc.events, e)]
  <2>1. Take(a, lot, d) = after(a) /\ Take(b, lot, d) = after(b)
    BY <1>1, <1>3, TakeIs
  <2> HIDE DEF t, e
  <2>2. \A l \in ls : /\ l.n \in DOMAIN after(a).open /\ l.n \in DOMAIN after(b).open
                      /\ after(a).open[l.n] = after(b).open[l.n]
    BY DEF Alike
  <2>3. after(a).events = after(b).events /\ after(a).left = after(b).left
    BY DEF Alike
  <2> HIDE DEF after
  <2>4. Alike(after(a), after(b), ls)
    BY <2>2, <2>3, Zenon DEF Alike
  <2> QED BY <2>1, <2>3, <2>4
<1> QED
  BY <1>2, <1>3

LEMMA SalesAlike ==
    ASSUME NEW ls, NEW A, Dated(A), A \subseteq ls, NEW a, NEW b, Alike(a, b, ls), a.left = b.left,
           NEW d, NEW method
    PROVE  /\ Alike(TakeInOrder(a, A, d, method), TakeInOrder(b, A, d, method), ls)
           /\ TakeInOrder(a, A, d, method).left = TakeInOrder(b, A, d, method).left
<1>1. PICK F : TakenBy(F, a, d, method, SUBSET A) /\ TakeInOrder(a, A, d, method) = F[A]
  BY SaleIsThat
<1>2. PICK G : TakenBy(G, b, d, method, SUBSET A) /\ TakeInOrder(b, A, d, method) = G[A]
  BY SaleIsThat
<1> DEFINE P == {s \in SUBSET A : Alike(F[s], G[s], ls) /\ F[s].left = G[s].left}
<1>3. {} \in P
  <2>1. F[{}] = a /\ G[{}] = b
    BY <1>1, <1>2 DEF TakenBy, Taken
  <2> QED BY <2>1
<1>4. ASSUME NEW s \in SUBSET A, s # {}, \A x \in s : s \ {x} \in P
      PROVE  s \in P
  <2>1. PICK x \in s : F[s] = Take(F[s \ {x}], x, d) /\ G[s] = Take(G[s \ {x}], x, d)
    <3>1. s # {}
      BY <1>4
    <3>2. LastTaken(s, method) \in s /\ TakenLast(F, s, LastTaken(s, method), d)
      BY <1>1, <3>1, TakenOfOneMore, Zenon
    <3>3. TakenLast(G, s, LastTaken(s, method), d)
      BY <1>2, <3>1, TakenOfOneMore, Zenon
    <3> QED BY <3>2, <3>3, Zenon DEF TakenLast
  <2>2. Alike(F[s \ {x}], G[s \ {x}], ls) /\ F[s \ {x}].left = G[s \ {x}].left
    BY <1>4
  <2>3. PICK p, q : p = F[s \ {x}] /\ q = G[s \ {x}]
    OBVIOUS
  <2>4. Alike(p, q, ls) /\ p.left = q.left /\ x \in ls
    BY <2>2, <2>3
  <2>5. Alike(Take(p, x, d), Take(q, x, d), ls) /\ Take(p, x, d).left = Take(q, x, d).left
    BY <2>4, TakesAlike
  <2> QED BY <2>1, <2>3, <2>5
<1>5. A \in P
  <2>1. IsFiniteSet(A)
    BY DEF Dated
  <2> HIDE DEF P
  <2>2. \A s \in SUBSET A : s \in P
    BY <1>3, <1>4, <2>1, SetBySet
  <2> QED BY <2>2
<1> QED
  BY <1>1, <1>2, <1>5

UpToYear(S, year) == {x \in S : YearOf(x.at) <= year}

LEMMA UpToYearIsFine ==
    ASSUME NEW ls, LotsFine(ls), NEW year
    PROVE  LotsFine(UpToYear(ls, year))
<1>1. UpToYear(ls, year) \in SUBSET ls
  BY DEF UpToYear
<1> QED
  BY <1>1, FS_Subset DEF LotsFine

\* A sale of a year takes from lots of that year and before it.
LEMMA CandidatesAlike ==
    ASSUME NEW ls, LotsFine(ls), NEW year \in Nat, NEW a, NEW b, Alike(a, b, UpToYear(ls, year)),
           NEW at \in Nat, YearOf(at) <= year
    PROVE  /\ candidateLots(ls, a.open, at) = candidateLots(UpToYear(ls, year), b.open, at)
           /\ candidateLots(UpToYear(ls, year), b.open, at) \subseteq UpToYear(ls, year)
           /\ Dated(candidateLots(UpToYear(ls, year), b.open, at))
<1>1. ASSUME NEW l \in ls, l.at <= at
      PROVE  l \in UpToYear(ls, year)
  <2>1. l.at \in Nat
    BY DEF LotsFine
  <2>2. YearOf(l.at) <= YearOf(at) /\ YearOf(l.at) \in Nat /\ YearOf(at) \in Nat
    BY <1>1, <2>1, YearsInOrder, YearIs
  <2> QED BY <2>2 DEF UpToYear
<1>2. UpToYear(ls, year) \subseteq ls
  BY DEF UpToYear
<1>3. candidateLots(ls, a.open, at) = candidateLots(UpToYear(ls, year), b.open, at)
  BY <1>1, <1>2 DEF candidateLots, Alike
<1>4. candidateLots(UpToYear(ls, year), b.open, at) \subseteq UpToYear(ls, year)
  BY DEF candidateLots
<1>5. Dated(candidateLots(UpToYear(ls, year), b.open, at))
  BY <1>4, UpToYearIsFine, FS_Subset DEF LotsFine, Dated
<1> QED
  BY <1>3, <1>4, <1>5

LEMMA DisposesAlike ==
    ASSUME NEW ls, LotsFine(ls), NEW year \in Nat, NEW a, NEW b, Alike(a, b, UpToYear(ls, year)),
           NEW d, d.at \in Nat, YearOf(d.at) <= year, NEW method
    PROVE  Alike(Dispose(a, ls, d, method), Dispose(b, UpToYear(ls, year), d, method), UpToYear(ls, year))
<1> DEFINE early == UpToYear(ls, year)
           A == candidateLots(early, b.open, d.at)
<1>1. PICK start, done : Disposes(start, done, a, ls, d, method)
  BY DisposeIs
<1>2. PICK begin, end : Disposes(begin, end, b, early, d, method)
  BY DisposeIs
<1>3. candidateLots(ls, a.open, d.at) = A /\ A \subseteq early /\ Dated(A)
  BY CandidatesAlike
<1>4. /\ start.open = a.open /\ start.left = d.sat /\ start.events = a.events
      /\ done = TakeInOrder(start, A, d, method)
      /\ Dispose(a, ls, d, method).events = done.events /\ Dispose(a, ls, d, method).open = done.open
  BY <1>1, <1>3 DEF Disposes
<1>5. /\ begin.open = b.open /\ begin.left = d.sat /\ begin.events = b.events
      /\ end = TakeInOrder(begin, A, d, method)
      /\ Dispose(b, early, d, method).events = end.events /\ Dispose(b, early, d, method).open = end.open
  BY <1>2 DEF Disposes
<1> HIDE DEF A, early
<1>6. Alike(start, begin, early) /\ start.left = begin.left
  BY <1>4, <1>5 DEF Alike, early
<1>7. Alike(done, end, early)
  BY <1>3, <1>4, <1>5, <1>6, SalesAlike
<1>8. Alike(Dispose(a, ls, d, method), Dispose(b, early, d, method), early)
  BY <1>4, <1>5, <1>7 DEF Alike
<1> QED
  BY <1>8 DEF early

LEMMA UnsoldAlike ==
    ASSUME NEW ls, LotsFine(ls), NEW year
    PROVE  Alike(Unsold(ls), Unsold(UpToYear(ls, year)), UpToYear(ls, year))
<1>1. UpToYear(ls, year) \subseteq ls
  BY DEF UpToYear
<1>2. PICK early : early = UpToYear(ls, year) /\ early \subseteq ls
  BY <1>1
<1>3. ASSUME NEW l \in early
      PROVE  /\ l.n \in DOMAIN Unsold(ls).open /\ l.n \in DOMAIN Unsold(early).open
             /\ Unsold(ls).open[l.n] = Unsold(early).open[l.n]
  <2>1. l \in ls
    BY <1>2
  <2>2. l.n \in DOMAIN Unsold(ls).open /\ Unsold(ls).open[l.n] = l.sat
    BY <2>1, UnsoldIs
  <2>3. l.n \in DOMAIN Unsold(early).open /\ Unsold(early).open[l.n] = l.sat
    BY <1>2, UnsoldIs, UpToYearIsFine
  <2> QED BY <2>2, <2>3
<1>4. Unsold(ls).events = Unsold(early).events
  BY <1>2, UnsoldIs, UpToYearIsFine
<1>5. Alike(Unsold(ls), Unsold(early), early)
  BY <1>3, <1>4, Zenon DEF Alike
<1> QED
  BY <1>2, <1>5

LEMMA EarlySalesAlike ==
    ASSUME NEW ls, LotsFine(ls), NEW D, Dated(D), NEW year \in Nat, NEW method,
           NEW G, SoldBy(G, ls, method, SUBSET D),
           NEW H, SoldBy(H, UpToYear(ls, year), method, SUBSET UpToYear(D, year))
    PROVE  \A s \in SUBSET UpToYear(D, year) : Alike(G[s], H[s], UpToYear(ls, year))
<1>1. PICK early, A : early = UpToYear(ls, year) /\ A = UpToYear(D, year)
  OBVIOUS
<1>2. A \in SUBSET D /\ \A d \in A : d.at \in Nat /\ YearOf(d.at) <= year
  BY <1>1 DEF UpToYear, Dated
<1>3. Dated(A)
  BY <1>2, FS_Subset DEF Dated
<1>4. SoldBy(H, early, method, SUBSET A)
  BY <1>1
<1> DEFINE P == {s \in SUBSET A : Alike(G[s], H[s], early)}
<1>5. {} \in P
  <2>1. G[{}] = Unsold(ls) /\ H[{}] = Unsold(early)
    BY <1>4 DEF SoldBy, Sold
  <2>2. Alike(Unsold(ls), Unsold(early), early)
    BY <1>1, UnsoldAlike
  <2> QED BY <2>1, <2>2
<1>6. ASSUME NEW s \in SUBSET A, s # {}, \A x \in s : s \ {x} \in P
      PROVE  s \in P
  <2>1. PICK x \in s : /\ G[s] = Dispose(G[s \ {x}], ls, x, method)
                       /\ H[s] = Dispose(H[s \ {x}], early, x, method)
    <3>1. s # {} /\ s \in SUBSET D
      BY <1>2, <1>6
    <3>2. Latest(s) \in s /\ SoldLast(G, s, Latest(s), ls, method)
      BY <3>1, SoldOfOneMore, Zenon
    <3>3. SoldLast(H, s, Latest(s), early, method)
      BY <1>3, <1>4, <3>1, SoldOfOneMore, Zenon
    <3> QED BY <3>2, <3>3, Zenon DEF SoldLast
  <2>2. PICK a, b : a = G[s \ {x}] /\ b = H[s \ {x}]
    OBVIOUS
  <2>3. Alike(a, b, early) /\ x.at \in Nat /\ YearOf(x.at) <= year
    BY <1>2, <1>6, <2>2
  <2>4. Alike(Dispose(a, ls, x, method), Dispose(b, early, x, method), early)
    BY <1>1, <2>3, DisposesAlike
  <2> QED BY <2>1, <2>2, <2>4
<1>7. IsFiniteSet(A)
  BY <1>3 DEF Dated
<1>8. \A s \in SUBSET A : s \in P
  <2> HIDE DEF P
  <2> QED BY <1>5, <1>6, <1>7, SetBySet
<1> QED
  BY <1>1, <1>8

\* Sales after a year and lots bought after it leave its events alone.
LEMMA YearStays ==
    ASSUME NEW ls, LotsFine(ls), NEW D, Dated(D), \A d \in D : d.sat \in Nat, NEW year \in Nat, NEW method
    PROVE  EventsOfYear(Match(ls, D, method).events, year)
             = EventsOfYear(Match(UpToYear(ls, year), UpToYear(D, year), method).events, year)
<1>1. PICK early, A : early = UpToYear(ls, year) /\ A = UpToYear(D, year)
  OBVIOUS
<1>2. A \in SUBSET D /\ \A d \in D : d.at \in Nat /\ (d \in A <=> YearOf(d.at) <= year)
  BY <1>1 DEF UpToYear, Dated
<1>3. Dated(A)
  BY <1>2, FS_Subset DEF Dated
<1>4. PICK G : SoldBy(G, ls, method, SUBSET D) /\ Match(ls, D, method) = G[D]
  BY MatchIsThat
<1>5. PICK H : SoldBy(H, early, method, SUBSET A) /\ Match(early, A, method) = H[A]
  BY <1>3, MatchIsThat
<1>6. \A s \in SUBSET A : Alike(G[s], H[s], early)
  BY <1>1, <1>4, <1>5, EarlySalesAlike
<1>7. \A s \in SUBSET D : IsSeq(G[s].events)
  <2>1. \A s \in SUBSET D : Matched(G[s], ls, Wanted(s))
    BY <1>4, MatchesAreMatched
  <2> QED BY <2>1, Zenon DEF Matched, EventsOK, Amounts
<1> DEFINE P == {s \in SUBSET D : EventsOfYear(G[s].events, year) = EventsOfYear(H[s \cap A].events, year)}
<1>8. ASSUME NEW s \in SUBSET A
      PROVE  s \in P
  <2>1. s \cap A = s /\ s \in SUBSET D
    BY <1>2
  <2>2. G[s].events = H[s].events
    BY <1>6 DEF Alike
  <2> QED BY <2>1, <2>2
<1>9. ASSUME NEW s \in SUBSET D, s # {}, \A x \in s : s \ {x} \in P
      PROVE  s \in P
  <2>1. PICK x \in s : (\A z \in s : z.at <= x.at) /\ G[s] = Dispose(G[s \ {x}], ls, x, method)
    <3>1. s # {}
      BY <1>9
    <3>2. Latest(s) \in s /\ SoldLast(G, s, Latest(s), ls, method)
      BY <1>4, <3>1, SoldOfOneMore, Zenon
    <3> QED BY <3>2, Zenon DEF SoldLast
  <2>2. CASE x \in A
    <3>1. ASSUME NEW z \in s
          PROVE  z \in A
      <4>1. z.at \in Nat /\ x.at \in Nat /\ z.at <= x.at /\ YearOf(x.at) <= year
        BY <1>2, <2>1, <2>2
      <4>2. YearOf(z.at) <= YearOf(x.at) /\ YearOf(z.at) \in Nat /\ YearOf(x.at) \in Nat
        BY <4>1, YearsInOrder, YearIs
      <4>3. YearOf(z.at) <= year
        BY <4>1, <4>2
      <4> QED BY <1>2, <4>3
    <3> HIDE DEF P
    <3> QED BY <1>8, <3>1
  <2>3. CASE x \notin A
    <3>1. YearOf(x.at) # year
      <4>1. year <= year
        OBVIOUS
      <4> QED BY <1>2, <2>3, <4>1
    <3>2. PICK a : a = G[s \ {x}]
      OBVIOUS
    <3>3. IsSeq(a.events)
      BY <1>7, <3>2
    <3>4. SameYear(Dispose(a, ls, x, method).events, a.events, year)
      BY <3>1, <3>3, DisposeOfOtherYear
    <3>5. s \cap A = (s \ {x}) \cap A
      BY <2>3
    <3>6. EventsOfYear(a.events, year) = EventsOfYear(H[(s \ {x}) \cap A].events, year)
      BY <1>9, <3>2
    <3>7. EventsOfYear(G[s].events, year) = EventsOfYear(a.events, year)
      BY <2>1, <3>2, <3>4 DEF SameYear
    <3> QED BY <3>5, <3>6, <3>7
  <2> QED BY <2>2, <2>3
<1>10. D \in P
  <2>1. IsFiniteSet(D) /\ {} \in SUBSET A
    BY DEF Dated
  <2> HIDE DEF P
  <2>2. \A s \in SUBSET D : s \in P
    BY <1>8, <1>9, <2>1, SetBySet
  <2> QED BY <2>2
<1>11. D \cap A = A
  BY <1>2
<1> QED
  BY <1>1, <1>4, <1>5, <1>10, <1>11

\* On the last day of a year all its events have happened.
LEMMA YearToDate ==
    ASSUME NEW events, Amounts(events), NEW year \in Nat
    PROVE  Only(EventsOfYear(events, year),
                {e \in Range(EventsOfYear(events, year)) : e.at <= (year + 1) * Year - 1})
             = EventsOfYear(events, year)
<1>1. PICK V : events \in Seq(V)
  BY DEF Amounts, IsSeq
<1>2. PICK S : S = OfYear(events, year)
  OBVIOUS
<1>3. PICK known : known = EventsOfYear(events, year) /\ known = Only(events, S)
  BY <1>2 DEF EventsOfYear, OfYear
<1>4. KeptOf(known, events, S, Len(events), V)
  BY <1>1, <1>3, OnlyKeeps
<1>5. known \in Seq(V) /\ \A i \in 1 .. Len(known) : \E j \in 1 .. Len(events) : known[i] = events[j] /\ events[j] \in S
  BY <1>4, Zenon DEF KeptOf
<1>6. PICK day : day = (year + 1) * Year - 1
  OBVIOUS
<1>7. ASSUME NEW i \in 1 .. Len(known)
      PROVE  known[i] \in {e \in Range(known) : e.at <= day}
  <2>1. PICK j \in 1 .. Len(events) : known[i] = events[j] /\ events[j] \in S
    BY <1>5
  <2>2. YearOf(known[i].at) = year
    BY <1>2, <2>1 DEF OfYear
  <2>3. known[i].at \in Nat
    <3>1. j \in DOMAIN events
      BY <1>1
    <3> QED BY <2>1, <3>1 DEF Amounts
  <2>4. known[i].at <= day
    BY <1>6, <2>2, <2>3, EndOfYear
  <2>5. known[i] \in Range(known)
    BY <1>5 DEF Range
  <2> QED BY <2>4, <2>5
<1>8. Only(known, {e \in Range(known) : e.at <= day}) = known
  BY <1>5, <1>7, OnlyOfAll
<1> QED
  BY <1>3, <1>6, <1>8

LEMMA GainsOfForm ==
    ASSUME NEW events
    PROVE  Total(Gain, events) = Total(LAMBDA row : row.gain, Form8949(events))
<1>1. PICK rows : rows = Form8949(events)
  OBVIOUS
<1>2. DOMAIN rows = DOMAIN events /\ \A i \in DOMAIN events : rows[i].gain = Gain(events[i])
  BY <1>1 DEF Form8949
<1>3. [i \in DOMAIN events |-> Gain(events[i])] = [i \in DOMAIN rows |-> rows[i].gain]
  BY <1>2
<1> QED
  BY <1>1, <1>3 DEF Total

LEMMA HarvestYearToDate ==
    ASSUME NEW ls, NEW sales, NEW method, NEW usdPerSat, NEW asOf, NEW known,
           known = EventsOfYear(Match(ls, sales, method).events, YearOf(asOf))
    PROVE  Harvest(ls, sales, method, usdPerSat, asOf).ytd
             = Total(Gain, Only(known, {e \in Range(known) : e.at <= asOf}))
<1>1. \A a, b, c : [candidates |-> a, ytd |-> b, wash |-> c].ytd = b
  OBVIOUS
<1> QED
  BY <1>1 DEF Harvest

-----------------------------------------------------------------------------
(* Requests.                                                                *)

BookInv == BookOK(book) /\ form \in Seq(Shown)

LEMMA BookParts == book.imports = imports /\ book.lots = lots
  BY DEF book

LEMMA LinesAreSequences ==
    ASSUME NEW src, NEW lines \in Lines(src)
    PROVE  \E n \in Nat : /\ DOMAIN lines = 1 .. n
                          /\ \A k \in 1 .. n : lines[k] \in Line /\ lines[k].src = src
<1>1. PICK n \in 1 .. MaxLines : lines \in [1 .. n -> {l \in Line : l.src = src}]
  BY Zenon DEF Lines
<1>2. n \in Nat
  <2>1. MaxLines \in Nat
    BY BookAssumption, Zenon
  <2> QED BY <2>1
<1>3. DOMAIN lines = 1 .. n
  BY <1>1
<1>4. ASSUME NEW k \in 1 .. n
      PROVE  lines[k] \in Line /\ lines[k].src = src
  BY <1>1, Zenon
<1> QED
  BY <1>2, <1>3, <1>4, Zenon

LEMMA FormIsSequence ==
    ASSUME form \in Seq(Shown)
    PROVE  Len(form) \in Nat /\ DOMAIN form = 1 .. Len(form)
           /\ \A k \in 1 .. Len(form) : form[k] \in Shown
OBVIOUS

\* A request that writes a book of the right kind keeps the invariant.
LEMMA WriteKeeps ==
    ASSUME NEW b, BookOK(b), Write(b), form' \in Seq(Shown)
    PROVE  BookInv'
<1>1. book'.imports = b.imports /\ book'.lots = b.lots
  BY DEF book, Write
<1> QED
  BY <1>1, Zenon DEF BookInv, BookOK

LEMMA FileKeeps ==
    ASSUME BookInv, NEW src \in {"river", "coinbase", "swan"}, NEW lines \in Lines(src),
           Write(ImportRows(src, book, Read(src, lines))), UNCHANGED form
    PROVE  BookInv'
<1>1. PICK n \in Nat : /\ DOMAIN lines = 1 .. n
                       /\ \A k \in 1 .. n : lines[k] \in Line /\ lines[k].src = src
  BY LinesAreSequences, Zenon
<1>2. ASSUME NEW k \in 1 .. n
      PROVE  AtMostOne(Made(src, lines[k]), Kept(src))
  <2>1. lines[k] \in Line /\ lines[k].src = src
    BY <1>1, Zenon
  <2>2. AtMostOne(Made(src, lines[k]), Booked(src))
    BY <2>1, RiverLine, CoinbaseLine, SwanLine, Zenon
  <2>3. Kept(src) = Booked(src)
    BY DEF Kept
  <2> QED BY <2>2, <2>3, Zenon
<1>3. Read(src, lines) \in Seq(Kept(src))
  BY <1>1, <1>2, ReadIsSequence, Zenon
<1>4. src \in Source
  BY DEF Source
<1>5. BookOK(ImportRows(src, book, Read(src, lines)))
  BY <1>3, <1>4, ImportRowsKeep, Zenon DEF BookInv
<1>6. form' \in Seq(Shown)
  BY Zenon DEF BookInv
<1> QED
  BY <1>5, <1>6, WriteKeeps, Zenon

LEMMA PreviewKeeps ==
    ASSUME BookInv, NEW lines \in Lines("strike"), StrikePreview(lines)
    PROVE  BookInv'
<1>1. PICK n \in Nat : /\ DOMAIN lines = 1 .. n
                       /\ \A k \in 1 .. n : lines[k] \in Line /\ lines[k].src = "strike"
  BY LinesAreSequences, Zenon
<1>2. \A k \in 1 .. n : AtMostOne(Made("shown", lines[k]), Shown)
  BY <1>1, ShownLine, Zenon
<1>3. Read("shown", lines) \in Seq(Shown)
  BY <1>1, <1>2, ReadIsSequence, Zenon
<1>4. form' \in Seq(Shown) /\ book' = book
  BY <1>3, Zenon DEF StrikePreview, book
<1> QED
  BY <1>4, Zenon DEF BookInv

LEMMA ConfirmKeeps ==
    ASSUME BookInv, HandleStrikeImport
    PROVE  BookInv'
<1>1. /\ Len(form) \in Nat /\ DOMAIN form = 1 .. Len(form)
      /\ \A k \in 1 .. Len(form) : form[k] \in Shown
  BY FormIsSequence, Zenon DEF BookInv
<1>2. \A k \in 1 .. Len(form) : AtMostOne(Made("confirmed", form[k]), Kept("strike"))
  BY <1>1, ConfirmedLine, Zenon
<1>3. Read("confirmed", form) \in Seq(Kept("strike"))
  BY <1>1, <1>2, ReadIsSequence, Zenon
<1>4. "strike" \in Source
  BY DEF Source
<1>5. BookOK(ImportRows("strike", book, Read("confirmed", form)))
  BY <1>3, <1>4, ImportRowsKeep, Zenon DEF BookInv
<1>6. Write(ImportRows("strike", book, Read("confirmed", form)))
  BY Zenon DEF HandleStrikeImport, ImportStrikeCSV
<1>7. form' \in Seq(Shown)
  BY DEF HandleStrikeImport
<1> QED
  BY <1>5, <1>6, <1>7, WriteKeeps, Zenon

LEMMA ApiKeeps ==
    ASSUME BookInv, NEW r \in ApiRow, ApiImport(r)
    PROVE  BookInv'
<1>1. \/ r \in RowOf("strike", {r.ref}) /\ r.ref # NoRef /\ r.type = "receive"
      \/ r \in RowOf("coinbase", {r.ref})
  BY BookAssumption, Zenon
<1>2. r.ref \in Refs
  BY Zenon DEF Refs
<1>3. r.src \in {"strike", "coinbase"} /\ r \in Booked(r.src)
  BY <1>1, <1>2 DEF Booked, RowOf
<1>4. r.src = "strike" => ~Ignored(r) /\ ~Purchase(r)
  BY <1>1 DEF RowOf, Ignored, Purchase
<1>5. r \in Kept(r.src)
  BY <1>3, <1>4, Zenon DEF Kept
<1>6. r.src \in Source /\ <<r>> \in Seq(Kept(r.src))
  BY <1>3, <1>5 DEF Source
<1>7. BookOK(ImportRows(r.src, book, <<r>>))
  BY <1>6, ImportRowsKeep, Zenon DEF BookInv
<1>8. Write(ImportRows(r.src, book, <<r>>))
  BY <1>3, Zenon DEF ApiImport, ImportStrikeCSV, ImportCoinbaseCSV
<1>9. form' \in Seq(Shown)
  BY Zenon DEF BookInv, ApiImport
<1> QED
  BY <1>7, <1>8, <1>9, WriteKeeps, Zenon

LEMMA ClearSourceKeeps ==
    ASSUME BookInv, NEW src \in Source, ClearExchangeSource(src)
    PROVE  BookInv'
<1> DEFINE left == [imports |-> Restrict(imports, {key \in DOMAIN imports : key[1] # src}),
                    lots |-> Restrict(lots, {key \in DOMAIN lots : key[1] # src})]
<1>1. LeftOf(book, src, left)
  BY BookParts, ClearLeaves
<1>2. Write(left)
  BY Zenon DEF ClearExchangeSource
<1>3. form' \in Seq(Shown)
  BY Zenon DEF BookInv, ClearExchangeSource
<1> HIDE DEF left
<1>4. BookOK(left)
  BY <1>1, ClearKeeps, Zenon DEF BookInv
<1> QED
  BY <1>2, <1>3, <1>4, WriteKeeps, Zenon

LEMMA InitialBook ==
    ASSUME BookInit
    PROVE  BookInv
<1>1. DOMAIN imports = {} /\ DOMAIN lots = {} /\ form \in Seq(Shown)
  BY DEF BookInit
<1>2. IsTable(lots)
  BY DEF BookInit, IsTable
<1>3. BookOK(book)
  BY <1>1, <1>2, BookParts, FS_EmptySet, Zenon DEF BookOK, RowsOK, LotsOK, LotsHaveRows, PurchasesHaveLots
<1> QED
  BY <1>1, <1>3, Zenon DEF BookInv

LEMMA BookStep ==
    ASSUME BookInv, [BookNext]_bookVars
    PROVE  BookInv'
<1>1. CASE \E lines \in Lines("strike") : StrikePreview(lines)
  BY <1>1, PreviewKeeps, Zenon
<1>2. CASE HandleStrikeImport
  BY <1>2, ConfirmKeeps, Zenon
<1>3. CASE \E lines \in Lines("river") : HandleRiverImport(lines)
  BY <1>3, FileKeeps, Zenon DEF HandleRiverImport, ImportRiverCSV
<1>4. CASE \E lines \in Lines("coinbase") : HandleCoinbaseImport(lines)
  BY <1>4, FileKeeps, Zenon DEF HandleCoinbaseImport, ImportCoinbaseCSV
<1>5. CASE \E lines \in Lines("swan") : HandleSwanImport(lines)
  BY <1>5, FileKeeps, Zenon DEF HandleSwanImport, ImportSwanCSV
<1>6. CASE \E r \in ApiRow : ApiImport(r)
  BY <1>6, ApiKeeps, Zenon
<1>7. CASE \E src \in Source : ClearExchangeSource(src)
  BY <1>7, ClearSourceKeeps, Zenon
<1>8. CASE UNCHANGED bookVars
  BY <1>8, Zenon DEF bookVars, BookInv, book
<1> QED
  BY <1>1, <1>2, <1>3, <1>4, <1>5, <1>6, <1>7, <1>8, Zenon DEF BookNext

-----------------------------------------------------------------------------
(* What the reports read.                                                   *)

LEMMA LotsAreFine ==
    ASSUME BookInv
    PROVE  LotsFine(ListBTCLots)
<1>1. LotsOK(lots) /\ IsFiniteSet(DOMAIN lots)
  BY BookParts, Zenon DEF BookInv, BookOK
<1>2. PICK ls : ls = lots
  OBVIOUS
<1>3. IsFiniteSet({ls[key] : key \in DOMAIN ls})
  BY <1>1, <1>2, ImageIsFinite
<1>4. \A key \in DOMAIN lots : lots[key].n = key /\ lots[key].at \in Nat /\ lots[key].sat \in Int
  BY <1>1 DEF LotsOK
<1> QED
  BY <1>2, <1>3, <1>4 DEF LotsFine, ListBTCLots

Sales == {key \in DOMAIN imports : imports[key].type \in {"Sale", "sale"} /\ imports[key].sat # 0}
SaleOf(key) ==
    LET r == imports[key]
        m == IF r.sat < 0 THEN -r.sat ELSE r.sat
    IN [ref |-> key, at |-> r.at, sat |-> m, usd |-> r.usd]

LEMMA SalesAreFine ==
    ASSUME BookInv
    PROVE  Dated(ListDisposals) /\ \A d \in ListDisposals : d.sat \in Nat
<1>1. RowsOK(imports) /\ IsFiniteSet(DOMAIN imports)
  BY BookParts, Zenon DEF BookInv, BookOK
<1> DEFINE f == [key \in Sales |-> SaleOf(key)]
<1>2. PICK g : g = f
  OBVIOUS
<1>3. PICK keys : keys = DOMAIN imports
  OBVIOUS
<1>4. IsFiniteSet(DOMAIN g)
  <2>1. DOMAIN g = Sales /\ Sales \in SUBSET keys
    BY <1>2, <1>3 DEF Sales
  <2>2. IsFiniteSet(keys)
    BY <1>1, <1>3
  <2> QED BY <2>1, <2>2, FS_Subset
<1>5. IsFiniteSet({g[key] : key \in DOMAIN g})
  BY <1>4, ImageIsFinite
<1>6. ListDisposals = {SaleOf(key) : key \in Sales}
  BY DEF ListDisposals, SaleOf, Sales
<1>7. {g[key] : key \in DOMAIN g} = {SaleOf(key) : key \in Sales}
  BY <1>2
<1>8. \A key \in Sales : SaleOf(key).at \in Nat /\ SaleOf(key).sat \in Nat
  <2> SUFFICES ASSUME NEW key \in DOMAIN imports
               PROVE  SaleOf(key).at \in Nat /\ SaleOf(key).sat \in Nat
    BY DEF Sales
  <2>1. imports[key].at \in Nat /\ imports[key].sat \in Int
    BY <1>1, Zenon DEF RowsOK
  <2> QED BY <2>1 DEF SaleOf
<1>9. \A d \in ListDisposals : d.at \in Nat /\ d.sat \in Nat
  BY <1>6, <1>8
<1> QED
  BY <1>5, <1>6, <1>7, <1>9 DEF Dated

LEMMA MatchOfBook ==
    ASSUME BookInv, NEW method
    PROVE  Matched(Match(ListBTCLots, ListDisposals, method), ListBTCLots, Wanted(ListDisposals))
<1>1. PICK ls, sales : ls = ListBTCLots /\ sales = ListDisposals
  OBVIOUS
<1>2. LotsFine(ls) /\ Dated(sales) /\ \A d \in sales : d.sat \in Nat
  BY <1>1, LotsAreFine, SalesAreFine
<1>3. Matched(Match(ls, sales, method), ls, Wanted(sales))
  BY <1>2, MatchIsMatched
<1> QED
  BY <1>1, <1>3

LEMMA LotsAreUsedUp ==
    ASSUME NEW ls, LotsFine(ls), NEW result, NEW c, Matched(result, ls, c), NEW l \in ls
    PROVE  Consumed(result.events, l) \in 0 .. (IF l.sat > 0 THEN l.sat ELSE 0)
<1>1. PICK open \in Int : open = result.open[l.n]
  BY DEF Matched, OpenOK
<1>2. /\ l.sat \in Int /\ Consumed(result.events, l) = l.sat - open
      /\ l.sat > 0 => open \in 0 .. l.sat
      /\ ~ (l.sat > 0) => open = l.sat
  BY <1>1, ConsumedIs, Zenon DEF Matched, OpenOK, EventsOK, LotsFine
<1>3. CASE l.sat > 0
  BY <1>2, <1>3
<1>4. CASE ~ (l.sat > 0)
  BY <1>2, <1>4
<1> QED
  BY <1>3, <1>4

\* The harvester offers what the events leave.
LEMMA HarvestIsOpen ==
    ASSUME NEW ls, NEW sales, NEW method, NEW usdPerSat, NEW asOf, LotsFine(ls),
           \A l \in ls : Consumed(Match(ls, sales, method).events, l) \in Int,
           NEW c \in Harvest(ls, sales, method, usdPerSat, asOf).candidates
    PROVE  \E l \in ls : l.n = c.lot /\ c.sat + Consumed(Match(ls, sales, method).events, l) = l.sat
<1> DEFINE used(l) == Consumed(Match(ls, sales, method).events, l)
<1>1. PICK l \in ls : c.lot = l.n /\ c.sat = l.sat - used(l)
  BY DEF Harvest
<1>2. l.sat \in Int /\ used(l) \in Int
  BY DEF LotsFine
<1> QED
  BY <1>1, <1>2

LEMMA PageParts ==
    ASSUME NEW method, NEW year, NEW usdPerSat, NEW asOf
    PROVE  /\ TaxPage(method, year, usdPerSat, asOf).summary.unmatched
                = Match(ListBTCLots, ListDisposals, method).unmatched
           /\ TaxPage(method, year, usdPerSat, asOf).harvest
                = Harvest(ListBTCLots, ListDisposals, method, usdPerSat, asOf)
  BY DEF TaxPage, Summarize

LEMMA BookIsMatched ==
    ASSUME BookInv
    PROVE  SatsMatchedOnce
<1>1. PICK ls, sales : ls = ListBTCLots /\ sales = ListDisposals
  OBVIOUS
<1>2. LotsFine(ls)
  BY <1>1, LotsAreFine
<1> SUFFICES ASSUME NEW method \in Methods
             PROVE  LET m == Match(ls, sales, method)
                        page == TaxPage(method, 0, 1, Year)
                    IN /\ \A l \in ls : Consumed(m.events, l) \in 0 .. (IF l.sat > 0 THEN l.sat ELSE 0)
                       /\ \A c \in page.harvest.candidates : \E l \in ls :
                            l.n = c.lot /\ c.sat + Consumed(m.events, l) = l.sat
                       /\ SumFunction([d \in sales |-> d.sat])
                            = page.summary.unmatched + Total(LAMBDA e : e.sat, m.events)
  BY <1>1 DEF SatsMatchedOnce
<1> DEFINE m == Match(ls, sales, method)
           page == TaxPage(method, 0, 1, Year)
<1>3. Matched(m, ls, Wanted(sales))
  BY <1>1, MatchOfBook
<1>4. \A l \in ls : Consumed(m.events, l) \in 0 .. (IF l.sat > 0 THEN l.sat ELSE 0)
  <2> HIDE DEF m
  <2> QED BY <1>2, <1>3, LotsAreUsedUp
<1>5. \A l \in ls : Consumed(m.events, l) \in Int
  <2>1. \A l \in ls : l.sat \in Int
    BY <1>2 DEF LotsFine
  <2> HIDE DEF m
  <2> QED BY <1>4, <2>1
<1>6. \A c \in page.harvest.candidates : \E l \in ls :
        l.n = c.lot /\ c.sat + Consumed(m.events, l) = l.sat
  <2>1. PICK k, asOf : k = 1 /\ asOf = Year
    OBVIOUS
  <2>2. page.harvest = Harvest(ls, sales, method, k, asOf)
    BY <1>1, <2>1, PageParts
  <2> HIDE DEF page
  <2>3. \A c \in Harvest(ls, sales, method, k, asOf).candidates : \E l \in ls :
          l.n = c.lot /\ c.sat + Consumed(m.events, l) = l.sat
    BY <1>2, <1>5, HarvestIsOpen
  <2> QED BY <2>2, <2>3
<1>7. SumFunction([d \in sales |-> d.sat]) = page.summary.unmatched + Total(LAMBDA e : e.sat, m.events)
  <2>1. m.unmatched + SatsIn(m.events) = Wanted(sales)
    BY <1>3, Zenon DEF Matched
  <2>2. page.summary.unmatched = m.unmatched
    BY <1>1, PageParts
  <2>3. Total(LAMBDA e : e.sat, m.events) = SatsIn(m.events)
    BY DEF Total, SatsIn
  <2> HIDE DEF m, page
  <2> QED BY <2>1, <2>2, <2>3 DEF Wanted
<1> QED
  BY <1>4, <1>6, <1>7

LEMMA ClosedYearsAreNat ==
    ASSUME NEW year \in ClosedYears
    PROVE  year \in Nat
<1>1. PICK l \in Line : year = YearOf(l.at)
  BY DEF ClosedYears
<1>2. l.at \in Nat
  BY BookAssumption
<1> QED
  BY <1>1, <1>2, YearIs

LEMMA BookStays ==
    ASSUME BookInv
    PROVE  ClosedYearsStay
<1>1. PICK ls, sales : ls = ListBTCLots /\ sales = ListDisposals
  OBVIOUS
<1>2. LotsFine(ls) /\ Dated(sales) /\ \A d \in sales : d.sat \in Nat
  BY <1>1, LotsAreFine, SalesAreFine
<1>3. ASSUME NEW method \in Methods, NEW year \in ClosedYears
      PROVE  /\ HandleTaxExport(method, year)
                  = Form8949(EventsOfYear(Match(UpToYear(ls, year), UpToYear(sales, year), method).events, year))
             /\ TaxPage(method, year, 1, (year + 1) * Year - 1).harvest.ytd
                  = Total(LAMBDA row : row.gain, HandleTaxExport(method, year))
  <2>1. year \in Nat
    BY ClosedYearsAreNat
  <2>2. PICK events : events = Match(ls, sales, method).events
    OBVIOUS
  <2>3. PICK known : known = EventsOfYear(events, year)
    OBVIOUS
  <2>4. HandleTaxExport(method, year) = Form8949(known)
    BY <1>1, <2>2, <2>3 DEF HandleTaxExport
  <2>5. known = EventsOfYear(Match(UpToYear(ls, year), UpToYear(sales, year), method).events, year)
    BY <1>2, <2>1, <2>2, <2>3, YearStays
  <2>6. Amounts(events)
    <3>1. Matched(Match(ls, sales, method), ls, Wanted(sales))
      BY <1>2, MatchIsMatched
    <3> QED BY <2>2, <3>1 DEF Matched, EventsOK
  <2>7. PICK day : day = (year + 1) * Year - 1
    OBVIOUS
  <2>8. TaxPage(method, year, 1, day).harvest.ytd
          = Total(Gain, Only(known, {e \in Range(known) : e.at <= day}))
    <3>1. TaxPage(method, year, 1, day).harvest = Harvest(ls, sales, method, 1, day)
      BY <1>1, PageParts
    <3>2. known = EventsOfYear(Match(ls, sales, method).events, YearOf(day))
      BY <2>1, <2>2, <2>3, <2>7, EndOfYear
    <3>3. Harvest(ls, sales, method, 1, day).ytd = Total(Gain, Only(known, {e \in Range(known) : e.at <= day}))
      BY <3>2, HarvestYearToDate
    <3> QED BY <3>1, <3>3
  <2>9. Only(known, {e \in Range(known) : e.at <= day}) = known
    BY <2>1, <2>3, <2>6, <2>7, YearToDate
  <2>10. TaxPage(method, year, 1, day).harvest.ytd = Total(Gain, known)
    BY <2>8, <2>9
  <2>11. Total(Gain, known) = Total(LAMBDA row : row.gain, Form8949(known))
    BY GainsOfForm
  <2> QED BY <2>4, <2>5, <2>7, <2>10, <2>11
<1> QED
  BY <1>1, <1>3 DEF ClosedYearsStay, UpToYear

\* The rows of a file are those of Read, whatever the book.
LEMMA BookIsLoadedOnce ==
    ASSUME OneNamePerPurchase, BookInv
    PROVE  ReimportChangesNothing
<1>1. PICK b : b = book
  OBVIOUS
<1>2. BookOK(b)
  BY <1>1 DEF BookInv
<1>3. ASSUME NEW l \in Line, NEW m \in Line, l.src = "river", m.src = "river"
      PROVE  LET rows == Read("river", <<l, m>>)
             IN ImportRows("river", ImportRows("river", b, rows), rows) = ImportRows("river", b, rows)
  <2>1. PICK rows : rows = Read("river", <<l, m>>)
    OBVIOUS
  <2>2. AtMostOneOf(Made("river", l), "river") /\ AtMostOneOf(Made("river", m), "river")
    BY <1>3, RiverRow, Zenon
  <2>3. TwoAtMost(Read("river", <<l, m>>), "river")
    BY <2>2, TwoLines, Zenon
  <2>4. ImportRows("river", ImportRows("river", b, rows), rows) = ImportRows("river", b, rows)
    BY <1>2, <2>1, <2>3, FileAgain
  <2> QED BY <2>1, <2>4
<1>4. ASSUME NEW l \in Line, NEW m \in Line, l.src = "strike", m.src = "strike"
      PROVE  LET rows == Read("form", <<l, m>>)
             IN ImportRows("strike", ImportRows("strike", b, rows), rows) = ImportRows("strike", b, rows)
  <2>1. PICK rows : rows = Read("form", <<l, m>>)
    OBVIOUS
  <2>2. AtMostOneOf(Made("form", l), "strike") /\ AtMostOneOf(Made("form", m), "strike")
    BY <1>4, StrikeRow, Zenon
  <2>3. TwoAtMost(Read("form", <<l, m>>), "strike")
    BY <2>2, TwoLines, Zenon
  <2>4. ImportRows("strike", ImportRows("strike", b, rows), rows) = ImportRows("strike", b, rows)
    BY <1>2, <2>1, <2>3, FileAgain
  <2> QED BY <2>1, <2>4
<1> QED
  BY <1>1, <1>3, <1>4 DEF ReimportChangesNothing, ImportRiverCSV, ImportStrikeCSV

-----------------------------------------------------------------------------
(* Theorems.                                                                *)

LEMMA InvariantHolds == Spec => []BookInv
  BY InitialBook, BookStep, PTL DEF Spec

LEMMA InvariantGivesType ==
    ASSUME BookInv
    PROVE  TypeOK
<1>1. RowsOK(imports) /\ LotsOK(lots)
  BY BookParts, Zenon DEF BookInv, BookOK
<1>2. \A i \in DOMAIN form : form[i] \in Line /\ form[i].src = "strike"
  BY FormIsSequence DEF BookInv, Shown
<1> QED
  BY <1>1, <1>2, Zenon DEF TypeOK, RowsOK, LotsOK

\* Rows and lots of every file, API and exchange stay under the keys the tables
\* give them: exchange_imports is unique in (source, external_id, tx_type) and
\* btc_lots in (source, external_id).
THEOREM TypeCorrect == Spec => []TypeOK
  BY InvariantGivesType, InvariantHolds, PTL

\* Import and clear, in db/queries.go, keep lots and rows together: of whatever
\* lines, as often as they come and in whatever order, a lot has a row behind it
\* and a purchase its lot, at its price and in its amount.
THEOREM LotsAgree == Spec => []LotsAgreeWithImports
<1>1. BookInv => LotsAgreeWithImports
  <2> SUFFICES ASSUME BookInv
               PROVE  LotsAgreeWithImports
    OBVIOUS
  <2>1. /\ RowsOK(imports) /\ LotsOK(lots)
        /\ LotsHaveRows(imports, lots) /\ PurchasesHaveLots(imports, lots)
    BY BookParts, Zenon DEF BookInv, BookOK
  <2>2. \A lot \in DOMAIN lots : \E key \in DOMAIN imports : <<key[1], key[2]>> = lot
    BY <2>1, Zenon DEF LotsHaveRows, LotOf
  <2>3. ASSUME NEW key \in DOMAIN imports, Priced(imports[key])
        PROVE  /\ LotOf(key) \in DOMAIN lots
               /\ ~(\E k \in DOMAIN imports \ {key} : LotOf(k) = LotOf(key))
                    => lots[LotOf(key)].usd = Price(imports[key])
               /\ key[2].ref = NoRef => lots[LotOf(key)].sat = imports[key].sat
    <3>1. /\ LotOf(key) \in DOMAIN lots
          /\ ~Shared(imports, key) => lots[LotOf(key)].usd = Price(imports[key])
      BY <2>1, <2>3, Zenon DEF PurchasesHaveLots
    <3>2. Shared(imports, key) => \E k \in DOMAIN imports \ {key} : LotOf(k) = LotOf(key)
      BY Zenon DEF Shared
    <3>3. LotOf(key)[2] = key[2]
      BY DEF LotOf
    <3>4. key[2].ref = NoRef => lots[LotOf(key)].sat = imports[key].sat
      <4>1. key[2].ref = NoRef => imports[key].sat = key[2].sat
        BY <2>1, Zenon DEF RowsOK
      <4>2. LotOf(key)[2].ref = NoRef => lots[LotOf(key)].sat = LotOf(key)[2].sat
        BY <2>1, <3>1, Zenon DEF LotsOK
      <4> QED BY <3>3, <4>1, <4>2, Zenon
    <3> QED BY <3>1, <3>2, <3>4, Zenon
  <2> QED BY <2>2, <2>3, Zenon DEF LotsAgreeWithImports, Priced, LotOf
<1> QED
  BY <1>1, InvariantHolds, PTL

\* The match of internal/analysis sells every sat of a lot once: of whatever lots
\* and sales the imports have left, first in first out or last in first out, a lot
\* gives what it has at most, the harvester of the page offers what is left of it,
\* and what a sale does not get from the lots is reported as unmatched.
THEOREM SatsAreMatchedOnce == Spec => []SatsMatchedOnce
  BY BookIsMatched, InvariantHolds, PTL

\* The match is made of all lots and sales and a year picked from its events
\* afterwards.  What was bought or sold after the year changes neither its Form
\* 8949 nor the page's gain of the year to date on its last day.
THEOREM ClosedYearsAreStable == Spec => []ClosedYearsStay
  BY BookStays, InvariantHolds, PTL

\* A file of River, or one of Strike once it is confirmed, leaves nothing to do
\* when it is loaded again, whatever was imported, corrected or cleared before:
\* the unique keys of exchange_imports and btc_lots make Import idempotent.
THEOREM ImportTwiceIsOnce ==
    ASSUME OneNamePerPurchase
    PROVE  Spec => []ReimportChangesNothing
<1>1. BookInv => ReimportChangesNothing
  BY BookIsLoadedOnce
<1> QED
  BY <1>1, InvariantHolds, PTL
=============================================================================
