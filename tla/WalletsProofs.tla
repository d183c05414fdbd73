---------------------------- MODULE WalletsProofs ---------------------------
(***************************************************************************)
(* However scans, refreshes, removals and payments cross, the row of a     *)
(* wallet has the balance its newest scan found.  The balance is a sum     *)
(* over a set of addresses, so the proof begins with sums.                 *)
(***************************************************************************)
EXTENDS Wallets, WellFoundedInduction, FiniteSetTheorems, SequenceTheorems, TLAPS

-----------------------------------------------------------------------------
(* Sums over finite sets.                                                   *)

\* A non-empty set of naturals has a smallest element.
LEMMA Smallest ==
    ASSUME NEW S \in SUBSET Nat, S # {}
    PROVE  \E x \in S : \A y \in S : x <= y
<1>1. PICK x \in S : \A y \in S : ~ (<<y, x>> \in OpToRel(<, Nat))
  BY NatLessThanWellFounded, WFMin
<1>2. \A y \in S : y < x => <<y, x>> \in OpToRel(<, Nat)
  BY DEF OpToRel
<1>3. \A y \in S : ~ (y < x)
  BY <1>1, <1>2, Zenon
<1> QED
  BY <1>3

\* What holds of 0 and of the next number holds of all up to n.
LEMMA UpTo ==
    ASSUME NEW n \in Nat, NEW P, 0 \in P, \A k \in 1 .. n : k - 1 \in P => k \in P
    PROVE  \A k \in 0 .. n : k \in P
<1> DEFINE Bad == {k \in 0 .. n : k \notin P}
<1> SUFFICES ASSUME Bad # {}
             PROVE  FALSE
  BY Zenon
<1>1. PICK k \in Bad : \A j \in Bad : k <= j
  <2>1. Bad \in SUBSET Nat
    OBVIOUS
  <2> QED BY <2>1, Smallest
<1>2. k \in 1 .. n
  BY <1>1
<1>3. k - 1 \in 0 .. n /\ ~ (k <= k - 1)
  BY <1>2
<1>4. k - 1 \in P
  BY <1>1, <1>3
<1> QED
  BY <1>1, <1>2, <1>4

One(s) == CHOOSE x \in s : TRUE

\* A sum over s takes an element, and has the sum over the others in F.
OneMore(F, c, s) == IF s = {} THEN 0 ELSE F[s \ {One(s)}] + c[One(s)]
Small(A, n) == {s \in SUBSET A : Cardinality(s) <= n}
SumBy(F, c, sets) == F = [s \in sets |-> OneMore(F, c, s)]

LEMMA OneOfSmall ==
    ASSUME NEW A, IsFiniteSet(A), NEW n \in Nat, NEW s \in Small(A, n), s # {}
    PROVE  /\ One(s) \in s /\ n # 0
           /\ s \ {One(s)} \in Small(A, n - 1) /\ s \ {One(s)} \in Small(A, n)
<1>1. One(s) \in s
  BY DEF One
<1>2. s \in SUBSET A /\ Cardinality(s) <= n
  BY DEF Small
<1>3. IsFiniteSet(s) /\ Cardinality(s) \in Nat /\ Cardinality(s) # 0
  BY <1>2, FS_Subset, FS_CardinalityType, FS_EmptySet
<1>4. Cardinality(s \ {One(s)}) = Cardinality(s) - 1
  BY <1>1, <1>3, FS_RemoveElement
<1> QED
  BY <1>1, <1>2, <1>3, <1>4 DEF Small

LEMMA SmallSums ==
    ASSUME NEW A, IsFiniteSet(A), NEW c, NEW n \in Nat
    PROVE  \E F : SumBy(F, c, Small(A, n))
<1> DEFINE P == {k \in 0 .. n : \E F : SumBy(F, c, Small(A, k))}
<1>1. 0 \in P
  <2> DEFINE F == [s \in Small(A, 0) |-> 0]
  <2>1. \A s \in Small(A, 0) : s = {}
    BY OneOfSmall
  <2>2. SumBy(F, c, Small(A, 0))
    BY <2>1 DEF SumBy, OneMore
  <2> QED BY <2>2
<1>2. ASSUME NEW k \in 1 .. n, k - 1 \in P
      PROVE  k \in P
  <2>1. PICK F : SumBy(F, c, Small(A, k - 1))
    BY <1>2
  <2> DEFINE G == [s \in Small(A, k) |-> OneMore(F, c, s)]
  <2>2. ASSUME NEW s \in Small(A, k)
        PROVE  OneMore(F, c, s) = OneMore(G, c, s)
    <3>1. CASE s = {}
      BY <3>1 DEF OneMore
    <3>2. CASE s # {}
      <4>1. s \ {One(s)} \in Small(A, k - 1) /\ s \ {One(s)} \in Small(A, k)
        BY <3>2, OneOfSmall
      <4>2. F[s \ {One(s)}] = OneMore(F, c, s \ {One(s)})
        BY <2>1, <4>1 DEF SumBy
      <4>3. G[s \ {One(s)}] = OneMore(F, c, s \ {One(s)})
        BY <4>1
      <4> QED BY <4>2, <4>3 DEF OneMore
    <3> QED BY <3>1, <3>2
  <2> DEFINE H == [s \in Small(A, k) |-> OneMore(G, c, s)]
  <2>3. G = H
    BY <2>2
  <2> HIDE DEF G
  <2>4. SumBy(G, c, Small(A, k))
    BY <2>3 DEF SumBy
  <2> QED BY <2>4
<1> HIDE DEF P
<1>3. n \in P
  BY <1>1, <1>2, UpTo
<1> QED
  BY <1>3 DEF P

LEMMA SumIsDefined ==
    ASSUME NEW A, IsFiniteSet(A), NEW c
    PROVE  \E F : SumBy(F, c, SUBSET A)
<1>1. Cardinality(A) \in Nat
  BY FS_CardinalityType
<1>2. Small(A, Cardinality(A)) = SUBSET A
  BY FS_Subset DEF Small
<1>3. \E F : SumBy(F, c, Small(A, Cardinality(A)))
  BY <1>1, SmallSums
<1> QED
  BY <1>2, <1>3, Zenon

\* The sum over a set is the one F has for it.
LEMMA SatsBy ==
    ASSUME NEW A, IsFiniteSet(A), NEW c
    PROVE  \E F : SumBy(F, c, SUBSET A) /\ Sats(c, A) = F[A]
<1> DEFINE F == CHOOSE F : SumBy(F, c, SUBSET A)
<1>1. SumBy(F, c, SUBSET A)
  BY SumIsDefined
<1>2. Sats(c, A) = F[A]
  BY DEF Sats, FoldSet, MapThenFoldSet, SumBy, OneMore, One
<1> HIDE DEF F
<1> QED
  BY <1>1, <1>2

\* A sum with the same values is a number, whatever the order it is taken in.
Grows(F, c, A) ==
    \A s \in SUBSET A : F[s] \in Nat /\ \A a \in A \ s : F[s \cup {a}] = F[s] + c[a]

LEMMA SumGrows ==
    ASSUME NEW A, IsFiniteSet(A), NEW c, \A a \in A : c[a] \in Nat,
           NEW F, SumBy(F, c, SUBSET A)
    PROVE  Grows(F, c, A)
<1> DEFINE n == Cardinality(A)
           P == {k \in 0 .. n : \A s \in Small(A, k) : F[s] \in Nat /\ \A a \in A \ s : F[s \cup {a}] = F[s] + c[a]}
<1>1. \A s \in SUBSET A : F[s] = OneMore(F, c, s)
  BY DEF SumBy
<1>2. n \in Nat /\ Small(A, n) = SUBSET A
  BY FS_CardinalityType, FS_Subset DEF Small
<1>3. ASSUME NEW s \in SUBSET A, NEW a \in A \ s, One(s \cup {a}) = a
      PROVE  F[s \cup {a}] = F[s] + c[a]
  <2>1. s \cup {a} # {} /\ (s \cup {a}) \ {a} = s /\ s \cup {a} \in SUBSET A
    OBVIOUS
  <2> QED BY <1>1, <1>3, <2>1 DEF OneMore
<1>4. 0 \in P
  <2> SUFFICES ASSUME NEW s \in Small(A, 0)
               PROVE  F[s] \in Nat /\ \A a \in A \ s : F[s \cup {a}] = F[s] + c[a]
    BY <1>2
  <2>1. s = {} /\ s \in SUBSET A
    BY OneOfSmall DEF Small
  <2>2. F[s] = 0
    BY <1>1, <2>1 DEF OneMore
  <2>3. ASSUME NEW a \in A \ s
        PROVE  F[s \cup {a}] = F[s] + c[a]
    <3>1. One(s \cup {a}) = a
      BY <2>1 DEF One
    <3> QED BY <1>3, <2>1, <3>1
  <2> QED BY <2>2, <2>3
<1>5. ASSUME NEW k \in 1 .. n, k - 1 \in P
      PROVE  k \in P
  <2>1. ASSUME NEW s \in Small(A, k), s # {}
        PROVE  /\ One(s) \in s /\ s \in SUBSET A /\ F[s] = F[s \ {One(s)}] + c[One(s)]
               /\ F[s \ {One(s)}] \in Nat /\ c[One(s)] \in Nat
               /\ \A a \in A \ (s \ {One(s)}) : F[(s \ {One(s)}) \cup {a}] = F[s \ {One(s)}] + c[a]
    <3>1. One(s) \in s /\ s \in SUBSET A /\ s \ {One(s)} \in Small(A, k - 1)
      BY <2>1, OneOfSmall DEF Small
    <3>2. F[s] = OneMore(F, c, s)
      BY <1>1, <3>1
    <3> QED BY <1>5, <2>1, <3>1, <3>2 DEF OneMore
  <2>2. ASSUME NEW s \in Small(A, k)
        PROVE  F[s] \in Nat
    <3>1. CASE s = {}
      BY <1>1, <3>1 DEF OneMore
    <3>2. CASE s # {}
      <4>1. /\ F[s] = F[s \ {One(s)}] + c[One(s)]
            /\ F[s \ {One(s)}] \in Nat /\ c[One(s)] \in Nat
        BY <2>1, <3>2, Zenon
      <4> QED BY <4>1
    <3> QED BY <3>1, <3>2
  <2>3. ASSUME NEW s \in Small(A, k), NEW a \in A \ s
        PROVE  F[s \cup {a}] = F[s] + c[a]
    <3> DEFINE x == One(s \cup {a})
               u == s \ {x}
    <3>1. s \in SUBSET A
      BY DEF Small
    <3>2. x \in s \cup {a}
      BY DEF One
    <3>3. CASE x = a
      BY <1>3, <3>1, <3>3
    <3>4. CASE x # a
      <4>1. x \in s /\ u \in SUBSET A /\ u \cup {x} = s /\ x \in A \ u /\ a \in A \ u /\ x \in A
        BY <3>1, <3>2, <3>4
      <4>2. u \in Small(A, k - 1)
        <5>1. IsFiniteSet(s) /\ Cardinality(s) \in Nat /\ Cardinality(s) <= k
          BY <3>1, FS_Subset, FS_CardinalityType DEF Small
        <5>2. Cardinality(u) = Cardinality(s) - 1
          <6> HIDE DEF x
          <6> QED BY <4>1, <5>1, FS_RemoveElement
        <5> QED BY <4>1, <5>1, <5>2 DEF Small
      <4>3. F[u] \in Nat /\ F[u \cup {x}] = F[u] + c[x] /\ F[u \cup {a}] = F[u] + c[a]
        BY <1>5, <4>1, <4>2
      <4>4. (s \cup {a}) \ {x} = u \cup {a} /\ s \cup {a} # {} /\ s \cup {a} \in SUBSET A
        BY <3>1, <4>1, <3>4
      <4>5. F[s \cup {a}] = F[u \cup {a}] + c[x]
        BY <1>1, <4>4 DEF OneMore
      <4>6. c[x] \in Nat /\ c[a] \in Nat
        BY <4>1
      <4>7. F[s] = F[u] + c[x]
        BY <4>1, <4>3
      <4> HIDE DEF x, u
      <4> QED BY <4>3, <4>5, <4>6, <4>7
    <3> QED BY <3>3, <3>4
  <2> QED BY <2>2, <2>3, <1>2
<1> HIDE DEF P
<1>6. n \in P
  BY <1>2, <1>4, <1>5, UpTo
<1> QED
  BY <1>2, <1>6 DEF P, Grows

SameAt(F, G, s) == F[s] = G[s]

\* The sums over a set and over a smaller one take the same values.
LEMMA SumsAgree ==
    ASSUME NEW A, IsFiniteSet(A), NEW B, B \in SUBSET A, NEW c,
           NEW F, SumBy(F, c, SUBSET A), NEW G, SumBy(G, c, SUBSET B)
    PROVE  SameAt(F, G, B)
<1> DEFINE n == Cardinality(B)
           P == {k \in 0 .. n : \A s \in Small(B, k) : F[s] = G[s]}
<1>1. \A s \in SUBSET B : F[s] = OneMore(F, c, s) /\ G[s] = OneMore(G, c, s)
  BY DEF SumBy
<1>2. IsFiniteSet(B) /\ n \in Nat /\ B \in Small(B, n)
  BY FS_CardinalityType, FS_Subset DEF Small
<1>3. ASSUME NEW k \in 0 .. n, k # 0 => k - 1 \in P
      PROVE  k \in P
  <2> SUFFICES ASSUME NEW s \in Small(B, k)
               PROVE  F[s] = G[s]
    OBVIOUS
  <2>1. s \in SUBSET B
    BY DEF Small
  <2>2. CASE s = {}
    BY <1>1, <2>1, <2>2 DEF OneMore
  <2>3. CASE s # {}
    <3>1. k # 0 /\ s \ {One(s)} \in Small(B, k - 1)
      <4>1. k \in Nat
        BY <1>2
      <4> QED BY <1>2, <2>3, <4>1, OneOfSmall, Zenon
    <3>2. F[s \ {One(s)}] = G[s \ {One(s)}]
      BY <1>3, <3>1
    <3> QED BY <1>1, <2>1, <3>2 DEF OneMore
  <2> QED BY <2>2, <2>3
<1>4. 0 \in P /\ \A k \in 1 .. n : k - 1 \in P => k \in P
  <2> HIDE DEF P
  <2> QED BY <1>2, <1>3
<1> HIDE DEF P
<1>5. n \in P
  BY <1>2, <1>4, UpTo
<1> QED
  BY <1>2, <1>5 DEF P, SameAt

\* One address more has its coins on top.
LEMMA SatsOfOneMore ==
    ASSUME NEW S, IsFiniteSet(S), NEW a, a \notin S, NEW c, \A b \in S \cup {a} : c[b] \in Nat
    PROVE  Sats(c, S) \in Nat /\ Sats(c, S \cup {a}) = Sats(c, S) + c[a]
<1>1. PICK T : T = S \cup {a}
  OBVIOUS
<1>2. IsFiniteSet(T) /\ S \in SUBSET T /\ a \in T \ S /\ \A b \in T : c[b] \in Nat
  BY <1>1, FS_AddElement
<1>3. PICK F : SumBy(F, c, SUBSET T) /\ Sats(c, T) = F[T]
  BY <1>2, SatsBy
<1>4. PICK G : SumBy(G, c, SUBSET S) /\ Sats(c, S) = G[S]
  BY SatsBy
<1>5. F[S] = G[S]
  <2>1. SumBy(F, c, SUBSET T) /\ SumBy(G, c, SUBSET S)
    BY <1>3, <1>4
  <2>2. SameAt(F, G, S)
    BY <1>2, <2>1, SumsAgree
  <2> QED BY <2>2 DEF SameAt
<1>6. Grows(F, c, T)
  BY <1>2, <1>3, SumGrows, Zenon
<1>7. F[S] \in Nat /\ F[S \cup {a}] = F[S] + c[a]
  BY <1>2, <1>6, Zenon DEF Grows
<1> QED
  BY <1>1, <1>3, <1>4, <1>5, <1>7, Zenon

LEMMA SatsOfNone ==
    ASSUME NEW c
    PROVE  Sats(c, {}) = 0
<1>1. PICK F : SumBy(F, c, SUBSET {}) /\ Sats(c, {}) = F[{}]
  BY FS_EmptySet, SatsBy
<1> QED
  BY <1>1 DEF SumBy, OneMore

LEMMA SatsOfOne ==
    ASSUME NEW a, NEW c, c[a] \in Nat
    PROVE  Sats(c, {a}) = c[a]
<1>1. Sats(c, {} \cup {a}) = Sats(c, {}) + c[a]
  BY FS_EmptySet, SatsOfOneMore
<1>2. {} \cup {a} = {a}
  OBVIOUS
<1> QED
  BY <1>1, <1>2, SatsOfNone

LEMMA SatsType ==
    ASSUME NEW A, IsFiniteSet(A), NEW c, \A a \in A : c[a] \in Nat
    PROVE  Sats(c, A) \in Nat
<1>1. PICK F : SumBy(F, c, SUBSET A) /\ Sats(c, A) = F[A]
  BY SatsBy
<1> QED
  BY <1>1, SumGrows DEF Grows

-----------------------------------------------------------------------------
(* The inductive invariant.                                                 *)

Request(s) == [value |-> s.value, at |-> <<s.branch, s.index>>]

\* The addresses a scan of a key has read when it asks for this one.
Seen(c, branch, index) ==
    {a \in Branch \X Index : (a[1] < branch /\ a[2] \in Found(c, a[1])) \/ (a[1] = branch /\ a[2] < index)}

\* The empty addresses in a row before the one that is asked for.
GapIs(c, branch, index, gap) ==
    /\ gap <= index /\ \A k \in index - gap .. index - 1 : c[<<branch, k>>] = 0
    /\ gap < index => c[<<branch, index - gap - 1>>] # 0

\* A scan during which nothing was paid has what the addresses it read have.
OnItsWay(s) ==
    /\ Kind[s.value] = "address" => s.sum = 0
    /\ Kind[s.value] = "xpub" => /\ s.sum = Sats(coins[s.value], Seen(coins[s.value], s.branch, s.index))
                                 /\ GapIs(coins[s.value], s.branch, s.index, s.gap)
                                 /\ ~GapBefore(coins[s.value], s.branch, s.index)

Undisturbed(s) == timeouts = 0 /\ moves[s.value] = s.since

AnswerOf(s, ans) ==
    ans.r = Request(s) /\ (moves[s.value] = s.since => ans.sat = coins[s.value][ans.r.at])

\* One request of the scan is on its way, or one answer.
OneOnTheWay(s) ==
    \/ asked = <<Request(s)>> /\ answers = <<>>
    \/ asked = <<>> /\ Len(answers) = 1 /\ AnswerOf(s, answers[1])

WireInv ==
    /\ \A i \in DOMAIN asked : asked[i].at \in Address(asked[i].value)
    /\ timeouts = 0 => /\ scan = {} => asked = <<>> /\ answers = <<>>
                       /\ \A s \in scan : provider = "electrum" => OneOnTheWay(s)

\* The id stands for the wallet with the value, or for none.
SameWallet(job, rows, last) ==
    job.id <= last /\ (job.id \in DOMAIN rows => rows[job.id].value = job.value)
Listed(list, rows, last) == \A k \in DOMAIN list : SameWallet(list[k], rows, last)
JobsListed(q, rows, last) == \A i \in DOMAIN q : Listed(q[i], rows, last)

ScanInv ==
    \A s \in scan :
        /\ SameWallet(s, wallets, lastId) /\ Listed(s.rest, wallets, lastId) /\ s.since <= moves[s.value]
        /\ s.id \in DOMAIN wallets => wallets[s.id].saw <= s.since
        /\ provider = "electrum" =>
             /\ Kind[s.value] # "descriptor" /\ s.index \in Index /\ <<s.branch, s.index>> \in Address(s.value)
             /\ s.gap < GapLimit /\ (Undisturbed(s) => OnItsWay(s))

RowsInv ==
    /\ \A id \in DOMAIN wallets : wallets[id].saw <= moves[wallets[id].value]
    /\ JobsListed(jobs, wallets, lastId)
    /\ timeouts \in 0 .. MaxTimeouts

WalletsInv == WalletsTypeOK /\ WireInv /\ ScanInv /\ RowsInv /\ RowsFollowTheChain

-----------------------------------------------------------------------------
(* A branch, address by address.                                            *)

LEMMA AddressAfterGap ==
    ASSUME NEW c, NEW branch, NEW index \in Nat, NEW gap \in Nat, gap < GapLimit,
           GapIs(c, branch, index, gap), ~GapBefore(c, branch, index)
    PROVE  IF c[<<branch, index>>] # 0
           THEN GapIs(c, branch, index + 1, 0) /\ ~GapBefore(c, branch, index + 1)
           ELSE /\ GapIs(c, branch, index + 1, gap + 1)
                /\ gap + 1 < GapLimit => ~GapBefore(c, branch, index + 1)
                /\ gap + 1 >= GapLimit => \A i \in Nat : i > index => GapBefore(c, branch, i)
<1> USE WalletsAssumption
<1>1. ASSUME NEW from \in 0 .. (index + 1) - GapLimit,
             \A k \in from .. from + GapLimit - 1 : c[<<branch, k>>] = 0
      PROVE  from = (index + 1) - GapLimit
  <2>1. from \in 0 .. index - GapLimit => GapBefore(c, branch, index)
    BY <1>1 DEF GapBefore
  <2> QED BY <2>1
<1>2. CASE c[<<branch, index>>] # 0
  <2>1. GapIs(c, branch, index + 1, 0)
    BY <1>2 DEF GapIs
  <2>2. ~GapBefore(c, branch, index + 1)
    <3> SUFFICES ASSUME GapBefore(c, branch, index + 1)
                 PROVE  FALSE
      OBVIOUS
    <3>0. PICK from \in 0 .. (index + 1) - GapLimit : \A k \in from .. from + GapLimit - 1 : c[<<branch, k>>] = 0
      BY DEF GapBefore
    <3>1. from = (index + 1) - GapLimit
      BY <1>1, <3>0
    <3>2. index \in from .. from + GapLimit - 1
      BY <3>1
    <3> QED BY <1>2, <3>2, <3>0
  <2> QED BY <1>2, <2>1, <2>2
<1>3. CASE c[<<branch, index>>] = 0
  <2>1. GapIs(c, branch, index + 1, gap + 1)
    <3>1. gap <= index /\ \A k \in index - gap .. index - 1 : c[<<branch, k>>] = 0
      BY DEF GapIs
    <3>2. \A k \in index + 1 - (gap + 1) .. index + 1 - 1 : k = index \/ k \in index - gap .. index - 1
      OBVIOUS
    <3>3. gap + 1 < index + 1 => c[<<branch, index + 1 - (gap + 1) - 1>>] # 0
      <4>1. gap < index => c[<<branch, index - gap - 1>>] # 0
        BY DEF GapIs
      <4>2. index + 1 - (gap + 1) - 1 = index - gap - 1
        OBVIOUS
      <4> QED BY <4>1, <4>2
    <3> QED BY <1>3, <3>1, <3>2, <3>3 DEF GapIs
  <2>2. ASSUME gap + 1 < GapLimit
        PROVE  ~GapBefore(c, branch, index + 1)
    <3> SUFFICES ASSUME GapBefore(c, branch, index + 1)
                 PROVE  FALSE
      OBVIOUS
    <3>0. PICK from \in 0 .. (index + 1) - GapLimit : \A k \in from .. from + GapLimit - 1 : c[<<branch, k>>] = 0
      BY DEF GapBefore
    <3>1. from = (index + 1) - GapLimit
      BY <1>1, <3>0
    <3>2. gap < index /\ index - gap - 1 \in from .. from + GapLimit - 1
      BY <2>2, <3>1
    <3>3. c[<<branch, index - gap - 1>>] # 0
      BY <3>2 DEF GapIs
    <3> QED BY <3>2, <3>3, <3>0
  <2>3. ASSUME gap + 1 >= GapLimit, NEW i \in Nat, i > index
        PROVE  GapBefore(c, branch, i)
    <3>1. gap + 1 = GapLimit /\ gap <= index /\ \A k \in index - gap .. index - 1 : c[<<branch, k>>] = 0
      BY <2>3 DEF GapIs
    <3>2. index - gap \in 0 .. i - GapLimit
      BY <2>3, <3>1
    <3>3. \A k \in index - gap .. index - gap + GapLimit - 1 : k = index \/ k \in index - gap .. index - 1
      BY <3>1
    <3> QED BY <1>3, <3>1, <3>2, <3>3 DEF GapBefore
  <2> QED BY <1>3, <2>1, <2>2, <2>3
<1> QED BY <1>2, <1>3

\* The branch ends with a gap, or with the last address that is asked for.
LEMMA FoundByScan ==
    ASSUME NEW c, NEW branch, NEW index \in Index, ~GapBefore(c, branch, index),
           \/ index + 1 >= MaxAddressesPerPath
           \/ \A i \in Nat : i > index => GapBefore(c, branch, i)
    PROVE  Found(c, branch) = 0 .. index
<1> USE WalletsAssumption DEF Index
<1>1. ASSUME NEW j \in 0 .. index
      PROVE  ~GapBefore(c, branch, j)
  <2>1. \A from \in 0 .. j - GapLimit : from \in 0 .. index - GapLimit
    OBVIOUS
  <2> QED BY <2>1 DEF GapBefore
<1>2. \A j \in Index : j > index => GapBefore(c, branch, j)
  OBVIOUS
<1>3. \A j \in Index : j \in 0 .. index <=> ~(j > index)
  OBVIOUS
<1>4. 0 .. index \subseteq Index
  OBVIOUS
<1> QED BY <1>1, <1>2, <1>3, <1>4 DEF Found

LEMMA AddressesAreFinite ==
    /\ IsFiniteSet(Branch \X (0 .. CoreRange)) /\ Index \subseteq 0 .. CoreRange
    /\ \A T \in SUBSET (Branch \X Index) : IsFiniteSet(T)
<1>1. IsFiniteSet(0 .. 1) /\ Branch = 0 .. 1
  <2>1. 0 \in Int /\ 1 \in Int /\ Branch = 0 .. 1
    BY DEF Branch
  <2> QED BY <2>1, FS_Interval
<1>2. CoreRange \in Int /\ Index \subseteq 0 .. CoreRange
  BY WalletsAssumption DEF Index
<1>3. IsFiniteSet(0 .. CoreRange)
  BY <1>2, FS_Interval
<1>4. IsFiniteSet(Branch \X (0 .. CoreRange))
  BY <1>1, <1>3, FS_Product
<1>5. \A T \in SUBSET (Branch \X Index) : T \subseteq Branch \X (0 .. CoreRange)
  BY <1>2
<1> QED
  BY <1>2, <1>4, <1>5, FS_Subset

LEMMA SeenNext ==
    ASSUME NEW c, NEW branch \in Branch, NEW index \in Index
    PROVE  /\ Seen(c, branch, index + 1) = Seen(c, branch, index) \cup {<<branch, index>>}
           /\ <<branch, index>> \notin Seen(c, branch, index)
           /\ Seen(c, 0, 0) = {} /\ Seen(c, branch, index) \in SUBSET (Branch \X Index)
<1>1. \A i \in Index : (i < index + 1 <=> i < index \/ i = index) /\ ~(i < 0) /\ ~(index < index)
  BY WalletsAssumption DEF Index
<1>2. \A b \in Branch : ~(b < 0) /\ ~(branch < branch)
  BY DEF Branch
<1> QED
  BY <1>1, <1>2 DEF Seen

LEMMA SeenBranch ==
    ASSUME NEW c, NEW index \in Index, Found(c, 0) = 0 .. index
    PROVE  Seen(c, 0, index + 1) = Seen(c, 1, 0)
<1>1. \A i \in Index : (i < index + 1 <=> i \in 0 .. index) /\ ~(i < 0)
  BY WalletsAssumption DEF Index
<1>2. \A b \in Branch : ~(b < 0) /\ (b < 1 <=> b = 0)
  BY DEF Branch
<1> QED
  BY <1>1, <1>2 DEF Seen

LEMMA SeenAll ==
    ASSUME NEW c, NEW index \in Index, Found(c, 1) = 0 .. index
    PROVE  Seen(c, 1, index + 1) = {a \in Branch \X Index : a[2] \in Found(c, a[1])}
<1>1. \A i \in Index : i < index + 1 <=> i \in 0 .. index
  BY WalletsAssumption DEF Index
<1>2. \A b \in Branch : (b < 1 \/ b = 1) /\ ~(1 < 1)
  BY DEF Branch
<1>3. \A a \in Branch \X Index : a[1] \in Branch /\ a[2] \in Index
  OBVIOUS
<1> QED
  BY <1>1, <1>2, <1>3 DEF Seen

-----------------------------------------------------------------------------
(* Lists of wallets that wait.                                              *)

JobList == Seq(Job) \ {<<>>}

\* A list comes to the ones of q, or one of them goes.
OneJobMore(q, after, list) ==
    after \in Seq(JobList) /\ \A i \in DOMAIN after : after[i] = list \/ \E k \in DOMAIN q : after[i] = q[k]
JobsOf(q, after) ==
    after \in Seq(JobList) /\ \A i \in DOMAIN after : \E k \in DOMAIN q : after[i] = q[k]

LEMMA AppendJobs ==
    ASSUME NEW q \in Seq(JobList), NEW list \in JobList
    PROVE  OneJobMore(q, Append(q, list), list)
<1>1. ASSUME NEW S, NEW p \in Seq(S), NEW e \in S
      PROVE  Append(p, e) \in Seq(S) /\ \A i \in DOMAIN Append(p, e) : Append(p, e)[i] = e \/ \E k \in DOMAIN p : Append(p, e)[i] = p[k]
  OBVIOUS
<1> QED
  BY <1>1 DEF OneJobMore

LEMMA Shifted ==
    ASSUME NEW m \in Nat, NEW j \in 1 .. m, NEW x, NEW y, x = j - 1, y = m - j, NEW k \in 1 .. x + y, ~(k <= x)
    PROVE  k - x \in 1 .. m - j
  OBVIOUS

LEMMA RemoveJobs ==
    ASSUME NEW q \in Seq(JobList), NEW i \in DOMAIN q
    PROVE  JobsOf(q, RemoveAt(q, i))
<1>1. ASSUME NEW S, NEW p \in Seq(S), NEW j \in DOMAIN p
      PROVE  RemoveAt(p, j) \in Seq(S) /\ \A k \in DOMAIN RemoveAt(p, j) : \E m \in DOMAIN p : RemoveAt(p, j)[k] = p[m]
  <2>1. j \in 1 .. Len(p) /\ Len(p) \in Nat
    OBVIOUS
  <2> DEFINE a == SubSeq(p, 1, j - 1)
             b == SubSeq(p, j + 1, Len(p))
             m == Len(p)
  <2>2. a \in Seq(S) /\ Len(a) = j - 1 /\ \A k \in 1 .. j - 1 : a[k] = p[k]
    BY <2>1
  <2>3. b \in Seq(S) /\ Len(b) = m - j /\ \A k \in 1 .. m - j : b[k] = p[j + k]
    BY <2>1
  <2>4. RemoveAt(p, j) = a \o b
    BY DEF RemoveAt
  <2>5. \A k \in 1 .. j - 1 : k \in DOMAIN p
    BY <2>1
  <2>6. \A k \in 1 .. m - j : j + k \in DOMAIN p
    BY <2>1
  <2> HIDE DEF a, b
  <2>7. a \o b \in Seq(S) /\ DOMAIN (a \o b) = 1 .. Len(a) + Len(b)
    <3>1. a \o b \in Seq(S) /\ Len(a \o b) = Len(a) + Len(b)
      BY <2>2, <2>3, ConcatProperties, Zenon
    <3> QED BY <3>1
  <2>9. \A k \in 1 .. Len(a) + Len(b) : (a \o b)[k] = IF k <= Len(a) THEN a[k] ELSE b[k - Len(a)]
    BY <2>2, <2>3, ConcatProperties, Zenon
  <2>8. ASSUME NEW k \in DOMAIN (a \o b)
        PROVE  \E l \in DOMAIN p : (a \o b)[k] = p[l]
    <3>1. CASE k <= Len(a)
      <4>1. k \in 1 .. j - 1 /\ (a \o b)[k] = a[k]
        BY <2>1, <2>2, <2>3, <2>7, <2>9, <3>1
      <4> QED BY <2>2, <2>5, <4>1
    <3>2. CASE ~(k <= Len(a))
      <4>1. k \in 1 .. Len(a) + Len(b) /\ m \in Nat /\ j \in 1 .. m
        BY <2>1, <2>7
      <4>2. (a \o b)[k] = b[k - Len(a)]
        BY <2>9, <3>2, <4>1, Zenon
      <4>3. k - Len(a) \in 1 .. m - j
        BY <2>2, <2>3, <3>2, <4>1, Shifted
      <4>4. k - Len(a) \in 1 .. m - j /\ (a \o b)[k] = b[k - Len(a)]
        BY <4>2, <4>3
      <4> QED BY <2>3, <2>6, <4>4
    <3> QED BY <3>1, <3>2
  <2> QED BY <2>4, <2>7, <2>8
<1> QED
  BY <1>1 DEF JobsOf

LEMMA HeadAndTail ==
    ASSUME NEW list \in JobList
    PROVE  /\ Head(list) \in Job /\ Tail(list) \in Seq(Job)
           /\ Head(list) = list[1] /\ 1 \in DOMAIN list
           /\ \A k \in DOMAIN Tail(list) : k + 1 \in DOMAIN list /\ Tail(list)[k] = list[k + 1]
  BY DEF JobList

\* Wallets that are there before a step and after it are the same.
WalletsStay ==
    /\ lastId \in Nat /\ lastId' \in Nat /\ lastId <= lastId'
    /\ \A id \in DOMAIN wallets' : id <= lastId => id \in DOMAIN wallets /\ wallets'[id].value = wallets[id].value

LEMMA ListedStays ==
    ASSUME WalletsStay
    PROVE  /\ \A job : job.id \in Nat /\ SameWallet(job, wallets, lastId) => SameWallet(job, wallets', lastId')
           /\ \A list \in Seq(Job) : Listed(list, wallets, lastId) => Listed(list, wallets', lastId')
<1>1. ASSUME NEW job, job.id \in Nat, SameWallet(job, wallets, lastId)
      PROVE  SameWallet(job, wallets', lastId')
  BY <1>1 DEF WalletsStay, SameWallet
<1>2. ASSUME NEW list \in Seq(Job), NEW k \in DOMAIN list
      PROVE  list[k].id \in Nat
  <2>1. list[k] \in Job
    OBVIOUS
  <2> QED BY <2>1 DEF Job
<1>3. ASSUME NEW list \in Seq(Job), Listed(list, wallets, lastId)
      PROVE  Listed(list, wallets', lastId')
  <2> SUFFICES ASSUME NEW k \in DOMAIN list
               PROVE  SameWallet(list[k], wallets', lastId')
    BY DEF Listed
  <2> QED BY <1>1, <1>2, <1>3 DEF Listed
<1> QED
  BY <1>1, <1>3

-----------------------------------------------------------------------------
(* The invariant holds at first, and what the chain and the page do keeps   *)
(* it.                                                                      *)

LEMMA InitInv ==
    ASSUME Init
    PROVE  WalletsInv
<1> USE WalletsAssumption DEF Init
<1>1. WalletsTypeOK
  <2>1. \A v \in Value : coins[v] \in [Address(v) -> Nat]
    OBVIOUS
  <2>2. <<>> \in Seq(Seq(Job) \ {<<>>}) /\ <<>> \in Seq(Ask) /\ <<>> \in Seq([r : Ask, sat : Nat]) /\ DOMAIN <<>> = {}
    OBVIOUS
  <2>3. DOMAIN coins = Value /\ moves \in [Value -> Nat] /\ lastId \in 0 .. MaxWallets
    OBVIOUS
  <2>4. DOMAIN wallets = {} /\ scan \subseteq Scan /\ \A s, t \in scan : s = t
    BY <2>2
  <2>5. jobs \in Seq(Seq(Job) \ {<<>>}) /\ asked \in Seq(Ask) /\ answers \in Seq([r : Ask, sat : Nat])
    BY <2>2, Zenon
  <2>6. provider \in {"electrum", "core"} /\ coreBusy \in BOOLEAN /\ asked = <<>> /\ answers = <<>>
    OBVIOUS
  <2> QED BY <2>1, <2>3, <2>4, <2>5, <2>6, Zenon DEF WalletsTypeOK
<1>2. WireInv /\ ScanInv /\ RowsInv /\ RowsFollowTheChain
  BY DEF WireInv, ScanInv, RowsInv, JobsListed, RowsFollowTheChain
<1> QED
  BY <1>1, <1>2 DEF WalletsInv

LEMMA Typed ==
    ASSUME WalletsTypeOK
    PROVE  /\ lastId \in Nat /\ jobs \in Seq(JobList)
           /\ \A id \in DOMAIN wallets : /\ id \in 1 .. lastId /\ id \in 1 .. MaxWallets
                                         /\ wallets[id].value \in Value /\ moves[wallets[id].value] \in Nat
                                         /\ wallets[id].sat \in Nat /\ wallets[id].saw \in Nat \cup {-1}
           /\ \A s \in scan : /\ s.id \in 1 .. MaxWallets /\ s.value \in Value /\ s.rest \in Seq(Job)
                              /\ s.since \in Nat /\ moves[s.value] \in Nat
           /\ \A i \in DOMAIN jobs : jobs[i] \in JobList /\ jobs[i] \in Seq(Job)
<1>1. lastId \in Nat /\ jobs \in Seq(JobList)
  BY WalletsAssumption DEF WalletsTypeOK, JobList
<1>2. ASSUME NEW id \in DOMAIN wallets
      PROVE  /\ id \in 1 .. lastId /\ id \in 1 .. MaxWallets
             /\ wallets[id].value \in Value /\ moves[wallets[id].value] \in Nat
             /\ wallets[id].sat \in Nat /\ wallets[id].saw \in Nat \cup {-1}
  <2>1. wallets[id] \in [value : Value, sat : Nat, saw : Nat \cup {-1}]
    BY DEF WalletsTypeOK
  <2>2. id \in 1 .. lastId /\ id \in 1 .. MaxWallets
    BY WalletsAssumption DEF WalletsTypeOK
  <2> QED BY <2>1, <2>2 DEF WalletsTypeOK
<1>3. ASSUME NEW s \in scan
      PROVE  /\ s.id \in 1 .. MaxWallets /\ s.value \in Value /\ s.rest \in Seq(Job)
             /\ s.since \in Nat /\ moves[s.value] \in Nat
  <2>1. s \in Scan
    BY DEF WalletsTypeOK
  <2> QED BY <2>1 DEF Scan, WalletsTypeOK
<1>4. \A i \in DOMAIN jobs : jobs[i] \in JobList /\ jobs[i] \in Seq(Job)
  BY <1>1 DEF JobList
<1> QED
  BY <1>1, <1>2, <1>3, <1>4

\* What a step of the page does to the table: rows go, and rows come with a new id.
RowsOfPage ==
    \A id \in DOMAIN wallets' :
        \/ id \in DOMAIN wallets /\ wallets'[id] = wallets[id]
        \/ id \in Nat /\ id > lastId /\ wallets'[id].saw = -1 /\ wallets'[id].value \in Value

LEMMA PageStep ==
    ASSUME WalletsInv, Page, lastId' \in Nat, lastId <= lastId', RowsOfPage, JobsListed(jobs', wallets', lastId')
    PROVE  WireInv' /\ ScanInv' /\ RowsInv' /\ RowsFollowTheChain'
<1> USE DEF Page, chain, wire
<1>1. /\ WalletsTypeOK /\ WireInv /\ ScanInv /\ RowsInv /\ RowsFollowTheChain
  BY DEF WalletsInv
<1>2. WalletsStay
  BY <1>1, Typed DEF WalletsStay, RowsOfPage
<1>3. WireInv'
  BY <1>1 DEF WireInv, OneOnTheWay, AnswerOf, Request
<1>4. ScanInv'
  <2> SUFFICES ASSUME NEW s \in scan
               PROVE  /\ SameWallet(s, wallets', lastId') /\ Listed(s.rest, wallets', lastId') /\ s.since <= moves[s.value]
                      /\ s.id \in DOMAIN wallets' => wallets'[s.id].saw <= s.since
                      /\ provider = "electrum" =>
                           /\ Kind[s.value] # "descriptor" /\ s.index \in Index /\ <<s.branch, s.index>> \in Address(s.value)
                           /\ s.gap < GapLimit /\ (Undisturbed(s) => OnItsWay(s))
    BY DEF ScanInv, Undisturbed, OnItsWay
  <2>1. /\ SameWallet(s, wallets, lastId) /\ Listed(s.rest, wallets, lastId) /\ s.since <= moves[s.value]
        /\ s.id \in DOMAIN wallets => wallets[s.id].saw <= s.since
        /\ provider = "electrum" =>
             /\ Kind[s.value] # "descriptor" /\ s.index \in Index /\ <<s.branch, s.index>> \in Address(s.value)
             /\ s.gap < GapLimit /\ (Undisturbed(s) => OnItsWay(s))
    BY <1>1 DEF ScanInv
  <2>2. s.id \in Nat /\ s.rest \in Seq(Job) /\ s.id <= lastId
    BY <1>1, <2>1, Typed DEF SameWallet
  <2>3. SameWallet(s, wallets', lastId') /\ Listed(s.rest, wallets', lastId')
    BY <1>2, <2>1, <2>2, ListedStays
  <2>4. s.id \in DOMAIN wallets' => s.id \in DOMAIN wallets /\ wallets'[s.id] = wallets[s.id]
    BY <1>1, <2>2, Typed DEF RowsOfPage
  <2> QED BY <2>1, <2>3, <2>4, Zenon
<1>5. RowsInv'
  <2>1. ASSUME NEW id \in DOMAIN wallets'
        PROVE  wallets'[id].saw <= moves[wallets'[id].value]
    <3>1. CASE id \in DOMAIN wallets /\ wallets'[id] = wallets[id]
      BY <1>1, <3>1 DEF RowsInv
    <3>2. CASE wallets'[id].saw = -1 /\ wallets'[id].value \in Value
      <4>1. moves[wallets'[id].value] \in Nat
        BY <1>1, <3>2 DEF WalletsTypeOK
      <4> QED BY <3>2, <4>1
    <3> QED BY <3>1, <3>2 DEF RowsOfPage
  <2> QED BY <1>1, <2>1 DEF RowsInv
<1>6. RowsFollowTheChain'
  <2> SUFFICES ASSUME timeouts = 0 \/ provider = "core", NEW id \in DOMAIN wallets',
                      wallets'[id].saw = moves[wallets'[id].value]
               PROVE  wallets'[id].sat = Balance(wallets'[id].value)
    BY DEF RowsFollowTheChain, Balance
  <2>1. CASE id \in DOMAIN wallets /\ wallets'[id] = wallets[id]
    BY <1>1, <2>1 DEF RowsFollowTheChain
  <2>2. CASE wallets'[id].saw = -1 /\ wallets'[id].value \in Value
    <3>1. moves[wallets'[id].value] \in Nat
      BY <1>1, <2>2 DEF WalletsTypeOK
    <3> QED BY <2>2, <3>1
  <2> QED BY <2>1, <2>2 DEF RowsOfPage
<1> QED
  BY <1>3, <1>4, <1>5, <1>6

\* The types of what the page changes.
LEMMA PageTypes ==
    ASSUME WalletsTypeOK, Page, lastId' \in 0 .. MaxWallets, DOMAIN wallets' \subseteq 1 .. lastId',
           \A id \in DOMAIN wallets' : wallets'[id] \in [value : Value, sat : Nat, saw : Nat \cup {-1}],
           \A id, other \in DOMAIN wallets' : wallets'[id].value = wallets'[other].value => id = other,
           jobs' \in Seq(JobList)
    PROVE  WalletsTypeOK'
<1>1. /\ DOMAIN coins' = Value /\ \A v \in Value : coins'[v] \in [Address(v) -> Nat]
      /\ moves' \in [Value -> Nat] /\ provider' \in {"electrum", "core"} /\ coreBusy' \in BOOLEAN
      /\ asked' \in Seq(Ask) /\ answers' \in Seq([r : Ask, sat : Nat])
      /\ scan' \subseteq Scan /\ (\A s, t \in scan' : s = t)
      /\ provider' = "core" => asked' = <<>> /\ answers' = <<>>
  BY DEF WalletsTypeOK, Page, chain, wire
<1> QED
  BY <1>1, Zenon DEF WalletsTypeOK, JobList

LEMMA ListAdded ==
    ASSUME WalletsInv, lastId' \in Nat, lastId <= lastId', RowsOfPage, NEW list \in JobList,
           jobs' = Append(jobs, list), Listed(list, wallets', lastId')
    PROVE  jobs' \in Seq(JobList) /\ JobsListed(jobs', wallets', lastId')
<1>1. WalletsTypeOK /\ JobsListed(jobs, wallets, lastId)
  BY DEF WalletsInv, RowsInv
<1>2. OneJobMore(jobs, jobs', list)
  BY <1>1, Typed, AppendJobs
<1>3. WalletsStay
  BY <1>1, Typed DEF WalletsStay, RowsOfPage
<1>4. ASSUME NEW i \in DOMAIN jobs'
      PROVE  Listed(jobs'[i], wallets', lastId')
  <2>1. CASE jobs'[i] = list
    BY <2>1
  <2>2. ASSUME NEW k \in DOMAIN jobs, jobs'[i] = jobs[k]
        PROVE  Listed(jobs'[i], wallets', lastId')
    <3>1. Listed(jobs[k], wallets', lastId')
      BY <1>1, <1>3, Typed, ListedStays DEF JobsListed
    <3> QED BY <2>2, <3>1
  <2> QED BY <1>2, <2>1, <2>2 DEF OneJobMore
<1> QED
  BY <1>2, <1>4 DEF OneJobMore, JobsListed

LEMMA OneJob ==
    ASSUME NEW job \in Job
    PROVE  <<job>> \in JobList /\ DOMAIN <<job>> = {1} /\ <<job>>[1] = job
  BY DEF JobList

LEMMA AddStep ==
    ASSUME WalletsInv, NEW v \in Value, HandleAddWallet(v)
    PROVE  WalletsInv'
<1> DEFINE job == [id |-> lastId', value |-> v]
           row == [value |-> v, sat |-> 0, saw |-> -1]
<1>1. WalletsTypeOK /\ lastId \in Nat /\ MaxWallets \in Nat
  BY WalletsAssumption, Typed DEF WalletsInv
<1>2. /\ lastId' = lastId + 1 /\ lastId' \in 0 .. MaxWallets /\ Page
      /\ jobs' = Append(jobs, <<job>>) /\ \A id \in DOMAIN wallets : wallets[id].value # v
  BY <1>1 DEF HandleAddWallet
<1>3. /\ DOMAIN wallets' = DOMAIN wallets \cup {lastId'}
      /\ \A id \in DOMAIN wallets' : wallets'[id] = IF id = lastId' THEN row ELSE wallets[id]
  BY DEF HandleAddWallet, NewRow
<1>4. DOMAIN wallets \subseteq 1 .. lastId /\ lastId' \notin DOMAIN wallets
  BY <1>1, <1>2 DEF WalletsTypeOK
<1>5. row \in [value : Value, sat : Nat, saw : Nat \cup {-1}] /\ row.saw = -1 /\ row.value = v
  OBVIOUS
<1>6. \A id \in DOMAIN wallets' : wallets'[id] \in [value : Value, sat : Nat, saw : Nat \cup {-1}]
  BY <1>1, <1>3, <1>5 DEF WalletsTypeOK
<1>7. \A id, other \in DOMAIN wallets' : wallets'[id].value = wallets'[other].value => id = other
  <2> HIDE DEF row
  <2> QED BY <1>1, <1>2, <1>3, <1>4, <1>5 DEF WalletsTypeOK
<1>8. DOMAIN wallets' \subseteq 1 .. lastId'
  BY <1>1, <1>2, <1>3, <1>4
<1>9. RowsOfPage
  <2> HIDE DEF row
  <2> QED BY <1>1, <1>2, <1>3, <1>4, <1>5 DEF RowsOfPage
<1>10. job \in Job /\ job.id = lastId' /\ job.value = v
  BY <1>1, <1>2 DEF Job
<1>11. Listed(<<job>>, wallets', lastId')
  <2>1. SameWallet(job, wallets', lastId')
    <3> HIDE DEF job, row
    <3> QED BY <1>1, <1>2, <1>3, <1>5, <1>10 DEF SameWallet
  <2>2. \A k \in DOMAIN <<job>> : <<job>>[k] = job
    OBVIOUS
  <2> HIDE DEF job
  <2> QED BY <2>1, <2>2 DEF Listed
<1>12. jobs' \in Seq(JobList) /\ JobsListed(jobs', wallets', lastId')
  <2> HIDE DEF job
  <2>1. <<job>> \in JobList
    BY <1>10, OneJob
  <2> QED BY <1>1, <1>2, <1>9, <1>11, <2>1, ListAdded
<1>13. WalletsTypeOK'
  BY <1>1, <1>2, <1>6, <1>7, <1>8, <1>12, PageTypes
<1> QED
  BY <1>1, <1>2, <1>9, <1>12, <1>13, PageStep DEF WalletsInv

LEMMA RemoveStep ==
    ASSUME WalletsInv, NEW id, HandleRemoveWallet(id)
    PROVE  WalletsInv'
<1>1. WalletsTypeOK /\ lastId \in Nat /\ jobs \in Seq(JobList) /\ JobsListed(jobs, wallets, lastId)
  BY Typed DEF WalletsInv, RowsInv
<1>2. Page /\ lastId' = lastId /\ jobs' = jobs /\ DOMAIN wallets' = DOMAIN wallets \ {id}
      /\ \A other \in DOMAIN wallets' : wallets'[other] = wallets[other]
  BY DEF HandleRemoveWallet
<1>3. RowsOfPage
  BY <1>2 DEF RowsOfPage
<1>4. WalletsTypeOK'
  <2>1. /\ \A i \in DOMAIN wallets' : wallets'[i] \in [value : Value, sat : Nat, saw : Nat \cup {-1}]
        /\ \A i, other \in DOMAIN wallets' : wallets'[i].value = wallets'[other].value => i = other
        /\ lastId' \in 0 .. MaxWallets /\ DOMAIN wallets' \subseteq 1 .. lastId' /\ jobs' \in Seq(JobList)
    BY <1>1, <1>2 DEF WalletsTypeOK
  <2> QED BY <1>1, <1>2, <2>1, PageTypes
<1>5. JobsListed(jobs', wallets', lastId')
  <2>1. WalletsStay
    BY <1>1, <1>2 DEF WalletsStay
  <2> QED BY <1>1, <1>2, <2>1, Typed, ListedStays DEF JobsListed
<1> QED
  BY <1>1, <1>2, <1>3, <1>4, <1>5, PageStep DEF WalletsInv

\* A list of wallets that are there.
LEMMA RefreshStep ==
    ASSUME WalletsInv, Page, UNCHANGED <<wallets, lastId>>, NEW list \in JobList,
           jobs' = Append(jobs, list),
           \A k \in DOMAIN list : list[k].id \in DOMAIN wallets /\ list[k].value = wallets[list[k].id].value
    PROVE  WalletsInv'
<1>1. WalletsTypeOK /\ lastId \in Nat
  BY Typed DEF WalletsInv
<1>2. RowsOfPage
  BY DEF RowsOfPage
<1>3. Listed(list, wallets', lastId')
  <2> SUFFICES ASSUME NEW k \in DOMAIN list
               PROVE  SameWallet(list[k], wallets', lastId')
    BY DEF Listed
  <2>1. list[k].id <= lastId
    BY <1>1, Typed
  <2> QED BY <2>1 DEF SameWallet
<1>4. jobs' \in Seq(JobList) /\ JobsListed(jobs', wallets', lastId')
  BY <1>1, <1>2, <1>3, ListAdded
<1>5. WalletsTypeOK'
  <2>1. /\ \A i \in DOMAIN wallets' : wallets'[i] \in [value : Value, sat : Nat, saw : Nat \cup {-1}]
        /\ \A i, other \in DOMAIN wallets' : wallets'[i].value = wallets'[other].value => i = other
        /\ lastId' \in 0 .. MaxWallets /\ DOMAIN wallets' \subseteq 1 .. lastId'
    BY <1>1 DEF WalletsTypeOK
  <2> QED BY <1>1, <1>4, <2>1, PageTypes
<1> QED
  BY <1>1, <1>2, <1>4, <1>5, PageStep DEF WalletsInv

LEMMA RefreshOneStep ==
    ASSUME WalletsInv, NEW id, HandleRefreshWallet(id)
    PROVE  WalletsInv'
<1> DEFINE job == [id |-> id, value |-> wallets[id].value]
<1>1. id \in DOMAIN wallets /\ Page /\ UNCHANGED <<wallets, lastId>> /\ jobs' = Append(jobs, <<job>>)
  BY DEF HandleRefreshWallet
<1>2. job \in Job /\ job.id = id /\ job.value = wallets[id].value
  BY <1>1, Typed DEF WalletsInv, Job
<1> HIDE DEF job
<1>3. <<job>> \in JobList /\ \A k \in DOMAIN <<job>> : <<job>>[k] = job
  BY <1>2, OneJob
<1> QED
  BY <1>1, <1>2, <1>3, RefreshStep

LEMMA RefreshAllStep ==
    ASSUME WalletsInv, HandleRefreshAll
    PROVE  WalletsInv'
<1>1. WalletsTypeOK
  BY DEF WalletsInv
<1>2. Page /\ UNCHANGED <<wallets, lastId>> /\ wallets # <<>>
  BY DEF HandleRefreshAll
<1>3. PICK order \in SetToSeqs(DOMAIN wallets) :
         jobs' = Append(jobs, [k \in DOMAIN order |-> [id |-> order[k], value |-> wallets[order[k]].value]])
  BY DEF HandleRefreshAll
<1> DEFINE list == [k \in DOMAIN order |-> [id |-> order[k], value |-> wallets[order[k]].value]]
           n == Cardinality(DOMAIN wallets)
<1>4. IsFiniteSet(DOMAIN wallets) /\ n \in Nat /\ n # 0
  <2>1. DOMAIN wallets \in SUBSET (1 .. lastId) /\ IsFiniteSet(1 .. lastId)
    BY <1>1, Typed, FS_Interval
  <2>2. DOMAIN wallets # {}
    BY <1>2
  <2> QED BY <2>1, <2>2, FS_Subset, FS_CardinalityType, FS_EmptySet
<1>5. order \in [1 .. n -> DOMAIN wallets]
  BY DEF SetToSeqs
<1>6. \A k \in 1 .. n : list[k] \in Job /\ list[k].id = order[k] /\ list[k].value = wallets[order[k]].value
  BY <1>1, <1>5, Typed DEF Job
<1>7. DOMAIN list = 1 .. n /\ list \in [1 .. n -> Job]
  BY <1>5, <1>6
<1> HIDE DEF list, n
<1>8. list \in JobList
  BY <1>4, <1>7 DEF JobList
<1> QED
  BY <1>2, <1>3, <1>5, <1>6, <1>7, <1>8, RefreshStep DEF list

LEMMA PaymentStep ==
    ASSUME WalletsInv, NEW v \in Value, Payment(v)
    PROVE  WalletsInv'
<1>1. /\ WalletsTypeOK /\ WireInv /\ ScanInv /\ RowsInv /\ RowsFollowTheChain
  BY DEF WalletsInv
<1>2. /\ moves' = [moves EXCEPT ![v] = @ + 1]
      /\ UNCHANGED <<provider, wallets, lastId, jobs, scan, asked, answers, coreBusy, timeouts>>
  BY DEF Payment, wire
<1>3. \E changed \in [Address(v) -> Nat] : coins' = [coins EXCEPT ![v] = changed]
  <2> DEFINE c == coins[v]
  <2>1. c \in [Address(v) -> Nat]
    BY <1>1 DEF WalletsTypeOK
  <2>2. PICK a \in Address(v) :
            \/ \E sat \in Amount : coins' = [coins EXCEPT ![v] = [c EXCEPT ![a] = @ + sat]]
            \/ coins' = [coins EXCEPT ![v] = [c EXCEPT ![a] = 0]]
            \/ \E b \in Address(v) \ {a} : coins' = [coins EXCEPT ![v] = [c EXCEPT ![a] = 0, ![b] = @ + c[a]]]
    BY DEF Payment
  <2> HIDE DEF c
  <2>3. \A sat \in Amount : [c EXCEPT ![a] = @ + sat] \in [Address(v) -> Nat]
    BY <2>1, WalletsAssumption
  <2>4. [c EXCEPT ![a] = 0] \in [Address(v) -> Nat]
    BY <2>1
  <2>5. \A b \in Address(v) \ {a} : [c EXCEPT ![a] = 0, ![b] = @ + c[a]] \in [Address(v) -> Nat]
    BY <2>1
  <2> QED BY <2>2, <2>3, <2>4, <2>5
<1>4. /\ DOMAIN coins' = Value /\ \A w \in Value : coins'[w] \in [Address(w) -> Nat]
      /\ \A w \in Value : w # v => coins'[w] = coins[w]
  BY <1>1, <1>3 DEF WalletsTypeOK
<1>5. /\ moves' \in [Value -> Nat] /\ moves'[v] = moves[v] + 1 /\ moves[v] \in Nat
      /\ \A w \in Value : w # v => moves'[w] = moves[w]
  BY <1>1, <1>2 DEF WalletsTypeOK
<1>6. WalletsTypeOK'
  BY <1>1, <1>2, <1>4, <1>5 DEF WalletsTypeOK
<1>7. \A s \in scan : /\ s.since <= moves'[s.value] /\ s.value \in Value
                      /\ moves'[s.value] = s.since => moves[s.value] = s.since /\ coins'[s.value] = coins[s.value]
  <2> SUFFICES ASSUME NEW s \in scan
               PROVE  /\ s.since <= moves'[s.value] /\ s.value \in Value
                      /\ moves'[s.value] = s.since => moves[s.value] = s.since /\ coins'[s.value] = coins[s.value]
    OBVIOUS
  <2>1. s.value \in Value /\ s.since \in Nat /\ s.since <= moves[s.value] /\ moves[s.value] \in Nat
    BY <1>1, Typed DEF ScanInv
  <2>2. CASE s.value = v
    BY <1>5, <2>1, <2>2
  <2>3. CASE s.value # v
    BY <1>4, <1>5, <2>1, <2>3
  <2> QED BY <2>2, <2>3
<1>8. WireInv'
  <2>1. ASSUME NEW s \in scan, NEW ans, AnswerOf(s, ans)
        PROVE  ans.r = Request(s) /\ (moves'[s.value] = s.since => ans.sat = coins'[s.value][ans.r.at])
    BY <1>7, <2>1 DEF AnswerOf
  <2>2. ASSUME NEW s \in scan, OneOnTheWay(s)
        PROVE  OneOnTheWay(s)'
    BY <1>2, <2>1, <2>2 DEF OneOnTheWay, AnswerOf, Request
  <2> QED BY <1>1, <1>2, <2>2 DEF WireInv
<1>9. ScanInv'
  <2> SUFFICES ASSUME NEW s \in scan
               PROVE  /\ s.since <= moves'[s.value]
                      /\ provider = "electrum" /\ Undisturbed(s)' => OnItsWay(s)'
    BY <1>1, <1>2 DEF ScanInv
  <2>1. s.since <= moves'[s.value]
    BY <1>7
  <2>2. ASSUME provider = "electrum", Undisturbed(s)'
        PROVE  OnItsWay(s)'
    <3>1. Undisturbed(s) /\ coins'[s.value] = coins[s.value]
      BY <1>2, <1>7, <2>2 DEF Undisturbed
    <3>2. OnItsWay(s)
      BY <1>1, <2>2, <3>1 DEF ScanInv
    <3> QED BY <3>1, <3>2 DEF OnItsWay
  <2> QED BY <2>1, <2>2
<1>10. \A id \in DOMAIN wallets :
          /\ wallets[id].saw <= moves'[wallets[id].value]
          /\ wallets[id].saw = moves'[wallets[id].value] =>
               wallets[id].saw = moves[wallets[id].value] /\ coins'[wallets[id].value] = coins[wallets[id].value]
  <2> SUFFICES ASSUME NEW id \in DOMAIN wallets, NEW w, w = wallets[id].value, NEW saw, saw = wallets[id].saw
               PROVE  saw <= moves'[w] /\ (saw = moves'[w] => saw = moves[w] /\ coins'[w] = coins[w])
    OBVIOUS
  <2>1. w \in Value /\ saw \in Nat \cup {-1} /\ saw <= moves[w] /\ moves[w] \in Nat
    BY <1>1, Typed DEF RowsInv
  <2>2. CASE w = v
    BY <1>5, <2>1, <2>2
  <2>3. CASE w # v
    BY <1>4, <1>5, <2>1, <2>3
  <2> QED BY <2>2, <2>3
<1>11. RowsInv'
  BY <1>1, <1>2, <1>10 DEF RowsInv
<1>12. RowsFollowTheChain'
  BY <1>1, <1>2, <1>10 DEF RowsFollowTheChain, Balance
<1> QED
  BY <1>6, <1>8, <1>9, <1>11, <1>12 DEF WalletsInv

-----------------------------------------------------------------------------
(* Scans.                                                                   *)

LEMMA Wire ==
    ASSUME WalletsInv
    PROVE  /\ asked \in Seq(Ask) /\ answers \in Seq([r : Ask, sat : Nat])
           /\ \A s, t \in scan : s = t
           /\ \A s \in scan : scan = {s} /\ scan \ {s} = {}
  BY DEF WalletsInv, WalletsTypeOK

LEMMA AnswerStep ==
    ASSUME WalletsInv, Answer
    PROVE  WalletsInv'
<1>1. /\ WalletsTypeOK /\ WireInv /\ ScanInv /\ RowsInv /\ RowsFollowTheChain
  BY DEF WalletsInv
<1>2. /\ UNCHANGED <<coins, moves, provider, wallets, lastId, jobs, scan, coreBusy, timeouts>>
      /\ asked # <<>> /\ asked' = Tail(asked)
      /\ answers' = Append(answers, [r |-> Head(asked), sat |-> coins[Head(asked).value][Head(asked).at]])
  BY DEF Answer, chain
<1> DEFINE r == Head(asked)
           line == [r |-> r, sat |-> coins[r.value][r.at]]
<1>3. r \in Ask /\ r.at \in Address(r.value) /\ r.value \in Value /\ r = asked[1] /\ 1 \in DOMAIN asked
  <2>1. r \in Ask /\ r = asked[1] /\ 1 \in DOMAIN asked
    BY <1>1, <1>2 DEF WalletsTypeOK
  <2> QED BY <1>1, <2>1 DEF WireInv, Ask
<1>4. line \in [r : Ask, sat : Nat] /\ line.r = r /\ line.sat = coins[r.value][r.at]
  <2>1. coins[r.value][r.at] \in Nat
    BY <1>1, <1>3 DEF WalletsTypeOK
  <2> HIDE DEF r
  <2> QED BY <1>3, <2>1
<1> HIDE DEF line
<1>5. WalletsTypeOK'
  <2>1. asked' \in Seq(Ask)
    BY <1>1, <1>2 DEF WalletsTypeOK
  <2>2. answers' \in Seq([r : Ask, sat : Nat])
    BY <1>1, <1>2, <1>4 DEF WalletsTypeOK, line
  <2>3. provider' # "core"
    BY <1>1, <1>2 DEF WalletsTypeOK
  <2> QED BY <1>1, <1>2, <2>1, <2>2, <2>3 DEF WalletsTypeOK
<1>6. WireInv'
  <2>1. \A i \in DOMAIN asked' : asked'[i].at \in Address(asked'[i].value)
    <3>1. \A i \in DOMAIN asked' : i + 1 \in DOMAIN asked /\ asked'[i] = asked[i + 1]
      BY <1>1, <1>2 DEF WalletsTypeOK
    <3> QED BY <1>1, <3>1 DEF WireInv
  <2>2. ASSUME timeouts = 0
        PROVE  scan # {}
    BY <1>1, <1>2, <2>2 DEF WireInv
  <2>3. ASSUME timeouts = 0, NEW s \in scan, provider = "electrum"
        PROVE  OneOnTheWay(s)'
    <3>1. asked = <<Request(s)>> /\ answers = <<>>
      <4>1. OneOnTheWay(s)
        BY <1>1, <2>3 DEF WireInv
      <4> QED BY <1>2, <4>1 DEF OneOnTheWay
    <3>2. r = Request(s)
      BY <3>1
    <3>3. asked' = <<>> /\ answers' = <<line>>
      BY <1>2, <3>1 DEF line
    <3>4. Len(answers') = 1 /\ answers'[1] = line
      BY <3>3
    <3>5. r.value = s.value
      BY <3>2 DEF Request
    <3> HIDE DEF r
    <3> QED BY <1>2, <1>4, <3>2, <3>3, <3>4, <3>5 DEF OneOnTheWay, AnswerOf, Request
  <2> QED BY <1>2, <2>1, <2>2, <2>3 DEF WireInv
<1>7. ScanInv' /\ RowsInv' /\ RowsFollowTheChain'
  <2>1. ScanInv'
    BY <1>1, <1>2 DEF ScanInv, Undisturbed, OnItsWay
  <2>2. RowsInv'
    BY <1>1, <1>2 DEF RowsInv
  <2>3. RowsFollowTheChain'
    BY <1>1, <1>2 DEF RowsFollowTheChain, Balance
  <2> QED BY <2>1, <2>2, <2>3
<1> QED
  BY <1>5, <1>6, <1>7 DEF WalletsInv

\* A scan that begins has asked for the first address.
LEMMA ScanBegins ==
    ASSUME NEW v \in Value, NEW id \in 1 .. MaxWallets, NEW rest \in Seq(Job), NEW since \in Nat, NEW s,
           s = [id |-> id, value |-> v, rest |-> rest, branch |-> 0, index |-> 0, gap |-> 0, sum |-> 0, since |-> since]
    PROVE  /\ s \in Scan /\ s.id = id /\ s.value = v /\ s.rest = rest /\ s.since = since /\ s.gap < GapLimit
           /\ Request(s) \in Ask /\ Request(s) = [value |-> v, at |-> <<0, 0>>] /\ s.index \in Index /\ <<s.branch, s.index>> \in Address(v)
           /\ Request(s).value = v /\ Request(s).at = <<0, 0>> /\ OnItsWay(s)
<1> USE WalletsAssumption
<1>1. /\ s.id = id /\ s.value = v /\ s.rest = rest /\ s.branch = 0 /\ s.index = 0 /\ s.gap = 0 /\ s.sum = 0
      /\ s.since = since
  OBVIOUS
<1>2. 0 \in Branch /\ 0 \in Index /\ 0 \in 0 .. MaxAddressesPerPath /\ 0 \in 0 .. GapLimit /\ 0 < GapLimit
  BY DEF Branch, Index
<1>3. s \in Scan
  BY <1>2 DEF Scan
<1>4. <<0, 0>> \in Address(v) /\ <<0, 0>> \in Branch \X Index
  BY <1>2 DEF Address
<1>5. Request(s) = [value |-> v, at |-> <<0, 0>>]
  BY <1>1 DEF Request
<1>6. OnItsWay(s)
  <2>1. Sats(coins[v], Seen(coins[v], 0, 0)) = 0
    BY <1>2, SeenNext, SatsOfNone
  <2>2. GapIs(coins[v], 0, 0, 0)
    BY DEF GapIs
  <2>3. ~GapBefore(coins[v], 0, 0)
    BY DEF GapBefore
  <2> QED BY <1>1, <2>1, <2>2, <2>3, Zenon DEF OnItsWay
<1> QED
  BY <1>1, <1>2, <1>3, <1>4, <1>5, <1>6 DEF Ask

LEMMA LockStep ==
    ASSUME WalletsInv, Lock
    PROVE  WalletsInv'
<1>1. /\ WalletsTypeOK /\ WireInv /\ ScanInv /\ RowsInv /\ RowsFollowTheChain
  BY DEF WalletsInv
<1>2. UNCHANGED <<coins, moves, provider, wallets, lastId, answers, coreBusy, timeouts>> /\ scan = {}
  BY DEF Lock, chain, Unlocked
<1>3. PICK i \in DOMAIN jobs :
         LET job == Head(jobs[i])
             s == [id |-> job.id, value |-> job.value, rest |-> Tail(jobs[i]), branch |-> 0,
                   index |-> 0, gap |-> 0, sum |-> 0, since |-> moves[job.value]]
             waiting == RemoveAt(jobs, i)
         IN IF provider = "electrum" /\ Kind[job.value] = "descriptor"
            THEN /\ jobs' = IF s.rest = <<>> THEN waiting ELSE Append(waiting, s.rest)
                 /\ UNCHANGED <<scan, asked>>
            ELSE /\ scan' = scan \cup {s} /\ jobs' = waiting
                 /\ IF provider = "electrum" THEN GetBalance(s) ELSE UNCHANGED asked
  BY DEF Lock
<1> DEFINE job == Head(jobs[i])
           rest == Tail(jobs[i])
           s == [id |-> job.id, value |-> job.value, rest |-> rest, branch |-> 0,
                 index |-> 0, gap |-> 0, sum |-> 0, since |-> moves[job.value]]
           waiting == RemoveAt(jobs, i)
<1>4. jobs[i] \in JobList /\ Listed(jobs[i], wallets, lastId)
  BY <1>1, Typed DEF RowsInv, JobsListed
<1>5. /\ job \in Job /\ rest \in Seq(Job) /\ SameWallet(job, wallets, lastId) /\ Listed(rest, wallets, lastId)
  BY <1>4, HeadAndTail DEF Listed
<1>6. job.id \in 1 .. MaxWallets /\ job.value \in Value /\ moves[job.value] \in Nat
  BY <1>1, <1>5 DEF Job, WalletsTypeOK
<1>7. JobsOf(jobs, waiting)
  BY <1>1, Typed, RemoveJobs
<1>8. waiting \in Seq(JobList) /\ JobsListed(waiting, wallets, lastId)
  BY <1>1, <1>7 DEF JobsOf, JobsListed, RowsInv
<1>9. rest # <<>> => /\ Append(waiting, rest) \in Seq(JobList)
                     /\ JobsListed(Append(waiting, rest), wallets, lastId)
  <2> SUFFICES ASSUME rest # <<>>
               PROVE  /\ Append(waiting, rest) \in Seq(JobList)
                      /\ JobsListed(Append(waiting, rest), wallets, lastId)
    OBVIOUS
  <2> HIDE DEF rest, waiting
  <2>1. rest \in JobList
    BY <1>5 DEF JobList
  <2>2. OneJobMore(waiting, Append(waiting, rest), rest)
    BY <1>8, <2>1, AppendJobs
  <2>3. PICK after : after = Append(waiting, rest)
    OBVIOUS
  <2>4. after \in Seq(JobList)
    BY <2>2, <2>3 DEF OneJobMore
  <2>5. ASSUME NEW k \in DOMAIN after
        PROVE  Listed(after[k], wallets, lastId)
    BY <1>5, <1>8, <2>2, <2>3 DEF OneJobMore, JobsListed
  <2> QED BY <2>3, <2>4, <2>5 DEF JobsListed
<1>10. WireInv /\ (timeouts = 0 => asked = <<>> /\ answers = <<>>)
  BY <1>1, <1>2 DEF WireInv
<1>11. RowsFollowTheChain'
  BY <1>1, <1>2 DEF RowsFollowTheChain, Balance
<1>12. CASE provider = "electrum" /\ Kind[job.value] = "descriptor"
  <2>1. UNCHANGED <<scan, asked>> /\ jobs' = IF rest = <<>> THEN waiting ELSE Append(waiting, rest)
    BY <1>3, <1>12
  <2>2. jobs' \in Seq(JobList) /\ JobsListed(jobs', wallets, lastId)
    <3> HIDE DEF rest, waiting
    <3> QED BY <1>8, <1>9, <2>1
  <2>3. WalletsTypeOK'
    BY <1>1, <1>2, <2>1, <2>2 DEF WalletsTypeOK, JobList
  <2>4. WireInv'
    BY <1>1, <1>2, <2>1 DEF WireInv
  <2>5. ScanInv'
    BY <1>2, <2>1 DEF ScanInv
  <2>6. RowsInv'
    BY <1>1, <1>2, <2>2 DEF RowsInv
  <2> QED BY <1>11, <2>3, <2>4, <2>5, <2>6 DEF WalletsInv
<1>13. CASE ~(provider = "electrum" /\ Kind[job.value] = "descriptor")
  <2>1. /\ scan' = {s} /\ jobs' = waiting
        /\ IF provider = "electrum" THEN asked' = Append(asked, Request(s)) ELSE asked' = asked
    BY <1>2, <1>3, <1>13 DEF GetBalance, Request
  <2>2. PICK v, id, since, t : v = job.value /\ id = job.id /\ since = moves[job.value] /\ t = s
    OBVIOUS
  <2>3. v \in Value /\ id \in 1 .. MaxWallets /\ since \in Nat /\ since = moves[v]
    BY <1>6, <2>2
  <2>4. t = [id |-> id, value |-> v, rest |-> rest, branch |-> 0, index |-> 0, gap |-> 0, sum |-> 0, since |-> since]
    BY <2>2
  <2>5. rest \in Seq(Job)
    BY <1>5
  <2> HIDE DEF s, rest, job, waiting
  <2>6. /\ scan' = {t} /\ jobs' = waiting
        /\ IF provider = "electrum" THEN asked' = Append(asked, Request(t)) ELSE asked' = asked
    BY <2>1, <2>2
  <2>7. /\ t \in Scan /\ t.id = id /\ t.value = v /\ t.rest = rest /\ t.since = since /\ t.gap < GapLimit
        /\ Request(t) \in Ask /\ t.index \in Index /\ <<t.branch, t.index>> \in Address(v)
        /\ Request(t).value = v /\ Request(t).at \in Address(v) /\ OnItsWay(t)
    <3>1. /\ t \in Scan /\ t.id = id /\ t.value = v /\ t.rest = rest /\ t.since = since /\ t.gap < GapLimit
          /\ Request(t) \in Ask /\ Request(t) = [value |-> v, at |-> <<0, 0>>] /\ t.index \in Index /\ <<t.branch, t.index>> \in Address(v)
          /\ Request(t).value = v /\ Request(t).at = <<0, 0>> /\ OnItsWay(t)
      BY <2>3, <2>4, <2>5, ScanBegins
    <3>2. <<0, 0>> \in Address(v)
      BY <2>4, <3>1
    <3> QED BY <3>1, <3>2
  <2>8. /\ asked' \in Seq(Ask) /\ \A k \in DOMAIN asked' : asked'[k].at \in Address(asked'[k].value)
        /\ provider = "electrum" /\ timeouts = 0 => asked' = <<Request(t)>>
        /\ provider = "core" => asked' = asked
    <3>1. asked \in Seq(Ask) /\ \A k \in DOMAIN asked : asked[k].at \in Address(asked[k].value)
      BY <1>1 DEF WalletsTypeOK, WireInv
    <3>2. provider = "electrum" \/ provider = "core"
      BY <1>1 DEF WalletsTypeOK
    <3>3. CASE provider = "core"
      BY <2>6, <3>1, <3>3
    <3>4. CASE provider = "electrum"
      <4>1. PICK r : r = Request(t)
        OBVIOUS
      <4>2. asked' = Append(asked, r) /\ r \in Ask /\ r.at \in Address(r.value)
        BY <2>6, <2>7, <3>4, <4>1
      <4>3. asked' \in Seq(Ask) /\ \A k \in DOMAIN asked' : asked'[k] = r \/ (k \in DOMAIN asked /\ asked'[k] = asked[k])
        BY <3>1, <4>2
      <4>4. timeouts = 0 => asked' = <<r>>
        BY <1>10, <4>2
      <4> QED BY <3>1, <3>4, <4>1, <4>2, <4>3, <4>4
    <3> QED BY <3>2, <3>3, <3>4
  <2>9. WalletsTypeOK'
    BY <1>1, <1>2, <1>8, <2>6, <2>7, <2>8 DEF WalletsTypeOK, JobList
  <2>10. WireInv'
    <3>1. provider = "electrum" /\ timeouts = 0 => OneOnTheWay(t)'
      BY <1>2, <1>10, <2>8 DEF OneOnTheWay, Request
    <3> QED BY <1>2, <2>6, <2>8, <3>1 DEF WireInv
  <2>11. ScanInv'
    <3>1. SameWallet(t, wallets, lastId) /\ Listed(t.rest, wallets, lastId) /\ t.since <= moves[t.value]
      BY <1>5, <2>2, <2>3, <2>7 DEF SameWallet
    <3>2. t.id \in DOMAIN wallets => wallets[t.id].saw <= t.since
      <4>1. t.id \in DOMAIN wallets => wallets[t.id].value = v
        BY <2>7, <3>1 DEF SameWallet
      <4> QED BY <1>1, <2>3, <2>7, <4>1 DEF RowsInv
    <3>3. provider = "electrum" => Kind[v] # "descriptor"
      BY <1>13, <2>2
    <3>4. OnItsWay(t)'
      BY <1>2, <2>7 DEF OnItsWay
    <3> QED BY <1>2, <2>6, <2>7, <3>1, <3>2, <3>3, <3>4 DEF ScanInv
  <2>12. RowsInv'
    BY <1>1, <1>2, <1>8, <2>6 DEF RowsInv
  <2> QED BY <1>11, <2>9, <2>10, <2>11, <2>12 DEF WalletsInv
<1> QED
  BY <1>12, <1>13

LEMMA RowIsWritten ==
    ASSUME WalletsInv, NEW s \in scan, NEW sat \in Nat, UpdateWalletBalance(s, sat)
    PROVE  /\ DOMAIN wallets' = DOMAIN wallets
           /\ \A id \in DOMAIN wallets :
                 /\ wallets'[id] \in [value : Value, sat : Nat, saw : Nat \cup {-1}]
                 /\ wallets'[id].value = wallets[id].value
                 /\ id # s.id => wallets'[id] = wallets[id]
                 /\ id = s.id => wallets'[id].value = s.value /\ wallets'[id].sat = sat /\ wallets'[id].saw = s.since
<1>1. WalletsTypeOK /\ ScanInv
  BY DEF WalletsInv
<1>2. /\ s.since \in Nat /\ \A id \in DOMAIN wallets : wallets[id] \in [value : Value, sat : Nat, saw : Nat \cup {-1}]
      /\ s.id \in DOMAIN wallets => wallets[s.id].value = s.value /\ wallets[s.id].saw <= s.since
  BY <1>1, Typed DEF ScanInv, SameWallet, WalletsTypeOK
<1>3. CASE s.id \notin DOMAIN wallets
  BY <1>2, <1>3 DEF UpdateWalletBalance
<1>4. CASE s.id \in DOMAIN wallets
  <2> DEFINE saw == IF s.since > wallets[s.id].saw THEN s.since ELSE wallets[s.id].saw
             row == [value |-> wallets[s.id].value, sat |-> sat, saw |-> saw]
  <2>1. wallets' = [wallets EXCEPT ![s.id] = row]
    BY <1>4 DEF UpdateWalletBalance
  <2>2. wallets[s.id] \in [value : Value, sat : Nat, saw : Nat \cup {-1}]
    BY <1>2, <1>4
  <2>3. saw = s.since
    BY <1>2, <1>4, <2>2
  <2> HIDE DEF saw
  <2>4. /\ row \in [value : Value, sat : Nat, saw : Nat \cup {-1}] /\ row.value = s.value
        /\ row.sat = sat /\ row.saw = s.since
    BY <1>2, <1>4, <2>2, <2>3
  <2> HIDE DEF row
  <2>5. \A id \in DOMAIN wallets : wallets'[id] = IF id = s.id THEN row ELSE wallets[id]
    BY <2>1
  <2> QED BY <1>2, <1>4, <2>1, <2>4, <2>5
<1> QED
  BY <1>3, <1>4

\* The goroutine waits again with the wallets it has left.
LEMMA ListReturns ==
    ASSUME WalletsInv, NEW s \in scan, Return(s), WalletsStay
    PROVE  jobs' \in Seq(JobList) /\ JobsListed(jobs', wallets', lastId')
<1>1. /\ WalletsTypeOK /\ jobs \in Seq(JobList) /\ s.rest \in Seq(Job) /\ JobsListed(jobs, wallets, lastId)
      /\ Listed(s.rest, wallets, lastId)
  BY Typed DEF WalletsInv, RowsInv, ScanInv
<1>2. Listed(s.rest, wallets', lastId') /\ \A i \in DOMAIN jobs : Listed(jobs[i], wallets', lastId')
  BY <1>1, Typed, ListedStays DEF JobsListed
<1>3. CASE s.rest = <<>>
  BY <1>1, <1>2, <1>3 DEF Return, JobsListed
<1>4. CASE s.rest # <<>>
  <2>1. jobs' = Append(jobs, s.rest) /\ s.rest \in JobList
    BY <1>1, <1>4 DEF Return, JobList
  <2>2. OneJobMore(jobs, jobs', s.rest)
    BY <1>1, <2>1, AppendJobs
  <2>3. PICK after : after = jobs'
    OBVIOUS
  <2>4. ASSUME NEW k \in DOMAIN after
        PROVE  Listed(after[k], wallets', lastId')
    BY <1>2, <2>2, <2>3 DEF OneJobMore
  <2> QED BY <2>2, <2>3, <2>4 DEF OneJobMore, JobsListed
<1> QED
  BY <1>3, <1>4

\* What is on its way once a scan ends.
WireAfterScan ==
    /\ asked' \in Seq(Ask) /\ answers' \in Seq([r : Ask, sat : Nat])
    /\ \A i \in DOMAIN asked' : asked'[i].at \in Address(asked'[i].value)
    /\ timeouts' = 0 \/ provider = "core" => asked' = <<>> /\ answers' = <<>>

\* The row is left as it is, or has the balance if nothing was paid meanwhile.
RowAfterScan(s) ==
    \/ wallets' = wallets
    \/ \E sat \in Nat :
          /\ UpdateWalletBalance(s, sat)
          /\ (timeouts' = 0 \/ provider = "core") /\ moves[s.value] = s.since => sat = Balance(s.value)

LEMMA ScanEnd ==
    ASSUME WalletsInv, NEW s \in scan, Return(s), scan' = scan \ {s}, WireAfterScan, RowAfterScan(s),
           UNCHANGED <<coins, moves, provider, lastId>>, coreBusy' \in BOOLEAN,
           timeouts' \in 0 .. MaxTimeouts, timeouts' = 0 => timeouts = 0
    PROVE  WalletsInv'
<1>1. /\ WalletsTypeOK /\ WireInv /\ ScanInv /\ RowsInv /\ RowsFollowTheChain
  BY DEF WalletsInv
<1>2. scan' = {}
  BY Wire
<1>3. /\ DOMAIN wallets' = DOMAIN wallets
      /\ \A id \in DOMAIN wallets :
           /\ wallets'[id] \in [value : Value, sat : Nat, saw : Nat \cup {-1}]
           /\ wallets'[id].value = wallets[id].value
           /\ \/ wallets'[id] = wallets[id]
              \/ /\ wallets'[id].value = s.value /\ wallets'[id].saw = s.since
                 /\ (timeouts' = 0 \/ provider = "core") /\ moves[s.value] = s.since => wallets'[id].sat = Balance(s.value)
  <2>1. CASE wallets' = wallets
    BY <1>1, <2>1 DEF WalletsTypeOK
  <2>2. ASSUME NEW sat \in Nat, UpdateWalletBalance(s, sat),
               (timeouts' = 0 \/ provider = "core") /\ moves[s.value] = s.since => sat = Balance(s.value)
        PROVE  <1>3!1 /\ <1>3!2
    BY <2>2, RowIsWritten
  <2> QED BY <2>1, <2>2 DEF RowAfterScan
<1>4. WalletsStay
  BY <1>1, <1>3, Typed DEF WalletsStay
<1>5. jobs' \in Seq(JobList) /\ JobsListed(jobs', wallets', lastId')
  BY <1>4, ListReturns
<1>6. WalletsTypeOK'
  <2>1. /\ DOMAIN wallets' \subseteq 1 .. lastId'
        /\ \A id \in DOMAIN wallets' : wallets'[id] \in [value : Value, sat : Nat, saw : Nat \cup {-1}]
        /\ \A id, other \in DOMAIN wallets' : wallets'[id].value = wallets'[other].value => id = other
    BY <1>1, <1>3 DEF WalletsTypeOK
  <2>2. /\ asked' \in Seq(Ask) /\ answers' \in Seq([r : Ask, sat : Nat])
        /\ provider' = "core" => asked' = <<>> /\ answers' = <<>>
    BY DEF WireAfterScan
  <2>3. scan' \subseteq Scan /\ \A x, y \in scan' : x = y
    BY <1>2
  <2>4. /\ DOMAIN coins' = Value /\ \A v \in Value : coins'[v] \in [Address(v) -> Nat]
        /\ moves' \in [Value -> Nat] /\ provider' \in {"electrum", "core"} /\ lastId' \in 0 .. MaxWallets
    BY <1>1 DEF WalletsTypeOK
  <2> QED BY <1>5, <2>1, <2>2, <2>3, <2>4, Zenon DEF WalletsTypeOK, JobList
<1>7. WireInv'
  BY <1>2 DEF WireInv, WireAfterScan
<1>8. ScanInv'
  BY <1>2 DEF ScanInv
<1>9. RowsInv'
  <2>1. s.since <= moves[s.value]
    BY <1>1 DEF ScanInv
  <2> QED BY <1>1, <1>3, <1>5, <2>1 DEF RowsInv
<1>10. RowsFollowTheChain'
  <2> SUFFICES ASSUME timeouts' = 0 \/ provider = "core", NEW id \in DOMAIN wallets,
                      wallets'[id].saw = moves[wallets'[id].value]
               PROVE  wallets'[id].sat = Balance(wallets'[id].value)
    BY <1>3 DEF RowsFollowTheChain, Balance
  <2>1. CASE wallets'[id] = wallets[id]
    BY <1>1, <2>1 DEF RowsFollowTheChain
  <2>2. CASE wallets'[id] # wallets[id]
    BY <1>3, <2>2
  <2> QED BY <2>1, <2>2
<1> QED
  BY <1>6, <1>7, <1>8, <1>9, <1>10 DEF WalletsInv

LEMMA AddressIsFinite ==
    ASSUME NEW v
    PROVE  IsFiniteSet(Address(v))
<1>1. IsFiniteSet({<<0, 0>>})
  BY FS_EmptySet, FS_AddElement
<1> QED
  BY <1>1, AddressesAreFinite DEF Address

LEMMA CoreStep ==
    ASSUME WalletsInv, scantxoutset
    PROVE  WalletsInv'
<1>1. /\ WalletsTypeOK /\ WireInv /\ RowsInv
  BY DEF WalletsInv
<1>2. /\ provider = "core" /\ coreBusy' \in BOOLEAN
      /\ UNCHANGED <<coins, moves, provider, lastId, asked, answers, timeouts>>
  BY DEF scantxoutset, chain, wire
<1>3. PICK s \in scan : /\ UpdateWalletBalance(s, Sats(coins[s.value], Address(s.value)))
                        /\ scan' = scan \ {s} /\ Return(s)
  BY DEF scantxoutset
<1>4. Sats(coins[s.value], Address(s.value)) \in Nat
  <2>1. s.value \in Value
    BY <1>1, Typed
  <2>2. \A a \in Address(s.value) : coins[s.value][a] \in Nat
    BY <1>1, <2>1 DEF WalletsTypeOK
  <2> QED BY <2>2, AddressIsFinite, SatsType
<1>5. RowAfterScan(s)
  <2>1. Balance(s.value) = Sats(coins[s.value], Address(s.value))
    BY <1>2 DEF Balance
  <2> QED BY <1>3, <1>4, <2>1 DEF RowAfterScan
<1>6. WireAfterScan
  BY <1>1, <1>2 DEF WireAfterScan, WalletsTypeOK, WireInv
<1>7. timeouts' \in 0 .. MaxTimeouts /\ (timeouts' = 0 => timeouts = 0)
  BY <1>1, <1>2 DEF RowsInv
<1> QED
  BY <1>2, <1>3, <1>5, <1>6, <1>7, ScanEnd

LEMMA TimeOutStep ==
    ASSUME WalletsInv, TimeOut
    PROVE  WalletsInv'
<1>1. /\ WalletsTypeOK /\ WireInv /\ RowsInv
  BY DEF WalletsInv
<1>2. /\ coreBusy' \in BOOLEAN /\ timeouts < MaxTimeouts /\ timeouts' = timeouts + 1
      /\ UNCHANGED <<coins, moves, provider, lastId, wallets, asked, answers>>
  BY DEF TimeOut, chain, wire
<1>3. PICK s \in scan : scan' = scan \ {s} /\ Return(s)
  BY DEF TimeOut
<1>4. timeouts' \in 0 .. MaxTimeouts /\ timeouts' # 0
  BY <1>1, <1>2, WalletsAssumption DEF RowsInv
<1>5. WireAfterScan
  BY <1>1, <1>2, <1>4 DEF WireAfterScan, WalletsTypeOK, WireInv
<1>6. RowAfterScan(s)
  BY <1>2 DEF RowAfterScan
<1> QED
  BY <1>2, <1>3, <1>4, <1>5, <1>6, ScanEnd

-----------------------------------------------------------------------------
(* The next answer of an Electrum server.                                   *)

\* The answer sat ends the branch.
Over(sat, gap, index) == (sat = 0 /\ gap + 1 >= GapLimit) \/ index + 1 >= MaxAddressesPerPath

\* What the scan of a key has once it has read an address.
HasRead(c, branch, index, gap, sum, sat, next) ==
    /\ sum + sat = Sats(c, Seen(c, branch, index + 1))
    /\ Over(sat, gap, index) => Found(c, branch) = 0 .. index
    /\ ~Over(sat, gap, index) => /\ GapIs(c, branch, index + 1, next) /\ ~GapBefore(c, branch, index + 1)
                                 /\ next < GapLimit /\ next \in Nat /\ index + 1 \in Index

LEMMA AddressRead ==
    ASSUME NEW c, \A a \in Branch \X Index : c[a] \in Nat,
           NEW branch \in Branch, NEW index \in Index, NEW gap \in Nat,
           gap < GapLimit, NEW sum, sum = Sats(c, Seen(c, branch, index)),
           GapIs(c, branch, index, gap), ~GapBefore(c, branch, index),
           NEW sat, sat = c[<<branch, index>>],
           NEW next, next = IF sat > 0 THEN 0 ELSE gap + 1
    PROVE  HasRead(c, branch, index, gap, sum, sat, next)
<1> USE WalletsAssumption
<1>1. <<branch, index>> \in Branch \X Index /\ sat \in Nat /\ index \in Nat
  BY DEF Index
<1>2. sum + sat = Sats(c, Seen(c, branch, index + 1))
  <2>1. PICK S, a : S = Seen(c, branch, index) /\ a = <<branch, index>>
    OBVIOUS
  <2>2. Seen(c, branch, index + 1) = S \cup {a} /\ a \notin S /\ S \in SUBSET (Branch \X Index)
    BY <2>1, SeenNext
  <2>3. IsFiniteSet(S) /\ \A b \in S \cup {a} : c[b] \in Nat
    BY <1>1, <2>1, <2>2, AddressesAreFinite
  <2>4. Sats(c, S \cup {a}) = Sats(c, S) + c[a]
    BY <2>2, <2>3, SatsOfOneMore
  <2> QED BY <2>1, <2>2, <2>4
<1>3. IF sat # 0
      THEN GapIs(c, branch, index + 1, 0) /\ ~GapBefore(c, branch, index + 1)
      ELSE /\ GapIs(c, branch, index + 1, gap + 1)
           /\ gap + 1 < GapLimit => ~GapBefore(c, branch, index + 1)
           /\ gap + 1 >= GapLimit => \A i \in Nat : i > index => GapBefore(c, branch, i)
  BY <1>1, AddressAfterGap
<1>4. Over(sat, gap, index) => Found(c, branch) = 0 .. index
  <2>1. Over(sat, gap, index) => index + 1 >= MaxAddressesPerPath \/ \A i \in Nat : i > index => GapBefore(c, branch, i)
    BY <1>3 DEF Over
  <2> QED BY <2>1, FoundByScan
<1>5. ~Over(sat, gap, index) => index + 1 \in Index
  BY DEF Index, Over
<1>6. sat # 0 <=> sat > 0
  BY <1>1
<1>7. ~Over(sat, gap, index) => /\ GapIs(c, branch, index + 1, next) /\ ~GapBefore(c, branch, index + 1)
               /\ next < GapLimit /\ next \in Nat
  <2>1. CASE sat > 0
    BY <1>3, <1>6, <2>1
  <2>2. CASE ~(sat > 0)
    <3>1. next = gap + 1 /\ next \in Nat /\ sat = 0
      BY <1>6, <2>2
    <3>2. ~Over(sat, gap, index) => gap + 1 < GapLimit
      BY <3>1 DEF Over
    <3> QED BY <1>3, <3>1, <3>2
  <2> QED BY <2>1, <2>2
<1> QED
  BY <1>2, <1>4, <1>5, <1>7, Zenon DEF HasRead

\* The address a scan asks for next, and what it keeps.
IsNext(s, sum, sat, n) ==
    /\ n \in Scan /\ n.id = s.id /\ n.value = s.value /\ n.rest = s.rest /\ n.since = s.since /\ n.sum = sum
    /\ Over(sat, s.gap, s.index) => n.branch = 1 /\ n.index = 0 /\ n.gap = 0
    /\ ~Over(sat, s.gap, s.index) => /\ n.branch = s.branch /\ n.index = s.index + 1
                                     /\ n.gap = IF sat > 0 THEN 0 ELSE s.gap + 1
    /\ n.index \in Index /\ n.branch \in Branch

LEMMA NextAddress ==
    ASSUME NEW s \in Scan, NEW sum \in Nat, NEW sat \in Nat, s.gap < GapLimit, ~Over(sat, s.gap, s.index) => s.index + 1 \in Index,
           NEW read, read = [s EXCEPT !.index = @ + 1, !.sum = sum, !.gap = IF sat > 0 THEN 0 ELSE @ + 1],
           NEW n, n = IF Over(sat, s.gap, s.index) THEN [read EXCEPT !.branch = 1, !.index = 0, !.gap = 0] ELSE read
    PROVE  IsNext(s, sum, sat, n)
<1> USE WalletsAssumption
<1>1. /\ s.id \in 1 .. MaxWallets /\ s.value \in Value /\ s.rest \in Seq(Job) /\ s.branch \in Branch
      /\ s.index \in 0 .. MaxAddressesPerPath /\ s.gap \in 0 .. GapLimit /\ s.since \in Nat
  BY DEF Scan
<1> DEFINE gap == IF sat > 0 THEN 0 ELSE s.gap + 1
           index == IF Over(sat, s.gap, s.index) THEN 0 ELSE s.index + 1
<1>2. read = [id |-> s.id, value |-> s.value, rest |-> s.rest, branch |-> s.branch,
              index |-> s.index + 1, gap |-> gap, sum |-> sum, since |-> s.since]
  BY DEF Scan
<1>3. n = [id |-> s.id, value |-> s.value, rest |-> s.rest, branch |-> IF Over(sat, s.gap, s.index) THEN 1 ELSE s.branch,
              index |-> index, gap |-> IF Over(sat, s.gap, s.index) THEN 0 ELSE gap, sum |-> sum, since |-> s.since]
  BY <1>2
<1>4. gap \in 0 .. GapLimit /\ 0 \in 0 .. GapLimit
  BY <1>1
<1>5. index \in Index /\ index \in 0 .. MaxAddressesPerPath /\ 1 \in Branch
  BY <1>1 DEF Index, Branch
<1> HIDE DEF gap, index
<1>6. n \in Scan
  BY <1>1, <1>3, <1>4, <1>5 DEF Scan
<1> QED
  BY <1>1, <1>3, <1>5, <1>6 DEF gap, index, IsNext

LEMMA RowsStay ==
    ASSUME RowsFollowTheChain, UNCHANGED <<coins, moves, provider, wallets, timeouts>>
    PROVE  RowsFollowTheChain'
  BY DEF RowsFollowTheChain, Balance

LEMMA HeadOf ==
    ASSUME NEW S, NEW q \in Seq(S), q # <<>>
    PROVE  Head(q) \in S /\ Head(q) = q[1] /\ Tail(q) \in Seq(S)
  OBVIOUS

LEMMA ReadStep ==
    ASSUME WalletsInv, Read
    PROVE  WalletsInv'
<1> USE WalletsAssumption
<1>1. /\ WalletsTypeOK /\ WireInv /\ ScanInv /\ RowsInv /\ RowsFollowTheChain
  BY DEF WalletsInv
<1>2. /\ UNCHANGED <<coins, moves, provider, lastId, coreBusy, timeouts>>
      /\ provider = "electrum" /\ answers # <<>> /\ answers' = Tail(answers)
  BY DEF Read, chain
<1>3. PICK s \in scan :
         LET sat == Head(answers).sat
             sum == s.sum + sat
             read == [s EXCEPT !.index = @ + 1, !.sum = sum, !.gap = IF sat > 0 THEN 0 ELSE @ + 1]
             over == BranchEnds(s, sat) \/ s.index + 1 >= MaxAddressesPerPath
             next == IF over THEN [read EXCEPT !.branch = 1, !.index = 0, !.gap = 0] ELSE read
         IN IF Kind[s.value] = "address" \/ (over /\ s.branch = 1)
            THEN /\ UpdateWalletBalance(s, sum)
                 /\ scan' = scan \ {s} /\ Return(s) /\ UNCHANGED asked
            ELSE /\ scan' = (scan \ {s}) \cup {next} /\ GetBalance(next)
                 /\ UNCHANGED <<wallets, jobs>>
  BY DEF Read
<1>4. PICK line : line = Head(answers)
  OBVIOUS
<1>5. PICK sat, v : sat = line.sat /\ v = s.value
  OBVIOUS
<1>6. line \in [r : Ask, sat : Nat] /\ line = answers[1] /\ answers' \in Seq([r : Ask, sat : Nat]) /\ sat \in Nat
  <2>1. answers \in Seq([r : Ask, sat : Nat])
    BY <1>1 DEF WalletsTypeOK
  <2>2. line \in [r : Ask, sat : Nat] /\ line = answers[1] /\ answers' \in Seq([r : Ask, sat : Nat])
    BY <1>2, <1>4, <2>1, HeadOf
  <2> QED BY <1>5, <2>2
<1>7. timeouts = 0 => asked = <<>> /\ answers' = <<>> /\ AnswerOf(s, line)
  <2> SUFFICES ASSUME timeouts = 0
               PROVE  asked = <<>> /\ answers' = <<>> /\ AnswerOf(s, line)
    OBVIOUS
  <2>1. OneOnTheWay(s)
    BY <1>1, <1>2 DEF WireInv
  <2>2. asked = <<>> /\ Len(answers) = 1 /\ AnswerOf(s, answers[1])
    BY <1>2, <2>1 DEF OneOnTheWay
  <2>3. answers \in Seq([r : Ask, sat : Nat])
    BY <1>1 DEF WalletsTypeOK
  <2>4. answers' = <<>>
    BY <1>2, <2>2, <2>3
  <2> QED BY <1>6, <2>2, <2>4
<1>8. /\ s \in Scan /\ v \in Value /\ s.sum \in Nat /\ s.gap \in Nat /\ s.gap < GapLimit /\ s.branch \in Branch
      /\ s.index \in Index /\ <<s.branch, s.index>> \in Address(v) /\ Kind[v] \in {"address", "xpub"} /\ coins[v] \in [Address(v) -> Nat]
      /\ s.since <= moves[v] /\ scan \ {s} = {}
  <2>1. s \in Scan
    BY <1>1 DEF WalletsTypeOK
  <2>2. v \in Value /\ s.sum \in Nat /\ s.gap \in 0 .. GapLimit /\ s.branch \in Branch
    BY <1>5, <2>1 DEF Scan
  <2>3. /\ s.index \in Index /\ <<s.branch, s.index>> \in Address(v) /\ Kind[v] # "descriptor" /\ s.gap < GapLimit /\ s.since <= moves[v]
    BY <1>1, <1>2, <1>5 DEF ScanInv
  <2>4. Kind[v] \in {"address", "xpub", "descriptor"} /\ coins[v] \in [Address(v) -> Nat]
    BY <1>1, <2>2 DEF WalletsTypeOK
  <2> QED BY <2>1, <2>2, <2>3, <2>4, Wire
<1>9. Undisturbed(s) => sat = coins[v][<<s.branch, s.index>>] /\ OnItsWay(s)
  <2> SUFFICES ASSUME Undisturbed(s)
               PROVE  sat = coins[v][<<s.branch, s.index>>] /\ OnItsWay(s)
    OBVIOUS
  <2>1. line.r.at = <<s.branch, s.index>> /\ line.sat = coins[v][line.r.at]
    BY <1>5, <1>7 DEF AnswerOf, Request, Undisturbed
  <2> QED BY <1>1, <1>2, <1>5, <2>1 DEF ScanInv
<1>10. Kind[v] = "xpub" => /\ s.index \in Index /\ Address(v) = Branch \X (0 .. CoreRange)
                          /\ \A a \in Branch \X Index : coins[v][a] \in Nat
  BY <1>1, <1>5, <1>8, AddressesAreFinite DEF Address, ScanInv
<1> DEFINE over == Over(sat, s.gap, s.index)
           gap == IF sat > 0 THEN 0 ELSE s.gap + 1
           read == [s EXCEPT !.index = @ + 1, !.sum = s.sum + sat, !.gap = IF sat > 0 THEN 0 ELSE @ + 1]
           following == IF over THEN [read EXCEPT !.branch = 1, !.index = 0, !.gap = 0] ELSE read
<1>11. (BranchEnds(s, sat) \/ s.index + 1 >= MaxAddressesPerPath) = over
  BY DEF BranchEnds, Over
<1>12. Kind[v] = "xpub" /\ Undisturbed(s) =>
          /\ s.sum + sat = Sats(coins[v], Seen(coins[v], s.branch, s.index + 1))
          /\ over => Found(coins[v], s.branch) = 0 .. s.index
          /\ ~over => /\ GapIs(coins[v], s.branch, s.index + 1, gap)
                      /\ ~GapBefore(coins[v], s.branch, s.index + 1)
  <2> SUFFICES ASSUME Kind[v] = "xpub", Undisturbed(s)
               PROVE  /\ s.sum + sat = Sats(coins[v], Seen(coins[v], s.branch, s.index + 1))
                      /\ over => Found(coins[v], s.branch) = 0 .. s.index
                      /\ ~over => /\ GapIs(coins[v], s.branch, s.index + 1, gap)
                                  /\ ~GapBefore(coins[v], s.branch, s.index + 1)
    OBVIOUS
  <2>1. PICK c, branch, index, g, sum :
           c = coins[v] /\ branch = s.branch /\ index = s.index /\ g = s.gap /\ sum = s.sum
    OBVIOUS
  <2>2. /\ sum = Sats(c, Seen(c, branch, index)) /\ GapIs(c, branch, index, g) /\ ~GapBefore(c, branch, index)
        /\ sat = c[<<branch, index>>]
    BY <1>5, <1>9, <2>1 DEF OnItsWay
  <2>3. (\A a \in Branch \X Index : c[a] \in Nat) /\ branch \in Branch /\ index \in Index /\ g \in Nat /\ g < GapLimit
    BY <1>8, <1>10, <2>1
  <2>4. over <=> Over(sat, g, index)
    BY <2>1
  <2>5. PICK next : next = IF sat > 0 THEN 0 ELSE g + 1
    OBVIOUS
  <2>6. HasRead(c, branch, index, g, sum, sat, next)
    BY <2>2, <2>3, <2>5, AddressRead
  <2>7. /\ sum + sat = Sats(c, Seen(c, branch, index + 1))
        /\ over => Found(c, branch) = 0 .. index
        /\ ~over => GapIs(c, branch, index + 1, next) /\ ~GapBefore(c, branch, index + 1)
    BY <2>4, <2>6, Zenon DEF HasRead
  <2> QED BY <2>1, <2>5, <2>7
<1>13. CASE Kind[v] = "address" \/ (over /\ s.branch = 1)
  <2>1. UpdateWalletBalance(s, s.sum + sat) /\ scan' = scan \ {s} /\ Return(s) /\ asked' = asked
    BY <1>3, <1>4, <1>5, <1>11, <1>13
  <2>2. moves[v] = s.since /\ timeouts = 0 => s.sum + sat = Balance(v)
    <3> SUFFICES ASSUME Undisturbed(s)
                 PROVE  s.sum + sat = Balance(v)
      BY <1>5 DEF Undisturbed
    <3>1. CASE Kind[v] = "address"
      <4>1. s.sum = 0 /\ Address(v) = {<<0, 0>>} /\ Balance(v) = Sats(coins[v], {<<0, 0>>})
        BY <1>5, <1>9, <3>1 DEF OnItsWay, Address, Balance
      <4>2. <<s.branch, s.index>> = <<0, 0>> /\ coins[v][<<0, 0>>] \in Nat
        BY <1>8, <4>1
      <4>3. Sats(coins[v], {<<0, 0>>}) = coins[v][<<0, 0>>]
        BY <4>2, SatsOfOne
      <4> QED BY <1>6, <1>9, <4>1, <4>2, <4>3
    <3>2. CASE Kind[v] # "address"
      <4>1. Kind[v] = "xpub" /\ over /\ s.branch = 1
        BY <1>8, <1>13, <3>2
      <4>2. s.sum + sat = Sats(coins[v], Seen(coins[v], 1, s.index + 1)) /\ Found(coins[v], 1) = 0 .. s.index
        BY <1>12, <4>1
      <4>3. Seen(coins[v], 1, s.index + 1) = {a \in Branch \X Index : a[2] \in Found(coins[v], a[1])}
        BY <1>10, <4>1, <4>2, SeenAll
      <4>4. @ = {a \in Address(v) : a[2] \in Found(coins[v], a[1])}
        BY <1>10, <4>1, AddressesAreFinite DEF Found
      <4> QED BY <1>2, <4>1, <4>2, <4>3, <4>4 DEF Balance
    <3> QED BY <3>1, <3>2
  <2>3. RowAfterScan(s)
    <3>1. s.sum + sat \in Nat
      BY <1>6, <1>8
    <3> QED BY <1>2, <1>5, <2>1, <2>2, <3>1 DEF RowAfterScan
  <2>4. WireAfterScan
    <3>1. asked' \in Seq(Ask) /\ \A i \in DOMAIN asked' : asked'[i].at \in Address(asked'[i].value)
      BY <1>1, <2>1 DEF WalletsTypeOK, WireInv
    <3> QED BY <1>2, <1>6, <1>7, <2>1, <3>1 DEF WireAfterScan
  <2>5. coreBusy' \in BOOLEAN /\ timeouts' \in 0 .. MaxTimeouts /\ (timeouts' = 0 => timeouts = 0)
    BY <1>1, <1>2 DEF WalletsTypeOK, RowsInv
  <2> QED BY <1>2, <2>1, <2>3, <2>4, <2>5, ScanEnd
<1>14. CASE ~(Kind[v] = "address" \/ (over /\ s.branch = 1))
  <2>1. PICK n : n = following
    OBVIOUS
  <2>2. scan' = {n} /\ asked' = Append(asked, Request(n)) /\ UNCHANGED <<wallets, jobs>>
    BY <1>3, <1>4, <1>5, <1>8, <1>11, <1>14, <2>1 DEF GetBalance, Request
  <2>3. Kind[v] = "xpub" /\ (over => s.branch = 0)
    BY <1>8, <1>14 DEF Branch
  <2>4. ~over => s.index + 1 \in Index
    BY <1>10, <2>3 DEF Index, Over
  <2>5. /\ n \in Scan /\ n.id = s.id /\ n.value = s.value /\ n.rest = s.rest
        /\ n.since = s.since /\ n.sum = s.sum + sat
        /\ over => n.branch = 1 /\ n.index = 0 /\ n.gap = 0
        /\ ~over => n.branch = s.branch /\ n.index = s.index + 1 /\ n.gap = gap
        /\ n.index \in Index /\ n.branch \in Branch
    <3>1. s.sum + sat \in Nat
      BY <1>6, <1>8
    <3>2. IsNext(s, s.sum + sat, sat, n)
      BY <1>6, <1>8, <2>1, <2>4, <3>1, NextAddress
    <3> QED BY <3>2, Zenon DEF IsNext
  <2>6. n.gap < GapLimit
    <3>1. CASE over
      BY <2>5, <3>1
    <3>2. CASE ~over
      BY <1>6, <1>8, <2>5, <3>2 DEF Over
    <3> QED BY <3>1, <3>2
  <2>7. Request(n) \in Ask /\ Request(n).at = <<n.branch, n.index>> /\ Request(n).value = v
        /\ n.index \in Index /\ <<n.branch, n.index>> \in Address(v)
    <3>1. n.branch \in Branch /\ n.index \in Index /\ n.value = v /\ v \in Value
      BY <1>5, <1>8, <2>5
    <3>2. <<n.branch, n.index>> \in Branch \X Index
      BY <3>1
    <3>3. <<n.branch, n.index>> \in Address(v)
      BY <1>10, <2>3, <3>1, AddressesAreFinite
    <3>4. Request(n) = [value |-> v, at |-> <<n.branch, n.index>>]
      BY <3>1 DEF Request
    <3> QED BY <3>1, <3>2, <3>3, <3>4 DEF Ask
  <2>8. Undisturbed(s) => OnItsWay(n)
    <3> SUFFICES ASSUME Undisturbed(s)
                 PROVE  OnItsWay(n)
      OBVIOUS
    <3>1. n.value = v /\ Kind[v] = "xpub"
      BY <1>5, <2>3, <2>5
    <3>2. CASE over
      <4>1. s.branch = 0 /\ Found(coins[v], 0) = 0 .. s.index /\ s.index \in Index
        BY <1>10, <1>12, <2>3, <3>2
      <4>2. n.sum = Sats(coins[v], Seen(coins[v], 1, 0))
        BY <1>12, <2>3, <2>5, <4>1, SeenBranch
      <4>3. GapIs(coins[v], 1, 0, 0)
        BY DEF GapIs
      <4>4. ~GapBefore(coins[v], 1, 0)
        BY DEF GapBefore
      <4>5. n.branch = 1 /\ n.index = 0 /\ n.gap = 0
        BY <2>5, <3>2
      <4> QED BY <3>1, <4>2, <4>3, <4>4, <4>5, Zenon DEF OnItsWay
    <3>3. CASE ~over
      <4>1. n.branch = s.branch /\ n.index = s.index + 1 /\ n.gap = gap /\ n.sum = s.sum + sat
        BY <2>5, <3>3
      <4> HIDE DEF gap
      <4> QED BY <1>12, <3>1, <3>3, <4>1 DEF OnItsWay
    <3> QED BY <3>2, <3>3
  <2>9. asked' \in Seq(Ask) /\ \A k \in DOMAIN asked' : asked'[k].at \in Address(asked'[k].value)
    <3>1. asked \in Seq(Ask) /\ \A k \in DOMAIN asked : asked[k].at \in Address(asked[k].value)
      BY <1>1 DEF WalletsTypeOK, WireInv
    <3>2. PICK r : r = Request(n)
      OBVIOUS
    <3>3. asked' = Append(asked, r) /\ r \in Ask /\ r.at \in Address(r.value)
      BY <2>2, <2>7, <3>2
    <3>4. asked' \in Seq(Ask) /\ \A k \in DOMAIN asked' : asked'[k] = r \/ (k \in DOMAIN asked /\ asked'[k] = asked[k])
      BY <3>1, <3>3
    <3> QED BY <3>1, <3>3, <3>4
  <2>10. WalletsTypeOK'
    BY <1>1, <1>2, <1>6, <2>2, <2>5, <2>9 DEF WalletsTypeOK
  <2>11. WireInv'
    <3>1. timeouts = 0 => asked' = <<Request(n)>>
      BY <1>7, <2>2
    <3>2. timeouts = 0 => OneOnTheWay(n)'
      BY <1>2, <1>7, <3>1 DEF OneOnTheWay, Request
    <3> QED BY <1>2, <2>2, <2>9, <3>2 DEF WireInv
  <2>12. ScanInv'
    <3>1. SameWallet(s, wallets, lastId) /\ Listed(s.rest, wallets, lastId)
          /\ (s.id \in DOMAIN wallets => wallets[s.id].saw <= s.since)
      BY <1>1 DEF ScanInv
    <3>2. SameWallet(n, wallets, lastId) /\ Listed(n.rest, wallets, lastId) /\ n.since <= moves[v]
          /\ (n.id \in DOMAIN wallets => wallets[n.id].saw <= n.since)
      BY <1>8, <2>5, <3>1 DEF SameWallet
    <3>3. (Undisturbed(n) => OnItsWay(n))'
      BY <1>2, <2>5, <2>8 DEF Undisturbed, OnItsWay
    <3> QED BY <1>2, <1>5, <2>2, <2>3, <2>5, <2>6, <2>7, <3>2, <3>3 DEF ScanInv
  <2>13. RowsInv'
    BY <1>1, <1>2, <2>2 DEF RowsInv
  <2>14. RowsFollowTheChain'
    <3>1. UNCHANGED <<coins, moves, provider, wallets, timeouts>>
      BY <1>2, <2>2
    <3> QED BY <1>1, <3>1, RowsStay, Zenon
  <2> QED BY <2>10, <2>11, <2>12, <2>13, <2>14 DEF WalletsInv
<1> QED
  BY <1>13, <1>14

-----------------------------------------------------------------------------

LEMMA StepKeeps ==
    ASSUME WalletsInv, [Next]_vars
    PROVE  WalletsInv'
<1>1. ASSUME NEW v \in Value, Payment(v)
      PROVE  WalletsInv'
  BY <1>1, PaymentStep
<1>2. ASSUME NEW v \in Value, HandleAddWallet(v)
      PROVE  WalletsInv'
  BY <1>2, AddStep
<1>3. ASSUME NEW id \in 1 .. lastId, HandleRemoveWallet(id)
      PROVE  WalletsInv'
  BY <1>3, RemoveStep
<1>4. ASSUME NEW id \in 1 .. lastId, HandleRefreshWallet(id)
      PROVE  WalletsInv'
  BY <1>4, RefreshOneStep
<1>5. CASE HandleRefreshAll
  BY <1>5, RefreshAllStep
<1>6. CASE Lock
  BY <1>6, LockStep
<1>7. CASE Answer
  BY <1>7, AnswerStep
<1>8. CASE Read
  BY <1>8, ReadStep
<1>9. CASE scantxoutset
  BY <1>9, CoreStep
<1>10. CASE TimeOut
  BY <1>10, TimeOutStep
<1>11. CASE UNCHANGED vars
  <2>1. UNCHANGED <<coins, moves, provider, wallets, lastId, jobs, scan, asked, answers, coreBusy, timeouts>>
    BY <1>11 DEF vars, chain, wire
  <2>2. WalletsTypeOK'
    BY <2>1 DEF WalletsInv, WalletsTypeOK
  <2>3. WireInv'
    BY <2>1 DEF WalletsInv, WireInv, OneOnTheWay, AnswerOf
  <2>4. ScanInv'
    BY <2>1 DEF WalletsInv, ScanInv, Undisturbed, OnItsWay
  <2>5. RowsInv'
    BY <2>1 DEF WalletsInv, RowsInv
  <2>6. RowsFollowTheChain'
    BY <2>1 DEF WalletsInv, RowsFollowTheChain, Balance
  <2> QED BY <2>2, <2>3, <2>4, <2>5, <2>6 DEF WalletsInv
<1> QED
  BY <1>1, <1>2, <1>3, <1>4, <1>5, <1>6, <1>7, <1>8, <1>9, <1>10, <1>11 DEF Next, Scanning

\* The table, the goroutines that wait and the connection have the values they
\* may have, a value is watched once and one scan has the mutex (scanWallet).
THEOREM TypeCorrect == Spec => []WalletsTypeOK
<1>1. WalletsInv => WalletsTypeOK
  BY DEF WalletsInv
<1> QED
  BY <1>1, InitInv, StepKeeps, PTL DEF Spec

\* For any keys, gap limit and number of addresses, however scans, refreshes,
\* removals and payments cross: a row has the balance of the newest scan, unless
\* a call to the Electrum server has timed out (scanWallet, UpdateWalletBalance).
THEOREM NewestScanDecides == Spec => []RowsFollowTheChain
<1>1. WalletsInv => RowsFollowTheChain
  BY DEF WalletsInv
<1> QED
  BY <1>1, InitInv, StepKeeps, PTL DEF Spec
=============================================================================
