--------------------------- MODULE MonarchTxProofs ---------------------------
(***************************************************************************)
(* Proofs about MonarchTx, for every set of transactions and every bound.  *)
(*                                                                         *)
(* As long as the instances do not work at the same time Monarch has at     *)
(* most one account of our name: who creates it has just listed none, and   *)
(* nobody else was at work in between.  Then what a batch looked up under   *)
(* the mutex stays true until it has posted its last transaction.           *)
(***************************************************************************)
EXTENDS MonarchTx, WellFoundedInduction, TLAPS

-----------------------------------------------------------------------------
(* The inductive invariant.                                                 *)

One(cond) == IF cond THEN 1 ELSE 0

\* Each change of the token makes at most two instances: the request's own, and one
\* for a sync that is asked for before the request has assigned it.
InstancesOK ==
    /\ changes <= MaxChanges
    /\ web <= made
    /\ made + One(handler = "connect") + One(web = None /\ token) <= 1 + 2 * changes

\* What a request is about to do agrees with the token it has stored.
PointersOK ==
    /\ handler = "connect" => token
    /\ handler = "disconnect" => ~ token
    /\ handler = "idle" /\ bg # None => token
    /\ ~ up => handler = "idle"

\* A batch has an instance before it asks for the mutex.
Assigned == \A r \in Runner : run[r].pc \notin {"idle", "call"} => run[r].inst # None

\* t is in an account of Monarch.
In(t) == \E a \in DOMAIN monarch : monarch[a][t] > 0

\* One batch holds a mutex, there is one account, and what has been looked up holds.
OneAtWork ==
    /\ \A r, q \in Runner : run[r].pc \in Locked /\ run[q].pc \in Locked => r = q
    /\ \A a, b \in DOMAIN monarch : a = b
    /\ \A i \in Instance : cache[i] \in DOMAIN monarch \cup {None}
    /\ \A r \in Runner : /\ run[r].pc = "create" => DOMAIN monarch = {}
                         /\ run[r].pc \in {"dedup", "post"} => run[r].acct \in DOMAIN monarch
                         /\ run[r].pc # "cleanup"
    /\ \A t \in marked : In(t)
    /\ \A r \in Runner : \A t \in run[r].synced \cup run[r].existing : In(t)

\* With every lookup answered, nothing that a batch will still create is there.
NoneTwice ==
    /\ \A a \in DOMAIN monarch : \A t \in Tx : monarch[a][t] <= 1
    /\ \A r \in Runner : run[r].pc = "post" =>
          \A t \in run[r].todo \ run[r].existing : monarch[run[r].acct][t] = 0

MInv ==
    /\ TypeOK /\ Assigned /\ InstancesOK /\ PointersOK
    /\ ~ overlap => OneAtWork
    /\ ~ overlap /\ ~ blind => NoneTwice

-----------------------------------------------------------------------------
(* Batches, as a set of records.                                            *)

Pcs == {"idle", "call", "lock", "mark"} \cup Locked
Batch(n) == [pc : Pcs, inst : Instance \cup {None}, acct : 0 .. n, dups : SUBSET (1 .. n),
             todo : SUBSET Tx, existing : SUBSET Tx, synced : SUBSET Tx]
Fit(b, n) == b \in Batch(n) /\ (b.pc \in {"cleanup", "dedup", "post"} => b.acct # None)

Accounts == DOMAIN monarch \subseteq 1 .. created
            /\ \A a \in DOMAIN monarch : monarch[a] \in [Tx -> Nat]

\* What TypeOK says of the variables other than run.
Shared ==
    /\ Accounts
    /\ created \in Nat
    /\ known \subseteq Tx /\ marked \subseteq Tx
    /\ {token, up, blind, overlap} \subseteq BOOLEAN
    /\ handler \in {"idle", "connect", "disconnect"}
    /\ {bg, web} \subseteq Instance \cup {None}
    /\ made \in {None} \cup Instance
    /\ cache \in [Instance -> 0 .. created]
    /\ changes \in Nat /\ failures \in Nat

LEMMA TypeParts ==
    /\ TypeOK <=> /\ Shared /\ run \in [Runner -> Batch(created)]
                  /\ \A r \in Runner : Fit(run[r], created)
    /\ TypeOK' <=> /\ Shared' /\ run' \in [Runner -> Batch(created')]
                   /\ \A r \in Runner : Fit(run'[r], created')
BY DEF TypeOK, Shared, Accounts, Batch, Fit, Pcs

AtPc(b, pc) == [b EXCEPT !.pc = pc]
Called(b, i) == [b EXCEPT !.pc = "lock", !.inst = i]
Held(b, pc, a) == [b EXCEPT !.pc = pc, !.acct = a]
Found(b, a, d, pc) == [b EXCEPT !.acct = a, !.dups = d, !.pc = pc]
Less(b, d, pc) == [b EXCEPT !.dups = d, !.pc = pc]
Looked(b, e) == [b EXCEPT !.pc = "post", !.existing = e]
Worked(b, t, s) == [b EXCEPT !.todo = t, !.synced = s]
Recorded(b, s) == [b EXCEPT !.synced = s]
Listed(t) == [NoBatch EXCEPT !.pc = "call", !.todo = t]

LEMMA BatchFields ==
    ASSUME NEW n \in Nat, NEW b \in Batch(n)
    PROVE  /\ b.pc \in Pcs /\ b.inst \in Instance \cup {None} /\ b.acct \in 0 .. n
           /\ b.dups \in SUBSET (1 .. n) /\ b.todo \in SUBSET Tx
           /\ b.existing \in SUBSET Tx /\ b.synced \in SUBSET Tx
BY DEF Batch

LEMMA PcChanges ==
    ASSUME NEW n \in Nat, NEW b \in Batch(n), NEW pc \in Pcs
    PROVE  /\ AtPc(b, pc) \in Batch(n) /\ AtPc(b, pc).pc = pc /\ AtPc(b, pc).inst = b.inst
           /\ AtPc(b, pc).acct = b.acct /\ AtPc(b, pc).todo = b.todo
           /\ AtPc(b, pc).existing = b.existing /\ AtPc(b, pc).synced = b.synced
BY DEF Batch, AtPc

LEMMA CallChanges ==
    ASSUME NEW n \in Nat, NEW b \in Batch(n), NEW i \in Instance \cup {None}
    PROVE  /\ Called(b, i) \in Batch(n) /\ Called(b, i).pc = "lock" /\ Called(b, i).inst = i
           /\ Called(b, i).existing = b.existing /\ Called(b, i).synced = b.synced
BY DEF Batch, Called, Pcs

LEMMA HeldChanges ==
    ASSUME NEW n \in Nat, NEW b \in Batch(n), NEW pc \in Pcs, NEW a \in 0 .. n
    PROVE  /\ Held(b, pc, a).inst = b.inst
           /\ Held(b, pc, a) \in Batch(n) /\ Held(b, pc, a).pc = pc /\ Held(b, pc, a).acct = a
           /\ Held(b, pc, a).existing = b.existing /\ Held(b, pc, a).synced = b.synced
BY DEF Batch, Held

LEMMA FoundChanges ==
    ASSUME NEW n \in Nat, NEW b \in Batch(n), NEW pc \in Pcs, NEW a \in 0 .. n,
           NEW d \in SUBSET (1 .. n)
    PROVE  /\ Found(b, a, d, pc).inst = b.inst
           /\ Found(b, a, d, pc) \in Batch(n) /\ Found(b, a, d, pc).pc = pc
           /\ Found(b, a, d, pc).acct = a
           /\ Found(b, a, d, pc).existing = b.existing /\ Found(b, a, d, pc).synced = b.synced
BY DEF Batch, Found

LEMMA LessChanges ==
    ASSUME NEW n \in Nat, NEW b \in Batch(n), NEW pc \in Pcs, NEW d \in SUBSET (1 .. n)
    PROVE  /\ Less(b, d, pc).inst = b.inst
           /\ Less(b, d, pc) \in Batch(n) /\ Less(b, d, pc).pc = pc
           /\ Less(b, d, pc).acct = b.acct
BY DEF Batch, Less

LEMMA LookedChanges ==
    ASSUME NEW n \in Nat, NEW b \in Batch(n), NEW e \in SUBSET Tx
    PROVE  /\ Looked(b, e).inst = b.inst
           /\ Looked(b, e) \in Batch(n) /\ Looked(b, e).pc = "post"
           /\ Looked(b, e).acct = b.acct /\ Looked(b, e).todo = b.todo
           /\ Looked(b, e).existing = e /\ Looked(b, e).synced = b.synced
BY DEF Batch, Looked, Pcs, Locked

LEMMA WorkedChanges ==
    ASSUME NEW n \in Nat, NEW b \in Batch(n), NEW t \in SUBSET Tx, NEW s \in SUBSET Tx
    PROVE  /\ Worked(b, t, s).inst = b.inst
           /\ Worked(b, t, s) \in Batch(n) /\ Worked(b, t, s).pc = b.pc
           /\ Worked(b, t, s).acct = b.acct /\ Worked(b, t, s).todo = t
           /\ Worked(b, t, s).existing = b.existing /\ Worked(b, t, s).synced = s
BY DEF Batch, Worked

LEMMA RecordedChanges ==
    ASSUME NEW n \in Nat, NEW b \in Batch(n), NEW s \in SUBSET Tx
    PROVE  /\ Recorded(b, s).inst = b.inst
           /\ Recorded(b, s) \in Batch(n) /\ Recorded(b, s).pc = b.pc
           /\ Recorded(b, s).acct = b.acct
           /\ Recorded(b, s).existing = b.existing /\ Recorded(b, s).synced = s
BY DEF Batch, Recorded

LEMMA NewBatches ==
    ASSUME NEW n \in Nat, NEW t \in SUBSET Tx
    PROVE  /\ NoBatch \in Batch(n) /\ NoBatch.pc = "idle"
           /\ NoBatch.existing = {} /\ NoBatch.synced = {}
           /\ Listed(t) \in Batch(n) /\ Listed(t).pc = "call"
           /\ Listed(t).existing = {} /\ Listed(t).synced = {}
<1>1. NoBatch \in Batch(n)
  BY DEF Batch, NoBatch, None, Pcs
<1>2. NoBatch.pc = "idle" /\ NoBatch.existing = {} /\ NoBatch.synced = {}
  BY DEF NoBatch
<1>3. /\ Listed(t) \in Batch(n) /\ Listed(t).pc = "call"
      /\ Listed(t).existing = NoBatch.existing /\ Listed(t).synced = NoBatch.synced
  BY <1>1 DEF Batch, Listed, Pcs
<1> QED
  BY <1>1, <1>2, <1>3

LEMMA MoreAccounts ==
    ASSUME NEW n \in Nat, NEW m \in Nat, n <= m, NEW b, Fit(b, n)
    PROVE  Fit(b, m)
BY DEF Fit, Batch

LEMMA PcNames ==
    /\ Locked \subseteq Pcs
    /\ "idle" \in Pcs /\ "call" \in Pcs /\ "lock" \in Pcs /\ "mark" \in Pcs /\ "list" \in Pcs
    /\ "create" \in Pcs /\ "cleanup" \in Pcs /\ "dedup" \in Pcs /\ "post" \in Pcs
    /\ "list" \in Locked /\ "create" \in Locked /\ "cleanup" \in Locked
    /\ "dedup" \in Locked /\ "post" \in Locked
    /\ "idle" \notin Locked /\ "call" \notin Locked /\ "lock" \notin Locked /\ "mark" \notin Locked
BY DEF Pcs, Locked

LEMMA Numbers ==
    /\ MaxChanges \in Nat /\ MaxJobs \in Nat
    /\ Instance = 1 .. 1 + 2 * MaxChanges /\ None = 0 /\ None \notin Instance
    /\ Background \in Runner /\ Job \subseteq Runner
BY BoundsAssumption DEF Instance, None, Runner, Background, Job

-----------------------------------------------------------------------------
(* The step of a batch.                                                     *)

\* What a batch's step to b has to keep: who has the mutex and the one account, what is
\* in Monarch stays there, and what it notes as synced or existing is there.
Sound(r, b) ==
    /\ b.pc \notin {"idle", "call"} => b.inst # None
    /\ overlap => overlap'
    /\ blind => blind'
    /\ ~ overlap' =>
          /\ b.pc \in Locked =>
                run[r].pc \in Locked \/ \A q \in Runner : run[q].pc \notin Locked
          /\ \A a, c \in DOMAIN monarch' : a = c
          /\ DOMAIN monarch \subseteq DOMAIN monarch'
          /\ \A a \in DOMAIN monarch : \A t \in Tx : monarch'[a][t] >= monarch[a][t]
          /\ monarch' = monarch \/ run[r].pc \in Locked
          /\ \A i \in Instance : cache'[i] \in DOMAIN monarch' \cup {None}
          /\ b.pc = "create" => DOMAIN monarch' = {}
          /\ b.pc \in {"dedup", "post"} => b.acct \in DOMAIN monarch'
          /\ b.pc # "cleanup"
          /\ \A t \in marked' : t \in marked \/ t \in run[r].synced
          /\ \A t \in b.synced \cup b.existing : In(t) \/ In(t)'
    /\ ~ overlap' /\ ~ blind' =>
          /\ \A a \in DOMAIN monarch' : \A t \in Tx : monarch'[a][t] <= 1
          /\ b.pc = "post" => \A t \in b.todo \ b.existing : monarch'[b.acct][t] = 0

LEMMA StepTypes ==
    ASSUME TypeOK, NEW r \in Runner, NEW b, run' = [run EXCEPT ![r] = b],
           Fit(b, created'), created <= created', Shared'
    PROVE  TypeOK'
<1>1. Shared /\ run \in [Runner -> Batch(created)] /\ \A q \in Runner : Fit(run[q], created)
  BY TypeParts
<1>2. created \in Nat /\ created' \in Nat
  BY <1>1 DEF Shared
<1>3. \A q \in Runner : Fit(run[q], created')
  BY <1>1, <1>2, MoreAccounts
<1>4. \A q \in Runner : run'[q] = IF q = r THEN b ELSE run[q]
  BY <1>1
<1>5. \A q \in Runner : Fit(run'[q], created')
  BY <1>3, <1>4
<1>6. run' \in [Runner -> Batch(created')]
  <2>1. \A q \in Runner : run'[q] \in Batch(created')
    BY <1>5 DEF Fit
  <2>2. run' = [q \in Runner |-> run'[q]]
    BY <1>1
  <2> QED
    BY <2>1, <2>2
<1> QED
  BY <1>5, <1>6, TypeParts

LEMMA SoundKeeps ==
    ASSUME MInv, NEW r \in Runner, NEW b, run' = [run EXCEPT ![r] = b],
           Fit(b, created'), created <= created', Shared', Sound(r, b),
           InstancesOK', PointersOK'
    PROVE  MInv'
<1>1. TypeOK /\ Shared /\ run \in [Runner -> Batch(created)] /\ created \in Nat
      /\ \A q \in Runner : run[q] \in Batch(created)
  BY TypeParts DEF MInv, Shared
<1>2. TypeOK'
  BY <1>1, StepTypes
<1>3. \A q \in Runner : run'[q] = IF q = r THEN b ELSE run[q]
  BY <1>1
<1>4. ASSUME ~ overlap' PROVE OneAtWork'
  <2>1. OneAtWork
    BY <1>4 DEF MInv, Sound
  <2>2. \A t \in Tx : In(t) => In(t)'
    <3>1. \A a \in DOMAIN monarch, t \in Tx : monarch[a][t] \in Nat /\ monarch'[a][t] >= monarch[a][t]
      BY <1>1, <1>4 DEF Sound, Shared, Accounts
    <3>2. \A a \in DOMAIN monarch' : monarch'[a] \in [Tx -> Nat]
      BY DEF Shared, Accounts
    <3> QED
      BY <1>4, <3>1, <3>2 DEF In, Sound
  <2>3. \A p, q \in Runner : run'[p].pc \in Locked /\ run'[q].pc \in Locked => p = q
    BY <1>3, <1>4, <2>1 DEF Sound, OneAtWork
  <2>4. \A q \in Runner : /\ run'[q].pc = "create" => DOMAIN monarch' = {}
                          /\ run'[q].pc \in {"dedup", "post"} => run'[q].acct \in DOMAIN monarch'
                          /\ run'[q].pc # "cleanup"
    <3> SUFFICES ASSUME NEW q \in Runner
                 PROVE  /\ run'[q].pc = "create" => DOMAIN monarch' = {}
                        /\ run'[q].pc \in {"dedup", "post"} => run'[q].acct \in DOMAIN monarch'
                        /\ run'[q].pc # "cleanup"
      OBVIOUS
    <3>1. CASE q = r
      BY <1>3, <1>4, <3>1 DEF Sound
    <3>2. CASE q # r
      <4>1. run'[q] = run[q]
        BY <1>3, <3>2
      <4>2. run[q].pc = "create" => monarch' = monarch
        BY <1>4, <2>1, <3>2, PcNames DEF Sound, OneAtWork
      <4> QED
        BY <1>4, <2>1, <4>1, <4>2 DEF Sound, OneAtWork
    <3> QED
      BY <3>1, <3>2
  <2>5. \A t \in marked' : In(t)'
    <3>1. marked' \subseteq Tx
      BY DEF Shared
    <3> QED
      BY <1>4, <2>1, <2>2, <3>1 DEF Sound, OneAtWork
  <2>6. \A q \in Runner : \A t \in run'[q].synced \cup run'[q].existing : In(t)'
    <3> SUFFICES ASSUME NEW q \in Runner, NEW t \in run'[q].synced \cup run'[q].existing
                 PROVE  In(t)'
      OBVIOUS
    <3>1. t \in Tx
      <4>1. run'[q] \in Batch(created') /\ created' \in Nat
        BY <1>2, TypeParts DEF Fit, Shared
      <4> QED
        BY <4>1, BatchFields
    <3>2. In(t) \/ In(t)'
      BY <1>3, <1>4, <2>1 DEF Sound, OneAtWork
    <3> QED
      BY <2>2, <3>1, <3>2
  <2> QED
    BY <1>4, <2>3, <2>4, <2>5, <2>6 DEF Sound, OneAtWork
<1>5. ASSUME ~ overlap', ~ blind' PROVE NoneTwice'
  <2>1. OneAtWork /\ NoneTwice
    BY <1>5 DEF MInv, Sound
  <2>2. ASSUME NEW q \in Runner, run'[q].pc = "post"
        PROVE  \A t \in run'[q].todo \ run'[q].existing : monarch'[run'[q].acct][t] = 0
    <3>1. CASE q = r
      BY <1>3, <1>5, <2>2, <3>1 DEF Sound
    <3>2. CASE q # r
      <4>1. run'[q] = run[q]
        BY <1>3, <3>2
      <4>2. monarch' = monarch
        BY <1>5, <2>1, <2>2, <3>2, <4>1, PcNames DEF Sound, OneAtWork
      <4> QED
        BY <2>1, <2>2, <4>1, <4>2 DEF NoneTwice
    <3> QED
      BY <3>1, <3>2
  <2> QED
    BY <1>5, <2>2 DEF Sound, NoneTwice
<1>6. Assigned'
  BY <1>3 DEF MInv, Assigned, Sound
<1> QED
  BY <1>2, <1>4, <1>5, <1>6 DEF MInv

-----------------------------------------------------------------------------
(* The actions of a batch.                                                  *)

LEMMA SmallestElement ==
    ASSUME NEW S \in SUBSET Nat, S # {}
    PROVE  \E x \in S : \A y \in S : x <= y
<1>1. \E x \in S : \A y \in S : ~ (<<y, x>> \in OpToRel(<, Nat))
  BY NatLessThanWellFounded, WFMin
<1>2. \A x, y \in Nat : y < x => <<y, x>> \in OpToRel(<, Nat)
  BY DEF OpToRel
<1>3. PICK x \in S : \A y \in S : ~ (<<y, x>> \in OpToRel(<, Nat))
  BY <1>1
<1>4. \A y \in S : x <= y
  <2> TAKE y \in S
  <2>1. ~ (y < x)
    BY <1>2, <1>3
  <2> QED
    BY <2>1
<1> QED
  BY <1>4

LEMMA MinIs ==
    ASSUME NEW S \in SUBSET Nat, S # {}
    PROVE  Min(S) \in S
BY SmallestElement, Zenon DEF Min

LEMMA StayKeeps ==
    ASSUME MInv, Stay
    PROVE  InstancesOK' /\ PointersOK'
BY DEF MInv, Stay, pointers, InstancesOK, PointersOK

\* What is known of the batch of r before its step.
LEMMA BatchNow ==
    ASSUME MInv, NEW r \in Runner
    PROVE  /\ TypeOK /\ Shared /\ run[r] \in Batch(created) /\ Fit(run[r], created)
           /\ created \in Nat /\ run[r].acct \in 0 .. created /\ run[r].pc \in Pcs
           /\ run[r].dups \in SUBSET (1 .. created) /\ run[r].todo \in SUBSET Tx
           /\ run[r].existing \in SUBSET Tx /\ run[r].synced \in SUBSET Tx
           /\ run[r].pc \notin {"idle", "call"} => run[r].inst \in Instance
<1>1. TypeOK /\ Shared /\ run[r] \in Batch(created) /\ Fit(run[r], created) /\ created \in Nat
  BY TypeParts DEF MInv, Shared
<1>2. run[r].pc \notin {"idle", "call"} => run[r].inst \in Instance
  BY <1>1, BatchFields DEF MInv, Assigned
<1> QED
  BY <1>1, <1>2, BatchFields

LEMMA StayStep ==
    ASSUME MInv, NEW r \in Runner, NEW b, run' = [run EXCEPT ![r] = b], Fit(b, created'),
           created' = created \/ created' = created + 1, Shared', Sound(r, b), Stay
    PROVE  MInv'
<1>1. created <= created'
  BY BatchNow
<1>2. InstancesOK' /\ PointersOK'
  BY StayKeeps
<1> QED
  BY <1>1, <1>2, SoundKeeps

LEMMA LockKeeps ==
    ASSUME MInv, NEW r \in Runner, Lock(r)
    PROVE  MInv'
<1> DEFINE i == run[r].inst
           pc == IF cache[i] = None THEN "list" ELSE "dedup"
           b == Held(run[r], pc, cache[i])
<1>1. /\ run[r] \in Batch(created) /\ created \in Nat /\ i \in Instance /\ Shared
      /\ run[r].pc = "lock" /\ pc \in Pcs
  BY BatchNow, PcNames DEF Lock, At
<1>2. run' = [run EXCEPT ![r] = b]
  BY DEF Lock, Held
<1>3. cache[i] \in 0 .. created
  BY <1>1 DEF Shared
<1>4. b \in Batch(created) /\ b.pc = pc /\ b.inst = i /\ b.acct = cache[i]
      /\ b.existing = run[r].existing /\ b.synced = run[r].synced
  BY <1>1, <1>3, HeldChanges
<1>5. pc \in {"list", "dedup"} /\ (pc = "dedup" => cache[i] # None)
  OBVIOUS
<1>6. Stay /\ UNCHANGED <<monarch, created, marked, cache, blind, failures>>
      /\ (~ overlap' => ~ overlap /\ \A q \in Runner : run[q].pc \notin Locked)
  BY DEF Lock
<1>7. overlap' \in BOOLEAN
  BY <1>1 DEF Lock, Shared
<1> HIDE DEF b, pc, i
<1>8. Fit(b, created')
  BY <1>4, <1>5, <1>6 DEF Fit
<1>9. Shared'
  BY <1>1, <1>6, <1>7 DEF Shared, Accounts, Stay, pointers
<1>10. Sound(r, b)
  <2>1. \A a \in DOMAIN monarch : \A t \in Tx : monarch[a][t] \in Nat
    BY <1>1 DEF Shared, Accounts
  <2>2. b.inst # None /\ (overlap => overlap') /\ (blind => blind')
    BY <1>1, <1>4, <1>6, Numbers
  <2>3. ASSUME ~ overlap'
        PROVE  /\ OneAtWork
               /\ b.pc = "dedup" => b.acct \in DOMAIN monarch
               /\ \A t \in b.synced \cup b.existing : In(t)
    BY <1>1, <1>4, <1>5, <1>6, <2>3 DEF MInv, OneAtWork
  <2>4. b.pc \in {"list", "dedup"}
    BY <1>4, <1>5
  <2>5. ~ overlap' /\ ~ blind' => NoneTwice
    BY <1>6 DEF MInv
  <2> QED
    BY <1>6, <2>1, <2>2, <2>3, <2>4, <2>5 DEF Sound, OneAtWork, NoneTwice
<1> QED
  BY <1>2, <1>6, <1>8, <1>9, <1>10, StayStep

LEMMA ListAccountsKeeps ==
    ASSUME MInv, NEW r \in Runner, ListAccounts(r)
    PROVE  MInv'
<1>1. /\ run[r] \in Batch(created) /\ created \in Nat /\ run[r].inst \in Instance /\ Shared
      /\ run[r].pc = "list" /\ run[r].pc \in Locked
  BY BatchNow, PcNames DEF ListAccounts, At
<1>2. Stay /\ UNCHANGED <<monarch, created, marked, history, failures>>
  BY DEF ListAccounts
<1>3. ~ overlap => OneAtWork
  BY DEF MInv
<1>4. ~ overlap /\ ~ blind => NoneTwice
  BY DEF MInv
<1>5. \A a \in DOMAIN monarch : \A t \in Tx : monarch[a][t] \in Nat
  BY <1>1 DEF Shared, Accounts
<1>6. CASE DOMAIN monarch = {}
  <2> DEFINE b == AtPc(run[r], "create")
  <2>1. run' = [run EXCEPT ![r] = b] /\ cache' = cache
    BY <1>6 DEF ListAccounts, AtPc
  <2>2. b \in Batch(created) /\ b.pc = "create" /\ b.inst = run[r].inst
        /\ b.existing = run[r].existing /\ b.synced = run[r].synced
    <3>1. run[r] \in Batch(created) /\ created \in Nat /\ "create" \in Pcs
      BY <1>1, PcNames
    <3> QED
      BY <3>1, PcChanges
  <2> HIDE DEF b
  <2>3. Fit(b, created')
    BY <1>2, <2>2 DEF Fit
  <2>4. Shared'
    BY <1>1, <1>2, <2>1 DEF Shared, Accounts, Stay, pointers, history
  <2>5. Sound(r, b)
    BY <1>1, <1>2, <1>3, <1>4, <1>5, <1>6, <2>1, <2>2, Numbers
       DEF Sound, OneAtWork, NoneTwice, history
  <2> QED
    BY <1>2, <2>1, <2>3, <2>4, <2>5, StayStep
<1>7. CASE DOMAIN monarch # {}
  <2> DEFINE first == Min(DOMAIN monarch)
             dups == DOMAIN monarch \ {first}
             pc == IF DOMAIN monarch = {first} THEN "dedup" ELSE "cleanup"
             b == Found(run[r], first, dups, pc)
  <2>1. first \in DOMAIN monarch /\ first \in 1 .. created
    <3>1. DOMAIN monarch \in SUBSET Nat /\ DOMAIN monarch \subseteq 1 .. created
      BY <1>1 DEF Shared, Accounts
    <3> QED
      BY <1>7, <3>1, MinIs
  <2>2. run' = [run EXCEPT ![r] = b] /\ cache' = [cache EXCEPT ![run[r].inst] = first]
    BY <1>7 DEF ListAccounts, Found
  <2>3. dups \in SUBSET (1 .. created) /\ pc \in Pcs /\ first \in 0 .. created
    BY <1>1, <2>1, PcNames DEF Shared, Accounts
  <2>4. pc \in {"dedup", "cleanup"} /\ (pc = "cleanup" => DOMAIN monarch # {first})
    OBVIOUS
  <2> HIDE DEF dups, pc, first
  <2>5. b \in Batch(created) /\ b.pc = pc /\ b.inst = run[r].inst /\ b.acct = first
        /\ b.existing = run[r].existing /\ b.synced = run[r].synced
    BY <1>1, <2>3, FoundChanges
  <2> HIDE DEF b
  <2>6. Fit(b, created')
    BY <1>2, <2>1, <2>5, Numbers DEF Fit
  <2>7. cache' \in [Instance -> 0 .. created']
    BY <1>1, <1>2, <2>2, <2>3 DEF Shared
  <2>8. Shared'
    BY <1>1, <1>2, <2>7 DEF Shared, Accounts, Stay, pointers, history
  <2>9. cache \in [Instance -> 0 .. created]
    BY <1>1 DEF Shared
  <2>10. ASSUME ~ overlap
         PROVE  /\ pc = "dedup"
                /\ \A j \in Instance : cache'[j] \in DOMAIN monarch \cup {None}
    BY <1>3, <2>1, <2>2, <2>4, <2>9, <2>10 DEF OneAtWork
  <2>11. Sound(r, b)
    BY <1>1, <1>2, <1>3, <1>4, <1>5, <2>1, <2>4, <2>5, <2>10, Numbers
       DEF Sound, OneAtWork, NoneTwice, history
  <2> QED
    BY <1>2, <2>2, <2>6, <2>8, <2>11, StayStep
<1> QED
  BY <1>6, <1>7

LEMMA DeleteDuplicateKeeps ==
    ASSUME MInv, NEW r \in Runner, DeleteDuplicate(r)
    PROVE  MInv'
<1> DEFINE d == Min(run[r].dups)
           pc == IF run[r].dups = {d} THEN "dedup" ELSE run[r].pc
           dups == run[r].dups \ {d}
           b == Less(run[r], dups, pc)
<1>1. /\ run[r] \in Batch(created) /\ created \in Nat /\ run[r].inst \in Instance /\ Shared
      /\ run[r].pc = "cleanup" /\ pc \in Pcs /\ dups \in SUBSET (1 .. created)
      /\ run[r].acct # None
  BY BatchNow, PcNames DEF DeleteDuplicate, At, Fit
<1>2. run' = [run EXCEPT ![r] = b]
  <2>1. run' = [run EXCEPT ![r] = [run[r] EXCEPT !.dups = run[r].dups \ {d}, !.pc = pc]]
    BY DEF DeleteDuplicate
  <2> QED
    BY <2>1 DEF Less
<1>3. Stay /\ UNCHANGED <<created, marked, cache, history>>
  BY DEF DeleteDuplicate
<1>4. Accounts' /\ failures' \in Nat
  <2>1. \/ monarch' = [a \in DOMAIN monarch \ {d} |-> monarch[a]] /\ failures' = failures
        \/ monarch' = monarch /\ failures' = failures + 1
    BY DEF DeleteDuplicate, MayFail
  <2> HIDE DEF d
  <2> QED
    BY <1>1, <1>3, <2>1 DEF Shared, Accounts
<1>5. pc \in {"dedup", "cleanup"}
  BY <1>1
<1> HIDE DEF pc, dups
<1>6. b \in Batch(created) /\ b.pc = pc /\ b.inst = run[r].inst /\ b.acct = run[r].acct
  BY <1>1, LessChanges
<1> HIDE DEF b
<1>7. Fit(b, created')
  BY <1>1, <1>3, <1>6 DEF Fit
<1>8. Shared'
  BY <1>1, <1>3, <1>4 DEF Shared, Stay, pointers, history
<1>9. overlap
  BY <1>1 DEF MInv, OneAtWork
<1>10. Sound(r, b)
  BY <1>1, <1>3, <1>6, <1>9, Numbers DEF Sound, history
<1> QED
  BY <1>2, <1>3, <1>7, <1>8, <1>10, StayStep

\* With nobody else at work the account that is created is the only one.
LEMMA CreateAccountKeeps ==
    ASSUME MInv, NEW r \in Runner, CreateAccount(r)
    PROVE  MInv'
<1>1. /\ run[r] \in Batch(created) /\ created \in Nat /\ run[r].inst \in Instance /\ Shared
      /\ run[r].pc = "create" /\ run[r].pc \in Locked /\ Fit(run[r], created)
  BY BatchNow, PcNames DEF CreateAccount, At
<1>2. Stay /\ UNCHANGED <<marked, history>> /\ created' = created + 1
  BY DEF CreateAccount
<1>3. /\ monarch' = [a \in DOMAIN monarch \cup {created'} |->
                      IF a = created' THEN [t \in Tx |-> 0] ELSE monarch[a]]
  BY DEF CreateAccount
<1>4. created' \in Nat /\ created' # None /\ created' \in 1 .. created'
      /\ created' \in 0 .. created'
  BY <1>1, <1>2 DEF None
<1>5. Accounts'
  <2>1. DOMAIN monarch' \subseteq 1 .. created'
    BY <1>1, <1>2, <1>3, <1>4 DEF Shared, Accounts
  <2> QED
    BY <1>1, <1>3, <2>1 DEF Shared, Accounts
<1>6. run[r] \in Batch(created')
  BY <1>1, <1>2, <1>4, MoreAccounts DEF Fit
<1>7. ~ overlap => OneAtWork /\ DOMAIN monarch = {} /\ DOMAIN monarch' = {created'}
  BY <1>1, <1>3 DEF MInv, OneAtWork
<1>8. \A i \in Instance : cache[i] \in 0 .. created'
  BY <1>1, <1>2 DEF Shared
<1>9. DOMAIN monarch \subseteq DOMAIN monarch'
  BY <1>3
<1>10. ASSUME ~ overlap
       PROVE  /\ \A a, c \in DOMAIN monarch' : a = c
              /\ \A a \in DOMAIN monarch : \A t \in Tx : monarch'[a][t] >= monarch[a][t]
              /\ \A a \in DOMAIN monarch' : \A t \in Tx : monarch'[a][t] <= 1
  BY <1>3, <1>7, <1>10
<1>11. CASE run' = [run EXCEPT ![r].pc = "dedup", ![r].acct = created']
            /\ cache' = [cache EXCEPT ![run[r].inst] = created'] /\ failures' = failures
  <2> DEFINE b == Held(run[r], "dedup", created')
  <2>1. run' = [run EXCEPT ![r] = b]
    BY <1>11 DEF Held
  <2>2. b \in Batch(created') /\ b.pc = "dedup" /\ b.inst = run[r].inst /\ b.acct = created'
        /\ b.existing = run[r].existing /\ b.synced = run[r].synced
    <3>1. "dedup" \in Pcs
      BY PcNames
    <3> QED
      BY <1>4, <1>6, <3>1, HeldChanges
  <2> HIDE DEF b
  <2>3. Fit(b, created')
    BY <1>1, <1>4, <2>2 DEF Fit
  <2>4. cache' \in [Instance -> 0 .. created']
    BY <1>1, <1>4, <1>8, <1>11 DEF Shared
  <2>5. Shared'
    BY <1>1, <1>2, <1>4, <1>5, <1>11, <2>4 DEF Shared, Stay, pointers, history
  <2>6. ~ overlap => \A i \in Instance : cache'[i] \in DOMAIN monarch' \cup {None}
    BY <1>1, <1>7, <1>11 DEF OneAtWork, Shared
  <2>7. ~ overlap => \A t \in b.synced \cup b.existing : In(t)
    BY <1>7, <2>2 DEF OneAtWork
  <2>8. ~ overlap => b.acct \in DOMAIN monarch'
    BY <1>7, <2>2
  <2>9. Sound(r, b)
    BY <1>1, <1>2, <1>9, <1>10, <2>2, <2>6, <2>7, <2>8, Numbers DEF Sound, history
  <2> QED
    BY <1>2, <2>1, <2>3, <2>5, <2>9, StayStep
<1>12. CASE run' = [run EXCEPT ![r] = NoBatch] /\ cache' = cache /\ MayFail
  <2>1. NoBatch \in Batch(created') /\ NoBatch.pc = "idle"
        /\ NoBatch.existing = {} /\ NoBatch.synced = {}
    <3>1. {} \in SUBSET Tx
      OBVIOUS
    <3> QED
      BY <1>4, <3>1, NewBatches
  <2>2. Fit(NoBatch, created')
    BY <2>1 DEF Fit
  <2>3. cache' \in [Instance -> 0 .. created']
    BY <1>1, <1>8, <1>12 DEF Shared
  <2>4. Shared'
    BY <1>1, <1>2, <1>4, <1>5, <1>12, <2>3 DEF Shared, Stay, pointers, history, MayFail
  <2>5. ~ overlap => \A i \in Instance : cache'[i] \in DOMAIN monarch' \cup {None}
    BY <1>7, <1>12 DEF OneAtWork
  <2>6. Sound(r, NoBatch)
    BY <1>1, <1>2, <1>9, <1>10, <2>1, <2>5, PcNames DEF Sound, history
  <2> QED
    BY <1>2, <1>12, <2>2, <2>4, <2>6, StayStep
<1> QED
  BY <1>11, <1>12 DEF CreateAccount

\* A step of a batch that leaves Monarch and the record alone, or records what it synced.
LEMMA QuietStep ==
    ASSUME MInv, NEW r \in Runner, NEW b, run' = [run EXCEPT ![r] = b], b \in Batch(created),
           b.pc \in {"cleanup", "dedup", "post"} => b.pc = "post" /\ b.acct = run[r].acct
                                                    /\ run[r].pc \in {"dedup", "post"},
           b.pc \in {"idle", "mark", "post"},
           b.pc # "idle" => b.inst = run[r].inst /\ run[r].pc \notin {"idle", "call"},
           Stay, UNCHANGED <<monarch, created, cache, overlap>>,
           marked' \subseteq Tx, \A t \in marked' : t \in marked \/ t \in run[r].synced,
           blind' \in BOOLEAN, blind => blind', failures' \in Nat,
           ~ overlap => \A t \in b.synced \cup b.existing : In(t),
           ~ overlap /\ ~ blind' /\ b.pc = "post" =>
               \A t \in b.todo \ b.existing : monarch[b.acct][t] = 0
    PROVE  MInv'
<1>1. /\ run[r] \in Batch(created) /\ created \in Nat /\ Shared /\ Fit(run[r], created)
      /\ run[r].pc \notin {"idle", "call"} => run[r].inst \in Instance
  BY BatchNow
<1>2. Fit(b, created')
  BY <1>1 DEF Fit
<1>3. Shared'
  BY <1>1 DEF Shared, Accounts, Stay, pointers
<1>4. \A a \in DOMAIN monarch : \A t \in Tx : monarch[a][t] \in Nat
  BY <1>1 DEF Shared, Accounts
<1>5. /\ ~ overlap => OneAtWork
      /\ ~ overlap /\ ~ blind' => NoneTwice
  BY DEF MInv
<1>6. b.pc \notin {"idle", "call"} => b.inst # None
  BY <1>1, Numbers
<1>7. b.pc \in Locked => run[r].pc \in Locked
  BY PcNames DEF Locked
<1>8. b.pc # "create" /\ b.pc # "cleanup" /\ b.pc # "dedup"
  OBVIOUS
<1>9. ~ overlap /\ b.pc = "post" => b.acct \in DOMAIN monarch
  BY <1>5 DEF OneAtWork
<1>10. Sound(r, b)
  BY <1>4, <1>5, <1>6, <1>7, <1>8, <1>9 DEF Sound, OneAtWork, NoneTwice
<1> QED
  BY <1>2, <1>3, <1>10, StayStep

LEMMA BatchFailsKeeps ==
    ASSUME MInv, NEW r \in Runner, BatchFails(r)
    PROVE  MInv'
<1>1. created \in Nat /\ Shared
  BY BatchNow
<1>2. NoBatch \in Batch(created) /\ NoBatch.pc = "idle"
      /\ NoBatch.existing = {} /\ NoBatch.synced = {}
  <2>1. {} \in SUBSET Tx
    OBVIOUS
  <2> QED
    BY <1>1, <2>1, NewBatches
<1>3. /\ run' = [run EXCEPT ![r] = NoBatch] /\ Stay
      /\ UNCHANGED <<monarch, created, marked, cache, blind, overlap>> /\ failures' \in Nat
  BY <1>1 DEF BatchFails, history, MayFail, Shared
<1>4. marked' \subseteq Tx /\ (\A t \in marked' : t \in marked) /\ blind' \in BOOLEAN
  BY <1>1, <1>3 DEF Shared
<1> QED
  BY <1>2, <1>3, <1>4, QuietStep

LEMMA EndBatchKeeps ==
    ASSUME MInv, NEW r \in Runner, EndBatch(r)
    PROVE  MInv'
<1>1. /\ created \in Nat /\ Shared /\ run[r] \in Batch(created) /\ run[r].pc = "post"
  BY BatchNow DEF EndBatch, At
<1>2. /\ Stay /\ UNCHANGED <<monarch, created, marked, cache, blind, overlap>>
      /\ failures' \in Nat /\ blind' \in BOOLEAN
  BY <1>1 DEF EndBatch, history, Shared
<1>3. marked' \subseteq Tx /\ (\A t \in marked' : t \in marked)
  BY <1>1, <1>2 DEF Shared
<1>4. CASE run[r].synced = {}
  <2>1. NoBatch \in Batch(created) /\ NoBatch.pc = "idle"
        /\ NoBatch.existing = {} /\ NoBatch.synced = {}
    <3>1. {} \in SUBSET Tx
      OBVIOUS
    <3> QED
      BY <1>1, <3>1, NewBatches
  <2>2. run' = [run EXCEPT ![r] = NoBatch]
    BY <1>4 DEF EndBatch
  <2> QED
    BY <1>2, <1>3, <2>1, <2>2, QuietStep
<1>5. CASE run[r].synced # {}
  <2> DEFINE b == AtPc(run[r], "mark")
  <2>1. b \in Batch(created) /\ b.pc = "mark" /\ b.inst = run[r].inst
        /\ b.existing = run[r].existing /\ b.synced = run[r].synced
    <3>1. "mark" \in Pcs
      BY PcNames
    <3> QED
      BY <1>1, <3>1, PcChanges
  <2>2. run' = [run EXCEPT ![r] = b]
    BY <1>5 DEF EndBatch, AtPc
  <2> HIDE DEF b
  <2>3. ~ overlap => \A t \in b.synced \cup b.existing : In(t)
    BY <2>1 DEF MInv, OneAtWork
  <2> QED
    BY <1>1, <1>2, <1>3, <2>1, <2>2, <2>3, QuietStep
<1> QED
  BY <1>4, <1>5

LEMMA MarkKeeps ==
    ASSUME MInv, NEW r \in Runner, NEW t \in Tx, Mark(r, t)
    PROVE  MInv'
<1>1. /\ created \in Nat /\ Shared /\ run[r] \in Batch(created) /\ run[r].pc = "mark"
      /\ run[r].synced \in SUBSET Tx /\ t \in run[r].synced
  BY BatchNow DEF Mark, At
<1>2. /\ Stay /\ UNCHANGED <<monarch, created, cache, blind, overlap>>
      /\ failures' \in Nat /\ blind' \in BOOLEAN
  BY <1>1 DEF Mark, history, Shared, MayFail
<1>3. marked' \subseteq Tx /\ (\A u \in marked' : u \in marked \/ u \in run[r].synced)
  BY <1>1 DEF Shared, Mark
<1>4. CASE run[r].synced = {t}
  <2>1. NoBatch \in Batch(created) /\ NoBatch.pc = "idle"
        /\ NoBatch.existing = {} /\ NoBatch.synced = {}
    <3>1. {} \in SUBSET Tx
      OBVIOUS
    <3> QED
      BY <1>1, <3>1, NewBatches
  <2>2. run' = [run EXCEPT ![r] = NoBatch]
    BY <1>4 DEF Mark
  <2> QED
    BY <1>2, <1>3, <2>1, <2>2, QuietStep
<1>5. CASE run[r].synced # {t}
  <2> DEFINE rest == run[r].synced \ {t}
             b == Recorded(run[r], rest)
  <2>1. b \in Batch(created) /\ b.pc = "mark" /\ b.inst = run[r].inst
        /\ b.existing = run[r].existing /\ b.synced = rest
    <3>1. rest \in SUBSET Tx
      BY <1>1
    <3>2. run[r] \in Batch(created)
      BY <1>1
    <3> HIDE DEF rest
    <3> QED
      BY <1>1, <3>1, <3>2, RecordedChanges
  <2>2. run' = [run EXCEPT ![r] = b]
    BY <1>5 DEF Mark, Recorded
  <2>3. rest \subseteq run[r].synced
    OBVIOUS
  <2> HIDE DEF b, rest
  <2>4. ~ overlap => \A u \in b.synced \cup b.existing : In(u)
    BY <2>1, <2>3 DEF MInv, OneAtWork
  <2> QED
    BY <1>1, <1>2, <1>3, <2>1, <2>2, <2>4, QuietStep
<1> QED
  BY <1>4, <1>5

\* The lookup under the mutex: what it does not find is not in Monarch.
LEMMA DedupKeeps ==
    ASSUME MInv, NEW r \in Runner, Dedup(r)
    PROVE  MInv'
<1> DEFINE a == run[r].acct
           found == {t \in Tx : a \in DOMAIN monarch /\ monarch[a][t] > 0}
<1>1. /\ created \in Nat /\ Shared /\ run[r] \in Batch(created) /\ run[r].pc = "dedup"
      /\ run[r].todo \in SUBSET Tx /\ found \in SUBSET Tx
  BY BatchNow DEF Dedup, At
<1>2. /\ Stay /\ UNCHANGED <<monarch, created, marked, cache, overlap>>
  BY DEF Dedup
<1>3. marked' \subseteq Tx /\ (\A u \in marked' : u \in marked)
  BY <1>1, <1>2 DEF Shared
<1>4. CASE run' = [run EXCEPT ![r].pc = "post", ![r].existing = found]
           /\ UNCHANGED <<blind, failures>>
  <2> DEFINE b == Looked(run[r], found)
  <2>1. b \in Batch(created) /\ b.pc = "post" /\ b.inst = run[r].inst /\ b.acct = run[r].acct
        /\ b.todo = run[r].todo /\ b.existing = found /\ b.synced = run[r].synced
    <3> HIDE DEF found
    <3>1. found \in SUBSET Tx /\ run[r] \in Batch(created) /\ created \in Nat
      BY <1>1
    <3> QED
      BY <3>1, LookedChanges
  <2>2. run' = [run EXCEPT ![r] = b]
    BY <1>4 DEF Looked
  <2> HIDE DEF b
  <2>3. \A t \in found : In(t)
    BY DEF In
  <2>4. ~ overlap => \A t \in b.synced \cup b.existing : In(t)
    BY <2>1, <2>3 DEF MInv, OneAtWork
  <2>5. ~ overlap => \A t \in b.todo \ b.existing : monarch[b.acct][t] = 0
    <3> SUFFICES ASSUME ~ overlap, NEW t \in b.todo \ b.existing PROVE monarch[b.acct][t] = 0
      OBVIOUS
    <3>1. a \in DOMAIN monarch /\ t \in Tx
      BY <1>1, <2>1 DEF MInv, OneAtWork
    <3>2. monarch[a][t] \in Nat
      BY <1>1, <3>1 DEF Shared, Accounts
    <3>3. ~ (monarch[a][t] > 0)
      BY <2>1, <3>1
    <3> QED
      BY <2>1, <3>2, <3>3
  <2>6. failures' \in Nat /\ blind' \in BOOLEAN /\ (blind => blind')
    BY <1>1, <1>4 DEF Shared
  <2> HIDE DEF found, a
  <2> QED
    BY <1>1, <1>2, <1>3, <2>1, <2>2, <2>4, <2>5, <2>6, QuietStep
<1>5. CASE run' = [run EXCEPT ![r].pc = "post"] /\ blind' = TRUE /\ MayFail
  <2> DEFINE b == AtPc(run[r], "post")
  <2>1. b \in Batch(created) /\ b.pc = "post" /\ b.inst = run[r].inst /\ b.acct = run[r].acct
        /\ b.existing = run[r].existing /\ b.synced = run[r].synced
    <3>1. "post" \in Pcs
      BY PcNames
    <3> QED
      BY <1>1, <3>1, PcChanges
  <2>2. run' = [run EXCEPT ![r] = b]
    BY <1>5 DEF AtPc
  <2> HIDE DEF b
  <2>3. ~ overlap => \A t \in b.synced \cup b.existing : In(t)
    BY <2>1 DEF MInv, OneAtWork
  <2>4. failures' \in Nat /\ blind' \in BOOLEAN /\ (blind => blind')
    BY <1>1, <1>5 DEF Shared, MayFail
  <2> HIDE DEF found, a
  <2> QED
    BY <1>1, <1>2, <1>3, <1>5, <2>1, <2>2, <2>3, <2>4, QuietStep
<1> QED
  BY <1>4, <1>5 DEF Dedup

LEMMA SkipTxKeeps ==
    ASSUME MInv, NEW r \in Runner, NEW t \in Tx, SkipTx(r, t)
    PROVE  MInv'
<1> DEFINE ids == {t} \ Worthless
           todo == run[r].todo \ {t}
           synced == run[r].synced \cup ids
           b == Worked(run[r], todo, synced)
<1>1. /\ created \in Nat /\ Shared /\ run[r] \in Batch(created) /\ run[r].pc = "post"
      /\ todo \in SUBSET Tx /\ synced \in SUBSET Tx
  BY BatchNow DEF SkipTx, Pending, At
<1>2. /\ Stay /\ UNCHANGED <<monarch, created, marked, cache, blind, overlap>>
      /\ failures' \in Nat /\ blind' \in BOOLEAN
  BY <1>1 DEF SkipTx, history, Shared
<1>3. marked' \subseteq Tx /\ (\A u \in marked' : u \in marked)
  BY <1>1, <1>2 DEF Shared
<1>4. run' = [run EXCEPT ![r] = b]
  BY DEF SkipTx, Done, Worked
<1>5. todo \subseteq run[r].todo /\ synced \subseteq run[r].synced \cup run[r].existing
  BY DEF SkipTx
<1> HIDE DEF todo, synced, ids
<1>6. b \in Batch(created) /\ b.pc = run[r].pc /\ b.inst = run[r].inst /\ b.acct = run[r].acct
      /\ b.todo = todo /\ b.existing = run[r].existing /\ b.synced = synced
  BY <1>1, WorkedChanges
<1> HIDE DEF b
<1>7. ~ overlap => \A u \in b.synced \cup b.existing : In(u)
  BY <1>5, <1>6 DEF MInv, OneAtWork
<1>8. ~ overlap /\ ~ blind => \A u \in b.todo \ b.existing : monarch[b.acct][u] = 0
  BY <1>1, <1>5, <1>6 DEF MInv, NoneTwice
<1> QED
  BY <1>1, <1>2, <1>3, <1>4, <1>6, <1>7, <1>8, QuietStep

LEMMA CreateTxFailsKeeps ==
    ASSUME MInv, NEW r \in Runner, NEW t \in Tx, CreateTxFails(r, t)
    PROVE  MInv'
<1> DEFINE todo == run[r].todo \ {t}
           synced == run[r].synced \cup {}
           b == Worked(run[r], todo, synced)
<1>1. /\ created \in Nat /\ Shared /\ run[r] \in Batch(created) /\ run[r].pc = "post"
      /\ todo \in SUBSET Tx /\ synced \in SUBSET Tx
  BY BatchNow DEF CreateTxFails, Pending, At
<1>2. /\ Stay /\ UNCHANGED <<monarch, created, marked, cache, blind, overlap>>
      /\ failures' \in Nat /\ blind' \in BOOLEAN
  BY <1>1 DEF CreateTxFails, history, Shared, MayFail
<1>3. marked' \subseteq Tx /\ (\A u \in marked' : u \in marked)
  BY <1>1, <1>2 DEF Shared
<1>4. run' = [run EXCEPT ![r] = b]
  BY DEF CreateTxFails, Done, Worked
<1>5. todo \subseteq run[r].todo /\ synced \subseteq run[r].synced
  OBVIOUS
<1> HIDE DEF todo, synced
<1>6. b \in Batch(created) /\ b.pc = run[r].pc /\ b.inst = run[r].inst /\ b.acct = run[r].acct
      /\ b.todo = todo /\ b.existing = run[r].existing /\ b.synced = synced
  BY <1>1, WorkedChanges
<1> HIDE DEF b
<1>7. ~ overlap => \A u \in b.synced \cup b.existing : In(u)
  BY <1>5, <1>6 DEF MInv, OneAtWork
<1>8. ~ overlap /\ ~ blind => \A u \in b.todo \ b.existing : monarch[b.acct][u] = 0
  BY <1>1, <1>5, <1>6 DEF MInv, NoneTwice
<1> QED
  BY <1>1, <1>2, <1>3, <1>4, <1>6, <1>7, <1>8, QuietStep

\* A transaction is created when the lookup has not found it: then it is not there yet.
LEMMA CreateTxKeeps ==
    ASSUME MInv, NEW r \in Runner, NEW t \in Tx, CreateTx(r, t)
    PROVE  MInv'
<1> DEFINE acct == run[r].acct
           todo == run[r].todo \ {t}
<1>1. /\ created \in Nat /\ Shared /\ run[r] \in Batch(created) /\ run[r].pc = "post"
      /\ run[r].pc \in Locked /\ run[r].inst \in Instance /\ Fit(run[r], created)
      /\ run[r].todo \in SUBSET Tx /\ todo \in SUBSET Tx /\ run[r].synced \in SUBSET Tx
  BY BatchNow, PcNames DEF CreateTx, Pending, At
<1>2. /\ Stay /\ UNCHANGED <<created, marked, cache, blind, overlap>>
      /\ failures' \in Nat
  BY <1>1 DEF CreateTx, history, Shared, MayFail
<1>3. t \in run[r].todo /\ t \notin run[r].existing
  <2>1. run[r].todo \in SUBSET Nat /\ run[r].todo # {}
    BY <1>1, TxAssumption DEF CreateTx, Pending
  <2> QED
    BY <2>1, MinIs DEF CreateTx, Pending
<1>4. acct \in DOMAIN monarch /\ monarch' = [monarch EXCEPT ![acct][t] = @ + 1]
  BY DEF CreateTx
<1>5. PICK ids \in SUBSET {t} : Done(r, t, ids)
  BY DEF CreateTx
<1> DEFINE synced == run[r].synced \cup ids
           b == Worked(run[r], todo, synced)
<1>6. run' = [run EXCEPT ![r] = b]
  BY <1>5 DEF Done, Worked
<1>7. synced \in SUBSET Tx /\ todo \subseteq run[r].todo /\ t \notin todo
  BY <1>1
<1>8. \A u \in synced : u \in run[r].synced \/ u = t
  OBVIOUS
<1> HIDE DEF todo, synced, acct
<1>9. b \in Batch(created) /\ b.pc = run[r].pc /\ b.inst = run[r].inst /\ b.acct = run[r].acct
      /\ b.todo = todo /\ b.existing = run[r].existing /\ b.synced = synced
  BY <1>1, <1>7, WorkedChanges
<1> HIDE DEF b
<1>10. /\ DOMAIN monarch' = DOMAIN monarch
       /\ \A a \in DOMAIN monarch : monarch[a] \in [Tx -> Nat]
  BY <1>1, <1>4 DEF Shared, Accounts
<1>11. \A a \in DOMAIN monarch : \A u \in Tx :
          /\ monarch[a][u] \in Nat
          /\ monarch'[a][u] = IF a = acct /\ u = t THEN monarch[a][u] + 1 ELSE monarch[a][u]
  BY <1>4, <1>10
<1>12. Accounts'
  <2>1. \A a \in DOMAIN monarch' : monarch'[a] \in [Tx -> Nat]
    BY <1>4, <1>10
  <2> QED
    BY <1>1, <1>2, <1>10, <2>1 DEF Shared, Accounts
<1>13. Shared'
  BY <1>1, <1>2, <1>12 DEF Shared, Stay, pointers
<1>14. Fit(b, created')
  BY <1>1, <1>2, <1>9 DEF Fit
<1>15. In(t)'
  <2>1. acct \in DOMAIN monarch' /\ monarch'[acct][t] > 0
    BY <1>4, <1>10, <1>11
  <2> QED
    BY <2>1 DEF In
<1>16. ~ overlap => \A u \in b.synced \cup b.existing : In(u) \/ In(u)'
  BY <1>8, <1>9, <1>15 DEF MInv, OneAtWork
<1>17. \A a \in DOMAIN monarch : \A u \in Tx : monarch'[a][u] >= monarch[a][u]
  BY <1>11
<1>18. ASSUME ~ overlap, ~ blind
       PROVE  /\ \A a \in DOMAIN monarch' : \A u \in Tx : monarch'[a][u] <= 1
              /\ \A u \in b.todo \ b.existing : monarch'[b.acct][u] = 0
  <2>1. NoneTwice
    BY <1>18 DEF MInv
  <2>2. \A u \in run[r].todo \ run[r].existing : monarch[acct][u] = 0
    BY <1>1, <2>1 DEF NoneTwice, acct
  <2>3. \A a \in DOMAIN monarch' : \A u \in Tx : monarch'[a][u] <= 1
    BY <1>3, <1>10, <1>11, <2>1, <2>2 DEF NoneTwice
  <2>4. \A u \in b.todo \ b.existing :
           u \in Tx /\ u # t /\ u \in run[r].todo \ run[r].existing
    BY <1>1, <1>7, <1>9
  <2>5. b.acct = acct
    BY <1>9 DEF acct
  <2> QED
    BY <1>4, <1>11, <2>2, <2>3, <2>4, <2>5
<1>19. ~ overlap => OneAtWork
  BY DEF MInv
<1>20. Sound(r, b)
  <2>1. b.inst # None /\ b.pc = "post"
    BY <1>1, <1>9, Numbers
  <2>2. ~ overlap => /\ \A a, c \in DOMAIN monarch' : a = c
                     /\ \A i \in Instance : cache'[i] \in DOMAIN monarch' \cup {None}
                     /\ b.acct \in DOMAIN monarch'
    BY <1>1, <1>2, <1>9, <1>10, <1>19 DEF OneAtWork
  <2>3. DOMAIN monarch \subseteq DOMAIN monarch'
    BY <1>10
  <2> QED
    BY <1>1, <1>2, <1>16, <1>17, <1>18, <2>1, <2>2, <2>3 DEF Sound
<1> QED
  BY <1>2, <1>6, <1>13, <1>14, <1>20, StayStep

-----------------------------------------------------------------------------
(* The other steps.                                                         *)

\* A batch begins, or the background syncer is about to ask for the mutex.
LEMMA BatchStarts ==
    ASSUME MInv, NEW r \in Runner, NEW b, run' = [run EXCEPT ![r] = b], b \in Batch(created),
           b.pc \in {"call", "lock"}, b.pc = "lock" => b.inst # None,
           UNCHANGED <<monarch, created, marked, cache, blind, overlap>>,
           ~ overlap => \A t \in b.synced \cup b.existing : In(t),
           Shared', InstancesOK', PointersOK'
    PROVE  MInv'
<1>1. Shared /\ created \in Nat
  BY BatchNow, Numbers
<1>2. \A a \in DOMAIN monarch : \A t \in Tx : monarch[a][t] \in Nat
  BY <1>1 DEF Shared, Accounts
<1>3. Fit(b, created') /\ created <= created'
  BY <1>1 DEF Fit
<1>4. (~ overlap => OneAtWork) /\ (~ overlap /\ ~ blind => NoneTwice)
  BY DEF MInv
<1>5. b.pc \notin Locked
  BY PcNames
<1>6. Sound(r, b)
  BY <1>2, <1>4, <1>5 DEF Sound, OneAtWork, NoneTwice
<1> QED
  BY <1>3, <1>6, SoundKeeps

\* Nothing of the batches and of Monarch changes.
LEMMA OthersKeep ==
    ASSUME MInv, Shared', InstancesOK', PointersOK',
           UNCHANGED <<monarch, created, marked, cache, run, blind, overlap>>
    PROVE  MInv'
<1>1. TypeOK'
  <2>1. /\ run \in [Runner -> Batch(created)]
        /\ \A r \in Runner : Fit(run[r], created)
    BY TypeParts DEF MInv
  <2>2. /\ run' \in [Runner -> Batch(created')]
        /\ \A r \in Runner : Fit(run'[r], created')
    BY <2>1
  <2> QED
    BY <2>2, TypeParts
<1>2. Assigned' /\ (~ overlap' => OneAtWork') /\ (~ overlap' /\ ~ blind' => NoneTwice')
  BY DEF MInv, Assigned, OneAtWork, NoneTwice, In
<1> QED
  BY <1>1, <1>2 DEF MInv

LEMMA MaxOfTwo ==
    ASSUME NEW a \in Nat, NEW b \in Nat
    PROVE  Max({a, b}) = IF a >= b THEN a ELSE b
<1> DEFINE m == IF a >= b THEN a ELSE b
<1>1. m \in {a, b} /\ (\A y \in {a, b} : m >= y)
  OBVIOUS
<1>2. \A x \in {a, b} : (\A y \in {a, b} : x >= y) => x = m
  OBVIOUS
<1> HIDE DEF m
<1>3. Max({a, b}) = m
  BY <1>1, <1>2, Zenon DEF Max
<1> QED
  BY <1>3 DEF m

\* How many instances there are, in numbers.
LEMMA Counts ==
    ASSUME MInv
    PROVE  /\ made \in Nat /\ web \in Nat /\ web <= made /\ changes \in Nat
           /\ changes <= MaxChanges
           /\ handler = "connect" => made + 1 <= 1 + 2 * changes
           /\ web = None /\ token => made + 1 <= 1 + 2 * changes
           /\ handler = "connect" /\ web = None /\ token => made + 2 <= 1 + 2 * changes
           /\ made <= 1 + 2 * changes
<1>1. made \in Nat /\ web \in Nat /\ changes \in Nat
  BY Numbers DEF MInv, TypeOK
<1> QED
  BY <1>1 DEF MInv, InstancesOK, One

LEMMA CallSyncKeeps ==
    ASSUME MInv, NEW r \in Runner, CallSync(r)
    PROVE  MInv'
<1> DEFINE b == Called(run[r], Pointer(r))
<1>1. /\ run[r] \in Batch(created) /\ created \in Nat /\ Shared
      /\ Pointer(r) \in Instance \cup {None} /\ Pointer(r) # None
  BY BatchNow DEF CallSync, Pointer, Shared
<1>2. run' = [run EXCEPT ![r] = b]
  BY DEF CallSync, Called
<1>3. b \in Batch(created) /\ b.pc = "lock" /\ b.inst = Pointer(r)
      /\ b.existing = run[r].existing /\ b.synced = run[r].synced
  BY <1>1, CallChanges
<1> HIDE DEF b
<1>4. UNCHANGED <<monarch, created, marked, cache, blind, overlap>>
  BY DEF CallSync, Stay, history
<1>5. ~ overlap => \A t \in b.synced \cup b.existing : In(t)
  BY <1>1, <1>3 DEF MInv, OneAtWork
<1>6. Shared' /\ InstancesOK' /\ PointersOK'
  BY <1>1 DEF CallSync, Stay, MInv, Shared, Accounts, InstancesOK, PointersOK, pointers, history
<1> QED
  BY <1>1, <1>2, <1>3, <1>4, <1>5, <1>6, BatchStarts

LEMMA ListIsTx ==
    ASSUME MInv
    PROVE  ListUnsynced \in SUBSET Tx
BY DEF MInv, TypeOK, ListUnsynced

LEMMA BeginBatchKeeps ==
    ASSUME MInv, BeginBatch
    PROVE  MInv'
<1> DEFINE b == Listed(ListUnsynced)
<1>1. Background \in Runner /\ created \in Nat /\ Shared
  BY BatchNow, Numbers
<1>2. run' = [run EXCEPT ![Background] = b]
  BY DEF BeginBatch, Listed
<1>3. b \in Batch(created) /\ b.pc = "call" /\ b.existing = {} /\ b.synced = {}
  <2>1. ListUnsynced \in SUBSET Tx
    BY ListIsTx
  <2> QED
    BY <1>1, <2>1, NewBatches
<1> HIDE DEF b
<1>4. UNCHANGED <<monarch, created, marked, cache, blind, overlap>>
  BY DEF BeginBatch, dbVars, history
<1>5. Shared' /\ InstancesOK' /\ PointersOK'
  BY <1>1 DEF BeginBatch, MInv, Shared, Accounts, InstancesOK, PointersOK, dbVars, pointers, history
<1> QED
  BY <1>1, <1>2, <1>3, <1>4, <1>5, BatchStarts

LEMMA RequestSyncKeeps ==
    ASSUME MInv, NEW r \in Job, RequestSync(r)
    PROVE  MInv'
<1> DEFINE inst == IF web # None THEN web ELSE made + 1
           b == Listed(ListUnsynced)
<1>1. r \in Runner /\ created \in Nat /\ Shared
  BY BatchNow, Numbers
<1>2. /\ run' = [run EXCEPT ![r] = b]
      /\ web' = inst /\ made' = Max({made, inst})
  BY DEF RequestSync, Listed
<1>3. inst \in Nat /\ inst # None /\ inst <= 1 + 2 * changes /\ inst <= made + 1
      /\ (inst <= made \/ (inst = made + 1 /\ web = None /\ token))
  BY Counts, Numbers DEF RequestSync
<1>4. inst \in Instance
  BY <1>3, Counts, Numbers
<1> HIDE DEF inst
<1>5. made' = IF made >= inst THEN made ELSE inst
  BY <1>2, <1>3, Counts, MaxOfTwo
<1>6. b \in Batch(created) /\ b.pc = "call" /\ b.existing = {} /\ b.synced = {}
  <2>1. ListUnsynced \in SUBSET Tx
    BY ListIsTx
  <2> QED
    BY <1>1, <2>1, NewBatches
<1> HIDE DEF b
<1>7. UNCHANGED <<monarch, created, known, marked, token, up, handler, bg, cache, blind, overlap,
                  changes, failures>>
  BY DEF RequestSync, dbVars, history
<1>8. made' \in Instance /\ made' \in Nat /\ web' <= made'
  BY <1>2, <1>3, <1>4, <1>5, Counts, Numbers
<1>9. Shared'
  BY <1>1, <1>2, <1>4, <1>7, <1>8 DEF Shared, Accounts
<1>10. InstancesOK'
  <2>1. made' + One(handler' = "connect") <= 1 + 2 * changes'
    BY <1>3, <1>5, <1>7, Counts DEF One
  <2>2. One(web' = None /\ token') = 0
    BY <1>2, <1>3 DEF One
  <2>3. One(handler' = "connect") \in Nat
    BY DEF One
  <2> QED
    BY <1>7, <1>8, <2>1, <2>2, <2>3, Counts DEF InstancesOK
<1>11. PointersOK'
  BY <1>7 DEF MInv, PointersOK
<1> QED
  BY <1>1, <1>2, <1>3, <1>6, <1>7, <1>9, <1>10, <1>11, BatchStarts

LEMMA AppearKeeps ==
    ASSUME MInv, NEW t \in Tx, Appear(t)
    PROVE  MInv'
<1>1. Shared
  BY TypeParts DEF MInv
<1>2. Shared' /\ InstancesOK' /\ PointersOK'
  BY <1>1 DEF Appear, MInv, Shared, Accounts, InstancesOK, PointersOK, pointers, history
<1> QED
  BY <1>2, OthersKeep DEF Appear, pointers, history

LEMMA SaveTokenKeeps ==
    ASSUME MInv, SaveToken
    PROVE  MInv'
<1>1. Shared
  BY TypeParts DEF MInv
<1>2. /\ UNCHANGED <<monarch, created, known, marked, up, bg, web, made, cache, run, blind,
                     overlap, failures>>
      /\ up /\ handler = "idle" /\ changes < MaxChanges /\ changes' = changes + 1
      /\ token' \in BOOLEAN
      /\ handler' = IF token' THEN "connect" ELSE "disconnect"
  BY DEF SaveToken, dbVars, history
<1>3. Shared'
  BY <1>1, <1>2 DEF Shared, Accounts
<1>4. InstancesOK'
  BY <1>2, Counts, Numbers DEF InstancesOK, One
<1>5. PointersOK'
  BY <1>2 DEF PointersOK
<1> QED
  BY <1>2, <1>3, <1>4, <1>5, OthersKeep

LEMMA ConnectKeeps ==
    ASSUME MInv, Connect
    PROVE  MInv'
<1>1. Shared
  BY TypeParts DEF MInv
<1>2. /\ UNCHANGED <<monarch, created, known, marked, token, up, bg, cache, run, blind,
                     overlap, changes, failures>>
      /\ up /\ handler = "connect" /\ handler' = "idle"
      /\ web' = made + 1 /\ made' = made + 1
  BY DEF Connect, dbVars, history
<1>3. made' \in Instance
  BY <1>2, Counts, Numbers
<1>4. Shared'
  BY <1>1, <1>2, <1>3 DEF Shared, Accounts
<1>5. InstancesOK'
  BY <1>2, <1>3, Counts, Numbers DEF InstancesOK, One
<1>6. PointersOK'
  BY <1>2 DEF MInv, PointersOK
<1> QED
  BY <1>2, <1>4, <1>5, <1>6, OthersKeep

LEMMA DisconnectKeeps ==
    ASSUME MInv, Disconnect
    PROVE  MInv'
<1>1. Shared
  BY TypeParts DEF MInv
<1>2. /\ UNCHANGED <<monarch, created, known, marked, token, up, made, cache, run, blind,
                     overlap, changes, failures>>
      /\ up /\ handler = "disconnect" /\ handler' = "idle" /\ web' = None /\ bg' = None
      /\ ~ token
  BY DEF Disconnect, dbVars, history, MInv, PointersOK
<1>3. Shared'
  BY <1>1, <1>2 DEF Shared, Accounts
<1>4. InstancesOK'
  BY <1>2, Counts, Numbers DEF InstancesOK, One
<1>5. PointersOK'
  BY <1>2 DEF PointersOK
<1> QED
  BY <1>2, <1>3, <1>4, <1>5, OthersKeep

LEMMA RestartKeeps ==
    ASSUME MInv, Restart
    PROVE  MInv'
<1>1. Shared
  BY TypeParts DEF MInv
<1>2. /\ UNCHANGED <<monarch, created, known, marked, token, handler, cache, run, blind,
                     overlap, changes, failures>>
      /\ up' = TRUE /\ made' = (IF token THEN 1 ELSE 0) /\ bg' = made' /\ web' = made'
      /\ handler = "idle"
  BY DEF Restart, dbVars, history, MInv, PointersOK
<1>3. made' \in Instance \cup {None} /\ (made' = None <=> ~ token)
  BY <1>2, Numbers
<1>4. Shared'
  BY <1>1, <1>2, <1>3 DEF Shared, Accounts
<1>5. InstancesOK'
  <2>1. One(handler' = "connect") = 0 /\ One(web' = None /\ token') = 0
    BY <1>2, <1>3 DEF One
  <2>2. made' \in Nat /\ made' <= 1
    BY <1>2
  <2> QED
    BY <1>2, <2>1, <2>2, Counts DEF InstancesOK
<1>6. PointersOK'
  BY <1>2, <1>3 DEF MInv, PointersOK
<1> QED
  BY <1>2, <1>4, <1>5, <1>6, OthersKeep

LEMMA DownKeeps ==
    ASSUME MInv, Down, failures' \in Nat
    PROVE  MInv'
<1>1. Shared /\ created \in Nat
  BY BatchNow, Numbers
<1>2. /\ UNCHANGED <<monarch, created, known, marked, token, blind, overlap, changes>>
      /\ up' = FALSE /\ handler' = "idle" /\ bg' = None /\ web' = None /\ made' = 0
      /\ cache' = [i \in Instance |-> None] /\ run' = [r \in Runner |-> NoBatch]
  BY DEF Down, dbVars, history
<1>3. Shared'
  <2>1. None \in 0 .. created' /\ None \in Instance \cup {None} /\ 0 \in {None} \cup Instance
    BY <1>1, <1>2, Numbers
  <2>2. cache' \in [Instance -> 0 .. created']
    BY <1>2, <2>1
  <2> QED
    BY <1>1, <1>2, <2>1, <2>2 DEF Shared, Accounts
<1>4. NoBatch \in Batch(created) /\ NoBatch.pc = "idle"
      /\ NoBatch.existing = {} /\ NoBatch.synced = {}
  <2>1. {} \in SUBSET Tx
    OBVIOUS
  <2> QED
    BY <1>1, <2>1, NewBatches
<1>5. TypeOK'
  <2>1. /\ run' \in [Runner -> Batch(created')]
        /\ \A r \in Runner : Fit(run'[r], created')
    BY <1>2, <1>4 DEF Fit
  <2> QED
    BY <1>3, <2>1, TypeParts
<1>6. InstancesOK'
  BY <1>2, Counts, Numbers DEF InstancesOK, One
<1>7. PointersOK'
  BY <1>2 DEF PointersOK
<1>8. \A r \in Runner : run'[r] = NoBatch
  BY <1>2
<1>9. Assigned'
  BY <1>4, <1>8 DEF Assigned
<1>10. ~ overlap' => OneAtWork'
  <2>1. "idle" \notin Locked
    BY PcNames
  <2> QED
    BY <1>2, <1>4, <1>8, <2>1 DEF MInv, OneAtWork, In
<1>11. ~ overlap' /\ ~ blind' => NoneTwice'
  BY <1>2, <1>4, <1>8 DEF MInv, NoneTwice
<1> QED
  BY <1>5, <1>6, <1>7, <1>9, <1>10, <1>11 DEF MInv

-----------------------------------------------------------------------------
(* The invariant and the theorems.                                          *)

LEMMA MInvInit == Init => MInv
<1> SUFFICES ASSUME Init PROVE MInv
  OBVIOUS
<1>1. /\ DOMAIN monarch = {} /\ created = 0 /\ known = {} /\ marked = {} /\ token \in BOOLEAN
      /\ up = TRUE /\ handler = "idle" /\ made = (IF token THEN 1 ELSE 0)
      /\ bg = made /\ web = made /\ cache = [i \in Instance |-> None]
      /\ run = [r \in Runner |-> NoBatch] /\ blind = FALSE /\ overlap = FALSE
      /\ changes = 0 /\ failures = 0
  BY DEF Init
<1>2. made \in Instance \cup {None} /\ (made = None <=> ~ token) /\ made \in Nat /\ made <= 1
  BY <1>1, Numbers
<1>3. Shared
  <2>1. None \in 0 .. created /\ created \in Nat /\ changes \in Nat /\ failures \in Nat
    BY <1>1, Numbers
  <2>2. cache \in [Instance -> 0 .. created]
    BY <1>1, <2>1
  <2>3. Accounts
    BY <1>1 DEF Accounts
  <2> QED
    BY <1>1, <1>2, <2>1, <2>2, <2>3 DEF Shared
<1>4. NoBatch \in Batch(created) /\ NoBatch.pc = "idle"
      /\ NoBatch.existing = {} /\ NoBatch.synced = {}
  <2>1. {} \in SUBSET Tx /\ created \in Nat
    BY <1>1
  <2> QED
    BY <2>1, NewBatches
<1>5. TypeOK
  <2>1. run \in [Runner -> Batch(created)] /\ \A r \in Runner : Fit(run[r], created)
    BY <1>1, <1>4 DEF Fit
  <2> QED
    BY <1>3, <2>1, TypeParts
<1>6. InstancesOK
  <2>1. One(handler = "connect") = 0 /\ One(web = None /\ token) = 0
    BY <1>1, <1>2 DEF One
  <2> QED
    BY <1>1, <1>2, <2>1, Numbers DEF InstancesOK
<1>7. PointersOK
  BY <1>1, <1>2 DEF PointersOK
<1>8. \A r \in Runner : run[r] = NoBatch
  BY <1>1
<1>9. Assigned
  BY <1>4, <1>8 DEF Assigned
<1>10. OneAtWork
  <2>1. "idle" \notin Locked
    BY PcNames
  <2> QED
    BY <1>1, <1>4, <1>8, <2>1 DEF OneAtWork
<1>11. NoneTwice
  BY <1>1, <1>4, <1>8 DEF NoneTwice
<1> QED
  BY <1>5, <1>6, <1>7, <1>9, <1>10, <1>11 DEF MInv

LEMMA BatchStepKeeps ==
    ASSUME MInv, NEW r \in Runner, BatchStep(r)
    PROVE  MInv'
BY ListAccountsKeeps, DeleteDuplicateKeeps, CreateAccountKeeps, DedupKeeps, SkipTxKeeps,
   CreateTxKeeps, CreateTxFailsKeeps, MarkKeeps, EndBatchKeeps DEF BatchStep

LEMMA MInvNext == MInv /\ [Next]_vars => MInv'
<1> SUFFICES ASSUME MInv, [Next]_vars PROVE MInv'
  OBVIOUS
<1>1. ASSUME NEW t \in Tx, Appear(t) PROVE MInv'
  BY <1>1, AppearKeeps
<1>2. CASE SaveToken
  BY <1>2, SaveTokenKeeps
<1>3. CASE Connect
  BY <1>3, ConnectKeeps
<1>4. CASE Disconnect
  BY <1>4, DisconnectKeeps
<1>5. ASSUME NEW r \in Job, RequestSync(r) PROVE MInv'
  BY <1>5, RequestSyncKeeps
<1>6. CASE BeginBatch
  BY <1>6, BeginBatchKeeps
<1>7. ASSUME NEW r \in Runner, CallSync(r) PROVE MInv'
  BY <1>7, CallSyncKeeps
<1>8. ASSUME NEW r \in Runner, Lock(r) PROVE MInv'
  BY <1>8, LockKeeps
<1>9. ASSUME NEW r \in Runner, BatchStep(r) PROVE MInv'
  BY <1>9, BatchStepKeeps
<1>10. ASSUME NEW r \in Runner, BatchFails(r) PROVE MInv'
  BY <1>10, BatchFailsKeeps
<1>11. failures \in Nat
  BY DEF MInv, TypeOK
<1>12. ASSUME NEW r \in Runner, Panic(r) PROVE MInv'
  BY <1>11, <1>12, DownKeeps DEF Panic
<1>13. CASE Kill
  BY <1>11, <1>13, DownKeeps DEF Kill, MayFail
<1>14. CASE Restart
  BY <1>14, RestartKeeps
<1>15. CASE UNCHANGED vars
  <2>1. Shared
    BY TypeParts DEF MInv
  <2>2. Shared' /\ InstancesOK' /\ PointersOK'
    BY <1>15, <2>1 DEF vars, MInv, Shared, Accounts, InstancesOK, PointersOK
  <2> QED
    BY <1>15, <2>2, OthersKeep DEF vars
<1> QED
  BY <1>1, <1>2, <1>3, <1>4, <1>5, <1>6, <1>7, <1>8, <1>9, <1>10, <1>12, <1>13, <1>14, <1>15
     DEF Next

LEMMA MInvHolds == Spec => []MInv
BY MInvInit, MInvNext, PTL DEF Spec

\* Every variable stays in its set: in particular the process never makes more instances
\* than two per change of the token and one at its start, and a batch posts only to an
\* account it has found or created.
THEOREM TypeCorrect == Spec => []TypeOK
<1>1. MInv => TypeOK
  BY DEF MInv
<1> QED
  BY <1>1, MInvHolds, PTL

\* The copies of a transaction, when Monarch has no account of our name or one.
LEMMA CopiesOfNone ==
    ASSUME NEW t, DOMAIN monarch = {}
    PROVE  Copies(t) = 0
<1> DEFINE Sums(g) == g = [s \in SUBSET (DOMAIN monarch) |->
                             IF s = {} THEN 0
                             ELSE monarch[CHOOSE x \in s : TRUE][t]
                                  + g[s \ {CHOOSE x \in s : TRUE}]]
           it == [s \in SUBSET (DOMAIN monarch) |-> 0]
<1>1. Sums(it)
  OBVIOUS
<1>2. \A g : Sums(g) => g[DOMAIN monarch] = 0
  OBVIOUS
<1>3. Copies(t) = (CHOOSE g : Sums(g))[DOMAIN monarch]
  BY DEF Copies, MapThenSumSet, MapThenFoldSet
<1> HIDE DEF Sums
<1> QED
  BY <1>1, <1>2, <1>3

LEMMA CopiesOfOne ==
    ASSUME NEW t, NEW a, DOMAIN monarch = {a}, monarch[a][t] \in Int
    PROVE  Copies(t) = monarch[a][t]
<1> DEFINE Sums(g) == g = [s \in SUBSET (DOMAIN monarch) |->
                             IF s = {} THEN 0
                             ELSE monarch[CHOOSE x \in s : TRUE][t]
                                  + g[s \ {CHOOSE x \in s : TRUE}]]
           it == [s \in SUBSET (DOMAIN monarch) |-> IF s = {} THEN 0 ELSE monarch[a][t]]
<1>1. (CHOOSE x \in {a} : TRUE) = a
  OBVIOUS
<1>2. Sums(it)
  <2>1. \A s \in SUBSET {a} : s = {} \/ s = {a}
    OBVIOUS
  <2> QED
    BY <1>1, <2>1
<1>3. \A g : Sums(g) => g[DOMAIN monarch] = monarch[a][t]
  <2> SUFFICES ASSUME NEW g, Sums(g) PROVE g[{a}] = monarch[a][t]
    OBVIOUS
  <2>1. g[{}] = 0
    OBVIOUS
  <2> QED
    BY <1>1, <2>1
<1>4. Copies(t) = (CHOOSE g : Sums(g))[DOMAIN monarch]
  BY DEF Copies, MapThenSumSet, MapThenFoldSet
<1> HIDE DEF Sums
<1> QED
  BY <1>2, <1>3, <1>4

\* No transaction is in Monarch twice and what is recorded as synced is there, for any
\* number of batches, connects, lost answers and crashes.
THEOREM NothingTwice == Spec => []SyncedOnce
<1>1. MInv => SyncedOnce
  <2> SUFFICES ASSUME MInv, ~ overlap
               PROVE  /\ blind \/ \A t \in Tx : Copies(t) <= 1
                      /\ \A t \in marked : Copies(t) >= 1
    BY DEF SyncedOnce
  <2>1. OneAtWork /\ TypeOK /\ (~ blind => NoneTwice)
    BY DEF MInv
  <2>2. \A a \in DOMAIN monarch : \A t \in Tx : monarch[a][t] \in Nat
    BY <2>1 DEF TypeOK
  <2>3. marked \subseteq Tx
    BY <2>1 DEF TypeOK
  <2>4. CASE DOMAIN monarch = {}
    <3>1. \A t : Copies(t) = 0
      BY <2>4, CopiesOfNone
    <3>2. marked = {}
      BY <2>1, <2>4 DEF OneAtWork, In
    <3> QED
      BY <3>1, <3>2
  <2>5. CASE DOMAIN monarch # {}
    <3>1. PICK a : DOMAIN monarch = {a}
      BY <2>1, <2>5 DEF OneAtWork
    <3>2. \A t \in Tx : Copies(t) = monarch[a][t] /\ monarch[a][t] \in Nat
      BY <2>2, <3>1, CopiesOfOne
    <3>3. ~ blind => \A t \in Tx : monarch[a][t] <= 1
      BY <2>1, <3>1 DEF NoneTwice
    <3>4. \A t \in marked : monarch[a][t] > 0
      BY <2>1, <3>1 DEF OneAtWork, In
    <3>5. \A t \in marked : Copies(t) >= 1
      BY <2>3, <3>2, <3>4
    <3>6. ~ blind => \A t \in Tx : Copies(t) <= 1
      BY <3>2, <3>3
    <3> QED
      BY <3>5, <3>6
  <2> QED
    BY <2>4, <2>5
<1> QED
  BY <1>1, MInvHolds, PTL

\* The background loop starts no batch after a disconnect.
THEOREM LoopStops == Spec => DisconnectStopsLoop
<1>1. MInv /\ BeginBatch => token \/ handler # "idle"
  BY DEF MInv, PointersOK, BeginBatch
<1> QED
  BY <1>1, MInvHolds, PTL DEF DisconnectStopsLoop
=============================================================================
