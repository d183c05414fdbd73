-------------------------- MODULE SyncCycleProofs --------------------------
(***************************************************************************)
(* Proofs about SyncCycle, for every set of channels and routes, every page *)
(* size, every history bound and any number of node steps and failures.    *)
(***************************************************************************)
EXTENDS SyncCycle, FiniteSetTheorems, WellFoundedInduction, TLAPS

-----------------------------------------------------------------------------
(* Pages.                                                                  *)

\* A set of positions up to a bound is finite.
LEMMA PositionsFinite ==
    ASSUME NEW n \in Nat, NEW S \in SUBSET (1 .. n)
    PROVE  IsFiniteSet(S)
<1>1. IsFiniteSet(1 .. n)
  BY FS_Interval
<1> QED
  BY <1>1, FS_Subset

\* A page is a part of what it is taken from, and has all that comes before any
\* of its elements.
LEMMA PageIsPrefix ==
    ASSUME NEW n \in Nat, NEW S \in SUBSET (1 .. n), NEW k \in Nat,
           NEW i \in FirstN(S, k), NEW j \in S, j <= i
    PROVE  j \in FirstN(S, k)
<1> DEFINE Upto(m) == {l \in S : l <= m}
<1>0. i \in Int /\ j \in Int /\ (\A l \in S : l \in Int)
  BY DEF FirstN
<1>1. Upto(i) \in SUBSET (1 .. n) /\ Upto(j) \in SUBSET Upto(i)
  <2>1. \A l \in S : l <= j => l <= i
    BY <1>0
  <2> QED
    BY <2>1, Zenon
<1>2. IsFiniteSet(Upto(i)) /\ IsFiniteSet(Upto(j))
  BY <1>1, PositionsFinite, FS_Subset
<1>3. Cardinality(Upto(j)) <= Cardinality(Upto(i))
  BY <1>1, <1>2, FS_Subset
<1>4. Cardinality(Upto(i)) <= k
  BY DEF FirstN
<1>5. Cardinality(Upto(i)) \in Nat /\ Cardinality(Upto(j)) \in Nat
  BY <1>2, FS_CardinalityType
<1>6. Cardinality(Upto(j)) <= k
  BY <1>3, <1>4, <1>5
<1> QED
  BY <1>6 DEF FirstN

\* A non-empty set of naturals has a smallest element.
LEMMA SmallestElement ==
    ASSUME NEW S \in SUBSET Nat, S # {}
    PROVE  \E x \in S : \A y \in S : x <= y
<1>1. \E x \in S : \A y \in S : ~ (<<y, x>> \in OpToRel(<, Nat))
  BY NatLessThanWellFounded, WFMin
<1>2. \A x, y \in Nat : y < x => <<y, x>> \in OpToRel(<, Nat)
  BY DEF OpToRel
<1>3. PICK x \in S : \A y \in S : ~ (<<y, x>> \in OpToRel(<, Nat))
  BY <1>1
<1>4. \A y \in S : x <= y
  <2> TAKE y \in S
  <2>1. ~ (y < x)
    BY <1>2, <1>3
  <2> QED
    BY <2>1
<1> QED
  BY <1>4

\* A page with fewer elements than fit is everything there is.
LEMMA ShortPageIsAll ==
    ASSUME NEW n \in Nat, NEW S \in SUBSET (1 .. n), NEW k \in Nat,
           Cardinality(FirstN(S, k)) < k
    PROVE  FirstN(S, k) = S
<1> DEFINE P == FirstN(S, k)
<1> SUFFICES ASSUME S \ P # {}
             PROVE  FALSE
  BY DEF FirstN
<1>0. S \in SUBSET Nat /\ S \ P \in SUBSET Nat
  <2> HIDE DEF P
  <2>1. 1 .. n \in SUBSET Nat
    OBVIOUS
  <2> QED
    BY <2>1, Zenon
<1>1. PICK x \in S \ P : \A y \in S \ P : x <= y
  <2> HIDE DEF P
  <2> QED BY <1>0, SmallestElement
<1> DEFINE Before == {j \in S : j < x}
           Upto == {j \in S : j <= x}
<1>2. Before \in SUBSET P
  <2> HIDE DEF P
  <2> QED BY <1>0, <1>1
<1>3. IsFiniteSet(P) /\ IsFiniteSet(Before)
  BY <1>2, PositionsFinite, FS_Subset DEF FirstN
<1>4. Cardinality(Before) <= Cardinality(P)
  BY <1>2, <1>3, FS_Subset
<1>5. Upto = Before \cup {x} /\ x \notin Before
  <2> HIDE DEF P
  <2>1. x \in S /\ x \in Int /\ \A j \in S : j \in Int
    BY <1>0, <1>1
  <2>2. \A j \in S : j <= x <=> (j < x \/ j = x)
    BY <2>1
  <2>3. ~ (x < x)
    BY <2>1
  <2> QED
    BY <2>1, <2>2, <2>3, Zenon
<1>6. Cardinality(Upto) = Cardinality(Before) + 1
  BY <1>3, <1>5, FS_AddElement
<1>7. Cardinality(Before) \in Nat /\ Cardinality(P) \in Nat
  BY <1>3, FS_CardinalityType
<1>8. Cardinality(Upto) <= k
  BY <1>4, <1>6, <1>7
<1>9. x \in P
  BY <1>8, <1>1 DEF FirstN
<1> QED
  BY <1>9, <1>1

-----------------------------------------------------------------------------
(* Types.                                                                  *)

LEMMA TypeInit == Init => TypeOK
<1> SUFFICES ASSUME Init PROVE TypeOK
  OBVIOUS
<1>1. EmptyTables \in Tables
  BY DEF EmptyTables, Tables, Never, NoSnapshot
<1> QED
  BY <1>1 DEF Init, TypeOK, Feed, ItemStatus, ChanStatus, NoWindow

\* What an event of the log is, and what a page of it fetches.
LEMMA PageTypes ==
    ASSUME TypeOK
    PROVE  /\ PageEvents \in SUBSET Event
           /\ Remaining \in SUBSET (1 .. Len(fwdLog))
           /\ Page \in SUBSET Remaining
<1>1. DOMAIN fwdLog = 1 .. Len(fwdLog) /\ \A i \in 1 .. Len(fwdLog) : fwdLog[i] \in Event
  BY DEF TypeOK
<1>2. Remaining \in SUBSET (1 .. Len(fwdLog)) /\ Page \in SUBSET Remaining
  BY <1>1, Zenon DEF Remaining, Page, FirstN
<1> QED
  BY <1>1, <1>2, Zenon DEF PageEvents

\* A feed's positions are naturals, and so is what a page upserts.
LEMMA UpsertType ==
    ASSUME NEW t \in Tables, NEW f \in Feed, NEW page \in SUBSET Nat
    PROVE  Upsert(t, f, page) \in Tables
<1>1. (t.settled[f] \ page) \cup {i \in page : feed[f][i] = "settled"} \in SUBSET Nat
  BY DEF Tables
<1> QED
  BY <1>1 DEF Upsert, Tables

LEMMA PullFeedType ==
    ASSUME TypeOK, NEW f \in {"invoices", "payments"}, NEW next \in {"payments", "onchain"},
           PullFeed(f, next)
    PROVE  TypeOK'
<1> DEFINE listed == {i \in Index(f) : i > tx.cursor[f] /\ Listed(f, i)}
           page == FirstN(listed, PageSize)
<1>1. f \in Feed /\ tx \in Tables
  BY DEF Feed, TypeOK
<1>2. page \in SUBSET Nat
  <2>1. Index(f) \in SUBSET Nat
    BY <1>1 DEF Index, TypeOK
  <2> QED
    BY <2>1, Zenon DEF FirstN
<1>3. tx' \in Tables
  <2>1. CASE \E offset \in EmptyPageOffset :
                tx' = [tx EXCEPT !.cursor[f] = IF offset = "zero" THEN 0 ELSE @]
    BY <1>1, <2>1 DEF Tables
  <2>2. CASE \E last \in page : tx' = [Upsert(tx, f, page) EXCEPT !.cursor[f] = last]
    <3>1. PICK last \in page : tx' = [Upsert(tx, f, page) EXCEPT !.cursor[f] = last]
      BY <2>2
    <3>2. last \in Nat
      BY <1>2, Zenon
    <3>3. Upsert(tx, f, page) \in Tables
      BY <1>1, <1>2, UpsertType, Zenon
    <3> HIDE DEF page
    <3> QED
      BY <1>1, <3>1, <3>2, <3>3 DEF Tables
  <2> QED
    BY <2>1, <2>2, Zenon DEF PullFeed
<1> QED
  BY <1>3 DEF PullFeed, TypeOK, nodeVars

LEMMA TypeNext == TypeOK /\ [Next]_vars => TypeOK'
<1> SUFFICES ASSUME TypeOK, [Next]_vars PROVE TypeOK'
  OBVIOUS
<1> USE DEF nodeVars, cycleVars
<1>1. CASE Tick
  BY <1>1 DEF TypeOK, Tick, Happen
<1>2. ASSUME NEW r \in Route, RouteForward(r)
      PROVE  TypeOK'
  <2>1. [ts |-> now, route |-> r] \in Event
    BY DEF TypeOK, Event
  <2> QED
    BY <1>2, <2>1 DEF TypeOK, RouteForward, Happen
<1>3. ASSUME NEW f \in Feed, AddItem(f)
      PROVE  TypeOK'
  BY <1>3 DEF TypeOK, AddItem, Happen, ItemStatus
<1>4. ASSUME NEW f \in Feed, NEW s \in {"settled", "failed"}, NEW i \in Index(f),
             FinishItem(f, i, s)
      PROVE  TypeOK'
  BY <1>4 DEF TypeOK, FinishItem, Happen, ItemStatus, Index
<1>5. ASSUME NEW c \in Channel, NEW to \in ChanStatus, MoveChannel(c, to)
      PROVE  TypeOK'
  BY <1>5 DEF TypeOK, MoveChannel, Happen
<1>6. CASE BeginSync
  BY <1>6, MaxHistoryAssumption DEF TypeOK, BeginSync, Tables, Never
<1>7. CASE FetchFullPage
  BY <1>7, PageTypes DEF TypeOK, FetchFullPage
<1>8. CASE FetchLastPage
  BY <1>8, PageTypes DEF TypeOK, FetchLastPage, NoWindow, Tables
<1>9. CASE SyncListChannels
  BY <1>9 DEF TypeOK, SyncListChannels, Tables
<1>10. CASE SyncClosedChannels
  BY <1>10 DEF TypeOK, SyncClosedChannels, Tables
<1>11. CASE ClosedChannelsFails
  <2>1. failures + 1 \in Nat
    BY DEF TypeOK
  <2> QED
    BY <1>11, <2>1, Zenon DEF TypeOK, ClosedChannelsFails
<1>12. CASE SyncInvoices
  BY <1>12, PullFeedType DEF SyncInvoices
<1>13. CASE SyncPayments
  BY <1>13, PullFeedType DEF SyncPayments
<1>14. CASE SyncOnchain
  <2> DEFINE all == {i \in Index("onchain") : Listed("onchain", i)}
  <2>1. "onchain" \in Feed /\ tx \in Tables
    BY DEF Feed, TypeOK
  <2>2. all \in SUBSET Nat
    BY <2>1 DEF Index, TypeOK
  <2>3. tx' \in Tables
    BY <1>14, <2>1, <2>2, UpsertType, Zenon DEF SyncOnchain
  <2> QED
    BY <1>14, <2>3 DEF TypeOK, SyncOnchain
<1>15. CASE SyncWallet
  <2>1. IsFiniteSet({c \in Channel : chan[c] \notin {"online", "offline"}})
    BY ChannelAssumption, FS_Subset
  <2>2. WalletTotal \in Nat
    BY <2>1, FS_CardinalityType DEF WalletTotal
  <2> QED
    BY <1>15, <2>2 DEF TypeOK, SyncWallet, Tables
<1>16. CASE Commit
  BY <1>16 DEF TypeOK, Commit
<1>17. CASE Abort
  BY <1>17 DEF TypeOK, Abort, NoWindow
<1>18. CASE UNCHANGED vars
  BY <1>18 DEF TypeOK, vars
<1> QED
  BY <1>1, <1>2, <1>3, <1>4, <1>5, <1>6, <1>7, <1>8, <1>9, <1>10, <1>11, <1>12,
     <1>13, <1>14, <1>15, <1>16, <1>17, <1>18
  DEF Next, NodeStep, CycleStep

\* The tables, the cursors and the node's data keep their types through every
\* stage of a cycle and every failure.
THEOREM TypeCorrect == Spec => []TypeOK
BY TypeInit, TypeNext, PTL DEF Spec

-----------------------------------------------------------------------------
(* The inductive invariant.  The committed tables are as good as LedgerSync *)
(* promises, so is the transaction's copy at every stage, the copy never    *)
(* knows less than what is committed, and the pages fetched so far leave no *)
(* gap before the page offset.                                              *)

LogInThePast == \A i \in DOMAIN fwdLog : fwdLog[i].ts <= now

Good(t) == Ledger!Truthful(t) /\ Ledger!Complete(t) /\ t.fwdAt <= now

WindowInv ==
    pc = "forwarding" =>
        /\ tx = db
        /\ tx.fwdAt <= window.end /\ window.end <= now
        /\ tx.fwdAt # Never => window.start = tx.fwdAt
        /\ window.offset <= Len(fwdLog)
        /\ \A e \in fetched : \E i \in DOMAIN fwdLog : fwdLog[i] = e
        /\ \A i \in DOMAIN fwdLog :
              i <= window.offset /\ InWindow(fwdLog[i]) => fwdLog[i] \in fetched

StageInv ==
    /\ pc \notin {"idle", "forwarding"} => tx.fwdAt # Never
    /\ pc = "commit" => tx.wallet # NoSnapshot

IInv ==
    /\ TypeOK
    /\ LogInThePast
    /\ Good(db)
    /\ Good(tx)
    /\ Ledger!Remembers(db, tx)
    /\ WindowInv
    /\ StageInv

LEMMA IInvInit == Init => IInv
<1> SUFFICES ASSUME Init PROVE IInv
  OBVIOUS
<1>1. TypeOK
  BY TypeInit
<1>2. LogInThePast /\ WindowInv /\ StageInv
  BY DEF Init, LogInThePast, WindowInv, StageInv
<1>3. Ledger!Truthful(db) /\ Ledger!Complete(db)
  BY DEF Init, EmptyTables, Feed, Never, Ledger!Truthful, Ledger!Complete, Ledger!HasRun,
     Ledger!Feeds, Ledger!Recorded
<1>4. Ledger!Remembers(db, tx)
  BY DEF Init, EmptyTables, Never, Ledger!Remembers, Ledger!HasRun
<1>5. db.fwdAt <= now /\ tx = db
  BY DEF Init, EmptyTables, Never
<1> QED
  BY <1>1, <1>2, <1>3, <1>4, <1>5 DEF IInv, Good

\* The node goes on as LedgerSync says it may.
LEMMA NodeMonotone ==
    ASSUME TypeOK, NodeStep
    PROVE  Ledger!NodeStep
<1> USE DEF cycleVars, Ledger!NodeStep, Ledger!Feeds
<1>1. CASE Tick
  BY <1>1 DEF Tick, TypeOK
<1>2. ASSUME NEW r \in Route, RouteForward(r)
      PROVE  Ledger!NodeStep
  BY <1>2 DEF RouteForward, TypeOK
<1>3. ASSUME NEW f \in Feed, AddItem(f)
      PROVE  Ledger!NodeStep
  BY <1>3 DEF AddItem, TypeOK
<1>4. ASSUME NEW f \in Feed, NEW s \in {"settled", "failed"}, NEW i \in Index(f),
             FinishItem(f, i, s)
      PROVE  Ledger!NodeStep
  BY <1>4 DEF FinishItem, Index, TypeOK
<1>5. ASSUME NEW c \in Channel, NEW to \in ChanStatus, MoveChannel(c, to)
      PROVE  Ledger!NodeStep
  BY <1>5 DEF MoveChannel, ChanMove, TypeOK
<1> QED
  BY <1>1, <1>2, <1>3, <1>4, <1>5 DEF NodeStep

\* What the node does to the cycle: nothing.
LEMMA NodeLeavesCycle ==
    ASSUME NodeStep
    PROVE  UNCHANGED <<pc, window, fetched, tx, db>>
BY DEF NodeStep, Tick, RouteForward, AddItem, FinishItem, MoveChannel, cycleVars

LEMMA NodeKeepsInv ==
    ASSUME IInv, NodeStep
    PROVE  IInv'
<1>1. TypeOK /\ TypeOK'
  BY TypeNext DEF IInv, Next
<1>2. Ledger!NodeStep
  BY NodeMonotone DEF IInv
<1>3. UNCHANGED <<pc, window, fetched, tx, db>>
  BY NodeLeavesCycle
<1>4. /\ now \in Nat /\ now' \in Nat /\ now <= now'
      /\ \A i \in DOMAIN fwdLog : i \in DOMAIN fwdLog' /\ fwdLog'[i] = fwdLog[i]
      /\ \A i \in DOMAIN fwdLog' : fwdLog[i] = fwdLog'[i] \/ fwdLog'[i].ts = now
      /\ \A i \in DOMAIN fwdLog' \ DOMAIN fwdLog : fwdLog'[i].ts = now
      /\ \A i \in DOMAIN fwdLog : fwdLog[i] \in Event
      /\ \A i \in DOMAIN fwdLog' : fwdLog'[i] \in Event
      /\ db \in Tables /\ tx \in Tables
  BY <1>1, <1>2 DEF TypeOK, Ledger!NodeStep
<1>5. LogInThePast'
  BY <1>4 DEF IInv, LogInThePast, Event
<1>6. Good(db)'
  <2>1. Ledger!Truthful(db)'
    <3> USE <1>2, <1>3 DEF IInv, Good, Ledger!Truthful, Ledger!NodeStep, Ledger!Feeds
    <3>1. (\A e \in db.fwd : \E i \in DOMAIN fwdLog : fwdLog[i] = e)'
      OBVIOUS
    <3>2. ASSUME NEW f \in DOMAIN feed'
          PROVE  /\ db'.present[f] \subseteq DOMAIN feed'[f]
                 /\ \A i \in db'.settled[f] : i \in DOMAIN feed'[f] /\ feed'[f][i] = "settled"
      <4>1. f \in DOMAIN feed /\ DOMAIN feed[f] \subseteq DOMAIN feed'[f]
        OBVIOUS
      <4>2. db.present[f] \subseteq DOMAIN feed'[f]
        BY <4>1
      <4>3. \A i \in db.settled[f] : i \in DOMAIN feed[f] /\ feed[f][i] = "settled"
        BY <4>1
      <4> QED
        BY <4>1, <4>2, <4>3
    <3>3. (\A c \in db.chanClosed : chan[c] = "closed")'
      BY <1>4 DEF Tables
    <3>4. (db.chanActive \cap db.chanClosed = {})'
      OBVIOUS
    <3> QED
      BY <3>1, <3>2, <3>3, <3>4
  <2>2. Ledger!Complete(db)'
    BY <1>2, <1>3, <1>4 DEF IInv, Good, Ledger!Complete, Ledger!HasRun, Ledger!Recorded,
       Event, Tables, Never
  <2> QED
    BY <1>3, <1>4, <2>1, <2>2 DEF IInv, Good, Tables, Never
<1>7. Good(tx)'
  <2>1. Ledger!Truthful(tx)'
    <3> USE <1>2, <1>3 DEF IInv, Good, Ledger!Truthful, Ledger!NodeStep, Ledger!Feeds
    <3>1. (\A e \in tx.fwd : \E i \in DOMAIN fwdLog : fwdLog[i] = e)'
      OBVIOUS
    <3>2. ASSUME NEW f \in DOMAIN feed'
          PROVE  /\ tx'.present[f] \subseteq DOMAIN feed'[f]
                 /\ \A i \in tx'.settled[f] : i \in DOMAIN feed'[f] /\ feed'[f][i] = "settled"
      <4>1. f \in DOMAIN feed /\ DOMAIN feed[f] \subseteq DOMAIN feed'[f]
        OBVIOUS
      <4>2. tx.present[f] \subseteq DOMAIN feed'[f]
        BY <4>1
      <4>3. \A i \in tx.settled[f] : i \in DOMAIN feed[f] /\ feed[f][i] = "settled"
        BY <4>1
      <4> QED
        BY <4>1, <4>2, <4>3
    <3>3. (\A c \in tx.chanClosed : chan[c] = "closed")'
      BY <1>4 DEF Tables
    <3>4. (tx.chanActive \cap tx.chanClosed = {})'
      OBVIOUS
    <3> QED
      BY <3>1, <3>2, <3>3, <3>4
  <2>2. Ledger!Complete(tx)'
    BY <1>2, <1>3, <1>4 DEF IInv, Good, Ledger!Complete, Ledger!HasRun, Ledger!Recorded,
       Event, Tables, Never
  <2> QED
    BY <1>3, <1>4, <2>1, <2>2 DEF IInv, Good, Tables, Never
<1>8. Ledger!Remembers(db, tx)'
  BY <1>2, <1>3 DEF IInv, Ledger!Remembers, Ledger!HasRun, Ledger!Feeds, Ledger!NodeStep
<1>9. WindowInv'
  <2> SUFFICES ASSUME pc = "forwarding" PROVE WindowInv'
    BY <1>3 DEF WindowInv
  <2>1. window.end <= now'
    BY <1>1, <1>4 DEF IInv, WindowInv, TypeOK
  <2>2. /\ window.offset \in Nat /\ window.offset <= Len(fwdLog)
        /\ DOMAIN fwdLog = 1 .. Len(fwdLog) /\ DOMAIN fwdLog' = 1 .. Len(fwdLog')
        /\ Len(fwdLog) \in Nat /\ Len(fwdLog') \in Nat
    BY <1>1 DEF IInv, WindowInv, TypeOK
  <2>3. window.offset <= Len(fwdLog') /\ \A i \in DOMAIN fwdLog' :
           i <= window.offset => i \in DOMAIN fwdLog
    BY <1>4, <2>2
  <2> QED
    BY <1>3, <1>4, <2>1, <2>3 DEF IInv, WindowInv, InWindow
<1>10. StageInv'
  BY <1>3 DEF IInv, StageInv
<1> QED
  BY <1>1, <1>5, <1>6, <1>7, <1>8, <1>9, <1>10 DEF IInv

\* The stages change the transaction only: what is left to show of one is what
\* it does to tx.
LEMMA StageKeepsRest ==
    ASSUME IInv, TypeOK', UNCHANGED <<now, fwdLog, feed, chan, db>>
    PROVE  /\ LogInThePast'
           /\ Good(db)'
<1>1. LogInThePast'
  BY DEF IInv, LogInThePast
<1>2. Ledger!Truthful(db)'
  BY DEF IInv, Good, Ledger!Truthful, Ledger!Feeds
<1>3. Ledger!Complete(db)'
  BY DEF IInv, Good, Ledger!Complete, Ledger!HasRun, Ledger!Recorded
<1> QED
  BY <1>1, <1>2, <1>3 DEF IInv, Good

LEMMA BeginKeepsInv ==
    ASSUME IInv, BeginSync
    PROVE  IInv'
<1> USE DEF nodeVars
<1>1. TypeOK'
  BY TypeNext DEF IInv, Next, CycleStep
<1>2. LogInThePast' /\ Good(db)'
  BY <1>1, StageKeepsRest DEF BeginSync
<1>3. tx' = db /\ db' = db
  BY DEF BeginSync
<1>4. Good(tx)'
  BY <1>2, <1>3 DEF Good, Ledger!Truthful, Ledger!Complete, Ledger!HasRun, Ledger!Feeds,
     Ledger!Recorded
<1>5. Ledger!Remembers(db, tx)'
  BY <1>1, <1>3 DEF TypeOK, Tables, Ledger!Remembers, Never
<1>6. WindowInv'
  <2>1. fwdLog \in Seq(Event) /\ Len(fwdLog) \in Nat /\ DOMAIN fwdLog = 1 .. Len(fwdLog)
    BY DEF IInv, TypeOK
  <2>2. /\ window'.end = now /\ window'.offset = 0 /\ now' = now /\ fetched' = {}
        /\ fwdLog' = fwdLog /\ pc' = "forwarding" /\ (db.fwdAt # Never => window'.start = db.fwdAt)
    BY DEF BeginSync
  <2>3. db.fwdAt <= now /\ now <= now
    BY DEF IInv, Good, TypeOK
  <2> QED
    BY <1>3, <2>1, <2>2, <2>3 DEF WindowInv
<1>7. StageInv'
  BY DEF BeginSync, StageInv
<1> QED
  BY <1>1, <1>2, <1>4, <1>5, <1>6, <1>7 DEF IInv

\* A full page leaves no gap before its last event.
LEMMA FullPageKeepsInv ==
    ASSUME IInv, FetchFullPage
    PROVE  IInv'
<1> USE DEF nodeVars
<1>1. TypeOK /\ TypeOK'
  BY TypeNext DEF IInv, Next, CycleStep
<1>2. LogInThePast' /\ Good(db)'
  BY <1>1, StageKeepsRest DEF FetchFullPage
<1>3. UNCHANGED <<now, fwdLog, feed, chan, pc, tx, db>> /\ pc = "forwarding"
  BY DEF FetchFullPage
<1>4. Good(tx)'
  BY <1>3 DEF IInv, Good, Ledger!Truthful, Ledger!Complete, Ledger!HasRun, Ledger!Feeds,
     Ledger!Recorded
<1>5. Ledger!Remembers(db, tx)'
  BY <1>3 DEF IInv, Ledger!Remembers, Ledger!HasRun, Ledger!Feeds
<1>6. PICK last \in Page : /\ \A i \in Page : i <= last
                           /\ window' = [window EXCEPT !.offset = last]
  BY DEF FetchFullPage
<1>7. window' = [start |-> window.start, end |-> window.end, offset |-> last]
  BY <1>1, <1>6 DEF TypeOK
<1>8. Remaining \in SUBSET (1 .. Len(fwdLog)) /\ Page \in SUBSET Remaining
  BY <1>1, PageTypes
<1>9. /\ last \in 1 .. Len(fwdLog) /\ DOMAIN fwdLog = 1 .. Len(fwdLog)
      /\ Len(fwdLog) \in Nat /\ window.offset \in Nat
  BY <1>1, <1>8 DEF TypeOK
<1>10. ASSUME NEW i \in DOMAIN fwdLog, i <= last, InWindow(fwdLog[i])
       PROVE  fwdLog[i] \in fetched'
  <2>1. CASE i <= window.offset
    BY <1>3, <1>10, <2>1 DEF IInv, WindowInv, FetchFullPage
  <2>2. CASE ~ (i <= window.offset)
    <3>1. i \in Remaining
      BY <1>9, <1>10, <2>2 DEF Remaining
    <3>2. i \in Page
      BY <1>8, <1>9, <1>10, <3>1, PageSizeAssumption, PageIsPrefix DEF Page
    <3> QED
      BY <3>2 DEF PageEvents, FetchFullPage
  <2> QED
    BY <2>1, <2>2
<1>11. \A e \in fetched' : \E i \in DOMAIN fwdLog : fwdLog[i] = e
  <2>1. \A e \in PageEvents : \E i \in DOMAIN fwdLog : fwdLog[i] = e
    BY <1>8, <1>9 DEF PageEvents
  <2> QED
    BY <1>3, <2>1 DEF FetchFullPage, IInv, WindowInv
<1>12. last <= Len(fwdLog)
  BY <1>9
<1>13. WindowInv'
  BY <1>3, <1>7, <1>10, <1>11, <1>12 DEF IInv, WindowInv, InWindow
<1>14. StageInv'
  BY <1>3 DEF StageInv
<1> QED
  BY <1>1, <1>2, <1>4, <1>5, <1>13, <1>14 DEF IInv

\* A short page closes the window: nothing between its ends is missing.
LEMMA LastPageKeepsInv ==
    ASSUME IInv, FetchLastPage
    PROVE  IInv'
<1> USE DEF nodeVars
<1>1. TypeOK /\ TypeOK'
  BY TypeNext DEF IInv, Next, CycleStep
<1>2. LogInThePast' /\ Good(db)'
  BY <1>1, StageKeepsRest DEF FetchLastPage
<1>3. /\ UNCHANGED <<now, fwdLog, feed, chan, db>>
      /\ pc = "forwarding" /\ pc' = "channels" /\ tx = db
      /\ window.end <= now /\ tx.fwdAt <= window.end
  BY DEF FetchLastPage, IInv, WindowInv
<1>4. tx' = [tx EXCEPT !.fwd = @ \cup fetched \cup PageEvents,
                       !.fwdAt = window.end,
                       !.fwdFrom = IF tx.fwdAt = Never THEN window.start ELSE @]
  BY DEF FetchLastPage
<1>5. /\ tx'.fwd = tx.fwd \cup fetched \cup PageEvents
      /\ tx'.fwdAt = window.end
      /\ tx'.fwdFrom = IF tx.fwdAt = Never THEN window.start ELSE tx.fwdFrom
      /\ tx'.cursor = tx.cursor /\ tx'.present = tx.present /\ tx'.settled = tx.settled
      /\ tx'.chanRows = tx.chanRows /\ tx'.chanActive = tx.chanActive
      /\ tx'.chanClosed = tx.chanClosed
  BY <1>1, <1>4 DEF TypeOK, Tables
<1>6. /\ Remaining \in SUBSET (1 .. Len(fwdLog)) /\ Len(fwdLog) \in Nat
      /\ DOMAIN fwdLog = 1 .. Len(fwdLog) /\ window \in [start : Nat, end : Nat, offset : Nat]
      /\ \A i \in DOMAIN fwdLog : fwdLog[i] \in Event
      /\ tx.fwdAt \in Nat \cup {Never} /\ tx.fwdFrom \in Nat
  <2>1. Remaining \in SUBSET (1 .. Len(fwdLog))
    BY <1>1, PageTypes
  <2> QED
    BY <1>1, <2>1, SMTT(30) DEF TypeOK, Tables
<1>7. Page = Remaining
  BY <1>6, PageSizeAssumption, ShortPageIsAll DEF FetchLastPage, Page
<1>8. ASSUME NEW i \in DOMAIN fwdLog, InWindow(fwdLog[i])
      PROVE  fwdLog[i] \in tx'.fwd
  <2>1. CASE i <= window.offset
    BY <1>3, <1>5, <1>8, <2>1 DEF IInv, WindowInv
  <2>2. CASE ~ (i <= window.offset)
    <3>1. i \in Page
      BY <1>6, <1>7, <1>8, <2>2 DEF Remaining
    <3> QED
      BY <1>5, <3>1 DEF PageEvents
  <2> QED
    BY <2>1, <2>2
<1>9. Ledger!Complete(tx)'
  <2>1. ASSUME NEW i \in DOMAIN fwdLog,
               tx'.fwdFrom <= fwdLog[i].ts, fwdLog[i].ts < tx'.fwdAt
        PROVE  fwdLog[i] \in tx'.fwd
    <3>1. fwdLog[i].ts \in Nat
      BY <1>6 DEF Event
    <3>2. CASE window.start <= fwdLog[i].ts
      BY <1>5, <1>6, <1>8, <2>1, <3>1, <3>2 DEF InWindow
    <3>3. CASE ~ (window.start <= fwdLog[i].ts)
      <4>1. tx.fwdAt # Never
        BY <1>5, <2>1, <3>3
      <4>2. tx.fwdFrom <= fwdLog[i].ts /\ fwdLog[i].ts < tx.fwdAt /\ tx.fwdAt >= 0
        BY <1>3, <1>5, <1>6, <2>1, <3>1, <3>3, <4>1 DEF IInv, WindowInv, Never
      <4>3. fwdLog[i] \in tx.fwd
        BY <4>2 DEF IInv, Good, Ledger!Complete, Ledger!HasRun, Ledger!Recorded
      <4> QED
        BY <1>5, <4>3
    <3> QED
      BY <3>2, <3>3
  <2>2. \A i \in 1 .. tx'.cursor["invoices"] : i \in tx'.present["invoices"]
    BY <1>5 DEF IInv, Good, Ledger!Complete
  <2> QED
    BY <1>3, <2>1, <2>2 DEF Ledger!Complete, Ledger!Recorded
<1>10. Ledger!Truthful(tx)'
  <2>1. \A e \in PageEvents : \E i \in DOMAIN fwdLog : fwdLog[i] = e
    BY <1>6, <1>7 DEF PageEvents
  <2>2. \A e \in tx'.fwd : \E i \in DOMAIN fwdLog : fwdLog[i] = e
    BY <1>3, <1>5, <2>1 DEF IInv, Good, Ledger!Truthful, WindowInv
  <2> QED
    BY <1>3, <1>5, <2>2 DEF IInv, Good, Ledger!Truthful, Ledger!Feeds
<1>11. Good(tx)'
  BY <1>3, <1>5, <1>9, <1>10 DEF Good
<1>12. Ledger!Remembers(db, tx)'
  BY <1>3, <1>5, <1>6 DEF IInv, Ledger!Remembers, Ledger!HasRun, Ledger!Feeds, Never
<1>13. WindowInv' /\ StageInv'
  BY <1>3, <1>5, <1>6 DEF WindowInv, StageInv, Never
<1> QED
  BY <1>1, <1>2, <1>11, <1>12, <1>13 DEF IInv

\* What every later stage leaves alone: the forwards and their cursor.
LEMMA StageKeepsForwards ==
    ASSUME IInv, UNCHANGED <<now, fwdLog, feed, chan, db>>,
           pc \notin {"idle", "forwarding"}, pc' \notin {"idle", "forwarding", "commit"},
           tx'.fwd = tx.fwd, tx'.fwdAt = tx.fwdAt, tx'.fwdFrom = tx.fwdFrom
    PROVE  /\ Ledger!HasRun(tx') => \A i \in DOMAIN fwdLog :
                 tx'.fwdFrom <= fwdLog[i].ts /\ fwdLog[i].ts < tx'.fwdAt
                    => fwdLog[i] \in tx'.fwd
           /\ \A e \in tx'.fwd : \E i \in DOMAIN fwdLog : fwdLog[i] = e
           /\ tx'.fwdAt <= now
           /\ db.fwd \subseteq tx'.fwd /\ db.fwdAt <= tx'.fwdAt
           /\ Ledger!HasRun(db) => tx'.fwdFrom = db.fwdFrom
           /\ WindowInv'
           /\ StageInv'
BY DEF IInv, Good, Ledger!Complete, Ledger!Truthful, Ledger!Remembers, Ledger!HasRun,
   Ledger!Recorded, WindowInv, StageInv

LEMMA ListChannelsKeepsInv ==
    ASSUME IInv, SyncListChannels
    PROVE  IInv'
<1> DEFINE open == {c \in Channel : chan[c] \in {"online", "offline"}}
<1> USE DEF nodeVars
<1>1. TypeOK /\ TypeOK'
  BY TypeNext DEF IInv, Next, CycleStep
<1>2. LogInThePast' /\ Good(db)'
  BY <1>1, StageKeepsRest DEF SyncListChannels
<1>3. /\ UNCHANGED <<now, fwdLog, feed, chan, db>> /\ pc = "channels" /\ pc' = "closed"
      /\ tx'.fwd = tx.fwd /\ tx'.fwdAt = tx.fwdAt /\ tx'.fwdFrom = tx.fwdFrom
      /\ tx'.cursor = tx.cursor /\ tx'.present = tx.present /\ tx'.settled = tx.settled
      /\ tx'.chanRows = tx.chanRows \cup open
      /\ tx'.chanActive = (tx.chanActive \ open) \cup {c \in open : chan[c] = "online"}
      /\ tx'.chanClosed = tx.chanClosed
  BY <1>1 DEF SyncListChannels, TypeOK, Tables
<1>4. tx'.chanActive \cap tx'.chanClosed = {}
  BY <1>3 DEF IInv, Good, Ledger!Truthful
<1>5. Good(tx)'
  BY <1>3, <1>4, StageKeepsForwards DEF IInv, Good, Ledger!Truthful, Ledger!Complete,
     Ledger!Recorded, Ledger!Feeds
<1>6. Ledger!Remembers(db, tx)'
  BY <1>3, StageKeepsForwards DEF IInv, Ledger!Remembers, Ledger!Feeds, Ledger!HasRun
<1>7. WindowInv' /\ StageInv'
  BY <1>3, StageKeepsForwards
<1> QED
  BY <1>1, <1>2, <1>5, <1>6, <1>7 DEF IInv

LEMMA ClosedChannelsKeepsInv ==
    ASSUME IInv, SyncClosedChannels
    PROVE  IInv'
<1> DEFINE closed == {c \in Channel : chan[c] = "closed"}
<1> USE DEF nodeVars
<1>1. TypeOK /\ TypeOK'
  BY TypeNext DEF IInv, Next, CycleStep
<1>2. LogInThePast' /\ Good(db)'
  BY <1>1, StageKeepsRest DEF SyncClosedChannels
<1>3. /\ UNCHANGED <<now, fwdLog, feed, chan, db>> /\ pc = "closed" /\ pc' = "invoices"
      /\ tx'.fwd = tx.fwd /\ tx'.fwdAt = tx.fwdAt /\ tx'.fwdFrom = tx.fwdFrom
      /\ tx'.cursor = tx.cursor /\ tx'.present = tx.present /\ tx'.settled = tx.settled
      /\ tx'.chanRows = tx.chanRows \cup closed
      /\ tx'.chanActive = tx.chanActive \ closed
      /\ tx'.chanClosed = tx.chanClosed \cup closed
  BY <1>1 DEF SyncClosedChannels, TypeOK, Tables
<1>4. /\ \A c \in tx'.chanClosed : chan[c] = "closed"
      /\ tx'.chanActive \cap tx'.chanClosed = {}
  BY <1>3 DEF IInv, Good, Ledger!Truthful
<1>5. Good(tx)'
  BY <1>3, <1>4, StageKeepsForwards DEF IInv, Good, Ledger!Truthful, Ledger!Complete,
     Ledger!Recorded, Ledger!Feeds
<1>6. Ledger!Remembers(db, tx)'
  BY <1>3, StageKeepsForwards DEF IInv, Ledger!Remembers, Ledger!Feeds, Ledger!HasRun
<1>7. WindowInv' /\ StageInv'
  BY <1>3, StageKeepsForwards
<1> QED
  BY <1>1, <1>2, <1>5, <1>6, <1>7 DEF IInv

\* What an upsert of listed items leaves true of a feed.
LEMMA UpsertGood ==
    ASSUME IInv, NEW f \in Feed, NEW page \in SUBSET Index(f)
    PROVE  LET t == Upsert(tx, f, page) IN
           /\ t.fwd = tx.fwd /\ t.fwdAt = tx.fwdAt /\ t.fwdFrom = tx.fwdFrom
           /\ t.chanRows = tx.chanRows /\ t.chanActive = tx.chanActive
           /\ t.chanClosed = tx.chanClosed /\ t.cursor = tx.cursor
           /\ t.present[f] = tx.present[f] \cup page
           /\ \A g \in Feed :
                 /\ tx.present[g] \subseteq t.present[g]
                 /\ tx.settled[g] \subseteq t.settled[g]
                 /\ t.present[g] \subseteq DOMAIN feed[g]
                 /\ \A i \in t.settled[g] :
                       i \in DOMAIN feed[g] /\ feed[g][i] = "settled"
<1> DEFINE t == Upsert(tx, f, page)
<1>1. /\ tx.present \in [Feed -> SUBSET Nat] /\ tx.settled \in [Feed -> SUBSET Nat]
      /\ tx \in Tables /\ DOMAIN feed = Feed /\ Index(f) = DOMAIN feed[f]
  BY DEF IInv, TypeOK, Tables, Index
<1>2. \A g \in Feed : /\ tx.present[g] \subseteq DOMAIN feed[g]
                      /\ \A i \in tx.settled[g] :
                            i \in DOMAIN feed[g] /\ feed[g][i] = "settled"
  BY <1>1 DEF IInv, Good, Ledger!Truthful, Ledger!Feeds
<1>3. /\ t.present = [tx.present EXCEPT ![f] = @ \cup page]
      /\ t.settled = [tx.settled EXCEPT ![f] =
                        (@ \ page) \cup {i \in page : feed[f][i] = "settled"}]
      /\ t.fwd = tx.fwd /\ t.fwdAt = tx.fwdAt /\ t.fwdFrom = tx.fwdFrom
      /\ t.chanRows = tx.chanRows /\ t.chanActive = tx.chanActive
      /\ t.chanClosed = tx.chanClosed /\ t.cursor = tx.cursor
  BY <1>1 DEF Upsert, Tables
<1> HIDE DEF t
<1>4. /\ t.present[f] = tx.present[f] \cup page
      /\ t.settled[f] = (tx.settled[f] \ page) \cup {i \in page : feed[f][i] = "settled"}
  BY <1>1, <1>3
<1>5. ASSUME NEW g \in Feed
      PROVE  /\ tx.present[g] \subseteq t.present[g]
             /\ tx.settled[g] \subseteq t.settled[g]
             /\ t.present[g] \subseteq DOMAIN feed[g]
             /\ \A i \in t.settled[g] : i \in DOMAIN feed[g] /\ feed[g][i] = "settled"
  <2>1. CASE g = f
    BY <1>1, <1>2, <1>4, <2>1
  <2>2. CASE g # f
    <3>1. t.present[g] = tx.present[g] /\ t.settled[g] = tx.settled[g]
      BY <1>1, <1>3, <2>2
    <3> QED
      BY <1>2, <3>1
  <2> QED
    BY <2>1, <2>2
<1> QED
  BY <1>3, <1>4, <1>5 DEF t

\* A stage that only upserts a feed, or moves its cursor no further than its rows.
LEMMA FeedStageKeepsInv ==
    ASSUME IInv, TypeOK', UNCHANGED <<now, fwdLog, feed, chan, db>>,
           pc \notin {"idle", "forwarding"}, pc' \notin {"idle", "forwarding", "commit"},
           tx'.fwd = tx.fwd, tx'.fwdAt = tx.fwdAt, tx'.fwdFrom = tx.fwdFrom,
           tx'.chanRows = tx.chanRows, tx'.chanActive = tx.chanActive,
           tx'.chanClosed = tx.chanClosed,
           \A g \in Feed : /\ tx.present[g] \subseteq tx'.present[g]
                           /\ tx.settled[g] \subseteq tx'.settled[g]
                           /\ tx'.present[g] \subseteq DOMAIN feed[g]
                           /\ \A i \in tx'.settled[g] :
                                 i \in DOMAIN feed[g] /\ feed[g][i] = "settled",
           \A i \in 1 .. tx'.cursor["invoices"] : i \in tx'.present["invoices"]
    PROVE  IInv'
<1>1. LogInThePast' /\ Good(db)'
  BY StageKeepsRest
<1>2. DOMAIN feed = Feed
  BY DEF IInv, TypeOK
<1>3. Ledger!Truthful(tx)'
  BY <1>2, StageKeepsForwards DEF IInv, Good, Ledger!Truthful, Ledger!Feeds
<1>4. Ledger!Complete(tx)'
  BY StageKeepsForwards DEF Ledger!Complete, Ledger!Recorded
<1>5. Good(tx)'
  BY <1>3, <1>4, StageKeepsForwards DEF Good
<1>6. Ledger!Remembers(db, tx)'
  BY <1>2, StageKeepsForwards DEF IInv, Ledger!Remembers, Ledger!Feeds, Ledger!HasRun
<1> QED
  BY <1>1, <1>5, <1>6, StageKeepsForwards DEF IInv

\* The page that moves the cursor to its last element has every invoice up to it.
LEMMA PullFeedKeepsInv ==
    ASSUME IInv, NEW f \in {"invoices", "payments"}, NEW next \in {"payments", "onchain"},
           PullFeed(f, next)
    PROVE  IInv'
<1> DEFINE listed == {i \in Index(f) : i > tx.cursor[f] /\ Listed(f, i)}
           page == FirstN(listed, PageSize)
<1>1. TypeOK /\ TypeOK' /\ f \in Feed
  BY PullFeedType DEF IInv, Feed
<1>2. /\ UNCHANGED <<now, fwdLog, feed, chan, db>>
      /\ pc \notin {"idle", "forwarding"} /\ pc' \notin {"idle", "forwarding", "commit"}
  BY DEF PullFeed, nodeVars
<1>3. tx \in Tables /\ tx.cursor \in [Feed -> Nat] /\ "invoices" \in Feed
  BY <1>1 DEF TypeOK, Tables, Feed
<1>4. \A i \in 1 .. tx.cursor["invoices"] : i \in tx.present["invoices"]
  BY DEF IInv, Good, Ledger!Complete
<1>5. CASE \E offset \in EmptyPageOffset :
              tx' = [tx EXCEPT !.cursor[f] = IF offset = "zero" THEN 0 ELSE @]
  <2>1. PICK offset \in EmptyPageOffset :
              tx' = [tx EXCEPT !.cursor[f] = IF offset = "zero" THEN 0 ELSE @]
    BY <1>5
  <2>2. /\ tx'.cursor = [tx.cursor EXCEPT ![f] = IF offset = "zero" THEN 0 ELSE @]
        /\ tx'.fwd = tx.fwd /\ tx'.fwdAt = tx.fwdAt /\ tx'.fwdFrom = tx.fwdFrom
        /\ tx'.chanRows = tx.chanRows /\ tx'.chanActive = tx.chanActive
        /\ tx'.chanClosed = tx.chanClosed
        /\ tx'.present = tx.present /\ tx'.settled = tx.settled
    BY <1>3, <2>1 DEF Tables
  <2>3. \A i \in 1 .. tx'.cursor["invoices"] : i \in 1 .. tx.cursor["invoices"]
    BY <1>1, <1>3, <2>2
  <2>4. DOMAIN feed = Feed
    BY <1>1 DEF TypeOK
  <2>5. \A g \in Feed : /\ tx.present[g] \subseteq DOMAIN feed[g]
                        /\ \A i \in tx.settled[g] :
                              i \in DOMAIN feed[g] /\ feed[g][i] = "settled"
    BY <2>4 DEF IInv, Good, Ledger!Truthful, Ledger!Feeds
  <2> QED
    BY <1>1, <1>2, <1>4, <2>2, <2>3, <2>5, FeedStageKeepsInv
<1>6. CASE \E last \in page :
              /\ \A i \in page : i <= last
              /\ tx' = [Upsert(tx, f, page) EXCEPT !.cursor[f] = last]
  <2> DEFINE t == Upsert(tx, f, page)
  <2>1. PICK last \in page :
              /\ \A i \in page : i <= last
              /\ tx' = [t EXCEPT !.cursor[f] = last]
    BY <1>6
  <2>2. listed \in SUBSET Index(f) /\ page \in SUBSET listed
    BY Zenon DEF FirstN
  <2>3. page \in SUBSET Index(f) /\ page \in SUBSET Nat /\ Index(f) = 1 .. Len(feed[f])
        /\ Len(feed[f]) \in Nat
    BY <1>1, <2>2 DEF Index, TypeOK
  <2>4. t \in Tables
    BY <1>1, <1>3, <2>3, UpsertType
  <2>5. /\ t.fwd = tx.fwd /\ t.fwdAt = tx.fwdAt /\ t.fwdFrom = tx.fwdFrom
        /\ t.chanRows = tx.chanRows /\ t.chanActive = tx.chanActive
        /\ t.chanClosed = tx.chanClosed /\ t.cursor = tx.cursor
        /\ t.present[f] = tx.present[f] \cup page
        /\ \A g \in Feed :
              /\ tx.present[g] \subseteq t.present[g]
              /\ tx.settled[g] \subseteq t.settled[g]
              /\ t.present[g] \subseteq DOMAIN feed[g]
              /\ \A i \in t.settled[g] : i \in DOMAIN feed[g] /\ feed[g][i] = "settled"
    BY <1>1, <2>3, UpsertGood
  <2> HIDE DEF t
  <2>6. /\ tx'.cursor = [tx.cursor EXCEPT ![f] = last]
        /\ tx'.fwd = t.fwd /\ tx'.fwdAt = t.fwdAt /\ tx'.fwdFrom = t.fwdFrom
        /\ tx'.chanRows = t.chanRows /\ tx'.chanActive = t.chanActive
        /\ tx'.chanClosed = t.chanClosed
        /\ tx'.present = t.present /\ tx'.settled = t.settled
    BY <2>1, <2>4, <2>5 DEF Tables
  <2>7. \A i \in 1 .. tx'.cursor["invoices"] : i \in tx'.present["invoices"]
    <3>1. CASE f # "invoices"
      <4>1. tx'.cursor["invoices"] = tx.cursor["invoices"]
        BY <1>3, <2>6, <3>1
      <4> QED
        BY <1>3, <1>4, <2>5, <2>6, <4>1
    <3>2. CASE f = "invoices"
      <4>1. tx'.cursor["invoices"] = last /\ last \in 1 .. Len(feed[f])
        BY <1>3, <2>1, <2>2, <2>3, <2>6, <3>2
      <4>2. ASSUME NEW i \in 1 .. last
            PROVE  i \in tx'.present["invoices"]
        <5>1. CASE i <= tx.cursor["invoices"]
          BY <1>3, <1>4, <2>5, <2>6, <5>1
        <5>2. CASE ~ (i <= tx.cursor["invoices"])
          <6>1. i \in listed
            BY <1>3, <2>3, <3>2, <4>1, <5>2 DEF Listed
          <6>2. listed \in SUBSET (1 .. Len(feed[f])) /\ i <= last
            BY <2>2, <2>3, <4>1
          <6>3. i \in page
            <7> HIDE DEF listed
            <7> QED
              BY <2>1, <2>3, <6>1, <6>2, PageSizeAssumption, PageIsPrefix
          <6> QED
            BY <2>5, <2>6, <3>2, <6>3
        <5> QED
          BY <5>1, <5>2
      <4> QED
        BY <4>1, <4>2
    <3> QED
      BY <3>1, <3>2
  <2> QED
    BY <1>1, <1>2, <2>5, <2>6, <2>7, FeedStageKeepsInv
<1> QED
  BY <1>5, <1>6, Zenon DEF PullFeed

LEMMA OnchainKeepsInv ==
    ASSUME IInv, SyncOnchain
    PROVE  IInv'
<1> DEFINE all == {i \in Index("onchain") : Listed("onchain", i)}
<1>1. TypeOK' /\ "onchain" \in Feed
  BY TypeNext DEF IInv, Next, CycleStep, Feed
<1>2. /\ UNCHANGED <<now, fwdLog, feed, chan, db>>
      /\ pc \notin {"idle", "forwarding"} /\ pc' \notin {"idle", "forwarding", "commit"}
      /\ tx' = Upsert(tx, "onchain", all)
  BY DEF SyncOnchain, nodeVars
<1>3. all \in SUBSET Index("onchain")
  OBVIOUS
<1>4. \A i \in 1 .. tx.cursor["invoices"] : i \in tx.present["invoices"]
  BY DEF IInv, Good, Ledger!Complete
<1> HIDE DEF all
<1>5. /\ tx'.fwd = tx.fwd /\ tx'.fwdAt = tx.fwdAt /\ tx'.fwdFrom = tx.fwdFrom
      /\ tx'.chanRows = tx.chanRows /\ tx'.chanActive = tx.chanActive
      /\ tx'.chanClosed = tx.chanClosed /\ tx'.cursor = tx.cursor
      /\ \A g \in Feed :
            /\ tx.present[g] \subseteq tx'.present[g]
            /\ tx.settled[g] \subseteq tx'.settled[g]
            /\ tx'.present[g] \subseteq DOMAIN feed[g]
            /\ \A i \in tx'.settled[g] : i \in DOMAIN feed[g] /\ feed[g][i] = "settled"
  BY <1>1, <1>2, <1>3, UpsertGood
<1>6. \A i \in 1 .. tx'.cursor["invoices"] : i \in tx'.present["invoices"]
  BY <1>4, <1>5 DEF Feed
<1> QED
  BY <1>1, <1>2, <1>5, <1>6, FeedStageKeepsInv

LEMMA WalletKeepsInv ==
    ASSUME IInv, SyncWallet
    PROVE  IInv'
<1> USE DEF nodeVars
<1>1. TypeOK /\ TypeOK'
  BY TypeNext DEF IInv, Next, CycleStep
<1>2. LogInThePast' /\ Good(db)'
  BY <1>1, StageKeepsRest DEF SyncWallet
<1>3. WalletTotal \in Nat
  BY ChannelAssumption, FS_Subset, FS_CardinalityType DEF WalletTotal
<1>4. /\ UNCHANGED <<now, fwdLog, feed, chan, db>> /\ pc = "wallet" /\ pc' = "commit"
      /\ tx'.fwd = tx.fwd /\ tx'.fwdAt = tx.fwdAt /\ tx'.fwdFrom = tx.fwdFrom
      /\ tx'.cursor = tx.cursor /\ tx'.present = tx.present /\ tx'.settled = tx.settled
      /\ tx'.chanRows = tx.chanRows /\ tx'.chanActive = tx.chanActive
      /\ tx'.chanClosed = tx.chanClosed /\ tx'.wallet = WalletTotal
  BY <1>1 DEF SyncWallet, TypeOK, Tables
<1>5. Good(tx)'
  BY <1>4 DEF IInv, Good, Ledger!Truthful, Ledger!Complete, Ledger!Recorded, Ledger!Feeds,
     Ledger!HasRun
<1>6. Ledger!Remembers(db, tx)'
  BY <1>4 DEF IInv, Ledger!Remembers, Ledger!Feeds, Ledger!HasRun
<1>7. WindowInv' /\ StageInv'
  BY <1>3, <1>4 DEF IInv, WindowInv, StageInv, NoSnapshot
<1> QED
  BY <1>1, <1>2, <1>5, <1>6, <1>7 DEF IInv

LEMMA SkipClosedKeepsInv ==
    ASSUME IInv, ClosedChannelsFails
    PROVE  IInv'
<1>1. TypeOK'
  BY TypeNext DEF IInv, Next
<1>2. /\ UNCHANGED <<now, fwdLog, feed, chan, db, tx>> /\ pc = "closed" /\ pc' = "invoices"
  BY DEF ClosedChannelsFails, nodeVars
<1>3. LogInThePast' /\ Good(db)'
  BY <1>1, <1>2, StageKeepsRest
<1>4. Good(tx)'
  BY <1>2 DEF IInv, Good, Ledger!Truthful, Ledger!Complete, Ledger!Recorded, Ledger!Feeds,
     Ledger!HasRun
<1>5. Ledger!Remembers(db, tx)' /\ WindowInv' /\ StageInv'
  BY <1>2 DEF IInv, Ledger!Remembers, Ledger!Feeds, Ledger!HasRun, WindowInv, StageInv
<1> QED
  BY <1>1, <1>3, <1>4, <1>5 DEF IInv

\* After a commit and after a rollback the two copies are one.
LEMMA EndKeepsInv ==
    ASSUME IInv, Commit \/ Abort
    PROVE  IInv'
<1>1. TypeOK' /\ db \in Tables /\ tx \in Tables
  BY TypeNext DEF IInv, Next, CycleStep, TypeOK
<1>2. /\ UNCHANGED <<now, fwdLog, feed, chan>> /\ pc' = "idle" /\ db' = tx'
      /\ db' = tx \/ db' = db
  BY DEF Commit, Abort, nodeVars
<1>3. LogInThePast' /\ WindowInv' /\ StageInv'
  BY <1>2 DEF IInv, LogInThePast, WindowInv, StageInv
<1>4. Good(db)' /\ Good(tx)'
  BY <1>2 DEF IInv, Good, Ledger!Truthful, Ledger!Complete, Ledger!Recorded, Ledger!Feeds,
     Ledger!HasRun
<1>5. Ledger!Remembers(db, tx)'
  BY <1>1, <1>2 DEF Ledger!Remembers, TypeOK, Tables, Never
<1> QED
  BY <1>1, <1>3, <1>4, <1>5 DEF IInv

LEMMA StutterKeepsInv ==
    ASSUME IInv, UNCHANGED vars
    PROVE  IInv'
<1>1. TypeOK'
  BY TypeNext DEF IInv
<1>2. LogInThePast' /\ WindowInv' /\ StageInv'
  BY DEF vars, IInv, LogInThePast, WindowInv, StageInv, InWindow
<1>3. Good(db)' /\ Good(tx)'
  BY DEF vars, IInv, Good, Ledger!Truthful, Ledger!Complete, Ledger!Recorded, Ledger!Feeds,
     Ledger!HasRun
<1>4. Ledger!Remembers(db, tx)'
  BY DEF vars, IInv, Ledger!Remembers, Ledger!Feeds, Ledger!HasRun
<1> QED
  BY <1>1, <1>2, <1>3, <1>4 DEF IInv

LEMMA IInvNext == IInv /\ [Next]_vars => IInv'
BY NodeKeepsInv, BeginKeepsInv, FullPageKeepsInv, LastPageKeepsInv, ListChannelsKeepsInv,
   ClosedChannelsKeepsInv, SkipClosedKeepsInv, PullFeedKeepsInv, OnchainKeepsInv,
   WalletKeepsInv, EndKeepsInv, StutterKeepsInv
DEF Next, CycleStep, SyncInvoices, SyncPayments

LEMMA IInvAlways == Spec => []IInv
BY IInvInit, IInvNext, PTL DEF Spec

-----------------------------------------------------------------------------
(* The theorems.                                                           *)

\* However cycles, pages, failures and the node interleave, every forward from
\* the start of the first committed window up to the cursor has its row.
THEOREM NoForwardLost == Spec => []ForwardsComplete
<1>1. IInv => ForwardsComplete
  BY DEF IInv, TypeOK, Tables, Good, Ledger!Complete, Ledger!HasRun, Ledger!Recorded,
     ForwardsComplete, CompleteIn, Never
<1> QED
  BY <1>1, IInvAlways, PTL

\* The invoice cursor is never committed ahead of the rows, though an empty page
\* may set it back and a failed cycle drops both.
THEOREM NoInvoiceSkipped == Spec => []InvoicesBehindCursor
<1>1. IInv => InvoicesBehindCursor
  BY DEF IInv, Good, Ledger!Complete, InvoicesBehindCursor
<1> QED
  BY <1>1, IInvAlways, PTL

\* A channel recorded as closed is closed, and is never counted again.
THEOREM ClosedStaysClosed == Spec => []ClosedIsFinal
<1>1. IInv => ClosedIsFinal
  BY DEF IInv, Good, Ledger!Truthful, ClosedIsFinal
<1> QED
  BY <1>1, IInvAlways, PTL

-----------------------------------------------------------------------------
(* The money of a cycle that saw one moment.                                *)

\* A channel that is recorded as active has been opened.
Opened(t) == \A c \in t.chanActive : chan[c] # "none"

\* What the stages have read of the channels and the wallet, when the node moved
\* no channel since the cycle began.
SeenInv ==
    coherent =>
        /\ pc \in {"closed", "invoices", "payments", "onchain", "wallet", "commit"} =>
             \A c \in Channel : chan[c] \in {"online", "offline"} =>
                 (c \in tx.chanActive <=> chan[c] = "online")
        /\ pc \in {"invoices", "payments", "onchain", "wallet", "commit"} =>
             \A c \in Channel : chan[c] = "closed" => c \notin tx.chanActive
        /\ pc = "commit" => tx.wallet = WalletTotal

CountInv == Opened(db) /\ Opened(tx) /\ SeenInv

LEMMA CountInvInit == Init => CountInv
BY DEF Init, CountInv, Opened, SeenInv, EmptyTables

\* The node moves a channel only forth from where it had none.
LEMMA NodeKeepsCount ==
    ASSUME TypeOK, CountInv, NodeStep
    PROVE  CountInv'
<1>1. UNCHANGED <<pc, tx, db>>
  BY NodeLeavesCycle
<1>2. tx.chanActive \subseteq Channel /\ db.chanActive \subseteq Channel
  BY DEF TypeOK, Tables
<1>3. CASE UNCHANGED <<chan, coherent>>
  BY <1>1, <1>3 DEF CountInv, Opened, SeenInv, WalletTotal
<1>4. ASSUME NEW d \in Channel, NEW to \in ChanStatus, MoveChannel(d, to)
      PROVE  CountInv'
  <2>1. /\ \A c \in Channel : chan[c] # "none" => chan'[c] # "none"
        /\ coherent' = (pc = "idle")
    BY <1>4 DEF MoveChannel, ChanMove, TypeOK
  <2>2. Opened(db)' /\ Opened(tx)'
    BY <1>1, <1>2, <2>1 DEF CountInv, Opened
  <2>3. SeenInv'
    BY <1>1, <2>1 DEF SeenInv
  <2> QED
    BY <2>2, <2>3 DEF CountInv
<1> QED
  BY <1>3, <1>4 DEF NodeStep, Tick, RouteForward, AddItem, FinishItem

\* A stage that reads something else.
LEMMA StageKeepsCount ==
    ASSUME CountInv, UNCHANGED <<chan, coherent, db>>,
           tx'.chanActive = tx.chanActive,
           \/ pc \in {"idle", "forwarding", "channels"} /\ pc' \in {"idle", "forwarding", "channels"}
           \/ pc \in {"invoices", "payments", "onchain"} /\ pc' \in {"payments", "onchain", "wallet"}
    PROVE  CountInv'
BY DEF CountInv, Opened, SeenInv

LEMMA PullFeedKeepsCount ==
    ASSUME TypeOK, CountInv, NEW f \in {"invoices", "payments"}, NEW next \in {"payments", "onchain"},
           PullFeed(f, next)
    PROVE  CountInv'
<1> DEFINE listed == {i \in Index(f) : i > tx.cursor[f] /\ Listed(f, i)}
           page == FirstN(listed, PageSize)
<1>1. /\ UNCHANGED <<chan, coherent, db>> /\ pc = f /\ pc' = next
      /\ \/ \E offset \in EmptyPageOffset :
               tx' = [tx EXCEPT !.cursor[f] = IF offset = "zero" THEN 0 ELSE @]
         \/ \E last \in page : tx' = [Upsert(tx, f, page) EXCEPT !.cursor[f] = last]
  BY DEF PullFeed, nodeVars
<1> HIDE DEF page
<1>2. tx \in Tables
  BY DEF TypeOK
<1>3. ASSUME NEW k
      PROVE  [tx EXCEPT !.cursor[f] = k].chanActive = tx.chanActive
  BY <1>2 DEF Tables
<1>4. ASSUME NEW k
      PROVE  [Upsert(tx, f, page) EXCEPT !.cursor[f] = k].chanActive = tx.chanActive
  <2>1. /\ Upsert(tx, f, page).chanActive = tx.chanActive
        /\ DOMAIN Upsert(tx, f, page) = DOMAIN tx /\ "chanActive" \in DOMAIN tx
    BY <1>2 DEF Upsert, Tables
  <2> QED
    BY <2>1
<1>5. CASE \E offset \in EmptyPageOffset :
              tx' = [tx EXCEPT !.cursor[f] = IF offset = "zero" THEN 0 ELSE @]
  <2>1. PICK k : tx' = [tx EXCEPT !.cursor[f] = k]
    BY <1>5
  <2> QED
    BY <1>1, <1>3, <2>1, StageKeepsCount
<1>6. CASE \E last \in page : tx' = [Upsert(tx, f, page) EXCEPT !.cursor[f] = last]
  BY <1>1, <1>4, <1>6, StageKeepsCount
<1> QED
  BY <1>1, <1>5, <1>6

\* What each stage adds to what the cycle has seen.
LEMMA CycleKeepsCount ==
    ASSUME TypeOK, CountInv, CycleStep \/ Abort \/ ClosedChannelsFails
    PROVE  CountInv'
<1> USE DEF nodeVars
<1>1. tx \in Tables /\ db \in Tables /\ chan \in [Channel -> ChanStatus]
  BY DEF TypeOK
<1>2. CASE BeginSync \/ Abort \/ Commit
  BY <1>2 DEF BeginSync, Abort, Commit, CountInv, Opened, SeenInv
<1>3. CASE FetchFullPage \/ FetchLastPage
  <2>1. tx'.chanActive = tx.chanActive
    BY <1>1, <1>3 DEF FetchFullPage, FetchLastPage, Tables
  <2> QED
    BY <1>3, <2>1, StageKeepsCount DEF FetchFullPage, FetchLastPage
<1>4. CASE SyncListChannels
  <2> DEFINE open == {c \in Channel : chan[c] \in {"online", "offline"}}
  <2>1. /\ tx'.chanActive = (tx.chanActive \ open) \cup {c \in open : chan[c] = "online"}
        /\ UNCHANGED <<chan, coherent, db>> /\ pc' = "closed"
    BY <1>1, <1>4 DEF SyncListChannels, Tables
  <2> QED
    BY <1>1, <2>1 DEF CountInv, Opened, SeenInv
<1>5. CASE SyncClosedChannels
  <2> DEFINE closed == {c \in Channel : chan[c] = "closed"}
  <2>1. /\ tx'.chanActive = tx.chanActive \ closed
        /\ UNCHANGED <<chan, coherent, db>> /\ pc = "closed" /\ pc' = "invoices"
    BY <1>1, <1>5 DEF SyncClosedChannels, Tables
  <2> QED
    BY <2>1 DEF CountInv, Opened, SeenInv
<1>6. CASE ClosedChannelsFails
  BY <1>6 DEF ClosedChannelsFails, CountInv, Opened, SeenInv
<1>7. CASE SyncInvoices \/ SyncPayments
  BY <1>7, PullFeedKeepsCount DEF SyncInvoices, SyncPayments
<1>8. CASE SyncOnchain
  <2>1. tx'.chanActive = tx.chanActive
    BY <1>1, <1>8 DEF SyncOnchain, Upsert, Tables
  <2> QED
    BY <1>8, <2>1, StageKeepsCount DEF SyncOnchain
<1>9. CASE SyncWallet
  <2>1. /\ tx'.chanActive = tx.chanActive /\ tx'.wallet = WalletTotal
        /\ UNCHANGED <<chan, coherent, db>> /\ pc = "wallet" /\ pc' = "commit"
    BY <1>1, <1>9 DEF SyncWallet, Tables
  <2> QED
    BY <2>1 DEF CountInv, Opened, SeenInv, WalletTotal
<1> QED
  BY <1>2, <1>3, <1>4, <1>5, <1>6, <1>7, <1>8, <1>9 DEF CycleStep

LEMMA CountInvAlways == Spec => [](TypeOK /\ CountInv)
<1>1. TypeOK /\ CountInv /\ UNCHANGED vars => CountInv'
  BY DEF vars, CountInv, Opened, SeenInv, WalletTotal
<1>2. TypeOK /\ CountInv /\ [Next]_vars => CountInv'
  BY <1>1, NodeKeepsCount, CycleKeepsCount DEF Next
<1> QED
  BY <1>2, TypeInit, TypeNext, CountInvInit, PTL DEF Spec

\* A cycle during which no channel moved commits balances that count every unit
\* of money once, for every number of channels and whatever earlier cycles,
\* which may have seen several moments, left in the rows.
THEOREM MoneyCountedOnce == Spec => []PortfolioCountsOnce
<1>1. TypeOK /\ CountInv => PortfolioCountsOnce
  <2> SUFFICES ASSUME TypeOK, CountInv, pc = "commit", coherent,
                      \A c \in Channel : chan[c] # "closing"
               PROVE  tx.wallet + Cardinality(tx.chanActive)
                        = Cardinality({c \in Channel : chan[c] # "offline"})
    BY DEF PortfolioCountsOnce
  <2> DEFINE online == {c \in Channel : chan[c] = "online"}
             elsewhere == {c \in Channel : chan[c] \notin {"online", "offline"}}
             counted == {c \in Channel : chan[c] # "offline"}
  <2>1. tx.chanActive \subseteq Channel /\ chan \in [Channel -> ChanStatus]
    BY DEF TypeOK, Tables
  <2>2. tx.chanActive = online
    BY <2>1 DEF CountInv, Opened, SeenInv, ChanStatus
  <2>3. tx.wallet = Cardinality(elsewhere)
    BY DEF CountInv, SeenInv, WalletTotal
  <2>4. IsFiniteSet(online) /\ IsFiniteSet(elsewhere)
    BY ChannelAssumption, FS_Subset
  <2>5. /\ counted = elsewhere \cup online
        /\ elsewhere \cap online = {}
    OBVIOUS
  <2> HIDE DEF online, elsewhere, counted
  <2>6. /\ Cardinality(elsewhere) \in Nat /\ Cardinality(online) \in Nat
        /\ Cardinality(elsewhere \cap online) = 0
    BY <2>4, <2>5, FS_CardinalityType, FS_EmptySet
  <2>7. Cardinality(elsewhere \cup online)
          = Cardinality(elsewhere) + Cardinality(online) - Cardinality(elsewhere \cap online)
    BY <2>4, FS_Union
  <2>8. tx.wallet + Cardinality(tx.chanActive) = Cardinality(counted)
    BY <2>2, <2>3, <2>5, <2>6, <2>7
  <2> QED
    BY <2>8 DEF counted
<1> QED
  BY <1>1, CountInvAlways, PTL

LEMMA CommitIsOneStep ==
    ASSUME IInv, Commit
    PROVE  Ledger!CommitCycle
<1>1. /\ UNCHANGED <<now, fwdLog, feed, chan>> /\ db' = tx
      /\ tx.fwdAt # Never /\ tx.wallet # NoSnapshot
  BY DEF IInv, StageInv, Commit, nodeVars
<1>2. db'.fwdAt \in 0 .. now /\ db'.wallet >= 0
  BY <1>1 DEF IInv, Good, TypeOK, Tables, Never, NoSnapshot
<1> QED
  BY <1>1, <1>2 DEF IInv, Good, Ledger!CommitCycle

\* The staged cycle, seen through its committed tables alone, is LedgerSync: the
\* node's steps map to the node's, a commit to one whole cycle, and every stage,
\* page, rollback and restart to a stutter.
THEOREM SyncRefinesLedger == Spec => LedgerRefined
<1>1. Init => Ledger!Init
  <2> SUFFICES ASSUME Init PROVE Ledger!Init
    OBVIOUS
  <2>1. ~ Ledger!HasRun(db)
    BY DEF Init, EmptyTables, Never, Ledger!HasRun
  <2> QED
    BY <2>1, IInvInit DEF IInv, Good, Ledger!Init
<1>2. IInv /\ [Next]_vars => [Ledger!Next]_(Ledger!vars)
  <2> SUFFICES ASSUME IInv, [Next]_vars
               PROVE  Ledger!Next \/ UNCHANGED Ledger!vars
    OBVIOUS
  <2>1. CASE NodeStep
    BY <2>1, NodeMonotone DEF IInv, Ledger!Next
  <2>2. CASE Commit
    BY <2>2, CommitIsOneStep DEF Ledger!Next
  <2>3. CASE \/ BeginSync \/ FetchFullPage \/ FetchLastPage \/ SyncListChannels
             \/ SyncClosedChannels \/ SyncInvoices \/ SyncPayments \/ SyncOnchain
             \/ SyncWallet \/ ClosedChannelsFails \/ Abort
    BY <2>3 DEF BeginSync, FetchFullPage, FetchLastPage, SyncListChannels,
       SyncClosedChannels, SyncInvoices, SyncPayments, PullFeed, SyncOnchain, SyncWallet,
       ClosedChannelsFails, Abort, nodeVars, Ledger!vars
  <2>4. CASE UNCHANGED vars
    BY <2>4 DEF vars, Ledger!vars
  <2> QED
    BY <2>1, <2>2, <2>3, <2>4 DEF Next, CycleStep
<1> QED
  BY <1>1, <1>2, IInvAlways, PTL DEF Spec, LedgerRefined, Ledger!Spec
=============================================================================
