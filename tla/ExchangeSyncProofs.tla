------------------------- MODULE ExchangeSyncProofs -------------------------
(***************************************************************************)
(* Proofs about ExchangeSync, for every set of credentials and every bound. *)
(*                                                                         *)
(* A settings request writes the key and swaps the client later, so the two *)
(* agree exactly when no request is between those statements; a trigger is  *)
(* only ever sent for a client that was set before it.                      *)
(***************************************************************************)
EXTENDS ExchangeSync, FiniteSetTheorems, TLAPS

-----------------------------------------------------------------------------
(* The inductive invariant.                                                 *)

On == {w \in Worker : run[w].pc # "off"}
One(cond) == IF cond THEN 1 ELSE 0

\* Keys stay with their exchange, also while they are on their way.
KeysOK ==
    /\ \A s \in Source : handler[s].key \in KeyOf(s) \cup {NoKey}
    /\ \A r \in Runner : r # Syncer \/ run[r].pc = "store" =>
          run[r].key \in KeyOf(run[r].src) \cup {NoKey}

\* Without LND the syncer is off; there is a goroutine left for every key saved, since
\* each that runs was started for a saved key.
SlotsOK ==
    /\ run[Syncer].pc # "off" => lnd
    /\ ~ up => \A s \in Source : handler[s] = Idle
    /\ Cardinality(On) + One(handler["strike"] # Idle) + One(handler["coinbase"] # Idle) <= changes
    /\ One(stored["strike"] # NoKey) + One(stored["coinbase"] # NoKey) <= changes
    /\ changes <= MaxChanges

\* The client is that of the stored key, except between the two writes of a request.
SwapOK(s) ==
    IF handler[s].step \in {"clear", "swap"} THEN handler[s].key = stored[s]
    ELSE up /\ lnd => stored[s] \in {client[s]} \cup Malformed

\* Without a removal nothing takes a client away from the syncer that is to use it.
SavedOK(s) ==
    /\ handler[s] = Idle \/ handler[s].key # NoKey
    /\ trigger[s] \/ handler[s].step = "trigger" => client[s] # NoKey
    /\ run[Syncer].pc \in {"balance", "store", "rows", "import"} /\ run[Syncer].src = s =>
          client[s] # NoKey

XInv ==
    /\ TypeOK /\ KeysOK /\ SlotsOK
    /\ \A s \in Source : SwapOK(s)
    /\ removals = 0 => \A s \in Source : SavedOK(s)

-----------------------------------------------------------------------------
(* Handlers and runners, as sets of records.                                *)

Steps == {"idle", "clear", "swap", "trigger"}
Pcs == {"off", "cycle", "select", "balance", "store", "rows", "import"}
Request == [step : Steps, key : Key \cup {NoKey}]
Running == [pc : Pcs, src : Source, key : Key \cup {NoKey}, sats : Nat, rows : Nat]
Account == [sats : Nat, rows : Nat]
Balance == [key : Key \cup {NoKey}, sats : Nat]
Ours(s) == KeyOf(s) \cup {NoKey}

\* What TypeOK says of the variables that a step of a runner or a handler changes.
Shared == /\ account \in [Key -> Account]
          /\ live \in [Source -> Balance]
          /\ imported \in [Key -> Nat]
          /\ stored \in [Source -> Key \cup {NoKey}]
          /\ client \in [Source -> Key \cup {NoKey}]
          /\ tried \in [Source -> Key \cup {NoKey}]
          /\ trigger \in [Source -> BOOLEAN]
          /\ up \in BOOLEAN /\ lnd \in BOOLEAN
          /\ {changes, trades, failures, removals} \subseteq Nat
          /\ \A s \in Source : client[s] \in Ours(s) /\ stored[s] \in Ours(s)
                               /\ live[s].key \in Ours(s)

LEMMA TypeParts ==
    /\ TypeOK <=> Shared /\ handler \in [Source -> Request] /\ run \in [Runner -> Running]
    /\ TypeOK' <=> Shared' /\ handler' \in [Source -> Request] /\ run' \in [Runner -> Running]
BY DEF TypeOK, Shared, Request, Running, Steps, Pcs, Account, Balance, Ours

LEMMA KeysFit == /\ \A s \in Source : KeyOf(s) \subseteq Key /\ Ours(s) \subseteq Key \cup {NoKey}
                 /\ NoKey \notin Key
BY KeyAssumption DEF KeyOf, Ours, Key

LEMMA Records ==
    /\ Idle \in Request /\ Off \in Running /\ NoBalance \in Balance
    /\ \A st \in Steps, k \in Key \cup {NoKey} : [step |-> st, key |-> k] \in Request
    /\ \A h \in Request : h.step \in Steps /\ h.key \in Key \cup {NoKey}
    /\ \A h \in Request, st \in Steps :
          /\ [h EXCEPT !.step = st] \in Request
          /\ [h EXCEPT !.step = st].step = st /\ [h EXCEPT !.step = st].key = h.key
BY DEF Idle, Off, NoBalance, Request, Running, Balance, Steps, Pcs, Source

-----------------------------------------------------------------------------
(* A runner's step.                                                         *)

AtPc(g, pc) == [g EXCEPT !.pc = pc]
Toward(g, pc, s) == [g EXCEPT !.pc = pc, !.src = s]
Fetched(g, k, n) == [g EXCEPT !.pc = "store", !.key = k, !.sats = n]
Listed(g, k, n, pc) == [g EXCEPT !.key = k, !.rows = n, !.pc = pc]

LEMMA Runs ==
    ASSUME NEW g \in Running
    PROVE  /\ g.pc \in Pcs /\ g.src \in Source /\ g.key \in Key \cup {NoKey}
           /\ g.sats \in Nat /\ g.rows \in Nat
           /\ \A pc \in Pcs : /\ AtPc(g, pc) \in Running /\ AtPc(g, pc).pc = pc
                              /\ AtPc(g, pc).src = g.src /\ AtPc(g, pc).key = g.key
           /\ \A pc \in Pcs, s \in Source :
                 /\ Toward(g, pc, s) \in Running /\ Toward(g, pc, s).pc = pc
                 /\ Toward(g, pc, s).src = s /\ Toward(g, pc, s).key = g.key
           /\ \A k \in Key, n \in Nat :
                 /\ Fetched(g, k, n) \in Running /\ Fetched(g, k, n).pc = "store"
                 /\ Fetched(g, k, n).src = g.src /\ Fetched(g, k, n).key = k
           /\ \A k \in Key, n \in Nat, pc \in Pcs :
                 /\ Listed(g, k, n, pc) \in Running /\ Listed(g, k, n, pc).pc = pc
                 /\ Listed(g, k, n, pc).src = g.src /\ Listed(g, k, n, pc).key = k
<1>0. /\ g.pc \in Pcs /\ g.src \in Source /\ g.key \in Key \cup {NoKey}
      /\ g.sats \in Nat /\ g.rows \in Nat
  BY DEF Running
<1>1. \A pc \in Pcs : /\ AtPc(g, pc) \in Running /\ AtPc(g, pc).pc = pc
                     /\ AtPc(g, pc).src = g.src /\ AtPc(g, pc).key = g.key
  BY DEF Running, Pcs, AtPc
<1>2. \A pc \in Pcs, s \in Source :
         /\ Toward(g, pc, s) \in Running /\ Toward(g, pc, s).pc = pc
         /\ Toward(g, pc, s).src = s /\ Toward(g, pc, s).key = g.key
  BY DEF Running, Pcs, Toward
<1>3. \A k \in Key, n \in Nat :
         /\ Fetched(g, k, n) \in Running /\ Fetched(g, k, n).pc = "store"
         /\ Fetched(g, k, n).src = g.src /\ Fetched(g, k, n).key = k
  BY DEF Running, Pcs, Fetched
<1>4. \A k \in Key, n \in Nat, pc \in Pcs :
         /\ Listed(g, k, n, pc) \in Running /\ Listed(g, k, n, pc).pc = pc
         /\ Listed(g, k, n, pc).src = g.src /\ Listed(g, k, n, pc).key = k
  BY ZenonT(60) DEF Running, Pcs, Listed
<1> QED
  BY <1>0, <1>1, <1>2, <1>3, <1>4

LEMMA PcNames == /\ Pcs = {"off", "cycle", "select", "balance", "store", "rows", "import"}
                 /\ \A pc \in {"off", "cycle", "select", "balance", "store", "rows", "import"} :
                       pc \in Pcs
BY DEF Pcs

Busy == {"balance", "store", "rows", "import"}

\* A step of r to g: a runner keeps its exchange while it syncs, and its key if it is
\* a goroutine; the syncer starts only with a client, or at a trigger.
Turn(r, g) ==
    /\ r \in Runner /\ g \in Running /\ up
    /\ run' = [run EXCEPT ![r] = g]
    /\ run[r].pc # "off" /\ g.pc # "off"
    /\ r # Syncer \/ g.pc = "store" => g.key \in Ours(g.src)
    /\ r = Syncer /\ g.pc \in Busy =>
          \/ run[r].pc \in Busy /\ g.src = run[r].src
          \/ client[g.src] # NoKey
          \/ trigger[g.src]

Unswapped == UNCHANGED <<stored, up, lnd, client, handler, changes, removals>>

\* The key of a runner's request is a key of the exchange it syncs.
LEMMA ClientIsOurs ==
    ASSUME TypeOK, KeysOK, NEW r \in Runner
    PROVE  /\ run[r] \in Running /\ run[r].src \in Source
           /\ ClientOf(r) \in Ours(run[r].src)
           /\ ClientOf(r) # NoKey => ClientOf(r) \in Key
<1>1. run[r] \in Running /\ Shared
  BY TypeParts
<1>2. run[r].src \in Source
  BY <1>1, Runs
<1>3. ClientOf(r) \in Ours(run[r].src)
  BY <1>1, <1>2 DEF ClientOf, KeysOK, Shared, Ours
<1> QED
  BY <1>1, <1>2, <1>3, KeysFit DEF Ours

LEMMA GotoTurns ==
    ASSUME TypeOK, KeysOK, NEW r \in Runner, up, NEW pc \in Pcs, Goto(r, pc),
           run[r].pc # "off", pc # "off", pc # "store",
           r = Syncer /\ pc \in Busy => run[r].pc \in Busy
    PROVE  \E g \in Running : Turn(r, g)
<1>1. run[r] \in Running /\ run[r].src \in Source /\ ClientOf(r) \in Ours(run[r].src)
  BY ClientIsOurs
<1>2. run' = [run EXCEPT ![r] = AtPc(run[r], pc)]
  BY DEF Goto, AtPc
<1>3. /\ AtPc(run[r], pc) \in Running /\ AtPc(run[r], pc).pc = pc
      /\ AtPc(run[r], pc).src = run[r].src /\ AtPc(run[r], pc).key = run[r].key
  BY <1>1, Runs, SMTT(30)
<1>4. Turn(r, AtPc(run[r], pc))
  BY <1>1, <1>2, <1>3 DEF Turn, ClientOf
<1> QED
  BY <1>3, <1>4

LEMMA TickTurns ==
    ASSUME TypeOK, KeysOK, NEW r \in Runner, Tick(r)
    PROVE  \E g \in Running : Turn(r, g)
<1> DEFINE pc == IF r = Syncer THEN "cycle" ELSE "balance"
<1>1. /\ up /\ run[r].pc # "off" /\ Goto(r, pc)
      /\ pc # "off" /\ pc # "store" /\ (r = Syncer /\ pc \in Busy => run[r].pc \in Busy)
  BY DEF Tick, At, Busy
<1>2. pc \in Pcs
  BY DEF Pcs
<1> HIDE DEF pc
<1> QED
  BY <1>1, <1>2, GotoTurns

LEMMA CycleFailsTurns ==
    ASSUME TypeOK, KeysOK, CycleFails
    PROVE  \E g \in Running : Turn(Syncer, g)
<1>1. up /\ run[Syncer].pc # "off" /\ Goto(Syncer, "select")
  BY DEF CycleFails, At
<1>2. "select" \in Pcs /\ "select" \notin Busy
  BY DEF Pcs, Busy
<1>3. Syncer \in Runner
  BY DEF Runner
<1> QED
  BY <1>1, <1>2, <1>3, GotoTurns

LEMMA StoreTurns ==
    ASSUME TypeOK, KeysOK, NEW r \in Runner, StoreBalance(r)
    PROVE  \E g \in Running : Turn(r, g)
<1>1. up /\ run[r].pc # "off" /\ Goto(r, "rows") /\ run[r].pc \in Busy
  BY DEF StoreBalance, At, Busy
<1>2. "rows" \in Pcs
  BY DEF Pcs
<1> QED
  BY <1>1, <1>2, GotoTurns

LEMMA ImportTurns ==
    ASSUME TypeOK, KeysOK, NEW r \in Runner, ImportRows(r)
    PROVE  \E g \in Running : Turn(r, g)
<1>1. up /\ run[r].pc # "off" /\ Goto(r, "select")
  BY DEF ImportRows, At
<1>2. "select" \in Pcs /\ "select" \notin Busy
  BY DEF Pcs, Busy
<1> QED
  BY <1>1, <1>2, GotoTurns

LEMMA FetchBalanceTurns ==
    ASSUME TypeOK, KeysOK, NEW r \in Runner, FetchBalance(r)
    PROVE  \E g \in Running : Turn(r, g)
<1>1. /\ run[r] \in Running /\ run[r].src \in Source
      /\ ClientOf(r) \in Ours(run[r].src) /\ ClientOf(r) \in Key
  BY ClientIsOurs DEF FetchBalance
<1> DEFINE k == ClientOf(r)
           n == account[k].sats
<1>2. up /\ run[r].pc # "off" /\ run[r].pc \in Busy
  BY DEF FetchBalance, At, Busy
<1>5. run[r] \in Running
  BY <1>1
<1>3. CASE Goto(r, "rows")
  <2>1. "rows" \in Pcs
    BY DEF Pcs
  <2> QED
    BY <1>2, <1>3, <2>1, GotoTurns
<1>4. CASE run' = [run EXCEPT ![r] = [@ EXCEPT !.pc = "store", !.key = k, !.sats = n]]
  <2>1. run' = [run EXCEPT ![r] = Fetched(run[r], k, n)]
    BY <1>4 DEF Fetched
  <2>2. n \in Nat
    BY <1>1, TypeParts DEF Shared, Account
  <2> HIDE DEF k, n
  <2>3. k \in Key
    BY <1>1 DEF k
  <2>4. /\ Fetched(run[r], k, n) \in Running /\ Fetched(run[r], k, n).pc = "store"
        /\ Fetched(run[r], k, n).src = run[r].src /\ Fetched(run[r], k, n).key = k
    BY <1>5, <2>2, <2>3, Runs
  <2>5. Turn(r, Fetched(run[r], k, n))
    BY <1>1, <1>2, <2>1, <2>4 DEF Turn, k
  <2> QED
    BY <2>4, <2>5
<1> QED
  BY <1>3, <1>4 DEF FetchBalance

LEMMA FetchRowsTurns ==
    ASSUME TypeOK, KeysOK, NEW r \in Runner, FetchRows(r)
    PROVE  \E g \in Running : Turn(r, g)
<1>1. /\ run[r] \in Running /\ run[r].src \in Source
      /\ ClientOf(r) \in Ours(run[r].src) /\ ClientOf(r) \in Key
  BY ClientIsOurs DEF FetchRows
<1> DEFINE k == ClientOf(r)
           n == account[k].rows
           pc == IF n = 0 THEN "select" ELSE "import"
<1>2. up /\ run[r].pc # "off" /\ run[r].pc \in Busy
  BY DEF FetchRows, At, Busy
<1>5. run[r] \in Running
  BY <1>1
<1>3. CASE Goto(r, "select")
  <2>1. "select" \in Pcs
    BY DEF Pcs
  <2> QED
    BY <1>2, <1>3, <2>1, GotoTurns
<1>4. CASE run' = [run EXCEPT ![r] = [@ EXCEPT !.key = k, !.rows = n, !.pc = pc]]
  <2>1. run' = [run EXCEPT ![r] = Listed(run[r], k, n, pc)]
    BY <1>4 DEF Listed
  <2>2. n \in Nat
    BY <1>1, TypeParts DEF Shared, Account
  <2>3. pc \in Pcs /\ pc # "off"
    BY DEF Pcs
  <2> HIDE DEF k, n, pc
  <2>4. k \in Key
    BY <1>1 DEF k
  <2>5. /\ Listed(run[r], k, n, pc) \in Running /\ Listed(run[r], k, n, pc).pc = pc
        /\ Listed(run[r], k, n, pc).src = run[r].src /\ Listed(run[r], k, n, pc).key = k
    BY <1>5, <2>2, <2>3, <2>4, Runs, SMTT(30)
  <2>6. Turn(r, Listed(run[r], k, n, pc))
    BY <1>1, <1>2, <2>1, <2>3, <2>5 DEF Turn, k
  <2> QED
    BY <2>5, <2>6
<1> QED
  BY <1>3, <1>4 DEF FetchRows

LEMMA EndCycleTurns ==
    ASSUME TypeOK, KeysOK, EndCycle
    PROVE  \E g \in Running : Turn(Syncer, g)
<1> DEFINE pc == IF client["strike"] # NoKey THEN "balance" ELSE "select"
<1>1. Syncer \in Runner /\ "strike" \in Source
  BY DEF Runner, Source
<1>2. run[Syncer] \in Running
  BY <1>1, ClientIsOurs
<1>3. run' = [run EXCEPT ![Syncer] = Toward(run[Syncer], pc, "strike")]
      /\ up /\ run[Syncer].pc # "off"
  BY DEF EndCycle, At, Toward
<1>4. pc \in Pcs /\ pc # "off" /\ pc # "store" /\ (pc \in Busy => client["strike"] # NoKey)
  BY DEF Pcs, Busy
<1> HIDE DEF pc
<1>5. /\ Toward(run[Syncer], pc, "strike") \in Running
      /\ Toward(run[Syncer], pc, "strike").pc = pc
      /\ Toward(run[Syncer], pc, "strike").src = "strike"
  BY <1>1, <1>2, <1>4, Runs
<1>6. Turn(Syncer, Toward(run[Syncer], pc, "strike"))
  BY <1>1, <1>3, <1>4, <1>5 DEF Turn
<1> QED
  BY <1>5, <1>6

LEMMA TakeTriggerTurns ==
    ASSUME TypeOK, KeysOK, NEW s \in Source, TakeTrigger(s), run' # run
    PROVE  \E g \in Running : Turn(Syncer, g)
<1>1. Syncer \in Runner /\ "balance" \in Pcs
  BY DEF Runner, Pcs
<1>2. run[Syncer] \in Running
  BY <1>1, ClientIsOurs
<1>3. run' = [run EXCEPT ![Syncer] = Toward(run[Syncer], "balance", s)]
      /\ up /\ run[Syncer].pc # "off" /\ trigger[s]
  BY DEF TakeTrigger, At, Toward
<1>5. /\ Toward(run[Syncer], "balance", s) \in Running
      /\ Toward(run[Syncer], "balance", s).pc = "balance"
      /\ Toward(run[Syncer], "balance", s).src = s
  BY <1>1, <1>2, Runs
<1>6. Turn(Syncer, Toward(run[Syncer], "balance", s))
  BY <1>1, <1>3, <1>5 DEF Turn
<1> QED
  BY <1>5, <1>6

-----------------------------------------------------------------------------
(* The goroutines that run.                                                 *)

LEMMA MaxOfTwo ==
    ASSUME NEW a \in Nat, NEW b \in Nat
    PROVE  Max({a, b}) = IF a >= b THEN a ELSE b
<1> DEFINE m == IF a >= b THEN a ELSE b
<1>1. m \in {a, b} /\ (\A y \in {a, b} : m >= y)
  OBVIOUS
<1>2. \A x \in {a, b} : (\A y \in {a, b} : x >= y) => x = m
  OBVIOUS
<1> HIDE DEF m
<1>3. Max({a, b}) = m
  BY <1>1, <1>2, Zenon DEF Max
<1> QED
  BY <1>3 DEF m

LEMMA Workers ==
    /\ IsFiniteSet(Worker) /\ Cardinality(Worker) >= MaxChanges
    /\ 1 \in Worker /\ 2 \in Worker /\ Syncer \notin Worker
    /\ Worker \subseteq Runner /\ Syncer \in Runner
<1> DEFINE m == Max({MaxChanges, 2})
<1>1. MaxChanges \in Nat
  BY BoundsAssumption
<1>2. m \in Nat /\ m >= MaxChanges /\ m >= 2
  BY <1>1, MaxOfTwo
<1>3. Worker = 1 .. m
  BY DEF Worker
<1> HIDE DEF m
<1>4. IsFiniteSet(1 .. m) /\ Cardinality(1 .. m) = m
  <2>1. 1 \in Int /\ m \in Int
    BY <1>2
  <2>2. /\ IsFiniteSet(1 .. m)
        /\ Cardinality(1 .. m) = IF 1 > m THEN 0 ELSE m - 1 + 1
    BY <2>1, FS_Interval
  <2> QED
    BY <1>2, <2>2
<1>5. IsFiniteSet(Worker) /\ Cardinality(Worker) >= MaxChanges
  BY <1>2, <1>3, <1>4
<1> QED
  BY <1>2, <1>3, <1>5 DEF Runner, Syncer

OnOf(f) == {w \in Worker : f[w].pc # "off"}

LEMMA OnIsFinite ==
    ASSUME NEW f
    PROVE  /\ IsFiniteSet(OnOf(f)) /\ Cardinality(OnOf(f)) \in Nat
           /\ OnOf(f) # Worker => Cardinality(OnOf(f)) < Cardinality(Worker)
           /\ OnOf(f) = Worker => Cardinality(OnOf(f)) >= MaxChanges
<1>1. OnOf(f) \in SUBSET Worker
  BY DEF OnOf
<1>2. /\ IsFiniteSet(OnOf(f)) /\ Cardinality(OnOf(f)) <= Cardinality(Worker)
      /\ Cardinality(Worker) = Cardinality(OnOf(f)) => Worker = OnOf(f)
  <2>1. IsFiniteSet(Worker)
    BY Workers
  <2> QED
    BY <1>1, <2>1, FS_Subset
<1>3. Cardinality(OnOf(f)) \in Nat /\ Cardinality(Worker) \in Nat
  BY <1>2, Workers, FS_CardinalityType
<1> QED
  BY <1>2, <1>3, Workers

\* A free goroutine is found, and starting it adds one to those that run.
LEMMA StartOne ==
    ASSUME NEW f \in [Runner -> Running], Cardinality(OnOf(f)) < MaxChanges, NEW g \in Running,
           g.pc # "off"
    PROVE  LET w == CHOOSE v \in Worker : f[v].pc = "off"
           IN  /\ w \in Worker /\ f[w].pc = "off"
               /\ Cardinality(OnOf([f EXCEPT ![w] = g])) = Cardinality(OnOf(f)) + 1
<1> DEFINE w == CHOOSE v \in Worker : f[v].pc = "off"
<1>1. OnOf(f) # Worker
  <2>1. Cardinality(OnOf(f)) \in Nat /\ MaxChanges \in Nat
    BY OnIsFinite, BoundsAssumption
  <2> QED
    BY <2>1, OnIsFinite
<1>2. \E v \in Worker : f[v].pc = "off"
  BY <1>1 DEF OnOf
<1>3. w \in Worker /\ f[w].pc = "off"
  BY <1>2, Zenon
<1> HIDE DEF w
<1>4. OnOf([f EXCEPT ![w] = g]) = OnOf(f) \cup {w} /\ w \notin OnOf(f)
  <2>1. \A v \in Worker : [f EXCEPT ![w] = g][v] = IF v = w THEN g ELSE f[v]
    BY Workers
  <2> QED
    BY <1>3, <2>1 DEF OnOf
<1>5. Cardinality(OnOf(f) \cup {w}) = Cardinality(OnOf(f)) + 1
  BY <1>4, OnIsFinite, FS_AddElement
<1>6. Cardinality(OnOf([f EXCEPT ![w] = g])) = Cardinality(OnOf(f)) + 1
  BY <1>4, <1>5
<1> QED
  BY <1>3, <1>6 DEF w

\* A step of one that runs leaves them the same.
LEMMA GoOn ==
    ASSUME NEW f \in [Runner -> Running], NEW r \in Runner, NEW g \in Running,
           g.pc # "off", f[r].pc # "off"
    PROVE  OnOf([f EXCEPT ![r] = g]) = OnOf(f)
BY Workers DEF OnOf

-----------------------------------------------------------------------------
(* The steps of the runners keep the invariant.                             *)

LEMMA TurnKeeps ==
    ASSUME XInv, NEW r \in Runner, NEW g \in Running, Turn(r, g), Unswapped, Shared',
           \A s \in Source : trigger'[s] => trigger[s]
    PROVE  XInv'
<1>1. /\ TypeOK /\ KeysOK /\ SlotsOK /\ Shared
      /\ handler \in [Source -> Request] /\ run \in [Runner -> Running]
  BY TypeParts DEF XInv
<1>2. \A q \in Runner : run'[q] = IF q = r THEN g ELSE run[q]
  BY <1>1 DEF Turn
<1>3. TypeOK'
  <2>1. run' \in [Runner -> Running] /\ handler' \in [Source -> Request]
    BY <1>1 DEF Turn, Unswapped
  <2> QED
    BY <2>1, TypeParts
<1>4. KeysOK'
  BY <1>1, <1>2 DEF Turn, Unswapped, KeysOK, Ours
<1>5. SlotsOK'
  <2>1. OnOf(run') = OnOf(run)
    BY <1>1, GoOn DEF Turn
  <2>2. On' = On
    BY <2>1 DEF On, OnOf
  <2>3. run'[Syncer].pc # "off" => lnd'
    BY <1>1, <1>2, Workers DEF SlotsOK, Turn, Unswapped
  <2> QED
    BY <1>1, <2>2, <2>3 DEF SlotsOK, Unswapped
<1>6. \A s \in Source : SwapOK(s)'
  BY DEF XInv, SwapOK, Unswapped
<1>7. ASSUME removals' = 0, NEW s \in Source
      PROVE  SavedOK(s)'
  <2>1. \A t \in Source : SavedOK(t)
    BY <1>7 DEF XInv, Unswapped
  <2>2. handler'[s] = Idle \/ handler'[s].key # NoKey
    BY <2>1 DEF SavedOK, Unswapped
  <2>3. trigger'[s] \/ handler'[s].step = "trigger" => client'[s] # NoKey
    BY <2>1 DEF SavedOK, Unswapped
  <2>4. ASSUME run'[Syncer].pc \in Busy, run'[Syncer].src = s
        PROVE  client'[s] # NoKey
    <3>1. CASE r = Syncer
      <4>1. g.pc \in Busy /\ g.src = s
        BY <1>2, <2>4, <3>1
      <4> QED
        BY <2>1, <3>1, <4>1 DEF SavedOK, Turn, Unswapped, Busy
    <3>2. CASE r # Syncer
      <4>1. run[Syncer].pc \in Busy /\ run[Syncer].src = s
        BY <1>2, <2>4, <3>2, Workers
      <4> QED
        BY <2>1, <4>1 DEF SavedOK, Unswapped, Busy
    <3> QED
      BY <3>1, <3>2
  <2> QED
    BY <2>2, <2>3, <2>4 DEF SavedOK, Busy
<1> QED
  BY <1>3, <1>4, <1>5, <1>6, <1>7 DEF XInv

\* The steps of runners, all but the select of a trigger.
LEMMA RunnerKeeps ==
    ASSUME XInv, NEW r \in Runner, RunnerStep(r)
    PROVE  XInv'
<1>0. /\ TypeOK /\ KeysOK /\ Shared /\ Syncer \in Runner
  BY TypeParts, Workers DEF XInv
<1>1. run[r] \in Running /\ run[r].src \in Source
  BY <1>0, ClientIsOurs
<1>2. CASE Tick(r)
  <2>1. Shared'
    BY <1>0, <1>2 DEF Tick, Shared, dbVars, bounds
  <2>2. Unswapped /\ trigger' = trigger
    BY <1>2 DEF Tick, Unswapped, dbVars, bounds
  <2> QED
    BY <1>0, <1>2, <2>1, <2>2, TickTurns, TurnKeeps
<1>3. CASE FetchBalance(r)
  <2>1. ClientOf(r) \in Key /\ ClientOf(r) \in Ours(run[r].src)
    BY <1>0, <1>3, ClientIsOurs DEF FetchBalance
  <2>2. tried' \in [Source -> Key \cup {NoKey}]
    BY <1>0, <2>1, <1>3 DEF FetchBalance, Shared
  <2>3. Shared'
    BY <1>0, <1>3, <2>2 DEF FetchBalance, Shared, dbVars, MayFail
  <2>4. Unswapped /\ trigger' = trigger
    BY <1>3 DEF FetchBalance, Unswapped, dbVars
  <2> QED
    BY <1>0, <1>3, <2>3, <2>4, FetchBalanceTurns, TurnKeeps
<1>4. CASE StoreBalance(r)
  <2>1. /\ run[r].key \in Key \cup {NoKey} /\ run[r].sats \in Nat
        /\ run[r].key \in Ours(run[r].src)
    <3>1. run[r].pc = "store"
      BY <1>4 DEF StoreBalance, At
    <3> QED
      BY <1>0, <1>1, <3>1, Runs DEF XInv, KeysOK, Ours
  <2> DEFINE b == [key |-> run[r].key, sats |-> run[r].sats]
  <2>2. b \in Balance /\ b.key \in Ours(run[r].src)
    BY <2>1 DEF Balance
  <2>3. live' = [live EXCEPT ![run[r].src] = b] \/ live' = live
    BY <1>4 DEF StoreBalance
  <2> HIDE DEF b
  <2>4. live' \in [Source -> Balance] /\ \A s \in Source : live'[s].key \in Ours(s)
    BY <1>0, <1>1, <2>2, <2>3 DEF Shared
  <2>5. Shared'
    BY <1>0, <1>4, <2>4 DEF StoreBalance, Shared, MayFail
  <2>6. Unswapped /\ trigger' = trigger
    BY <1>4 DEF StoreBalance, Unswapped
  <2> QED
    BY <1>0, <1>4, <2>5, <2>6, StoreTurns, TurnKeeps
<1>5. CASE FetchRows(r)
  <2>1. Shared'
    BY <1>0, <1>5 DEF FetchRows, Shared, dbVars, MayFail
  <2>2. Unswapped /\ trigger' = trigger
    BY <1>5 DEF FetchRows, Unswapped, dbVars
  <2> QED
    BY <1>0, <1>5, <2>1, <2>2, FetchRowsTurns, TurnKeeps
<1>6. CASE ImportRows(r)
  <2>1. imported' \in [Key -> Nat]
    <3>1. run[r].rows \in Nat
      BY <1>1, Runs
    <3>2. \A k \in Key : Max({imported[k], run[r].rows}) \in Nat
      <4> SUFFICES ASSUME NEW k \in Key PROVE Max({imported[k], run[r].rows}) \in Nat
        OBVIOUS
      <4>1. imported[k] \in Nat
        BY <1>0 DEF Shared
      <4>2. Max({imported[k], run[r].rows})
              = IF imported[k] >= run[r].rows THEN imported[k] ELSE run[r].rows
        BY <3>1, <4>1, MaxOfTwo
      <4> QED
        BY <3>1, <4>1, <4>2
    <3>3. \/ imported' = [imported EXCEPT ![run[r].key] = Max({imported[run[r].key], run[r].rows})]
          \/ imported' = imported
      BY <1>6 DEF ImportRows
    <3> QED
      BY <1>0, <3>2, <3>3 DEF Shared
  <2>2. Shared'
    BY <1>0, <1>6, <2>1 DEF ImportRows, Shared, MayFail
  <2>3. Unswapped /\ trigger' = trigger
    BY <1>6 DEF ImportRows, Unswapped
  <2> QED
    BY <1>0, <1>6, <2>2, <2>3, ImportTurns, TurnKeeps
<1>7. CASE r = Syncer /\ EndCycle
  <2>1. Shared'
    BY <1>0, <1>7 DEF EndCycle, Shared, dbVars, bounds
  <2>2. Unswapped /\ trigger' = trigger
    BY <1>7 DEF EndCycle, Unswapped, dbVars, bounds
  <2> QED
    BY <1>0, <1>7, <2>1, <2>2, EndCycleTurns, TurnKeeps
<1> QED
  BY <1>2, <1>3, <1>4, <1>5, <1>6, <1>7 DEF RunnerStep

LEMMA CycleFailsKeeps ==
    ASSUME XInv, CycleFails
    PROVE  XInv'
<1>0. TypeOK /\ KeysOK /\ Shared /\ Syncer \in Runner
  BY TypeParts, Workers DEF XInv
<1>1. Shared'
  BY <1>0 DEF CycleFails, Shared, dbVars, MayFail
<1>2. Unswapped /\ trigger' = trigger
  BY DEF CycleFails, Unswapped, dbVars
<1> QED
  BY <1>0, <1>1, <1>2, CycleFailsTurns, TurnKeeps

LEMMA TakeTriggerKeeps ==
    ASSUME XInv, NEW s \in Source, TakeTrigger(s)
    PROVE  XInv'
<1>0. TypeOK /\ KeysOK /\ SlotsOK /\ Shared /\ Syncer \in Runner
  BY TypeParts, Workers DEF XInv
<1>1. trigger' \in [Source -> BOOLEAN] /\ \A t \in Source : trigger'[t] => trigger[t]
  BY <1>0 DEF TakeTrigger, Shared
<1>2. Shared'
  BY <1>0, <1>1 DEF TakeTrigger, Shared, dbVars, bounds
<1>3. Unswapped
  BY DEF TakeTrigger, Unswapped, dbVars, bounds
<1>4. CASE run' # run
  BY <1>0, <1>1, <1>2, <1>3, <1>4, TakeTriggerTurns, TurnKeeps
<1>5. CASE run' = run
  <2>1. TypeOK'
    <3>1. run' \in [Runner -> Running] /\ handler' \in [Source -> Request]
      BY <1>0, <1>3, <1>5, TypeParts DEF Unswapped
    <3> QED
      BY <1>2, <3>1, TypeParts
  <2>2. KeysOK' /\ SlotsOK' /\ \A t \in Source : SwapOK(t)'
    BY <1>0, <1>3, <1>5 DEF XInv, KeysOK, SlotsOK, SwapOK, Unswapped, On
  <2>3. removals' = 0 => \A t \in Source : SavedOK(t)'
    BY <1>1, <1>3, <1>5 DEF XInv, SavedOK, Unswapped
  <2> QED
    BY <2>1, <2>2, <2>3 DEF XInv
<1> QED
  BY <1>4, <1>5

-----------------------------------------------------------------------------
(* The steps of the settings requests keep the invariant.                   *)

OpenOf(h) == [t \in Source |-> One(h[t] # Idle)]
SetOf(k) == [t \in Source |-> One(k[t] # NoKey)]

\* A sum over the two exchanges changes by what one of them changes.
LEMMA SumOverSources ==
    ASSUME NEW f \in [Source -> Nat], NEW g \in [Source -> Nat], NEW s \in Source,
           \A t \in Source \ {s} : g[t] = f[t]
    PROVE  g["strike"] + g["coinbase"] = f["strike"] + f["coinbase"] - f[s] + g[s]
BY DEF Source

LEMMA OpenSets ==
    /\ \A h : OpenOf(h) \in [Source -> Nat] /\ \A s \in Source : OpenOf(h)[s] = One(h[s] # Idle)
    /\ \A k : SetOf(k) \in [Source -> Nat] /\ \A s \in Source : SetOf(k)[s] = One(k[s] # NoKey)
    /\ "strike" \in Source /\ "coinbase" \in Source
BY DEF OpenOf, SetOf, One, Source

\* SlotsOK, with its sums written so.
LEMMA SlotSums ==
    /\ SlotsOK <=>
          /\ run[Syncer].pc # "off" => lnd
          /\ ~ up => \A s \in Source : handler[s] = Idle
          /\ Cardinality(OnOf(run)) + OpenOf(handler)["strike"] + OpenOf(handler)["coinbase"]
                <= changes
          /\ SetOf(stored)["strike"] + SetOf(stored)["coinbase"] <= changes
          /\ changes <= MaxChanges
    /\ SlotsOK' <=>
          /\ run'[Syncer].pc # "off" => lnd'
          /\ ~ up' => \A s \in Source : handler'[s] = Idle
          /\ Cardinality(OnOf(run')) + OpenOf(handler')["strike"] + OpenOf(handler')["coinbase"]
                <= changes'
          /\ SetOf(stored')["strike"] + SetOf(stored')["coinbase"] <= changes'
          /\ changes' <= MaxChanges
BY OpenSets DEF SlotsOK, On, OnOf

LEMMA SlotTypes ==
    ASSUME TypeOK
    PROVE  /\ Cardinality(OnOf(run)) \in Nat /\ changes \in Nat /\ MaxChanges \in Nat
BY OnIsFinite, BoundsAssumption DEF TypeOK

\* A request begins: it may take a goroutine later, and may store a key now.
LEMMA ChangeKeepsSlots ==
    ASSUME TypeOK, SlotsOK, NEW s \in Source, Change(s), NEW k, NEW h,
           stored' = [stored EXCEPT ![s] = k], handler' = [handler EXCEPT ![s] = h],
           UNCHANGED <<run, lnd, up>>
    PROVE  SlotsOK'
<1>1. /\ \A t \in Source \ {s} : OpenOf(handler')[t] = OpenOf(handler)[t]
      /\ \A t \in Source \ {s} : SetOf(stored')[t] = SetOf(stored)[t]
      /\ OpenOf(handler)[s] = 0 /\ OpenOf(handler')[s] \in {0, 1}
      /\ SetOf(stored)[s] \in {0, 1} /\ SetOf(stored')[s] \in {0, 1}
  <2>1. /\ \A t \in Source \ {s} : handler'[t] = handler[t] /\ stored'[t] = stored[t]
        /\ handler[s] = Idle
    BY DEF Change, TypeOK
  <2> QED
    BY <2>1 DEF OpenOf, SetOf, One
<1>2. OpenOf(handler')["strike"] + OpenOf(handler')["coinbase"]
        <= OpenOf(handler)["strike"] + OpenOf(handler)["coinbase"] + 1
  <2>1. OpenOf(handler')["strike"] + OpenOf(handler')["coinbase"]
          = OpenOf(handler)["strike"] + OpenOf(handler)["coinbase"] - OpenOf(handler)[s]
            + OpenOf(handler')[s]
    <3>1. \A t \in Source \ {s} : OpenOf(handler')[t] = OpenOf(handler)[t]
      BY <1>1
    <3>2. OpenOf(handler) \in [Source -> Nat] /\ OpenOf(handler') \in [Source -> Nat]
      BY OpenSets
    <3> QED
      BY <3>1, <3>2, SumOverSources
  <2> QED
    BY <1>1, <2>1, OpenSets
<1>3. SetOf(stored')["strike"] + SetOf(stored')["coinbase"]
        <= SetOf(stored)["strike"] + SetOf(stored)["coinbase"] + 1
  <2>1. SetOf(stored')["strike"] + SetOf(stored')["coinbase"]
          = SetOf(stored)["strike"] + SetOf(stored)["coinbase"] - SetOf(stored)[s]
            + SetOf(stored')[s]
    <3>1. \A t \in Source \ {s} : SetOf(stored')[t] = SetOf(stored)[t]
      BY <1>1
    <3>2. SetOf(stored) \in [Source -> Nat] /\ SetOf(stored') \in [Source -> Nat]
      BY OpenSets
    <3> QED
      BY <3>1, <3>2, SumOverSources
  <2> QED
    BY <1>1, <2>1, OpenSets
<1>4. changes' = changes + 1 /\ changes < MaxChanges /\ up
  BY DEF Change
<1> QED
  BY <1>2, <1>3, <1>4, SlotSums, SlotTypes, OpenSets

\* A request that moves on holds what it held.
LEMMA RequestKeepsSlots ==
    ASSUME TypeOK, SlotsOK, NEW s \in Source, NEW h, handler[s] # Idle, up,
           handler' = [handler EXCEPT ![s] = h],
           UNCHANGED <<run, lnd, up, stored, changes>>
    PROVE  SlotsOK'
<1>1. /\ \A t \in Source \ {s} : OpenOf(handler')[t] = OpenOf(handler)[t]
      /\ OpenOf(handler)[s] = 1 /\ OpenOf(handler')[s] \in {0, 1}
  <2>1. \A t \in Source \ {s} : handler'[t] = handler[t]
    BY DEF TypeOK
  <2> QED
    BY <2>1 DEF OpenOf, One
<1>2. OpenOf(handler')["strike"] + OpenOf(handler')["coinbase"]
          = OpenOf(handler)["strike"] + OpenOf(handler)["coinbase"] - OpenOf(handler)[s]
            + OpenOf(handler')[s]
  BY <1>1, OpenSets, SumOverSources
<1>3. OpenOf(handler')["strike"] + OpenOf(handler')["coinbase"]
        <= OpenOf(handler)["strike"] + OpenOf(handler)["coinbase"]
  BY <1>1, <1>2, OpenSets
<1> QED
  BY <1>3, SlotSums, SlotTypes, OpenSets

\* The request about s moves to h, and touches nothing of the other exchange.
Moves(s, h) ==
    /\ handler' = [handler EXCEPT ![s] = h] /\ h \in Request /\ h.key \in Ours(s)
    /\ \A t \in Source \ {s} : /\ stored'[t] = stored[t] /\ client'[t] = client[t]
                               /\ trigger'[t] = trigger[t]
    /\ up' = up /\ lnd' = lnd /\ (removals' = 0 => removals = 0)

LEMMA MovesKeep ==
    ASSUME XInv, NEW s \in Source, NEW h, Moves(s, h), Shared', SlotsOK', run' = run,
           SwapOK(s)', removals' = 0 => SavedOK(s)'
    PROVE  XInv'
<1>1. /\ KeysOK /\ handler \in [Source -> Request] /\ run \in [Runner -> Running]
  BY TypeParts DEF XInv
<1>2. \A t \in Source : handler'[t] = IF t = s THEN h ELSE handler[t]
  BY <1>1 DEF Moves
<1>3. TypeOK'
  <2>1. handler' \in [Source -> Request] /\ run' \in [Runner -> Running]
    BY <1>1 DEF Moves
  <2> QED
    BY <2>1, TypeParts
<1>4. KeysOK'
  BY <1>1, <1>2 DEF Moves, KeysOK, Ours
<1>5. \A t \in Source : SwapOK(t)'
  BY <1>2 DEF XInv, Moves, SwapOK
<1>6. removals' = 0 => \A t \in Source : SavedOK(t)'
  BY <1>2 DEF XInv, Moves, SavedOK
<1> QED
  BY <1>3, <1>4, <1>5, <1>6 DEF XInv

LEMMA SaveKeyKeeps ==
    ASSUME XInv, NEW s \in Source, NEW k \in KeyOf(s), SaveKey(s, k)
    PROVE  XInv'
<1> DEFINE h == [step |-> "swap", key |-> k]
<1>1. TypeOK /\ SlotsOK /\ Shared /\ handler \in [Source -> Request]
  BY TypeParts DEF XInv
<1>2. h \in Request /\ h.key = k /\ h.step = "swap" /\ h # Idle
  BY KeysFit DEF Request, Steps, Idle
<1>3. handler' = [handler EXCEPT ![s] = h]
  BY DEF SaveKey
<1> HIDE DEF h
<1>4. k \in Ours(s) /\ k # NoKey /\ k \in Key
  BY KeysFit DEF Ours
<1>5. stored' = [stored EXCEPT ![s] = k]
  BY DEF SaveKey
<1>6. Shared'
  BY <1>1, <1>4, <1>5 DEF SaveKey, Change, Shared
<1>7. Moves(s, h)
  BY <1>1, <1>2, <1>3, <1>4, <1>5 DEF SaveKey, Moves, Shared
<1>8. SlotsOK'
  BY <1>1, <1>3, <1>5, ChangeKeepsSlots DEF SaveKey
<1>9. handler'[s] = h /\ stored'[s] = k
  BY <1>1, <1>3, <1>5 DEF Shared
<1>10. SwapOK(s)'
  BY <1>2, <1>9 DEF SwapOK
<1>11. removals' = 0 => SavedOK(s)'
  BY <1>2, <1>4, <1>9 DEF XInv, SaveKey, SavedOK
<1> QED
  BY <1>6, <1>7, <1>8, <1>10, <1>11, MovesKeep DEF SaveKey

LEMMA DisconnectKeeps ==
    ASSUME XInv, NEW s \in Source, Disconnect(s)
    PROVE  XInv'
<1> DEFINE h == [step |-> IF s = "coinbase" THEN "clear" ELSE "swap", key |-> NoKey]
<1>1. TypeOK /\ SlotsOK /\ Shared /\ handler \in [Source -> Request]
  BY TypeParts DEF XInv
<1>2. h \in Request /\ h.key = NoKey /\ h.step \in {"clear", "swap"}
  BY KeysFit DEF Request, Steps
<1>3. handler' = [handler EXCEPT ![s] = h]
  BY DEF Disconnect
<1> HIDE DEF h
<1>4. NoKey \in Ours(s)
  BY DEF Ours
<1>5. stored' = [stored EXCEPT ![s] = NoKey]
  BY DEF Disconnect
<1>6. Shared'
  BY <1>1, <1>4, <1>5 DEF Disconnect, Change, Shared
<1>7. removals' # 0
  BY <1>1 DEF Shared, Disconnect
<1>8. Moves(s, h)
  BY <1>1, <1>2, <1>3, <1>4, <1>5, <1>7 DEF Disconnect, Moves, Shared
<1>9. SlotsOK'
  BY <1>1, <1>3, <1>5, ChangeKeepsSlots DEF Disconnect
<1>10. SwapOK(s)'
  <2>1. handler'[s] = h /\ stored'[s] = NoKey
    BY <1>1, <1>3, <1>5 DEF Shared
  <2> QED
    BY <1>2, <2>1 DEF SwapOK
<1> QED
  BY <1>6, <1>7, <1>8, <1>9, <1>10, MovesKeep DEF Disconnect

LEMMA ClearLiveKeeps ==
    ASSUME XInv, NEW s \in Source, ClearLive(s)
    PROVE  XInv'
<1> DEFINE h == [handler[s] EXCEPT !.step = "swap"]
<1>1. /\ TypeOK /\ KeysOK /\ SlotsOK /\ Shared /\ handler \in [Source -> Request]
      /\ handler[s] \in Request
  BY TypeParts DEF XInv
<1>2. h \in Request /\ h.key = handler[s].key /\ h.step = "swap"
  BY <1>1, Records DEF Steps
<1>3. handler' = [handler EXCEPT ![s] = h]
  BY DEF ClearLive
<1> HIDE DEF h
<1>4. h.key \in Ours(s) /\ handler[s] # Idle
  BY <1>1, <1>2 DEF ClearLive, KeysOK, Ours, Idle
<1>5. Shared'
  <2>1. live' \in [Source -> Balance] /\ \A t \in Source : live'[t].key \in Ours(t)
    BY <1>1, Records DEF ClearLive, Shared, NoBalance, Ours
  <2> QED
    BY <1>1, <2>1 DEF ClearLive, Shared, bounds
<1>6. Moves(s, h)
  BY <1>1, <1>2, <1>3, <1>4 DEF ClearLive, Moves, bounds
<1>7. SlotsOK'
  BY <1>1, <1>3, <1>4, RequestKeepsSlots DEF ClearLive, bounds
<1>8. handler'[s] = h
  BY <1>1, <1>3
<1>9. SwapOK(s)'
  BY <1>2, <1>8 DEF XInv, ClearLive, SwapOK
<1>10. removals' = 0 => SavedOK(s)'
  BY <1>2, <1>4, <1>8 DEF XInv, ClearLive, bounds, SavedOK
<1> QED
  BY <1>5, <1>6, <1>7, <1>9, <1>10, MovesKeep DEF ClearLive

LEMMA SwapClientKeeps ==
    ASSUME XInv, NEW s \in Source, SwapClient(s)
    PROVE  XInv'
<1> DEFINE k == handler[s].key
           h == IF k \in Malformed \/ k = NoKey THEN Idle
                ELSE [handler[s] EXCEPT !.step = "trigger"]
<1>1. /\ TypeOK /\ KeysOK /\ SlotsOK /\ Shared /\ handler \in [Source -> Request]
      /\ handler[s] \in Request /\ k \in Ours(s) /\ stored[s] = k
      /\ up /\ lnd /\ handler[s] # Idle
  BY TypeParts DEF XInv, SwapClient, SwapOK, KeysOK, Ours, Idle
<1>2. /\ h \in Request /\ h.key \in {k, NoKey} /\ h.step \in {"idle", "trigger"}
      /\ h = Idle \/ (k \notin Malformed /\ k # NoKey /\ h.key = k)
      /\ h.step = "trigger" => h # Idle
  BY <1>1, Records DEF Steps, Idle
<1>3. handler' = [handler EXCEPT ![s] = h]
  BY DEF SwapClient
<1>4. \/ k \in Malformed /\ client' = client /\ tried' = tried
      \/ /\ k \notin Malformed /\ client' = [client EXCEPT ![s] = k]
         /\ tried' = [tried EXCEPT ![s] = NoKey]
  BY DEF SwapClient
<1>5. UNCHANGED <<account, dbVars, up, lnd, trigger, run, bounds>>
  BY DEF SwapClient
<1> HIDE DEF h, k
<1>6. /\ client' \in [Source -> Key \cup {NoKey}] /\ tried' \in [Source -> Key \cup {NoKey}]
      /\ \A t \in Source : client'[t] \in Ours(t)
      /\ \A t \in Source \ {s} : client'[t] = client[t]
      /\ k \in Malformed \/ client'[s] = k
  BY <1>1, <1>4, KeysFit DEF Shared, Ours
<1>7. Shared'
  BY <1>1, <1>5, <1>6 DEF Shared, dbVars, bounds
<1>8. Moves(s, h)
  BY <1>1, <1>2, <1>3, <1>5, <1>6 DEF Moves, dbVars, bounds, Ours
<1>9. SlotsOK'
  BY <1>1, <1>3, <1>5, RequestKeepsSlots DEF dbVars, bounds
<1>10. handler'[s] = h /\ stored'[s] = k
  BY <1>1, <1>3, <1>5 DEF dbVars
<1>11. SwapOK(s)'
  BY <1>2, <1>6, <1>10 DEF SwapOK
<1>12. removals' = 0 => SavedOK(s)'
  <2>1. removals' = 0 => SavedOK(s) /\ k # NoKey
    BY <1>1, <1>5 DEF XInv, SavedOK, bounds, k
  <2>2. removals' = 0 => (client[s] # NoKey => client'[s] # NoKey)
    BY <1>1, <1>4, <1>6, <2>1
  <2> QED
    BY <1>2, <1>5, <1>6, <1>10, <2>1, <2>2 DEF SavedOK
<1> QED
  BY <1>5, <1>7, <1>8, <1>9, <1>11, <1>12, MovesKeep

LEMMA SendTriggerKeeps ==
    ASSUME XInv, NEW s \in Source, SendTrigger(s)
    PROVE  XInv'
<1>1. /\ TypeOK /\ KeysOK /\ SlotsOK /\ Shared /\ handler \in [Source -> Request]
      /\ handler[s] # Idle
  BY TypeParts DEF XInv, SendTrigger, Idle
<1>2. Idle \in Request /\ Idle.key = NoKey /\ Idle.step = "idle" /\ NoKey \in Ours(s)
  BY Records DEF Idle, Ours
<1>3. handler' = [handler EXCEPT ![s] = Idle]
  BY DEF SendTrigger
<1>4. trigger' \in [Source -> BOOLEAN] /\ \A t \in Source \ {s} : trigger'[t] = trigger[t]
  BY <1>1 DEF SendTrigger, Shared
<1>5. Shared'
  BY <1>1, <1>4 DEF SendTrigger, Shared, dbVars, bounds
<1>6. Moves(s, Idle)
  BY <1>1, <1>2, <1>3, <1>4 DEF SendTrigger, Moves, dbVars, bounds
<1>7. SlotsOK'
  BY <1>1, <1>3, RequestKeepsSlots DEF SendTrigger, dbVars, bounds
<1>8. handler'[s] = Idle
  BY <1>1, <1>3
<1>9. SwapOK(s)'
  BY <1>2, <1>8 DEF XInv, SendTrigger, SwapOK, dbVars
<1>10. removals' = 0 => SavedOK(s)'
  BY <1>2, <1>8 DEF XInv, SendTrigger, SavedOK, bounds
<1> QED
  BY <1>5, <1>6, <1>7, <1>9, <1>10, MovesKeep DEF SendTrigger

LEMMA SpawnWorkerKeeps ==
    ASSUME XInv, NEW s \in Source, SpawnWorker(s)
    PROVE  XInv'
<1> DEFINE k == handler[s].key
<1>1. /\ TypeOK /\ KeysOK /\ SlotsOK /\ Shared /\ handler \in [Source -> Request]
      /\ run \in [Runner -> Running]
      /\ handler[s] \in Request /\ k \in Ours(s) /\ up /\ ~ lnd /\ handler[s] # Idle
      /\ run[Syncer].pc = "off"
  BY TypeParts DEF XInv, SpawnWorker, SlotsOK, KeysOK, Ours, Idle
<1>2. Idle \in Request /\ Idle.key = NoKey /\ Idle.step = "idle" /\ NoKey \in Ours(s)
  BY Records DEF Idle, Ours
<1>3. /\ handler' = [handler EXCEPT ![s] = Idle]
      /\ UNCHANGED <<account, dbVars, up, lnd, client, trigger, tried, bounds>>
  BY DEF SpawnWorker
<1>4. Shared'
  BY <1>1, <1>3 DEF Shared, dbVars, bounds
<1>5. Moves(s, Idle)
  BY <1>1, <1>2, <1>3 DEF Moves, dbVars, bounds
<1>6. handler'[s] = Idle /\ \A t \in Source \ {s} : handler'[t] = handler[t]
  BY <1>1, <1>3
<1>7. \A t \in Source : SwapOK(t)'
  BY <1>1, <1>2, <1>3, <1>6 DEF XInv, SwapOK, dbVars
<1>8. CASE k \in Malformed \cup {NoKey}
  <2>1. run' = run
    BY <1>8 DEF SpawnWorker
  <2>2. SlotsOK'
    BY <1>1, <1>3, <2>1, RequestKeepsSlots DEF dbVars, bounds
  <2>3. removals' = 0 => SavedOK(s)'
    BY <1>2, <1>3, <1>6, <2>1 DEF XInv, SavedOK, bounds
  <2> QED
    BY <1>4, <1>5, <1>7, <2>1, <2>2, <2>3, MovesKeep
<1>9. CASE k \notin Malformed \cup {NoKey}
  <2> DEFINE g == [Off EXCEPT !.pc = "balance", !.src = s, !.key = k]
             w == CHOOSE v \in Worker : run[v].pc = "off"
  <2>1. g \in Running /\ g.pc = "balance" /\ g.src = s /\ g.key = k
    BY <1>1, KeysFit DEF Running, Off, Pcs, Ours
  <2>2. run' = [run EXCEPT ![w] = g]
    BY <1>9 DEF SpawnWorker
  <2>3. /\ \A t \in Source \ {s} : OpenOf(handler')[t] = OpenOf(handler)[t]
        /\ OpenOf(handler)[s] = 1 /\ OpenOf(handler')[s] = 0
    BY <1>1, <1>6 DEF OpenOf, One
  <2>4. OpenOf(handler')["strike"] + OpenOf(handler')["coinbase"]
          = OpenOf(handler)["strike"] + OpenOf(handler)["coinbase"] - 1
    <3>1. OpenOf(handler')["strike"] + OpenOf(handler')["coinbase"]
            = OpenOf(handler)["strike"] + OpenOf(handler)["coinbase"] - OpenOf(handler)[s]
              + OpenOf(handler')[s]
      BY <2>3, OpenSets, SumOverSources, ZenonT(60)
    <3> QED
      BY <2>3, <3>1, OpenSets
  <2>5. OpenOf(handler)["strike"] + OpenOf(handler)["coinbase"] >= 1
    BY <2>3, OpenSets DEF Source
  <2>6. Cardinality(OnOf(run)) < MaxChanges
    BY <1>1, <2>5, SlotSums, SlotTypes, OpenSets
  <2> HIDE DEF g
  <2>7. /\ w \in Worker /\ run[w].pc = "off"
        /\ Cardinality(OnOf(run')) = Cardinality(OnOf(run)) + 1
    BY <1>1, <2>1, <2>2, <2>6, StartOne
  <2> HIDE DEF w
  <2>8. \A r \in Runner : run'[r] = IF r = w THEN g ELSE run[r]
    BY <1>1, <2>2
  <2>9. w # Syncer /\ run'[Syncer] = run[Syncer]
    BY <2>7, <2>8, Workers
  <2>10. SlotsOK'
    BY <1>1, <1>3, <2>4, <2>7, <2>9, SlotSums, SlotTypes, OpenSets DEF dbVars, bounds
  <2>11. TypeOK'
    <3>1. handler' \in [Source -> Request] /\ run' \in [Runner -> Running]
      BY <1>1, <1>2, <1>3, <2>1, <2>2
    <3> QED
      BY <1>4, <3>1, TypeParts
  <2>12. KeysOK'
    <3>1. \A t \in Source : handler'[t].key \in Ours(t)
      BY <1>1, <1>2, <1>6 DEF KeysOK, Ours
    <3>2. \A r \in Runner : r # Syncer \/ run'[r].pc = "store" =>
              run'[r].key \in Ours(run'[r].src)
      BY <1>1, <2>1, <2>8 DEF KeysOK, Ours
    <3> QED
      BY <3>1, <3>2 DEF KeysOK, Ours
  <2>13. removals' = 0 => \A t \in Source : SavedOK(t)'
    BY <1>2, <1>3, <1>6, <2>9 DEF XInv, SavedOK, bounds
  <2> QED
    BY <1>7, <2>10, <2>11, <2>12, <2>13 DEF XInv
<1> QED
  BY <1>8, <1>9

-----------------------------------------------------------------------------
(* The accounts and the process.                                            *)

LEMMA AccountsKeep ==
    ASSUME XInv, NEW k \in Key, Receive(k) \/ Send(k)
    PROVE  XInv'
<1>1. /\ Shared /\ KeysOK /\ SlotsOK
      /\ handler \in [Source -> Request] /\ run \in [Runner -> Running]
  BY TypeParts DEF XInv
<1>2. UNCHANGED <<dbVars, up, lnd, client, trigger, handler, run, tried, changes, failures,
                  removals>>
  BY DEF Receive, Send
<1>3. account' \in [Key -> Account] /\ trades' \in Nat
  <2>1. account[k] \in Account /\ account[k].sats \in Nat /\ account[k].rows \in Nat
    BY <1>1 DEF Shared, Account
  <2>2. CASE Receive(k)
    <3> DEFINE a == [sats |-> account[k].sats + 1, rows |-> account[k].rows + 1]
    <3>1. a \in Account
      BY <2>1 DEF Account
    <3>2. account' = [account EXCEPT ![k] = a]
      BY <2>2 DEF Receive
    <3> HIDE DEF a
    <3> QED
      BY <1>1, <2>2, <3>1, <3>2 DEF Shared, Receive
  <2>3. CASE Send(k)
    <3> DEFINE a == [account[k] EXCEPT !.sats = account[k].sats - 1]
    <3>1. account[k].sats - 1 \in Nat
      BY <2>1, <2>3 DEF Send
    <3>2. a \in Account
      BY <2>1, <3>1 DEF Account
    <3>3. account' = [account EXCEPT ![k] = a]
      BY <2>3 DEF Send
    <3> HIDE DEF a
    <3> QED
      BY <1>1, <2>3, <3>2, <3>3 DEF Shared, Send
  <2> QED
    BY <2>2, <2>3
<1>4. Shared'
  BY <1>1, <1>2, <1>3 DEF Shared, dbVars
<1>5. TypeOK'
  BY <1>1, <1>2, <1>4, TypeParts
<1>6. KeysOK' /\ SlotsOK' /\ \A s \in Source : SwapOK(s)'
  BY <1>1, <1>2 DEF XInv, KeysOK, SlotsOK, SwapOK, dbVars, On
<1>7. removals' = 0 => \A s \in Source : SavedOK(s)'
  BY <1>2 DEF XInv, SavedOK
<1> QED
  BY <1>5, <1>6, <1>7 DEF XInv

LEMMA NoneOpen ==
    /\ Cardinality(OnOf([r \in Runner |-> Off])) = 0
    /\ OpenOf([s \in Source |-> Idle])["strike"] = 0
    /\ OpenOf([s \in Source |-> Idle])["coinbase"] = 0
<1>1. OnOf([r \in Runner |-> Off]) = {}
  BY Workers DEF OnOf, Off
<1> QED
  BY <1>1, FS_EmptySet DEF OpenOf, One, Source

LEMMA DownKeeps ==
    ASSUME XInv, Down, failures' \in Nat
    PROVE  XInv'
<1>1. Shared /\ SlotsOK /\ TypeOK
  BY TypeParts DEF XInv
<1>2. /\ handler' = [s \in Source |-> Idle] /\ run' = [r \in Runner |-> Off]
      /\ client' = [s \in Source |-> NoKey] /\ trigger' = [s \in Source |-> FALSE]
      /\ tried' = [s \in Source |-> NoKey] /\ up' = FALSE
      /\ UNCHANGED <<account, dbVars, lnd, changes, trades, removals>>
  BY DEF Down
<1>3. Shared'
  BY <1>1, <1>2 DEF Shared, dbVars, Ours
<1>4. TypeOK'
  <2>1. handler' \in [Source -> Request] /\ run' \in [Runner -> Running]
    BY <1>2, Records
  <2> QED
    BY <1>3, <2>1, TypeParts
<1>5. KeysOK'
  BY <1>2 DEF KeysOK, Idle, Off
<1>6. SlotsOK'
  <2>1. run'[Syncer].pc = "off" /\ \A s \in Source : handler'[s] = Idle
    BY <1>2, Workers DEF Off
  <2>2. /\ Cardinality(OnOf(run')) = 0
        /\ OpenOf(handler')["strike"] = 0 /\ OpenOf(handler')["coinbase"] = 0
    BY <1>2, NoneOpen
  <2> QED
    BY <1>1, <1>2, <2>1, <2>2, SlotSums, SlotTypes DEF dbVars
<1>7. \A s \in Source : SwapOK(s)'
  BY <1>2 DEF SwapOK, Idle
<1>8. \A s \in Source : SavedOK(s)'
  BY <1>2, Workers DEF SavedOK, Idle, Off
<1> QED
  BY <1>4, <1>5, <1>6, <1>7, <1>8 DEF XInv

\* main starts at most a goroutine per stored key.
LEMMA RestartSlots ==
    ASSUME TypeOK, Restart
    PROVE  Cardinality(OnOf(run')) <= SetOf(stored)["strike"] + SetOf(stored)["coinbase"]
<1> DEFINE a == Usable("strike") # NoKey
           b == Usable("coinbase") # NoKey
<1>1. a => SetOf(stored)["strike"] = 1
  BY DEF Usable, SetOf, One, Source
<1>2. b => SetOf(stored)["coinbase"] = 1
  BY DEF Usable, SetOf, One, Source
<1>3. \A w \in Worker :
          run'[w].pc # "off" <=> ~ lnd' /\ ((w = 1 /\ a) \/ (w = 2 /\ b))
  <2> SUFFICES ASSUME NEW w \in Worker
               PROVE  run'[w].pc # "off" <=> ~ lnd' /\ ((w = 1 /\ a) \/ (w = 2 /\ b))
    OBVIOUS
  <2>1. w \in Runner /\ w # Syncer
    BY Workers
  <2> DEFINE Fresh(s) == IF Usable(s) = NoKey THEN Off
                         ELSE [Off EXCEPT !.pc = "balance", !.src = s, !.key = Usable(s)]
  <2>2. \A s : Fresh(s).pc # "off" <=> Usable(s) # NoKey
    BY DEF Off
  <2>3. run'[w] = IF ~ lnd' /\ w \in {1, 2}
                  THEN Fresh(IF w = 1 THEN "strike" ELSE "coinbase") ELSE Off
    BY <2>1 DEF Restart
  <2> HIDE DEF Fresh
  <2>4. Off.pc = "off"
    BY DEF Off
  <2> QED
    BY <2>2, <2>3, <2>4
<1>4. SetOf(stored)["strike"] \in Nat /\ SetOf(stored)["coinbase"] \in Nat
  BY OpenSets
<1> HIDE DEF a, b
<1>5. OnOf(run') = {w \in Worker : ~ lnd' /\ ((w = 1 /\ a) \/ (w = 2 /\ b))}
  BY <1>3 DEF OnOf
<1>6. CASE lnd' \/ (~ a /\ ~ b)
  <2>1. OnOf(run') = {}
    BY <1>5, <1>6
  <2> QED
    BY <1>4, <2>1, FS_EmptySet
<1>7. CASE ~ lnd' /\ a /\ ~ b
  <2>1. OnOf(run') = {1}
    BY <1>5, <1>7, Workers
  <2>2. Cardinality({1}) = 1
    BY FS_Singleton
  <2> QED
    BY <1>1, <1>4, <1>7, <2>1, <2>2
<1>8. CASE ~ lnd' /\ ~ a /\ b
  <2>1. OnOf(run') = {2}
    BY <1>5, <1>8, Workers
  <2>2. Cardinality({2}) = 1
    BY FS_Singleton
  <2> QED
    BY <1>2, <1>4, <1>8, <2>1, <2>2
<1>9. CASE ~ lnd' /\ a /\ b
  <2>1. OnOf(run') = {1} \cup {2}
    BY <1>5, <1>9, Workers
  <2>2. IsFiniteSet({1}) /\ Cardinality({1}) = 1
    BY FS_Singleton
  <2>3. Cardinality({1} \cup {2}) = 2
    BY <2>2, FS_AddElement
  <2> QED
    BY <1>1, <1>2, <1>9, <2>1, <2>3
<1> QED
  BY <1>6, <1>7, <1>8, <1>9

LEMMA RestartKeeps ==
    ASSUME XInv, Restart
    PROVE  XInv'
<1>1. /\ Shared /\ SlotsOK /\ TypeOK /\ ~ up
      /\ handler \in [Source -> Request] /\ \A s \in Source : handler[s] = Idle
  BY TypeParts DEF XInv, SlotsOK, Restart
<1>2. /\ up' = TRUE /\ lnd' \in BOOLEAN
      /\ \A s \in Source : client'[s] = IF lnd' THEN Usable(s) ELSE NoKey
      /\ \A s \in Source : trigger'[s] => client'[s] # NoKey
      /\ UNCHANGED <<account, dbVars, handler, tried, bounds>>
  BY ModeAssumption DEF Restart
<1>3. \A s \in Source : Usable(s) \in Ours(s)
  BY <1>1 DEF Usable, Shared, Ours
<1>4. /\ client' \in [Source -> Key \cup {NoKey}] /\ \A s \in Source : client'[s] \in Ours(s)
      /\ trigger' \in [Source -> BOOLEAN]
  BY <1>3, KeysFit DEF Restart, Ours
<1>5. Shared'
  BY <1>1, <1>2, <1>4 DEF Shared, dbVars, bounds
<1> DEFINE Fresh(s, k) == [Off EXCEPT !.pc = "balance", !.src = s, !.key = k]
           Cycling == [Off EXCEPT !.pc = "cycle"]
<1>6. /\ \A s \in Source : \A k \in Ours(s) \ {NoKey} :
            Fresh(s, k) \in Running /\ Fresh(s, k).key = k /\ Fresh(s, k).src = s
      /\ Cycling \in Running /\ Cycling.key = NoKey /\ Cycling.pc = "cycle"
      /\ Off \in Running /\ Off.key = NoKey /\ Off.pc = "off"
  BY KeysFit DEF Running, Off, Pcs, Source
<1>7. run' = [r \in Runner |->
                  CASE lnd' /\ r = Syncer -> Cycling
                    [] ~ lnd' /\ r \in {1, 2} ->
                         LET s == IF r = 1 THEN "strike" ELSE "coinbase" IN
                         IF Usable(s) = NoKey THEN Off ELSE Fresh(s, Usable(s))
                    [] OTHER -> Off]
  BY DEF Restart
<1> HIDE DEF Fresh, Cycling
<1>8. \A r \in Runner : \/ run'[r] = Off
                        \/ r = Syncer /\ lnd' /\ run'[r] = Cycling
                        \/ r # Syncer /\ \E s \in Source : Usable(s) # NoKey
                                              /\ run'[r] = Fresh(s, Usable(s))
  <2>1. "strike" \in Source /\ "coinbase" \in Source /\ Syncer \notin {1, 2}
    BY DEF Source, Syncer
  <2> QED
    BY <1>7, <2>1
<1>9. TypeOK'
  <2>1. \A r \in Runner : run'[r] \in Running
    BY <1>3, <1>6, <1>8
  <2>2. run' \in [Runner -> Running]
    BY <1>7, <2>1
  <2>3. handler' \in [Source -> Request]
    BY <1>1, <1>2
  <2> QED
    BY <1>5, <2>2, <2>3, TypeParts
<1>10. KeysOK'
  <2>1. \A r \in Runner : r # Syncer \/ run'[r].pc = "store" =>
            run'[r].key \in Ours(run'[r].src)
    BY <1>3, <1>6, <1>8 DEF Ours
  <2>2. \A s \in Source : handler'[s].key \in Ours(s)
    BY <1>1, <1>2 DEF Idle, Ours
  <2> QED
    BY <2>1, <2>2 DEF KeysOK, Ours
<1>11. SlotsOK'
  <2>1. run'[Syncer].pc # "off" => lnd'
    BY <1>6, <1>8, Workers
  <2>2. OpenOf(handler')["strike"] = 0 /\ OpenOf(handler')["coinbase"] = 0
    BY <1>1, <1>2, OpenSets DEF One
  <2>3. Cardinality(OnOf(run')) \in Nat
        /\ Cardinality(OnOf(run')) <= SetOf(stored)["strike"] + SetOf(stored)["coinbase"]
    BY <1>1, RestartSlots, OnIsFinite
  <2>4. SetOf(stored)["strike"] + SetOf(stored)["coinbase"] <= changes /\ changes <= MaxChanges
    BY <1>1, SlotSums
  <2> QED
    BY <1>1, <1>2, <2>1, <2>2, <2>3, <2>4, SlotSums, SlotTypes, OpenSets DEF dbVars, bounds
<1>12. \A s \in Source : SwapOK(s)'
  BY <1>1, <1>2 DEF SwapOK, Idle, Usable, dbVars
<1>13. \A s \in Source : SavedOK(s)'
  <2>1. run'[Syncer].pc \in {"off", "cycle"}
    BY <1>6, <1>8, Workers
  <2> QED
    BY <1>1, <1>2, <2>1 DEF SavedOK, Idle
<1> QED
  BY <1>9, <1>10, <1>11, <1>12, <1>13 DEF XInv

-----------------------------------------------------------------------------
(* The invariant and the theorems.                                          *)

LEMMA XInvInit == Init => XInv
<1> SUFFICES ASSUME Init PROVE XInv
  OBVIOUS
<1> DEFINE Cycling == [Off EXCEPT !.pc = "cycle"]
<1>1. Cycling \in Running /\ Cycling.pc = "cycle" /\ Cycling.key = NoKey
  BY DEF Running, Off, Pcs, Source
<1>2. run = [r \in Runner |-> IF r = Syncer /\ lnd THEN Cycling ELSE Off]
  BY DEF Init
<1> HIDE DEF Cycling
<1>3. /\ handler = [s \in Source |-> Idle] /\ changes = 0 /\ up
      /\ stored = [s \in Source |-> NoKey] /\ client = [s \in Source |-> NoKey]
      /\ trigger = [s \in Source |-> FALSE]
  BY DEF Init
<1>4. Shared
  <2>1. [k \in Key |-> [sats |-> 0, rows |-> 0]] \in [Key -> Account]
    BY DEF Account
  <2> QED
    BY <2>1, Records, ModeAssumption DEF Init, Shared, Ours, NoBalance
<1>5. TypeOK
  <2>1. handler \in [Source -> Request] /\ run \in [Runner -> Running]
    BY <1>1, <1>2, <1>3, Records
  <2> QED
    BY <1>4, <2>1, TypeParts
<1>6. KeysOK
  BY <1>1, <1>2, <1>3 DEF KeysOK, Idle, Off
<1>7. SlotsOK
  <2>1. run[Syncer].pc # "off" => lnd
    BY <1>2, Workers DEF Off
  <2>2. OnOf(run) = {}
    BY <1>2, Workers DEF OnOf, Off
  <2>3. Cardinality(OnOf(run)) = 0
    BY <2>2, FS_EmptySet
  <2>4. OpenOf(handler)["strike"] = 0 /\ OpenOf(handler)["coinbase"] = 0
        /\ SetOf(stored)["strike"] = 0 /\ SetOf(stored)["coinbase"] = 0
    BY <1>3, OpenSets DEF One
  <2>5. 0 <= MaxChanges
    BY BoundsAssumption
  <2> QED
    BY <1>3, <2>1, <2>3, <2>4, <2>5, SlotSums
<1>8. \A s \in Source : SwapOK(s)
  BY <1>3 DEF SwapOK, Idle
<1>9. \A s \in Source : SavedOK(s)
  <2>1. run[Syncer].pc \in {"off", "cycle"}
    BY <1>1, <1>2, Workers DEF Off
  <2> QED
    BY <1>3, <2>1 DEF SavedOK, Idle
<1> QED
  BY <1>5, <1>6, <1>7, <1>8, <1>9 DEF XInv

LEMMA XInvNext == XInv /\ [Next]_vars => XInv'
<1> SUFFICES ASSUME XInv, [Next]_vars PROVE XInv'
  OBVIOUS
<1>1. ASSUME NEW k \in Key, Receive(k) \/ Send(k) PROVE XInv'
  BY <1>1, AccountsKeep
<1>2. ASSUME NEW s \in Source, NEW k \in KeyOf(s), SaveKey(s, k) PROVE XInv'
  BY <1>2, SaveKeyKeeps
<1>3. ASSUME NEW s \in Source, Disconnect(s) PROVE XInv'
  BY <1>3, DisconnectKeeps
<1>4. ASSUME NEW s \in Source, HandlerStep(s) PROVE XInv'
  BY <1>4, ClearLiveKeeps, SwapClientKeeps, SendTriggerKeeps, SpawnWorkerKeeps DEF HandlerStep
<1>5. CASE CycleFails
  BY <1>5, CycleFailsKeeps
<1>6. ASSUME NEW s \in Source, TakeTrigger(s) PROVE XInv'
  BY <1>6, TakeTriggerKeeps
<1>7. ASSUME NEW r \in Runner, RunnerStep(r) PROVE XInv'
  BY <1>7, RunnerKeeps
<1>8. failures \in Nat
  BY DEF XInv, TypeOK
<1>9. CASE Panic
  BY <1>8, <1>9, DownKeeps DEF Panic
<1>10. CASE Kill
  BY <1>8, <1>10, DownKeeps DEF Kill, MayFail
<1>11. CASE Restart
  BY <1>11, RestartKeeps
<1>12. CASE UNCHANGED vars
  <2>1. Shared /\ handler \in [Source -> Request] /\ run \in [Runner -> Running]
    BY TypeParts DEF XInv
  <2>2. TypeOK'
    BY <1>12, <2>1, TypeParts DEF vars, dbVars, Shared
  <2>3. KeysOK' /\ SlotsOK' /\ \A s \in Source : SwapOK(s)'
    BY <1>12 DEF XInv, KeysOK, SlotsOK, SwapOK, On, vars
  <2>4. removals' = 0 => \A s \in Source : SavedOK(s)'
    BY <1>12 DEF XInv, SavedOK, vars
  <2> QED
    BY <2>2, <2>3, <2>4 DEF XInv
<1> QED
  BY <1>1, <1>2, <1>3, <1>4, <1>5, <1>6, <1>7, <1>9, <1>10, <1>11, <1>12 DEF Next

LEMMA XInvHolds == Spec => []XInv
BY XInvInit, XInvNext, PTL DEF Spec

\* Every variable stays in its set, whatever is saved, removed, lost or killed: so no
\* live balance of one exchange is ever stored with a key of the other.
THEOREM TypeCorrect == Spec => []TypeOK
<1>1. XInv => TypeOK
  BY DEF XInv
<1> QED
  BY <1>1, XInvHolds, PTL

\* The syncer never asks with a key that was removed or replaced once the request is
\* done, for any number of requests, restarts and failures.
THEOREM OnlyCurrentKeyIsUsed == Spec => OnlyCurrentKey
<1>1. ASSUME XInv, NEW s, s = run[Syncer].src, FetchBalance(Syncer), handler[s] = Idle
      PROVE  stored[s] \in {client[s]} \cup Malformed
  <2>1. s \in Source
    BY <1>1, ClientIsOurs, Workers DEF XInv
  <2>2. up /\ lnd
    BY <1>1 DEF XInv, SlotsOK, FetchBalance, At
  <2>3. SwapOK(s)
    BY <1>1, <2>1 DEF XInv
  <2> QED
    BY <1>1, <2>2, <2>3 DEF SwapOK, Idle
<1>2. XInv => (FetchBalance(Syncer) /\ handler[run[Syncer].src] = Idle =>
                  stored[run[Syncer].src] \in {client[run[Syncer].src]} \cup Malformed)
  BY <1>1
<1> QED
  BY <1>2, XInvHolds, PTL DEF OnlyCurrentKey

\* Saving keys never makes the syncer call a nil client.
THEOREM SavingIsSafe == Spec => SavingNeverPanics
<1>1. XInv /\ Panic => removals > 0
  <2> SUFFICES ASSUME XInv, Panic, removals = 0 PROVE FALSE
    BY DEF XInv, TypeOK
  <2>1. run[Syncer].src \in Source /\ run[Syncer].pc \in {"balance", "store", "rows", "import"}
    BY ClientIsOurs, Workers DEF XInv, Panic, At
  <2>2. client[run[Syncer].src] # NoKey
    BY <2>1 DEF XInv, SavedOK
  <2> QED
    BY <2>2 DEF Panic, ClientOf
<1> QED
  BY <1>1, XInvHolds, PTL DEF SavingNeverPanics
=============================================================================
