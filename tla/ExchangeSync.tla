---------------------------- MODULE ExchangeSync ----------------------------
(***************************************************************************)
(* The exchange API clients: how a key the user saves or removes reaches   *)
(* the goroutine that syncs with it, and what that goroutine does with it. *)
(* With an LND node there is one syncer (Syncer.Run), whose client fields  *)
(* the HTTP handlers overwrite and which a trigger channel wakes; without  *)
(* one, main.go starts a goroutine of its own per saved key.               *)
(*                                                                         *)
(* Handlers, the syncer and the goroutines run concurrently and share the  *)
(* client fields and the settings table with no lock.  The user waits for  *)
(* an answer before the next request about the same exchange.              *)
(***************************************************************************)
EXTENDS Integers, FiniteSets, FiniteSetsExt

CONSTANTS
    StrikeKey,    \* credentials of Strike accounts
    CoinbaseKey,  \* credentials of Coinbase accounts
    Malformed,    \* Coinbase credentials that do not parse as a key
    NoKey,        \* the empty setting, the nil client
    Modes,        \* may a start of the process find its LND node, may it not
    MaxChanges,   \* bound: keys saved and removed
    MaxTrades,    \* bound: what happens in the accounts
    MaxFailures   \* bound: failed requests and statements, killed processes

Source == {"strike", "coinbase"}
Key == StrikeKey \cup CoinbaseKey
KeyOf(s) == IF s = "strike" THEN StrikeKey ELSE CoinbaseKey

ASSUME KeyAssumption == /\ StrikeKey \cap CoinbaseKey = {}
                        /\ NoKey \notin Key
                        /\ Malformed \subseteq CoinbaseKey
ASSUME ModeAssumption == Modes \subseteq BOOLEAN /\ Modes # {}
ASSUME BoundsAssumption == {MaxChanges, MaxTrades, MaxFailures} \subseteq Nat

\* The syncer, and the goroutines of main.go: one per key saved.
Syncer == 0
Worker == 1 .. Max({MaxChanges, 2})
Runner == {Syncer} \cup Worker

VARIABLES
    account,  \* the accounts: what they hold, and the receipts they list
    stored,   \* settings: the keys
    live,     \* settings: the live balances, with the key they came from
    imported, \* exchange_imports: the receipts of an account
    up,       \* the process runs
    lnd,      \* it has connected to LND, so it has a syncer
    client,   \* the fields strikeClient and coinbaseClient
    trigger,  \* the channels strikeTrigger and coinbaseTrigger, of capacity 1
    handler,  \* the settings request in progress, per exchange
    run,      \* where each runner is
    tried,    \* history: the key of the last balance request since the client was set
    changes, trades, failures, removals   \* bound counters; keys removed so far

dbVars == <<stored, live, imported>>
bounds == <<changes, trades, failures, removals>>
vars == <<account, stored, live, imported, up, lnd, client, trigger, handler, run,
          tried, changes, trades, failures, removals>>

NoBalance == [key |-> NoKey, sats |-> 0]
Idle == [step |-> "idle", key |-> NoKey]
Off == [pc |-> "off", src |-> "strike", key |-> NoKey, sats |-> 0, rows |-> 0]

TypeOK ==
    /\ account \in [Key -> [sats : Nat, rows : Nat]]
    /\ stored \in [Source -> Key \cup {NoKey}]
    /\ live \in [Source -> [key : Key \cup {NoKey}, sats : Nat]]
    /\ imported \in [Key -> Nat]
    /\ up \in BOOLEAN /\ lnd \in BOOLEAN
    /\ client \in [Source -> Key \cup {NoKey}]
    /\ trigger \in [Source -> BOOLEAN]
    /\ handler \in [Source -> [step : {"idle", "clear", "swap", "trigger"},
                               key : Key \cup {NoKey}]]
    /\ run \in [Runner -> [pc : {"off", "cycle", "select", "balance", "store",
                                 "rows", "import"},
                           src : Source, key : Key \cup {NoKey},
                           sats : Nat, rows : Nat]]
    /\ tried \in [Source -> Key \cup {NoKey}]
    /\ {changes, trades, failures, removals} \subseteq Nat
    /\ \A s \in Source : {client[s], stored[s], live[s].key} \subseteq KeyOf(s) \cup {NoKey}

Init ==
    /\ account = [k \in Key |-> [sats |-> 0, rows |-> 0]]
    /\ stored = [s \in Source |-> NoKey]
    /\ live = [s \in Source |-> NoBalance]
    /\ imported = [k \in Key |-> 0]
    /\ up = TRUE /\ lnd \in Modes
    /\ client = [s \in Source |-> NoKey]
    /\ trigger = [s \in Source |-> FALSE]
    /\ handler = [s \in Source |-> Idle]
    /\ run = [r \in Runner |-> IF r = Syncer /\ lnd THEN [Off EXCEPT !.pc = "cycle"] ELSE Off]
    /\ tried = [s \in Source |-> NoKey]
    /\ changes = 0 /\ trades = 0 /\ failures = 0 /\ removals = 0

MayFail == failures < MaxFailures /\ failures' = failures + 1

-----------------------------------------------------------------------------
(* The accounts.  Every receipt is listed by the API; a Lightning send paid  *)
(* in USD takes bitcoin away from Strike without a row that says so.  What   *)
(* does not parse as a key belongs to no account.                            *)

Receive(k) ==
    /\ trades < MaxTrades /\ trades' = trades + 1
    /\ k \notin Malformed
    /\ account' = [account EXCEPT ![k] = [sats |-> @.sats + 1, rows |-> @.rows + 1]]
    /\ UNCHANGED <<dbVars, up, lnd, client, trigger, handler, run, tried, changes, failures,
                   removals>>

Send(k) ==
    /\ trades < MaxTrades /\ trades' = trades + 1
    /\ k \in StrikeKey
    /\ account[k].sats > 0
    /\ account' = [account EXCEPT ![k].sats = @ - 1]
    /\ UNCHANGED <<dbVars, up, lnd, client, trigger, handler, run, tried, changes, failures,
                   removals>>

-----------------------------------------------------------------------------
(* The settings page.                                                       *)

Change(s) == /\ up /\ handler[s] = Idle
             /\ changes < MaxChanges /\ changes' = changes + 1

SaveKey(s, k) ==
    /\ Change(s)
    /\ stored' = [stored EXCEPT ![s] = k]
    /\ handler' = [handler EXCEPT ![s] = [step |-> "swap", key |-> k]]
    /\ UNCHANGED <<account, live, imported, up, lnd, client, trigger, run, tried, trades,
                   failures, removals>>

\* Only Coinbase's disconnect forgets the live balance.
Disconnect(s) ==
    /\ Change(s)
    /\ removals' = removals + 1
    /\ stored' = [stored EXCEPT ![s] = NoKey]
    /\ handler' = [handler EXCEPT ![s] =
                     [step |-> IF s = "coinbase" THEN "clear" ELSE "swap", key |-> NoKey]]
    /\ UNCHANGED <<account, live, imported, up, lnd, client, trigger, run, tried, trades,
                   failures>>

ClearLive(s) ==
    /\ up /\ handler[s].step = "clear"
    /\ live' = [live EXCEPT ![s] = NoBalance]
    /\ handler' = [handler EXCEPT ![s].step = "swap"]
    /\ UNCHANGED <<account, stored, imported, up, lnd, client, trigger, run, tried, bounds>>

\* Mutant: a removed key does not reach the syncer.
SwapClientNeverNil(s) ==
    /\ up /\ lnd /\ handler[s].step = "swap"
    /\ LET k == handler[s].key IN
       IF k \in Malformed \cup {NoKey}
       THEN /\ handler' = [handler EXCEPT ![s] = Idle]
            /\ UNCHANGED client
       ELSE /\ handler' = [handler EXCEPT ![s].step = "trigger"]
            /\ client' = [client EXCEPT ![s] = k]
    /\ tried' = [tried EXCEPT ![s] = NoKey]
    /\ UNCHANGED <<account, dbVars, up, lnd, trigger, run, bounds>>

\* Mutant: the trigger is sent before the fields are assigned.
SwapClientTriggersFirst(s) ==
    /\ up /\ lnd /\ handler[s].step = "swap"
    /\ LET k == handler[s].key IN
       IF k \in Malformed \cup {NoKey}
       THEN /\ handler' = [handler EXCEPT ![s] = Idle]
            /\ client' = IF k = NoKey THEN [client EXCEPT ![s] = NoKey] ELSE client
            /\ UNCHANGED trigger
       ELSE IF ~ trigger[s] /\ client[s] # k
       THEN /\ trigger' = [trigger EXCEPT ![s] = TRUE]
            /\ UNCHANGED <<handler, client>>
       ELSE /\ handler' = [handler EXCEPT ![s] = Idle]
            /\ client' = [client EXCEPT ![s] = k]
            /\ UNCHANGED trigger
    /\ tried' = [tried EXCEPT ![s] = NoKey]
    /\ UNCHANGED <<account, dbVars, up, lnd, run, bounds>>

\* OnStrikeKeyChange and OnCoinbaseKeyChange with a syncer: its fields are
\* overwritten, to nil when the key was removed; credentials that do not parse
\* leave them alone.
SwapClient(s) ==
    /\ up /\ lnd /\ handler[s].step = "swap"
    /\ LET k == handler[s].key IN
       IF k \in Malformed
       THEN /\ handler' = [handler EXCEPT ![s] = Idle]
            /\ UNCHANGED <<client, tried>>
       ELSE /\ client' = [client EXCEPT ![s] = k]
            /\ tried' = [tried EXCEPT ![s] = NoKey]
            /\ handler' = [handler EXCEPT ![s] = IF k = NoKey THEN Idle
                                                 ELSE [@ EXCEPT !.step = "trigger"]]
    /\ UNCHANGED <<account, dbVars, up, lnd, trigger, run, bounds>>

\* The select with a default: a trigger that is already set stays set.
SendTrigger(s) ==
    /\ up /\ handler[s].step = "trigger"
    /\ trigger' = [trigger EXCEPT ![s] = TRUE]
    /\ handler' = [handler EXCEPT ![s] = Idle]
    /\ UNCHANGED <<account, dbVars, up, lnd, client, run, tried, bounds>>

\* Mutant: every goroutine runs the Strike loop.
SpawnWorkerStrikeOnly(s) ==
    /\ up /\ ~ lnd /\ handler[s].step = "swap"
    /\ LET k == handler[s].key IN
       IF k \in Malformed \cup {NoKey} THEN UNCHANGED run
       ELSE LET w == CHOOSE w \in Worker : run[w].pc = "off"
            IN  run' = [run EXCEPT ![w] = [Off EXCEPT !.pc = "balance", !.key = k]]
    /\ handler' = [handler EXCEPT ![s] = Idle]
    /\ UNCHANGED <<account, dbVars, up, lnd, client, trigger, tried, bounds>>

\* Without a syncer: a goroutine per key, and none ends when the key goes.
SpawnWorker(s) ==
    /\ up /\ ~ lnd /\ handler[s].step = "swap"
    /\ LET k == handler[s].key IN
       IF k \in Malformed \cup {NoKey} THEN UNCHANGED run
       ELSE LET w == CHOOSE w \in Worker : run[w].pc = "off"
            IN  run' = [run EXCEPT ![w] = [Off EXCEPT !.pc = "balance", !.src = s, !.key = k]]
    /\ handler' = [handler EXCEPT ![s] = Idle]
    /\ UNCHANGED <<account, dbVars, up, lnd, client, trigger, tried, bounds>>

-----------------------------------------------------------------------------
(* The runners.                                                              *)

\* A goroutine keeps its client; the syncer reads its field at every use.
ClientOf(r) == IF r = Syncer THEN client[run[r].src] ELSE run[r].key

At(r, pc) == up /\ run[r].pc = pc
Goto(r, pc) == run' = [run EXCEPT ![r].pc = pc]

Tick(r) ==
    /\ At(r, "select")
    /\ Goto(r, IF r = Syncer THEN "cycle" ELSE "balance")
    /\ UNCHANGED <<account, dbVars, up, lnd, client, trigger, handler, tried, bounds>>

\* Mutant: a cycle leaves Strike to its trigger, as it does Coinbase.
EndCycleTriggersOnly ==
    /\ At(Syncer, "cycle")
    /\ Goto(Syncer, "select")
    /\ UNCHANGED <<account, dbVars, up, lnd, client, trigger, handler, tried, bounds>>

\* Sync after RunSync succeeded: Strike's rows and balance, if there is a client.
EndCycle ==
    /\ At(Syncer, "cycle")
    /\ run' = [run EXCEPT ![Syncer].pc = IF client["strike"] # NoKey THEN "balance"
                                         ELSE "select",
                          ![Syncer].src = "strike"]
    /\ UNCHANGED <<account, dbVars, up, lnd, client, trigger, handler, tried, bounds>>

CycleFails ==
    /\ At(Syncer, "cycle")
    /\ MayFail
    /\ Goto(Syncer, "select")
    /\ UNCHANGED <<account, dbVars, up, lnd, client, trigger, handler, tried, changes, trades,
                   removals>>

\* syncStrikeAPI does not look at its client first, syncCoinbaseAPI does.
TakeTrigger(s) ==
    /\ At(Syncer, "select")
    /\ trigger[s]
    /\ trigger' = [trigger EXCEPT ![s] = FALSE]
    /\ IF s = "coinbase" /\ client[s] = NoKey THEN UNCHANGED run
       ELSE run' = [run EXCEPT ![Syncer].pc = "balance", ![Syncer].src = s]
    /\ UNCHANGED <<account, dbVars, up, lnd, client, handler, tried, bounds>>

FetchBalance(r) ==
    LET k == ClientOf(r) IN
    /\ At(r, "balance")
    /\ k # NoKey
    /\ tried' = [tried EXCEPT ![run[r].src] = k]
    /\ \/ /\ run' = [run EXCEPT ![r] = [@ EXCEPT !.pc = "store", !.key = k,
                                                 !.sats = account[k].sats]]
          /\ UNCHANGED failures
       \/ Goto(r, "rows") /\ MayFail
    /\ UNCHANGED <<account, dbVars, up, lnd, client, trigger, handler, changes, trades, removals>>

StoreBalance(r) ==
    /\ At(r, "store")
    /\ ClientOf(r) # NoKey
    /\ Goto(r, "rows")
    /\ \/ /\ live' = [live EXCEPT ![run[r].src] = [key |-> run[r].key, sats |-> run[r].sats]]
          /\ UNCHANGED failures
       \/ UNCHANGED live /\ MayFail
    /\ UNCHANGED <<account, stored, imported, up, lnd, client, trigger, handler, tried, changes,
                   trades, removals>>

FetchRows(r) ==
    LET k == ClientOf(r) IN
    /\ At(r, "rows")
    /\ k # NoKey
    /\ \/ /\ run' = [run EXCEPT ![r] = [@ EXCEPT !.key = k, !.rows = account[k].rows,
                           !.pc = IF account[k].rows = 0 THEN "select" ELSE "import"]]
          /\ UNCHANGED failures
       \/ Goto(r, "select") /\ MayFail
    /\ UNCHANGED <<account, dbVars, up, lnd, client, trigger, handler, tried, changes, trades,
                   removals>>

\* Rows are inserted or updated, never removed.
ImportRows(r) ==
    /\ At(r, "import")
    /\ ClientOf(r) # NoKey
    /\ Goto(r, "select")
    /\ \/ /\ imported' = [imported EXCEPT ![run[r].key] = Max({@, run[r].rows})]
          /\ UNCHANGED failures
       \/ UNCHANGED imported /\ MayFail
    /\ UNCHANGED <<account, stored, live, up, lnd, client, trigger, handler, tried, changes, trades,
                   removals>>

-----------------------------------------------------------------------------
(* The process.                                                              *)

Down == /\ up' = FALSE
        /\ client' = [s \in Source |-> NoKey]
        /\ trigger' = [s \in Source |-> FALSE]
        /\ handler' = [s \in Source |-> Idle]
        /\ run' = [r \in Runner |-> Off]
        /\ tried' = [s \in Source |-> NoKey]
        /\ UNCHANGED <<account, dbVars, lnd, changes, trades, removals>>

\* The syncer calls a method of a nil client or of a nil importer.
Panic ==
    /\ \E pc \in {"balance", "store", "rows", "import"} : At(Syncer, pc)
    /\ ClientOf(Syncer) = NoKey
    /\ Down
    /\ UNCHANGED failures

Kill == up /\ MayFail /\ Down

\* The keys that main finds in the settings and that parse.
Usable(s) == IF stored[s] \in Malformed THEN NoKey ELSE stored[s]

\* main: with a syncer, its clients are set, and a trigger for each, before it
\* runs; if LND cannot be reached, a goroutine for each.
Restart ==
    /\ ~ up
    /\ up' = TRUE
    /\ lnd' \in Modes
    /\ client' = [s \in Source |-> IF lnd' THEN Usable(s) ELSE NoKey]
    /\ trigger' = [s \in Source |-> client'[s] # NoKey]
    /\ run' = [r \in Runner |->
                  CASE lnd' /\ r = Syncer -> [Off EXCEPT !.pc = "cycle"]
                    [] ~ lnd' /\ r \in {1, 2} ->
                         LET s == IF r = 1 THEN "strike" ELSE "coinbase" IN
                         IF Usable(s) = NoKey THEN Off
                         ELSE [Off EXCEPT !.pc = "balance", !.src = s, !.key = Usable(s)]
                    [] OTHER -> Off]
    /\ UNCHANGED <<account, dbVars, handler, tried, bounds>>

RunnerStep(r) ==
    \/ Tick(r)
    \/ FetchBalance(r)
    \/ StoreBalance(r)
    \/ FetchRows(r)
    \/ ImportRows(r)
    \/ r = Syncer /\ EndCycle

HandlerStep(s) == ClearLive(s) \/ SwapClient(s) \/ SendTrigger(s) \/ SpawnWorker(s)

Next ==
    \/ \E k \in Key : Receive(k) \/ Send(k)
    \/ \E s \in Source : \/ \E k \in KeyOf(s) : SaveKey(s, k)
                         \/ Disconnect(s)
                         \/ HandlerStep(s)
    \/ CycleFails
    \/ \E s \in Source : TakeTrigger(s)
    \/ \E r \in Runner : RunnerStep(r)
    \/ Panic \/ Kill \/ Restart

Spec == Init /\ [][Next]_vars

\* Requests end (the clients time out after 30 s), handlers run to their end and
\* docker-compose restarts the process; Go's select picks at random among what is
\* ready, so a trigger is not passed over for ever.
FairSpec ==
    /\ Spec
    /\ \A r \in Runner : WF_vars(RunnerStep(r))
    /\ \A s \in Source : WF_vars(HandlerStep(s))
    /\ \A s \in Source : SF_vars(TakeTrigger(s))
    /\ WF_vars(Panic)
    /\ WF_vars(Restart)

-----------------------------------------------------------------------------
(* What the dashboard shows, and the properties.                             *)

\* The live balance, unless there is none, which for Strike 0 means too.
ExchangeBalance(s) ==
    IF live[s].key # NoKey /\ (s = "strike" => live[s].sats > 0)
    THEN live[s].sats
    ELSE MapThenSumSet(LAMBDA k : imported[k], KeyOf(s))

\* The syncer asks for no balance with a key that the user has removed or replaced once
\* the settings request is done: restarts, a swap in the middle of a sync and a
\* trigger left over from the old key included.  Credentials that do not parse
\* leave the previous client at work (OnCoinbaseKeyChange returns early).
OnlyCurrentKey ==
    [][ LET s == run[Syncer].src IN
        FetchBalance(Syncer) /\ handler[s] = Idle =>
            stored[s] \in {client[s]} \cup Malformed ]_vars

\* Saving keys, in any order with cycles, triggers and failures, never makes the
\* syncer call a nil client: SetStrikeClient assigns the fields before it sends
\* the trigger, and a restart sets the clients before Run.
SavingNeverPanics == [][ Panic => removals > 0 ]_vars

\* However often a swap lands in the middle of a sync, finds the trigger still
\* set, or is cut short by a restart, a client that stays is used: its wakeup is
\* not lost (a channel of capacity 1 and a send that does not block).
TriggerNotLost ==
    \A s \in Source : \A k \in KeyOf(s) :
        client[s] = k ~> (tried[s] = k \/ client[s] # k)

\* While a Strike key is stored and the account holds bitcoin, the dashboard
\* comes to show what the account holds and every receipt is imported, whatever
\* failed before, since every cycle of the syncer, or every tick of the key's own
\* goroutine, asks again.  With a syncer it goes on showing that once nothing
\* changes any more: a balance that was fetched with one key, and stored after
\* another replaced it, over the new one's, does not stay.  (Without a syncer the
\* goroutines of both keys go on storing.)
StrikeCatchesUp ==
    LET k == stored["strike"]
        BalanceIsShown == k # NoKey /\ account[k].sats > 0 =>
                              ExchangeBalance("strike") = account[k].sats
        RowsAreThere == k # NoKey /\ account[k].sats > 0 => imported[k] = account[k].rows
    IN  /\ []<>(BalanceIsShown /\ RowsAreThere)
        /\ <>[](lnd => BalanceIsShown)
=============================================================================
