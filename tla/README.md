# Satsbook in TLA+

Satsbook is a dashboard for people who run a Lightning node: a Go process that
copies the ledger of an LND node into SQLite, adds exchange accounts, imports
and watched wallets, shows the portfolio and the tax position, exports
transactions to Monarch Money and sends alerts to Telegram; beside it, a license
server that sells the paid tiers through Stripe. This directory holds
specifications of its concurrent and failure-prone parts, the model-checking
runs over them, and machine-checked proofs.

Contents: [inventory](#inventory), [plan](#plan), [modules](#modules-and-the-code),
[runs](#runs), [bounds](#bounds), [fairness](#fairness), [proofs](#proofs),
[assumptions](#assumptions), [divergences](#divergences-found),
[what is not modelled](#what-is-not-modelled), [how to run](#how-to-run).

## Inventory

One process (`cmd/satsbook/main.go`) runs an HTTP server, whose handlers are
concurrent, and at most one background syncer. They share three things without
a lock of their own: the SQLite database (WAL, one file), a handful of fields
that the handlers overwrite in the syncer, and the remote accounts both use.
Nothing else is persistent. `docker-compose.yml:12` restarts a process that
ends.

| Component | State | Operations | Interacts with |
|---|---|---|---|
| LND sync cycle (`syncer.go`, `store.go`, `lnd/client.go`) | the ledger tables and `sync_state` cursors | `RunSync(syncCycle)`: forwarding, channels, invoices, payments, on-chain, wallet | LND by RPC; every reader of the ledger |
| Exchange API sync (`syncer.go`, `main.go`, `handler_settings.go`) | `strikeClient`, `coinbaseClient`, two trigger channels, keys and live balances in `settings`, rows in `exchange_imports` | save and remove a key, trigger, tick, fetch balance, fetch and import rows | handlers to syncer by fields and channels; Strike and Coinbase |
| Monarch transaction export (`monarch/sync.go`) | `monarch_tx_sync`, `txAccountID`, `txSyncMu` | `SyncTransactions` from the syncer and from the page, connect, disconnect | Monarch; the unified view of transactions |
| Monarch holding sync (same file) | `accountID` and the holding in Monarch | `SyncHolding`, `recreateAccount` | Monarch; portfolio total |
| Syncer loop, snapshots (`syncer.go`, `queries.go`) | `portfolio_snapshots` | `Run`, `captureSnapshot`, `BackfillPortfolioSnapshots` | everything above, price |
| License server (`cmd/licenseserver`, `licensedb`, `stripe`) | its own `licenses` table | checkout, three webhooks, validation, create, revoke, upgrade | Stripe by webhook; the checker by HTTP |
| License checker (`license/`) | key, tier and signed token in `license_cache` | `Verify`, `SetKeyAndVerify`, fall back to the cache | license server |
| Telegram alerts (`alerts/`) | `alert_history` | closes, low balance, fee spike, daily summary | Telegram; the ledger after each cycle |
| Imports and lots (`queries.go`, `exchange/`) | `exchange_imports`, `btc_lots` | four CSV imports, Strike's in two requests, API imports, clear a source | the syncer imports the same sources; an import starts a reconstruction |
| Cost basis (`tax/`) | none: functions of lots and rows | `Match`, harvest, Form 8949 | lots, rows of sales |
| Transfers and notes (`queries.go`) | `transaction_notes`, flag `is_transfer` | set note, set flag, `AutoTagChannelTransfers` | the syncer tags after each cycle |
| Watched wallets (`wallet/`, `handler_wallets.go`) | `watched_wallets`, `scanMu` | add, remove, refresh, gap-limit scan | Electrum or bitcoind |
| Price cache (`price/`) | price and time, a mutex | `GetBTCPrice` | price API |
| Database and migrations (`db.go`) | `schema_migrations` | open, migrate | all |
| Backup and restore (`handler_backup.go`, `db.go`) | database files | checkpoint and copy, restore by renames | the open connection |
| API keys and read API | `api_keys` | create, look up, revoke | all |
| Pages, server, configuration, tools | none | queries and rendering | all |

### What is hard, and what correctness means

* **LND sync cycle.** The node changes between the RPCs of one cycle; pages are
  cut from a moving history; a stage may fail after others have written. Correct:
  no event is lost between two windows, none counted twice, a cursor never passes
  what has no row, a closed channel stays closed, a cycle lands whole or not at
  all, and the ledger catches up with what settles late.
* **Exchange API sync.** Handlers assign client fields that the syncer reads
  again at every use. Correct: the key in use is the key saved, no wakeup is lost,
  a save never breaks the sync, and the balance shown becomes right.
* **Monarch export.** Two kinds of batches, lost answers, and a crash between the
  creation in Monarch and the record of it. Correct: each transaction is there
  once, what is recorded is there, everything is recorded in the end.
* **Monarch holding.** Same remote account, but no mutex. Correct: one account,
  holding the last total.
* **Licensing.** Webhooks repeated, concurrent and out of order, answered 200
  whatever happens; a cached tier with a grace period, two verifications at once.
  Correct: a paying customer has a license, a cancelled one does not, no paid tier
  without a signed token, an outage does not downgrade at once.
* **Alerts.** Send and record are two steps, an error ends a check, the limit is
  shared. Correct: no closing untold; a repetition only after a failure.
* **Imports and cost basis.** The same rows arrive again, by CSV and by API.
  Correct: every purchase has one lot; disposals consume each satoshi once, in
  the order of the method.
* **Transfers.** Syncer and user write the same flag. Correct: the user's choice
  survives.
* **Wallet scans.** Background scans behind one mutex, removals and refreshes
  meanwhile, answers that come late. Correct: the newest scan decides a row, with
  what its addresses have; every scan has its turn.
* **Portfolio.** Snapshots are taken, and reconstructed where there is none.
  Correct: a day that was seen shows what was seen; the others what the rows say.
* **Backup and restore, migrations.** Crashes between renames or between two
  migrations. Correct: one complete database is always found.

`PROJECT.json` lists these hazards at their lines, with the properties that cover
them and a note where none does.

## Plan

In order of what is at stake for the user: the ledger first, then the keys and
accounts the process changes remotely, then licensing, then what is derived.

| | Module | Models | Abstract specification or reference | State | To prove |
|---|---|---|---|---|---|
| 1 | `SyncCycle`, `LedgerSync` | LND sync cycle | `LedgerSync`: a cycle is one step | checked, **proved** | done: type, completeness, cursor, closed channels, money, refinement |
| 2 | `ExchangeSync` | keys, clients, triggers | | checked, **proved** | done: type, current key, saving |
| 3 | `MonarchTx` | export | | checked, **proved** | done: type, once, disconnect |
| 4 | `LicenseServer` | webhooks, commands | the state Stripe has | checked, **proved** | done: type, plan, deletion |
| 5 | `LicenseChecker` extends 4 | validation, tokens, cache | `Entitlement`: what a license promises | checked, **proved** | done: type, restart, refinement |
| 6 | `CostBasis`, `ImportBook` | parsers, lots, matching, reports | consumption lot by lot | checked, **proved** | done: type, lots and rows, matching, closed years, a second upload |
| 7 | `Portfolio` extends 6 | snapshots, reconstruction, chart | the rows up to a day | checked, **proved** | done: type, chart, history, parts, from the invariant of 6 |
| 8 | `Alerts` | checks, send, record, limit | | checked, **proved** | done: type, repetition, limit |
| 9 | `Wallets` | scans, gap limit, refresh, remove | the addresses before the first gap | checked, **proved** | done: type, newest scan |

The modules declare no RECURSIVE operator; constants carry named assumptions;
every operation is one action; invariants are conjunctions of named parts.
`CostBasis`, `ImportBook`, `Portfolio` and `Wallets` compute by loops, which are
written as folds or as steps. What remains outside the plan is under
[what is not modelled](#what-is-not-modelled).

## Modules and the code

### `SyncCycle` - one cycle of the background syncer

`db` is what SQLite has committed and `tx` the view of the open transaction,
so that `BeginSync`, `Commit` and `Abort` are `DB.RunSync` (`store.go:285`). `pc`
is the stage; each RPC with what its caller does to the tables is one action,
because the node may change between any two of them:

| Action | Code |
|---|---|
| `BeginSync`, `FetchFullPage`, `FetchLastPage` | `syncForwardingEvents`: cursor and clock first, then the paging loop of `lnd.Client.ForwardingHistory`, then insert and cursor |
| `SyncListChannels`, `SyncClosedChannels`, `ClosedChannelsFails` | `syncChannels`; the failure of its second RPC is only logged |
| `SyncInvoices`, `SyncPayments` | `syncInvoices`, `syncPayments`: one page, and the cursor the node returned |
| `SyncOnchain`, `SyncWallet` | `syncOnchainTxns` (the whole list), `syncWalletBalance` |
| `Abort` | an error of any stage, a failed commit, or the end of the process |
| `Tick`, `RouteForward`, `AddItem`, `FinishItem`, `MoveChannel` | the node and its clock (external) |

`LedgerSync` is what a reader of the tables may rely on: the ledger changes by
whole cycles, and each leaves it true (no row says more than happened), complete
up to its cursors, and with everything it held before. `SyncCycle` implements it
with the identity mapping on `now, fwdLog, feed, chan, db` (`Ledger == INSTANCE
LedgerSync`, property `LedgerRefined`): stages and rollbacks are stuttering.

### `ExchangeSync` - keys, clients and triggers

`client` and `trigger` are `strikeClient`/`coinbaseClient` and the channels of
capacity 1. A settings request is a small program (`handler`): store the key
(`SaveKey`, `Disconnect`), forget the live balance (`ClearLive`, Coinbase only),
run the callback of `main.go` (`SwapClient` with a syncer, `SpawnWorker`
without), send the trigger (`SendTrigger`). `run` has the syncer (runner 0) and
the goroutines `main.go` starts when LND was not reachable. `FetchBalance`,
`StoreBalance`, `FetchRows`, `ImportRows` are the four calls of `syncStrikeAPI`
and `syncCoinbaseAPI`; the syncer reads its field at each of them (`ClientOf`), a
goroutine keeps the client it was started with. `Panic` is the call of a nil
client; `Kill` and `Restart` are the process. `ExchangeBalance` is the query of
the same name.

### `MonarchTx` - the export of transactions

`bg` and `web` are the two pointers to a `monarch.Syncer`, `cache` the account
each instance remembers, `run` the batches: one of the background syncer and
`MaxJobs` of the settings page. `BeginBatch` and `RequestSync` list what is
unsynced; `CallSync` reads the pointer again and begins with what was listed, or
finds it gone and ends the process (`Panic`). All that is **before** `Lock`; then
`ListAccounts`, `DeleteDuplicate`,
`CreateAccount` (`ensureTxAccount`), `Dedup` (`fetchExistingSourceIDs`),
`SkipTx`/`CreateTx`/`CreateTxFails` (the loop of `SyncTransactions`), `EndBatch`,
and outside the mutex `Mark`. A call that is answered by an error may or may not
have had its effect: `CreateAccount` and `CreateTx` have a branch in which the
answer is lost. `blind` and `overlap` are history: a lookup failed, two instances
were in `SyncTransactions` at once.

### `LicenseServer` - webhooks, commands, the success page

`subscription` and `events` are Stripe: what it knows of each subscription and
which events it has no answer for, so that an event stays deliverable, to any
request and again, until an answer arrives. `hook` has the webhook requests at
work, each between its lookup and its write: `Deliver`, then for a checkout with
no tier in its metadata `AskStripe`, then `LookupCheckout` and `CreateLicense`
(`handleCheckoutCompleted`), or `LookupChange` and `Revoke` or `Upgrade`
(`handleSubscriptionDeleted`, `handleSubscriptionUpdated`). Each step may fail,
and is answered 200 all the same, except for the nil dereference of
`AskStripeFails`; `ServerKilled` loses all requests. `Success` is the page that
shows the key, `cmdCreate`, `cmdRevoke`, `cmdUpgrade` the operator's processes on
the same table. `disturbed`, `applied`, `revoked`, `shown` are history.

### `LicenseChecker` - the checker beside that server

Extends `LicenseServer`, so that every validation is answered from the table of
that moment. `req` has the verification at start and those of the settings page,
which share `licenseKey`: `SetKey` (`SetKeyAndVerify`), `PhoneHome`, `Validate`
(the server's handler, which signs), `CheckAnswer`, `Adopt`, `Store`, and on the
way down `ReadCache`, `Decide`, `Downgrade` (`fallbackToCache`). The row
`license_cache` survives `Restart`, the tier does not.

`Entitlement` is what a license means without messages: the issuer signs for a
key no more than it is worth, and a paid tier is taken up only on a signature
that has not run out, made for a key the user entered. `LicenseChecker`
implements it with `worth` mapped to what the rows of the server are worth today
(`Ent == INSTANCE Entitlement WITH worth <- Worth, ...`, property `Entitled`).

### `CostBasis` and `ImportBook` - rows, lots, tax reports

`CostBasis` has the engine as operators: `Match` (`costbasis.go`) is a fold of
`Dispose` over the sales and of `Take` over the candidates of each; `Form8949`,
`Summarize` and `Harvest` are the reports. `ImportBook` has the state:
`imports` is `exchange_imports` by source, external id and type, `lots` is
`btc_lots`, `form` the lines of the Strike preview that the browser sends back.
A line is what a file says; `parseStrikeRow`, `parseRiverRow`, `parseCoinbaseRow`
and Swan's three parsers say which row it becomes, `StableId`, `Composite` and
`Ref` how it is identified. `Read` puts together what is made of the lines of a
file (`Made`), `ImportRow` is what one row does (`Upsert`, with `PurchaseLot` or
`SwanLot`) and `ImportRows` the loop that all four imports share. The actions are the requests: `StrikePreview`,
`HandleStrikeImport`, `HandleRiverImport`, `HandleCoinbaseImport`,
`HandleSwanImport`, `ApiImport`, `ClearExchangeSource`.

### `Portfolio` - snapshots, history, chart

Extends `ImportBook`. `Cycle` is what a cycle stores of the wallet and then
`captureSnapshot`, computed by `PortfolioBreakdownQuery`. `Replay` and
`ReplaceBackfill` are `BackfillPortfolioSnapshots`, run by
`HandlePortfolioBackfill` under its own context, or by the goroutine
`backfillSnapshots` of an import under the context of the request: `asked` counts
those, and one may be rolled back. `PortfolioSnapshots` is the chart.

### `Alerts` - checks, messages, the limit

`job` is where `Check` is: the four checks in turn, each reading the tables once
(`checkChannelCloses`, `checkLowBalance`, `checkFeeSpike`, `checkDailySummary`)
and then, message by message, `waitForRateLimit`, `SendMessage`, `RecordAlert`.
`sentAt` is the client's list, shared with `HandleTelegramTest`, of which several
requests may be between their question for room and their count (`testing`,
`TestAnswered`); `chat` is what
Telegram delivered, with a mark for what was recorded. A token saved by
`HandleTelegramSave` is used after a `Restart`.

### `Wallets` - scans

`jobs` are the goroutines that wait for `scanMu`, each with the wallets it has
left (`HandleAddWallet` and `HandleRefreshWallet` start one for one wallet,
`HandleRefreshAll` one for the list of that moment), `scan` who has it. Against
Electrum a scan is a request (`asked`), an answer (`answers`) and a `Read` for
each address, branch by branch with the gap limit (`BranchEnds`), then
`UpdateWalletBalance`; against Core one `scantxoutset` of all that Core looks up
(`CoreRange`). `TimeOut` ends a scan and
leaves what was asked to be answered.

## Runs

| Run | Result | What it shows |
|---|---|---|
| `sync_cycle` | holds | every forward of the covered time is recorded (`ForwardsComplete`), the invoice cursor never passes an invoice without a row (`InvoicesBehindCursor`), closed is final (`ClosedIsFinal`), the balances committed count each unit once when no channel moved during the reads (`PortfolioCountsOnce`), the cycle implements `LedgerSync` (`LedgerRefined`), and the ledger catches up: forwards routed during a cycle, invoices and payments that settle after later ones were fetched, and closed channels are recorded in the end (`ForwardsRecorded`, `SettlementsRecorded`, `ClosesRecorded`) |
| `exchange_sync` | holds | no request with a key that was removed or replaced (`OnlyCurrentKey`), saving never panics (`SavingNeverPanics`), no wakeup is lost (`TriggerNotLost`), the Strike balance and rows become right, and with LND the balance stays right, also where one working key replaced another in the middle of a sync (`StrikeCatchesUp`) |
| `monarch_tx` | holds | no transaction twice, and what is recorded is there (`SyncedOnce`), a disconnect stops the loop (`DisconnectStopsLoop`), all is recorded in the end (`AllSynced`) |
| `license_server` | holds | once Stripe has an answer for everything, and nothing was dropped or overtaken, the table says what Stripe says (`LicenseFollowsSubscription`); a deletion hits the key the customer was shown, although two deliveries may create two rows (`DeletionHitsShownKey`) |
| `license_checker` | holds | checker and server implement `Entitlement` (`Entitled`); a restart without the server keeps the tier within the grace period (`RestartKeepsTier`) |
| `import_book` | holds | rows and lots agree however files are repeated, corrected and cleared (`LotsAgreeWithImports`), a second upload changes nothing (`ReimportChangesNothing`), each satoshi of a lot is sold once or open (`SatsMatchedOnce`), a year that is over keeps its Form 8949 (`ClosedYearsStay`) |
| `import_preview` | violated | `ConfirmBooksThePreview`: what was shown is what is imported |
| `portfolio` | holds | a day that was seen shows what was seen last (`ChartShowsWhatWasSeen`); the other days show what the rows say unless a reconstruction was called off or something changed that starts none (`HistoryIsCurrent`); the parts of a snapshot add up to it (`DetailsAddUp`) |
| `alerts` | holds | what was recorded is not sent again (`RepeatedOnlyInDoubt`), the limit is passed by one message at most for each test at work (`RateLimit`), each closing is told in the end (`ClosedIsTold`) |
| `alerts_zone` | violated | `OneSummaryPerDay`, checker.go:176 |
| `wallets` | holds | the newest scan decides a row, with what the addresses have (`RowsFollowTheChain`), and each scan has its turn (`ScansEnd`) |
| `wallets_late` | violated | `BalanceIsOfTheAddress`, electrum.go:81 |

Each property of a passing run has a mutant in `PROJECT.json`: a definition of
the model changed the way a plausible bug would change the code, under which the
run finds the property violated. The mutated forms stand before the definitions
they replace, marked `Mutant`.

Some properties hold only outside situations in which the code is wrong, and say
so in their statement: `PortfolioCountsOnce` leaves out channels whose closing
transaction is pending, `SyncedOnce` two instances at work at once and a failed
lookup, `LicenseFollowsSubscription` events that were dropped, overtaken or
created at once, `HistoryIsCurrent` reconstructions that were called off,
`RowsFollowTheChain` an Electrum connection after a call that timed out. What is
left out is under [divergences](#divergences-found) or among the hazards, where a
hazard that no property covers has a note that says why.

## Bounds

* `sync_cycle`: `PageSize` 1 makes every event fill a page, so that one event is a
  full page followed by an empty one and two cross a boundary; four node steps
  suffice for two forwards in different windows, or an invoice added, another
  added, one settled, with the clock moving; one failure reaches each stage and a
  retry after it. The offset of an empty page is 0, as LND answers it (with the
  other answer `SettlementsRecorded` is false, since nothing resets the cursor).
* `exchange_sync`: two Strike keys, so that one working key replaces another, and two
  Coinbase credentials, one malformed; two changes give save-save, save-remove and
  one of each exchange; two trades give a receipt and a send that has no row; one
  failure or kill.
* `monarch_tx`: two transactions, so that a batch can stop in the middle; one
  batch of the page beside the background syncer; one change of the token; two
  failures, so that an answer can be lost and the process killed after it.
* `license_server`: one subscription, bought in the checkout or not, two webhook
  requests at once, two changes of plan and the end of it: four events in any
  order and number; one command of the operator, one failure or kill; up to two
  rows; the requests are a symmetry set. Subscriptions do not
  meet in the code, so one is enough.
* `license_checker`: the operator's licenses only (what Stripe does to them is
  `license_server`); two keys, two commands, two requests of the page at once, a
  tier the application does not know, four days with tokens that live two and a grace
  period of one, so that both run out; one failure. `Page` is a symmetry set.
* `import_book`: ten lines of four exchanges, chosen so that a line is corrected
  under its id, two fills share a second, a sale takes more than there is,
  transfers and rows of the APIs mix in; uploads of one line, which in any order
  are the files of several. Two years of two days.
* `portfolio`: a row of each exchange and one of Strike's that is no balance, two
  days, a wallet with one value or none, two snapshots before the reconstructed ones,
  one goroutine at a time. The second row of one day overrides the first in the
  chart; more of them bring nothing new.
* `alerts`: two channels, a limit of one message per minute so that every message
  waits, three days of one tick with an average over two, two changes, one fault, two test
  messages at once, so that they meet each other as well as the checker.
* `wallets`: an address, a key with two branches of two addresses and a descriptor;
  two wallets ever added, so that one can be removed and added again; gap 1; Core looks
  up one address more than Electrum, so that a payment may be beyond the latter; two
  payments in all, so that money can move between addresses; one refresh, one
  timeout.
* Violated runs have the smallest bounds that reach the violation.

The safety properties of all passing runs are [proved](#proofs) for every value of
these constants, `ReimportChangesNothing` for files that have one name for a
purchase.

`MaxEvents`, `MaxFailures`, `MaxChanges`, `MaxTrades`, `MaxJobs`, `MaxIssued`,
`MaxCommands`, `MaxRequests`, `MaxLines`, `MaxRows`, `MaxAsked`, `MaxFaults`,
`MaxTests`, `MaxWallets`, `MaxPayments` and `MaxTimeouts` bound what the environment does;
`LastDay` and `LastTick` the clock.

## Fairness

* `SyncCycle`: weak fairness of the cycle's own steps. `Run` starts a cycle at
  each tick and every stage ends with an answer or an error. The node owes
  nothing. Failures are finite in number.
* `ExchangeSync`: weak fairness of each runner, each handler and the restart
  (HTTP clients time out after 30 s: `strike_api.go:71`, `coinbase_api.go:79`;
  `docker-compose.yml:12`). Strong fairness of taking a trigger: Go's `select`
  picks at random among the ready cases, so a ready trigger is not passed over
  for ever in favour of the ticker.
* `MonarchTx`: weak fairness of the batches, the handlers and the restart; strong
  fairness of `Lock`, because a Go mutex hands itself over to a waiter that
  starves. A page's request is never owed, but the goroutine it has started goes on.
* `Alerts`: weak fairness of the cycle (the syncer's ticker), of the steps of a
  check (the client has a timeout) and of the passing of a minute. Faults are
  finite in number.
* `Wallets`: weak fairness of the scans: the server answers and a goroutine goes
  on; which waiter gets the mutex is free.
* `LicenseServer`, `LicenseChecker`, `ImportBook`, `Portfolio`: safety only. What
  Stripe or the user owes is nothing the code can rely on.

## Proofs

Eight modules hold theorems. Each speaks of every value of the constants: any
number of channels, keys, subscriptions, transactions and requests, any bound on
events, changes and failures. They assume the named `ASSUME`s of the module they
are about and nothing else, except `ImportTwiceIsOnce`, which states its hypothesis.
`tlapm` checks every leaf. Every invariant, action property and refinement that a
passing run checks is stated by one of them.

| Module | Theorem | Statement | Invariant |
|---|---|---|---|
| `SyncCycleProofs` | `TypeCorrect` | `Spec => []TypeOK` | `TypeOK` |
| | `NoForwardLost` | `Spec => []ForwardsComplete` | `IInv` |
| | `NoInvoiceSkipped` | `Spec => []InvoicesBehindCursor` | `IInv` |
| | `ClosedStaysClosed` | `Spec => []ClosedIsFinal` | `IInv` |
| | `MoneyCountedOnce` | `Spec => []PortfolioCountsOnce` | `CountInv` |
| | `SyncRefinesLedger` | `Spec => LedgerRefined` | `IInv` |
| | `ShortPageIsAll` | a page shorter than the page size is everything there was | |
| `ExchangeSyncProofs` | `TypeCorrect` | `Spec => []TypeOK` | `XInv` |
| | `OnlyCurrentKeyIsUsed` | `Spec => OnlyCurrentKey` | `XInv` |
| | `SavingIsSafe` | `Spec => SavingNeverPanics` | `XInv` |
| `MonarchTxProofs` | `TypeCorrect` | `Spec => []TypeOK` | `MInv` |
| | `NothingTwice` | `Spec => []SyncedOnce` | `MInv` |
| | `LoopStops` | `Spec => DisconnectStopsLoop` | `MInv` |
| `LicenseProofs` | `ServerTypeCorrect` | `ServerSpec => []TypeOK` | `TypeOK` |
| | `LicenseIsThePlan` | `ServerSpec => []LicenseFollowsSubscription` | `IInv` |
| | `DeletedKeyIsInvalid` | `ServerSpec => []DeletionHitsShownKey` | `IInv` |
| | `CheckerTypeCorrect` | `Spec => []CheckerTypeOK` | `CInv` |
| | `TierSurvivesRestart` | `Spec => []RestartKeepsTier` | `CInv` |
| | `CheckerIsEntitled` | `Spec => Entitled` | `CInv` |
| `AlertsProofs` | `TypeCorrect` | `Spec => []TypeOK` | `AInv` |
| | `RecordedIsNotRepeated` | `Spec => []RepeatedOnlyInDoubt` | `AInv` |
| | `LimitHolds` | `Spec => []RateLimit` | `LimitInv` |
| `ImportBookProofs` | `TypeCorrect` | `Spec => []TypeOK` | `BookInv` |
| | `LotsAgree` | `Spec => []LotsAgreeWithImports` | `BookInv` |
| | `SatsAreMatchedOnce` | `Spec => []SatsMatchedOnce` | `BookInv` |
| | `ClosedYearsAreStable` | `Spec => []ClosedYearsStay` | `BookInv` |
| | `ImportTwiceIsOnce` | `Spec => []ReimportChangesNothing`, if `OneNamePerPurchase` | `BookInv` |
| `PortfolioProofs` | `PortfolioTypeCorrect` | `PortfolioSpec => []PortfolioTypeOK` | `PortfolioInv` |
| | `SeenIsShown` | `PortfolioSpec => []ChartShowsWhatWasSeen` | `PortfolioInv` |
| | `HistoryIsRight` | `PortfolioSpec => []HistoryIsCurrent` | `PortfolioInv` |
| | `PartsAddUp` | `PortfolioSpec => []DetailsAddUp` | `PortfolioInv` |
| `WalletsProofs` | `TypeCorrect` | `Spec => []WalletsTypeOK` | `WalletsInv` |
| | `NewestScanDecides` | `Spec => []RowsFollowTheChain` | `WalletsInv` |

Only the `TypeOK` of `SyncCycle` and of `LicenseServer` are inductive as they
stand; every other proof rests on a stronger invariant,
established by `Init => Inv` and `Inv /\ [Next]_vars => Inv'` with a lemma per
action (or per kind of actor: where many actions move one record, a lemma says
what such a move keeps, and the actions are shown to be moves).

**`SyncCycle`.** `ForwardsComplete` speaks of committed tables and says nothing of
a cycle under way. `IInv` adds what carries a cycle from its first page to its
commit:

* `LogInThePast`: no forward is later than the clock, so that a window whose end
  was read before the RPCs cannot gain events strictly before its end;
* `Good(db)` and `Good(tx)`: committed and open tables are true and complete, and
  their cursor is not ahead of the clock;
* `Ledger!Remembers(db, tx)`: the open transaction forgot nothing;
* `WindowInv`: while pages are fetched, every event of the window up to the offset
  is among those fetched. `PageIsPrefix` (a page has everything before each of its
  elements) preserves it at a full page, `ShortPageIsAll` closes it at the last;
* `StageInv`: what a stage leaves behind is there at the commit.

Refinement then needs only that a commit is a step of `LedgerSync`
(`CommitIsOneStep`), a node step a `NodeStep`, and that every other action leaves
the abstract variables alone. `CountInv` is separate: an active channel has been
opened, and a cycle that saw one moment agrees with the node on what its stages
have read so far; the sum is that of two disjoint finite sets.

**`ExchangeSync`.** `OnlyCurrentKey` is about what the syncer asks with; the two
writes of a request (the key, then the client) are apart, so `SwapOK` says that
client and stored key agree except while a request is between them. `KeysOK` keeps
the keys of the two exchanges apart while they are on their way. `SpawnWorker`
takes a free goroutine record; that there is one (without which `CHOOSE` would
mean nothing) is a count, `SlotsOK`: running goroutines and open requests together
are no more than the changes made. `SavedOK`, for processes in which no key was
removed, says that whoever is about to use a client has one, which is what
`SavingNeverPanics` needs.

**`MonarchTx`.** Without overlap there is one holder of a mutex and at most one
account of our name, because who creates one has just listed none
(`OneAtWork`); then everything recorded, just posted or looked up is in Monarch,
and with every lookup answered nothing that is still to be posted is there
(`NoneTwice`). `InstancesOK` counts the instances a process can make,
`PointersOK` ties the fields of page and syncer to the token.

**`LicenseServer`.** A webhook writes the row it looked up one statement earlier:
`HookOK` says that this row still is the first of its subscription, `EventOK` what
the number of an event says of it, `RowOK` that every event after the last one
answered is still on its way and that the row is as that one left it, `KeyOK` that
the customer was shown the row the webhooks write.

**`LicenseChecker`.** Requests share the configured key without a lock, so nothing
ties the key of a row to the key of its token. `RowFine` and `ReqFine` say what
does hold: a token is stored only after its own key was the configured one, no day
passes between an answer and its row, and the row does not outlive the token.
`Sure` is for verifications that met no other one, `Kept` for the first one after a
restart. `CheckerIsEntitled` shows each step to be a step of `Entitlement` or a
stutter, with `worth` mapped to what the server's rows are worth.

**`Alerts`.** `AInv` says that while a message is on its way nothing in the table
forbids it (`JobFine`), that what was recorded is in the table with the time it was
delivered (`ChatFine`), and that no record is about a date that had not come
(`HistoryFine`). The clock may move between the question and the message; it makes
no message forbidden (`RepeatableLater`). `DayLater` and `MidnightPassed` are the
arithmetic of dates: more than a day later, or after midnight where the time zone
is UTC, is another date. `LimitInv` is for the limit alone: what has been counted in
the minute and what has found room and is not counted yet are together no more than the
limit and the tests that may be at work.

**`ImportBook`.** An upload is a fold, so the proof goes by its length.
`ImportByRows` and `ReadByLines` show that the functions behind the two folds exist
and give the next value for one row or line more; `UpTo` is the induction over the
length, for one set at a time. `BookInv` says of any book that a row is kept under
its exchange, id and type (`RowsOK`), that an id made of a row without a reference
has the row's amount, and so has its lot (`LotsOK`), that the id of a row of River
contains its type and a purchase of Strike is called what a line of a file calls it
(`Named`), that a lot has a row
(`LotsHaveRows`) and a priced purchase its lot (`PurchasesHaveLots`), and that the
form holds lines with a reference: without it the confirmation could book a row
under the empty reference. `UpsertKeeps` is the step of one row, with the lots
changed by any of the four rules (`LotChange`); `ClearKeeps` needs that all rows
which share a lot are of one exchange.

*Matching.* `Match` is a fold over sets: the candidates of a sale, and the sales.
That such a fold has a value is shown by the size of its sets (`SaleIsThat`,
`MatchIsThat`; `SumIsThat` for the sums), and `SetBySet` is the induction over them. While a
sale is served, what it still needs and what all sales have got add up to the same
number, and what an event has taken is missing in its lot (`Serving`, kept by
`TakeKeeps`); over the sales it is what they wanted in all (`Matched`, kept by
`DisposeKeeps`). A lot is asked only while it has something, so it is never
overdrawn, which is `SatsMatchedOnce` at the last sale.

*Closed years.* A sale looks at lots bought no later than itself, so the lots after
the year change nothing in the sales up to it: the matching of all lots and that of
the lots up to the year go in step (`Alike`), sale by sale in the order of time. The
sales after the year are served last and their events are of later years
(`DisposeOfOtherYear`), so the lines of the year are the same (`YearStays`).

*A second upload.* The property is about files of two lines, into any table that can
be reached. The second time, a row finds either itself, and nothing is written, or
under the same key what the other line has put there, and the last of them stands
as before. The lot has to agree too, and here the rows
of one reference with different types meet: they share a lot, and each has a row of
its own. `OneNamePerPurchase` says that Strike's files do not call the purchase of
one reference by two of the names `Purchase`, `purchase` and `buy`; then the price of a lot
is that of one row (`PricedByFirst`). The hypothesis is needed: with a row
`Purchase` in the table and then one of the same reference called `buy` at another
price, a file that has the first again, and then without an amount, leaves another
price in the lot the second time; TLC finds this when such lines are among
`Line`. The code accepts the three names, the files and the tests of the repository
have `Purchase` only.

**`Portfolio`.** `PortfolioInv` is `BookInv`, that wallet and balances are numbers of
days that have come, and two things about the snapshots. `RowsFine`: what a cycle
stored of a day stands after what was reconstructed of it (`SeenAfter`), a day is
reconstructed once (`OneBackfill`), and a cycle's total is the sum of its parts
(`Detailed`), which rests on no balance of collateral being kept (`NoCollateral`).
`UpToDate`: as long as nothing changed without a reconstruction, a day that was not
seen has a row with what the rows say of it. A reconstruction is two folds, of what
stays and of what is inserted: `InsertedIs` says of the second that each day of the
table has one row at the end, `BackfillKeeps` that both together keep `RowsFine`.

**`Wallets`.** A balance is a sum over a set of addresses, read one at a time while
payments come. The first lemmas are about such sums: `SumIsDefined` finds a sum for
every finite set by induction over the size of its subsets, `SumGrows` adds an
element, whichever `CHOOSE` takes first, and `SumsAgree` says that the sum of a part
is the same whether it is taken alone or within the whole. `WalletsInv`
says of a scan of an extended key under which nothing was paid that its sum is that
of the addresses read (`Seen`), that its gap is the row of empty addresses behind it
(`GapIs`), and that no gap lies before the address it asks for; `AddressAfterGap`
preserves this with one address more and says that, where the gap is full, all that
follows is behind it; a branch that ends there has therefore been read at exactly
the addresses of the property (`FoundByScan`). `WireInv` says that, without a call that timed out, one request or
one answer is on the wire and that it is the scan's own. `ScanInv` and `RowsInv`
carry the mutex: the row has seen no more than the scan that holds it, and an id in
a waiting list stands for the value it was made for or for nothing, since ids are
not given again.

Only model-checked are the liveness properties: `ForwardsRecorded`,
`SettlementsRecorded`, `ClosesRecorded`, `TriggerNotLost`, `StrikeCatchesUp`,
`AllSynced`, `ClosedIsTold` and `ScansEnd`. They rest on fairness, and so on ENABLED,
which are out of the prover's reach.

## Assumptions

`SyncCycle`: the clock does not go back; a forward appears in the node's history
in the second it is stamped with; times are seconds. A channel holds one unit of
money. Forwards that agree in second, channels and outgoing amount are one row,
as the unique index of the table has it. A channel whose closing transaction is
pending is in neither list. A replaced transaction is no longer listed. RPCs have
no timeout of their own in the code and are taken to end.

`ExchangeSync`: the user waits for one answer before the next request for the same
exchange; the two settings of a Coinbase credential are written in one step, and
so are a client and its importer; keys given by the environment are left out.

`MonarchTx`: `Tx` are transactions of the types and sources the user selected,
`Worthless` those under a cent (LND's have no USD amount). Monarch lists accounts
in the order of their creation, answers the query for a deleted account with
nothing, and its limit of 10000 is not reached. The category is found. A token
given by the environment is left out. Pauses between calls are left out.

`LicenseServer`: Stripe numbers what happens to a subscription and delivers until
it is answered; its signature is right. `LookupByStripeSubscription` finds the
first row of its index. `LicenseChecker`: a token that is not the server's does
not verify; a verification is over within the day; the key in the environment
does not change between starts.

`ImportBook`: dollars are whole, times are days; a line's columns are what the
parsers read of it, amounts are not negative, and the API of Strike gives every row
an id and returns what was received only (`BookAssumption`); a year has days
(`CostBasisAssumption`). SQLite runs one import at a time. `Portfolio`: the parts of
the wallet, channels and watched wallets that a cycle finds are any of a set of naturals
(`PortfolioAssumption`); the
snapshot is taken on the day of its cycle.

`Alerts`: the minute of the limit is short against a tick; local dates are a fixed
offset from UTC; messages of the test button are no alerts and repeat nothing.

`Wallets`: the operator pays what the chain accepts; Core answers
for all addresses at once; the Electrum server answers in order; payments go to addresses that Core looks up
(the first 1001 of a branch), which are at least those that Electrum is asked for;
the bounds of
wallets and of calls that time out are naturals (`WalletsAssumption`).

## Divergences found

With a run, and the line quoted in `PROJECT.json`:

1. The Strike preview sends its lines back joined by commas, without quotes, so a
   dollar amount with a thousands separator falls apart: the confirmation loses
   the row or books another (`import_preview`).
2. checker.go:176 promises one daily summary; its key is a local date, its window
   starts at midnight UTC (`alerts_zone`).
3. The Electrum client does not compare the id of an answer with that of its
   request: after a call that timed out balances go to the wrong addresses
   (`wallets_late`).

Found while modelling, and left out of the properties as their comments say:

* main.go:267 promises a hot swap of keys; `syncStrikeAPI` calls its client without
  a check, and a removal in the meantime ends the process (`Panic` in
  `ExchangeSync`; `SavingNeverPanics` excludes removals). main.go:273 logs that a
  removed key disables the sync; without LND its goroutine goes on. Disconnecting
  Strike does not clear its live balance, disconnecting Coinbase does.
* queries.go:1125 prefers Strike's live balance to the sum of the rows, but not when
  it is 0: an account emptied by a send in USD keeps its old balance
  (`StrikeCatchesUp` is about accounts that hold bitcoin).
* settings_layout.html:240 promises an automatic sync of Coinbase; with LND it is
  synced at a save and at start only.
* settings_layout.html:336 promises each transaction once; a batch whose lookup
  fails posts again what another has posted (`blind` in `MonarchTx`), and two
  instances do so without any failure (`overlap`). They come from a connect at
  runtime: main.go:135 says that it reaches the background syncer, but the handlers
  assign their own field and do not call `SetMonarchSyncer`. Where two instances
  have created an account each, a later one deletes the second with what is in it.
* A batch of the Monarch export reads the pointer to its instance twice; a disconnect
  in between ends the process (`Panic` in `MonarchTx`).
* licenseserver/main.go:395 calls the creation for a checkout idempotent; lookup
  and insert are two statements and the index is not unique, so two deliveries at
  once create two licenses, and the second outlives the subscription. An update or
  deletion before the checkout is dropped, and an error is answered 200, so that
  Stripe does not deliver again.
* A key that is replaced during its verification leaves its tier in the cache row of
  the other.
* handler.go:278 has an import reconstruct the history in the background
  (queries.go:1268-1271 counts on it); this runs under the context of the request
  and is cancelled when the response is written, which handler.go:299 avoids for
  the button. Clearing a source and rows of the APIs start no reconstruction.
* checker.go:142 promises a fee spike at most once per 24 hours; it is told once per
  local date, so two may come around midnight.
* README.md:102 says syncs never re-fetch; `syncOnchainTxns` asks for the whole
  list each time.
* `IsIgnored` keeps Strike's collateral rows out of the table, so
  `StrikeCollateralSats` is always 0; if it were not, the total of a snapshot
  would exceed its parts (`DetailsAddUp`).
* Coinbase's API rows have ids of Coinbase and positive amounts, its CSV rows
  composite ids and signs: the same trade is counted twice. Two fills of the same
  second and amount are one row for River and Coinbase. The amount of a lot is
  never updated, and a row whose price became 0 leaves the lot its old price.
* The unmatched amount of the tax page is that of all years, whichever is chosen.
* Descriptors are an error against Electrum; the Electrum connection is opened
  once; the gap limit counts empty addresses, not unused ones; a payment between
  two addresses of a wallet during its scan counts twice or not at all (the row is
  right after the next scan).
* The Monarch holding is set to `breakdown.TotalSats` by the syncer and to a total
  without channels and collateral by the page (handler_settings.go:340).

## What is not modelled

* The Monarch holding: `SyncHolding` replaces one number; the account it shares
  with no mutex is a data race whose outcome is a second account, as `MonarchTx`
  has it for transactions.
* Transfers and notes: each write is one statement on one row; the tag of the
  syncer and the flag of the user are set in the order they come.
* Backup and restore, migrations: renames and checkpoints, whose behaviour under a
  crash is that of SQLite and of the file system.
* The price cache: one number with a time to live.
* Address derivation, signatures and encodings (no state); the dashboard pages,
  reports and the read API (queries and layout); routing, configuration and the
  one-shot tools (straight-line code). SQL itself, and the busy timeout of SQLite
  while a cycle holds its transaction open, are taken as given. `SaveDisposals`
  and `TotalPortfolioSats` are called by nothing.

## How to run

    tlc -workers 2 -config SyncCycle.cfg MCSyncCycle
    tlapm SyncCycleProofs.tla

and likewise the other modules whose name ends in `Proofs`. Each line of `runs` in `PROJECT.json` names a module and its configuration.
