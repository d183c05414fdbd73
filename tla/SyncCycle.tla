----------------------------- MODULE SyncCycle -----------------------------
(***************************************************************************)
(* One synchronization cycle of the background syncer: Syncer.syncCycle    *)
(* runs inside one SQL transaction (DB.RunSync) and copies the LND node's  *)
(* ledger into SQLite, stage by stage and RPC by RPC, while the node keeps *)
(* changing.  The stages are the forwarding history (a time cursor, pages  *)
(* of events), the channels (two RPCs), invoices and payments (an index    *)
(* cursor each), the on-chain transactions (the full list every time) and  *)
(* the wallet balance.  Any stage but ClosedChannels may fail the cycle,   *)
(* which rolls everything back.                                            *)
(*                                                                         *)
(* The node (fwdLog, feed, chan) is external: it is modelled from how      *)
(* lnd/client.go and syncer.go use it.  db is what SQLite has committed,   *)
(* tx the transaction's own copy of it.                                    *)
(***************************************************************************)
EXTENDS Integers, Sequences, FiniteSets

CONSTANTS
    Channel,         \* the channels the node ever has
    Route,           \* (chan_id_in, chan_id_out, amt_out_msat) of a forward
    PageSize,        \* what one RPC returns at most (1000 in client.go)
    MaxHistory,      \* maxHistoryDays, in clock ticks
    EmptyPageOffset, \* what the node may return as the offset of an empty page
    MaxEvents,       \* bound: steps of the node, of its clock too
    MaxFailures      \* bound: failed cycles and failed ClosedChannels calls

Feed == {"invoices", "payments", "onchain"}

ASSUME ChannelAssumption == IsFiniteSet(Channel)
ASSUME PageSizeAssumption == PageSize \in Nat \ {0}
ASSUME MaxHistoryAssumption == MaxHistory \in Nat
ASSUME OffsetAssumption == /\ EmptyPageOffset # {}
                           /\ EmptyPageOffset \subseteq {"zero", "asked"}
ASSUME BoundsAssumption == MaxEvents \in Nat /\ MaxFailures \in Nat

VARIABLES
    now,        \* the clock, in seconds
    fwdLog,     \* the node's forwards, oldest first
    feed,       \* the node's invoices, payments and transactions, by index
    chan,       \* the node's channels
    pc,         \* the stage the cycle is in
    window,     \* forwarding: the range asked for, and the page offset
    fetched,    \* forwarding: allEvents, the pages fetched so far
    tx,         \* the open transaction's view of the tables
    db,         \* the committed tables
    coherent,   \* history: the cycle's channel reads saw one moment
    events,     \* bound counter of MaxEvents
    failures    \* bound counter of MaxFailures

nodeVars == <<now, fwdLog, feed, chan, events>>
cycleVars == <<pc, window, fetched, tx>>
vars == <<now, fwdLog, feed, chan, pc, window, fetched, tx, db, coherent,
          events, failures>>

-----------------------------------------------------------------------------
(* The node's data and the tables.                                         *)

Event == [ts : Nat, route : Route]

\* An item of a feed.  "open" is an unsettled invoice, a payment in flight or
\* an unconfirmed transaction; "failed" a cancelled invoice, a failed payment
\* or a transaction that was replaced.
ItemStatus == {"open", "settled", "failed"}

\* "none" before it opens; "closing" while its closing transaction is pending:
\* neither ListChannels nor ClosedChannels returns it then.
ChanStatus == {"none", "online", "offline", "closing", "closed"}

Index(f) == 1 .. Len(feed[f])

\* Mutant: invoices are asked for once they are settled only.
ListedSettled(f, i) == IF f = "onchain" THEN feed[f][i] # "failed"
                       ELSE feed[f][i] = "settled"

\* ListInvoices returns invoices in every state; ListPayments leaves out what
\* has not succeeded (IncludeIncomplete is not set); GetTransactions what the
\* node no longer knows.
Listed(f, i) == CASE f = "invoices" -> TRUE
                  [] f = "payments" -> feed[f][i] = "settled"
                  [] f = "onchain"  -> feed[f][i] # "failed"

\* The whole on-chain balance.  A channel holds one unit of money, which is in
\* the wallet before the channel opens and once it begins to close.
WalletTotal == Cardinality({c \in Channel : chan[c] \notin {"online", "offline"}})

Never == -1       \* no row in sync_state
NoSnapshot == -1  \* no row in wallet_balance_snapshots

\* fwd: forwarding_events, whose unique index makes it a set of
\* (timestamp, route); fwdAt: last_synced_at of "forwarding"; fwdFrom: history,
\* the start of the first window committed; cursor: last_offset; present,
\* settled: the items of a feed with a row, and with a row that says settled (or
\* confirmed); chanRows, chanActive, chanClosed: the channels with a row, with
\* active = 1, with a closing_tx_hash; wallet: the latest balance snapshot.
Tables == [fwd : SUBSET Event,
           fwdAt : Nat \cup {Never},
           fwdFrom : Nat,
           cursor : [Feed -> Nat],
           present : [Feed -> SUBSET Nat],
           settled : [Feed -> SUBSET Nat],
           chanRows : SUBSET Channel,
           chanActive : SUBSET Channel,
           chanClosed : SUBSET Channel,
           wallet : Nat \cup {NoSnapshot}]

EmptyTables == [fwd |-> {}, fwdAt |-> Never, fwdFrom |-> 0,
                cursor |-> [f \in Feed |-> 0],
                present |-> [f \in Feed |-> {}],
                settled |-> [f \in Feed |-> {}],
                chanRows |-> {}, chanActive |-> {}, chanClosed |-> {},
                wallet |-> NoSnapshot]

NoWindow == [start |-> 0, end |-> 0, offset |-> 0]

TypeOK ==
    /\ now \in Nat
    /\ fwdLog \in Seq(Event)
    /\ feed \in [Feed -> Seq(ItemStatus)]
    /\ chan \in [Channel -> ChanStatus]
    /\ pc \in {"idle", "forwarding", "channels", "closed", "invoices",
               "payments", "onchain", "wallet", "commit"}
    /\ window \in [start : Nat, end : Nat, offset : Nat]
    /\ fetched \in SUBSET Event
    /\ tx \in Tables
    /\ db \in Tables
    /\ coherent \in BOOLEAN
    /\ events \in Nat
    /\ failures \in Nat

Init ==
    /\ now = 0
    /\ fwdLog = <<>>
    /\ feed = [f \in Feed |-> <<>>]
    /\ chan = [c \in Channel |-> "none"]
    /\ pc = "idle"
    /\ window = NoWindow
    /\ fetched = {}
    /\ tx = EmptyTables
    /\ db = EmptyTables
    /\ coherent = TRUE
    /\ events = 0
    /\ failures = 0

-----------------------------------------------------------------------------
(* The node, between and during the RPCs of a cycle.                       *)

Happen == events < MaxEvents /\ events' = events + 1

Tick ==
    /\ Happen
    /\ now' = now + 1
    /\ UNCHANGED <<fwdLog, feed, chan, cycleVars, db, coherent, failures>>

RouteForward(r) ==
    /\ Happen
    /\ fwdLog' = Append(fwdLog, [ts |-> now, route |-> r])
    /\ UNCHANGED <<now, feed, chan, cycleVars, db, coherent, failures>>

AddItem(f) ==
    /\ Happen
    /\ feed' = [feed EXCEPT ![f] = Append(@, "open")]
    /\ UNCHANGED <<now, fwdLog, chan, cycleVars, db, coherent, failures>>

FinishItem(f, i, s) ==
    /\ Happen
    /\ feed[f][i] = "open"
    /\ feed' = [feed EXCEPT ![f][i] = s]
    /\ UNCHANGED <<now, fwdLog, chan, cycleVars, db, coherent, failures>>

\* A channel opens, loses and finds its peer, starts to close and is closed.
ChanMove == {<<"none", "online">>, <<"online", "offline">>,
             <<"offline", "online">>, <<"online", "closing">>,
             <<"offline", "closing">>, <<"closing", "closed">>}

MoveChannel(c, to) ==
    /\ Happen
    /\ <<chan[c], to>> \in ChanMove
    /\ chan' = [chan EXCEPT ![c] = to]
    /\ coherent' = (pc = "idle")
    /\ UNCHANGED <<now, fwdLog, feed, cycleVars, db, failures>>

-----------------------------------------------------------------------------
(* The cycle.                                                              *)

\* The first n elements of a set of positions: one page of an RPC's answer.
FirstN(S, n) == {i \in S : Cardinality({j \in S : j <= i}) <= n}

\* Mutant: the first window starts MaxHistory ago whatever the clock says.
BeginSyncNoClamp ==
    /\ pc = "idle"
    /\ pc' = "forwarding"
    /\ tx' = db
    /\ window' = [start |-> IF db.fwdAt # Never THEN db.fwdAt ELSE now - MaxHistory,
                  end |-> now, offset |-> 0]
    /\ fetched' = {}
    /\ coherent' = TRUE
    /\ UNCHANGED <<nodeVars, db, failures>>

\* RunSync begins the transaction and syncForwardingEvents reads its cursor and
\* the clock: the end of the window is fixed BEFORE the first RPC.
BeginSync ==
    /\ pc = "idle"
    /\ pc' = "forwarding"
    /\ tx' = db
    /\ window' = [start |-> IF db.fwdAt # Never THEN db.fwdAt
                            ELSE IF now > MaxHistory THEN now - MaxHistory
                            ELSE 0,
                  end |-> now, offset |-> 0]
    /\ fetched' = {}
    /\ coherent' = TRUE
    /\ UNCHANGED <<nodeVars, db, failures>>

\* Mutant: the start of the window is excluded.
InOpenWindow(e) == window.start < e.ts /\ e.ts <= window.end

InWindow(e) == window.start <= e.ts /\ e.ts <= window.end

\* What the node still has in the window after the offset, and the next page.
Remaining == {i \in DOMAIN fwdLog : i > window.offset /\ InWindow(fwdLog[i])}
Page == FirstN(Remaining, PageSize)
PageEvents == {fwdLog[i] : i \in Page}

\* A full page: ask again from the offset of its last event.
FetchFullPage ==
    /\ pc = "forwarding"
    /\ Cardinality(Page) = PageSize
    /\ fetched' = fetched \cup PageEvents
    /\ \E last \in Page : /\ \A i \in Page : i <= last
                          /\ window' = [window EXCEPT !.offset = last]
    /\ UNCHANGED <<nodeVars, pc, tx, db, coherent, failures>>

\* Mutant: the cursor takes the clock of after the last RPC.
FetchLastPageLateClock ==
    /\ pc = "forwarding"
    /\ Cardinality(Page) < PageSize
    /\ tx' = [tx EXCEPT !.fwd = @ \cup fetched \cup PageEvents,
                        !.fwdAt = now,
                        !.fwdFrom = IF tx.fwdAt = Never THEN window.start ELSE @]
    /\ fetched' = {}
    /\ window' = NoWindow
    /\ pc' = "channels"
    /\ UNCHANGED <<nodeVars, db, coherent, failures>>

\* A short page ends the history: its events are inserted (OR IGNORE) and the
\* cursor moves to the end of the window, in the same transaction.
FetchLastPage ==
    /\ pc = "forwarding"
    /\ Cardinality(Page) < PageSize
    /\ tx' = [tx EXCEPT !.fwd = @ \cup fetched \cup PageEvents,
                        !.fwdAt = window.end,
                        !.fwdFrom = IF tx.fwdAt = Never THEN window.start ELSE @]
    /\ fetched' = {}
    /\ window' = NoWindow
    /\ pc' = "channels"
    /\ UNCHANGED <<nodeVars, db, coherent, failures>>

\* Mutant: the active flag of the answer is ignored.
SyncListChannelsAllActive ==
    LET open == {c \in Channel : chan[c] \in {"online", "offline"}} IN
    /\ pc = "channels"
    /\ tx' = [tx EXCEPT !.chanRows = @ \cup open, !.chanActive = @ \cup open]
    /\ pc' = "closed"
    /\ UNCHANGED <<nodeVars, window, fetched, db, coherent, failures>>

\* syncChannels, first RPC.  A row keeps its closing_tx_hash.
SyncListChannels ==
    LET open == {c \in Channel : chan[c] \in {"online", "offline"}} IN
    /\ pc = "channels"
    /\ tx' = [tx EXCEPT !.chanRows = @ \cup open,
                        !.chanActive = (@ \ open) \cup
                                       {c \in open : chan[c] = "online"}]
    /\ pc' = "closed"
    /\ UNCHANGED <<nodeVars, window, fetched, db, coherent, failures>>

\* Mutant: a closed channel keeps the active flag of its row.
SyncClosedChannelsStayActive ==
    LET closed == {c \in Channel : chan[c] = "closed"} IN
    /\ pc = "closed"
    /\ tx' = [tx EXCEPT !.chanRows = @ \cup closed, !.chanClosed = @ \cup closed]
    /\ pc' = "invoices"
    /\ UNCHANGED <<nodeVars, window, fetched, db, coherent, failures>>

\* Mutant: only channels that already have a row are updated.
SyncClosedChannelsUpdateOnly ==
    LET closed == {c \in tx.chanRows : chan[c] = "closed"} IN
    /\ pc = "closed"
    /\ tx' = [tx EXCEPT !.chanActive = @ \ closed, !.chanClosed = @ \cup closed]
    /\ pc' = "invoices"
    /\ UNCHANGED <<nodeVars, window, fetched, db, coherent, failures>>

\* syncChannels, second RPC: closed channels become inactive, with their hash.
SyncClosedChannels ==
    LET closed == {c \in Channel : chan[c] = "closed"} IN
    /\ pc = "closed"
    /\ tx' = [tx EXCEPT !.chanRows = @ \cup closed,
                        !.chanActive = @ \ closed,
                        !.chanClosed = @ \cup closed]
    /\ pc' = "invoices"
    /\ UNCHANGED <<nodeVars, window, fetched, db, coherent, failures>>

\* Its failure is logged and the cycle goes on.
ClosedChannelsFails ==
    /\ pc = "closed"
    /\ failures < MaxFailures
    /\ failures' = failures + 1
    /\ coherent' = FALSE
    /\ pc' = "invoices"
    /\ UNCHANGED <<nodeVars, window, fetched, tx, db>>

\* INSERT OR REPLACE of the items of a page, as the node shows them.
Upsert(t, f, page) ==
    [t EXCEPT !.present[f] = @ \cup page,
              !.settled[f] = (@ \ page) \cup {i \in page : feed[f][i] = "settled"}]

\* Mutant: the cursor stays where it is when there is nothing new.
PullFeedNoReset(f, next) ==
    LET listed == {i \in Index(f) : i > tx.cursor[f] /\ Listed(f, i)}
        page == FirstN(listed, PageSize)
    IN  /\ pc = f
        /\ \/ page = {} /\ tx' = tx
           \/ \E last \in page :
                 /\ \A i \in page : i <= last
                 /\ tx' = [Upsert(tx, f, page) EXCEPT !.cursor[f] = last]
        /\ pc' = next
        /\ UNCHANGED <<nodeVars, window, fetched, db, coherent, failures>>

\* syncInvoices and syncPayments: one page after the cursor, and the cursor the
\* node returns with it, which of an empty page is 0 or the one it was asked for.
PullFeed(f, next) ==
    LET listed == {i \in Index(f) : i > tx.cursor[f] /\ Listed(f, i)}
        page == FirstN(listed, PageSize)
    IN  /\ pc = f
        /\ \/ /\ page = {}
              /\ \E offset \in EmptyPageOffset :
                    tx' = [tx EXCEPT !.cursor[f] = IF offset = "zero" THEN 0 ELSE @]
           \/ \E last \in page :
                 /\ \A i \in page : i <= last
                 /\ tx' = [Upsert(tx, f, page) EXCEPT !.cursor[f] = last]
        /\ pc' = next
        /\ UNCHANGED <<nodeVars, window, fetched, db, coherent, failures>>

SyncInvoices == PullFeed("invoices", "payments")
SyncPayments == PullFeed("payments", "onchain")

\* syncOnchainTxns: the full list, no cursor.
SyncOnchain ==
    /\ pc = "onchain"
    /\ tx' = Upsert(tx, "onchain", {i \in Index("onchain") : Listed("onchain", i)})
    /\ pc' = "wallet"
    /\ UNCHANGED <<nodeVars, window, fetched, db, coherent, failures>>

SyncWallet ==
    /\ pc = "wallet"
    /\ tx' = [tx EXCEPT !.wallet = WalletTotal]
    /\ pc' = "commit"
    /\ UNCHANGED <<nodeVars, window, fetched, db, coherent, failures>>

Commit ==
    /\ pc = "commit"
    /\ db' = tx
    /\ pc' = "idle"
    /\ UNCHANGED <<nodeVars, window, fetched, tx, coherent, failures>>

\* Mutant: what the stages wrote stays when the cycle fails.
AbortKeepsWork ==
    /\ pc # "idle"
    /\ failures < MaxFailures
    /\ failures' = failures + 1
    /\ pc' = "idle"
    /\ db' = tx
    /\ window' = NoWindow
    /\ fetched' = {}
    /\ coherent' = TRUE
    /\ UNCHANGED <<nodeVars, tx>>

\* An RPC, a statement or the commit fails, or the process dies: the
\* transaction is rolled back and the next cycle starts from what is committed.
Abort ==
    /\ pc # "idle"
    /\ failures < MaxFailures
    /\ failures' = failures + 1
    /\ pc' = "idle"
    /\ tx' = db
    /\ window' = NoWindow
    /\ fetched' = {}
    /\ coherent' = TRUE
    /\ UNCHANGED <<nodeVars, db>>

-----------------------------------------------------------------------------

NodeStep ==
    \/ Tick
    \/ \E r \in Route : RouteForward(r)
    \/ \E f \in Feed : AddItem(f)
    \/ \E f \in Feed, s \in {"settled", "failed"} :
          \E i \in Index(f) : FinishItem(f, i, s)
    \/ \E c \in Channel, to \in ChanStatus : MoveChannel(c, to)

CycleStep ==
    \/ BeginSync
    \/ FetchFullPage
    \/ FetchLastPage
    \/ SyncListChannels
    \/ SyncClosedChannels
    \/ SyncInvoices
    \/ SyncPayments
    \/ SyncOnchain
    \/ SyncWallet
    \/ Commit

Next == NodeStep \/ CycleStep \/ ClosedChannelsFails \/ Abort

Spec == Init /\ [][Next]_vars

\* The loop of Run starts a cycle at every tick of its timer and every stage
\* ends with an answer or an error; the node owes nothing.  Errors are finitely
\* many (MaxFailures), so weak fairness of the cycle is enough.
FairSpec == Spec /\ WF_vars(CycleStep)
-----------------------------------------------------------------------------
(* Properties.                                                             *)

\* Every forward the node routed from the start of the first committed window
\* up to the cursor is in forwarding_events: no page, no failed cycle and no
\* forward that arrives between the clock reading and the RPC leaves a gap
\* (syncForwardingEvents takes endTime before it asks).
CompleteIn(t) ==
    t.fwdAt # Never =>
        \A i \in DOMAIN fwdLog :
            t.fwdFrom <= fwdLog[i].ts /\ fwdLog[i].ts < t.fwdAt => fwdLog[i] \in t.fwd
ForwardsComplete == CompleteIn(db)

\* The invoice cursor never runs ahead of the rows: what a later cycle will not
\* ask for again has a row (syncInvoices sets the cursor and upserts the page in
\* one transaction).
InvoicesBehindCursor ==
    \A i \in 1 .. db.cursor["invoices"] : i \in db.present["invoices"]

\* A channel with a closing_tx_hash is closed on the node and never counted as
\* active again, whatever the node showed between the two RPCs of syncChannels.
ClosedIsFinal ==
    \A c \in db.chanClosed : chan[c] = "closed" /\ c \notin db.chanActive

\* When no channel moved while the cycle read them and none is closing, the
\* balances about to be committed count every unit of money once: the wallet
\* snapshot, the active channels, and the offline ones that the portfolio leaves
\* out (PortfolioBreakdownQuery sums local_balance WHERE active = 1).
PortfolioCountsOnce ==
    /\ pc = "commit"
    /\ coherent
    /\ \A c \in Channel : chan[c] # "closing"
    => tx.wallet + Cardinality(tx.chanActive)
         = Cardinality({c \in Channel : chan[c] # "offline"})

\* The committed tables change only by whole cycles, each of which leaves them
\* true, complete up to the cursors, and with everything they held before
\* (RunSync commits or rolls back syncCycle as one).
Ledger == INSTANCE LedgerSync
LedgerRefined == Ledger!Spec

\* The ledger catches up with the node again and again.  Stated of everything at
\* once: a node that is bounded by MaxEvents is in the end quiet.

\* A forward of the covered time is recorded in the end, though it was routed
\* while a cycle was under way and cycles failed.
ForwardsRecorded ==
    []<>(db.fwdAt # Never /\ \A i \in DOMAIN fwdLog :
             db.fwdFrom <= fwdLog[i].ts => fwdLog[i] \in db.fwd)

\* An invoice that settles after it was fetched open, a payment that succeeds
\* after later ones were fetched, a transaction that confirms: each is recorded
\* as settled in the end.  The index cursor alone would skip the first two; the
\* offset 0 of an empty page makes the next cycle read the whole feed again.
SettlementsRecorded ==
    []<>(\A f \in Feed : \A i \in Index(f) :
             feed[f][i] = "settled" => i \in db.settled[f])

\* A closed channel stops counting towards the portfolio in the end, though
\* ClosedChannels may fail without failing the cycle.
ClosesRecorded ==
    []<>(\A c \in Channel : chan[c] = "closed" => c \in db.chanClosed \ db.chanActive)
=============================================================================
