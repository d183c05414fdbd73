------------------------------- MODULE Portfolio ----------------------------
(***************************************************************************)
(* The value of the portfolio over time.  After a cycle the syncer stores  *)
(* a snapshot of what there is; days that have none are                    *)
(* reconstructed from the rows of the exchanges and the snapshots of the   *)
(* node's wallet.  An import starts a reconstruction in a goroutine that   *)
(* works under the context of the request, which ends when the response    *)
(* is written: it may be called off half way.                              *)
(***************************************************************************)
EXTENDS ImportBook

CONSTANTS
    Onchain, Channels, Cold, \* sats of the node's wallet, its channels, the watched wallets
    Live,       \* balances the APIs may report
    LastDay,    \* bound: days
    MaxRows,    \* bound: snapshots
    MaxAsked    \* bound: goroutines at once

None == -1
Day == 0 .. LastDay

ASSUME PortfolioAssumption ==
    /\ Onchain \cup Channels \cup Cold \cup Live \subseteq Nat
    /\ LastDay \in Nat /\ MaxAsked \in Nat

VARIABLES
    today,
    wallet,     \* wallet_balance_snapshots: day -> the last one of the day
    liveBalance,\* settings: strike_live_balance_sats, coinbase_live_balance_sats
    snapshots,  \* portfolio_snapshots in the order of their ids
    asked,      \* goroutines that are to reconstruct
    excused     \* history: since the last reconstruction one was called off, or
                \* something changed that starts none

vars == <<bookVars, today, wallet, liveBalance, snapshots, asked, excused>>

AsOf(f, day) == \* of a function of days
    LET before == {d \in DOMAIN f : d <= day}
    IN IF before = {} THEN 0 ELSE f[Max(before)]

Sats(S) == SumFunction([key \in S |-> imports[key].sat])
RowsOf(src) == {key \in DOMAIN imports : key[1] = src}

-----------------------------------------------------------------------------
(* What there is now.                                                       *)

\* The balance an API reported comes before the rows; Strike's only if positive.
ExchangeBalance(src) ==
    IF src = "strike" /\ liveBalance.strike > 0 THEN liveBalance.strike
    ELSE IF src = "coinbase" /\ liveBalance.coinbase >= 0 THEN liveBalance.coinbase
    ELSE Sats(RowsOf(src))

StrikeCollateralSats ==
    LET total == Sats({key \in RowsOf("strike") : imports[key].type = "Loan collateral"})
    IN IF total >= 0 THEN 0 ELSE -total

ExchangeSats == SumFunction([src \in Source |-> ExchangeBalance(src)])

PortfolioBreakdownQuery(onchain, channels, cold) ==
    [total |-> onchain + channels + cold + StrikeCollateralSats + ExchangeSats,
     details |-> onchain + channels + cold + ExchangeSats]

Snapshot(day, total, details) == [day |-> day, total |-> total, details |-> details, live |-> TRUE]
\* Marked by the price -1.
Backfilled(day, total) == [day |-> day, total |-> total, details |-> 0, live |-> FALSE]

\* What a cycle stored of the node, dated day, then captureSnapshot.
Capture(day) ==
    /\ Len(snapshots) < MaxRows
    /\ \E onchain \in Onchain, channels \in Channels, cold \in Cold :
         LET b == PortfolioBreakdownQuery(onchain, channels, cold) IN
         /\ wallet' = Put(wallet, day, onchain)
         /\ snapshots' = Append(snapshots, Snapshot(today, b.total, b.details))
    /\ excused' = TRUE
    /\ UNCHANGED <<bookVars, today, liveBalance, asked>>

\* Mutant: the wallet is dated in a zone that is ahead.
CycleAhead == Capture(today + 1)

Cycle == Capture(today)

NextDay ==
    /\ today < LastDay /\ today' = today + 1
    /\ UNCHANGED <<bookVars, wallet, liveBalance, snapshots, asked, excused>>

\* The API sync stores the balance of the account; to disconnect Coinbase clears
\* it, to disconnect Strike does not.
StoreLiveBalance ==
    /\ \/ \E src \in {"strike", "coinbase"}, sat \in Live : liveBalance' = [liveBalance EXCEPT ![src] = sat]
       \/ liveBalance' = [liveBalance EXCEPT !.coinbase = None]
    /\ UNCHANGED <<bookVars, today, wallet, snapshots, asked, excused>>

-----------------------------------------------------------------------------
(* What there was.                                                          *)

Days == {imports[key].at : key \in DOMAIN imports} \cup DOMAIN wallet

LiveDays == {snapshots[i].day : i \in {k \in DOMAIN snapshots : snapshots[k].live}}

\* Mutant: days that have a snapshot are reconstructed too.
ReplayEveryDay ==
    [day \in Days |-> AsOf(wallet, day) + Sats({key \in DOMAIN imports : imports[key].at <= day})]

\* The rows up to a day, and the wallet as it was last seen by then.
Replay ==
    [day \in Days \ LiveDays |->
        AsOf(wallet, day) + Sats({key \in DOMAIN imports : imports[key].at <= day})]

\* A row for each day of a table, day after day.
Inserted(rows, table) ==
    MapThenFoldSet(LAMBDA day, all : Append(all, Backfilled(day, table[day])), rows,
                   LAMBDA day : day, Max, DOMAIN table)

\* Mutant: what was reconstructed before stays.
FillGaps ==
    Inserted(snapshots, [day \in DOMAIN Replay \ {snapshots[i].day : i \in DOMAIN snapshots} |-> Replay[day]])

\* One transaction: the old ones go, and each day without a snapshot gets one.
ReplaceBackfill == Inserted(Only(snapshots, {row \in Range(snapshots) : row.live}), Replay)

BackfillPortfolioSnapshots ==
    /\ snapshots' = ReplaceBackfill
    /\ excused' = FALSE
    /\ UNCHANGED <<bookVars, today, wallet, liveBalance>>

\* The button: the request waits, under a context of its own.
HandlePortfolioBackfill == BackfillPortfolioSnapshots /\ UNCHANGED asked

\* The goroutine an import starts: through, or rolled back with its context.
backfillSnapshots ==
    /\ asked > 0 /\ asked' = asked - 1
    /\ \/ BackfillPortfolioSnapshots
       \/ excused' = TRUE /\ UNCHANGED <<bookVars, today, wallet, liveBalance, snapshots>>

Rest == UNCHANGED <<today, wallet, liveBalance, snapshots>>

\* A file imported through a page starts a reconstruction.
Import ==
    /\ \/ HandleStrikeImport
       \/ \E lines \in Lines("river") : HandleRiverImport(lines)
       \/ \E lines \in Lines("coinbase") : HandleCoinbaseImport(lines)
       \/ \E lines \in Lines("swan") : HandleSwanImport(lines)
    /\ asked < MaxAsked /\ asked' = asked + 1
    /\ UNCHANGED excused /\ Rest

Preview == \E lines \in Lines("strike") : StrikePreview(lines) /\ UNCHANGED <<asked, excused>> /\ Rest

\* Rows of the APIs and a clear start none.
Unannounced ==
    /\ (\E r \in ApiRow : ApiImport(r)) \/ (\E src \in Source : ClearExchangeSource(src))
    /\ excused' = TRUE
    /\ UNCHANGED asked /\ Rest

Init ==
    /\ BookInit
    /\ today = 0 /\ wallet = <<>> /\ liveBalance = [strike |-> None, coinbase |-> None]
    /\ snapshots = <<>> /\ asked = 0 /\ excused = FALSE

Next ==
    \/ Cycle \/ NextDay \/ StoreLiveBalance
    \/ Import \/ Preview \/ Unannounced
    \/ HandlePortfolioBackfill \/ backfillSnapshots

PortfolioSpec == Init /\ [][Next]_vars

-----------------------------------------------------------------------------
(* The chart: of each day the row with the largest id.                      *)

PortfolioSnapshots(day) ==
    snapshots[Max({i \in DOMAIN snapshots : snapshots[i].day = day})]

-----------------------------------------------------------------------------
(* Properties.                                                              *)

PortfolioTypeOK ==
    /\ TypeOK
    /\ today \in Day /\ DOMAIN wallet \subseteq 0 .. today /\ asked \in 0 .. MaxAsked
    /\ \A i \in DOMAIN snapshots :
         snapshots[i] \in [day : Nat, total : Int, details : Int, live : BOOLEAN]

\* A day that was seen shows what was seen on it last, in whatever order cycles,
\* imports and reconstructions come, and no day is reconstructed twice.
ChartShowsWhatWasSeen ==
    \A i, j \in DOMAIN snapshots :
        snapshots[i].day = snapshots[j].day =>
            /\ snapshots[i].live => PortfolioSnapshots(snapshots[i].day).live
            /\ ~snapshots[i].live /\ ~snapshots[j].live => i = j

\* Unless one was called off, or rows came that start none, every day that was
\* not seen shows, once no goroutine is left, what the rows and the wallet of up
\* to that day come to, however the rows were imported and corrected meanwhile.
HistoryIsCurrent ==
    asked = 0 /\ ~excused =>
        \A day \in Days \ LiveDays :
            /\ \E i \in DOMAIN snapshots : snapshots[i].day = day
            /\ PortfolioSnapshots(day).total =
                 AsOf(wallet, day) + Sats({key \in DOMAIN imports : imports[key].at <= day})

\* The parts of a snapshot add up to it, although collateral is counted in the
\* total and is no part: the imports let no such row through.
DetailsAddUp ==
    \A i \in DOMAIN snapshots : snapshots[i].live => snapshots[i].details = snapshots[i].total
=============================================================================
