-------------------------------- MODULE Alerts ------------------------------
(***************************************************************************)
(* Telegram alerts.  After a cycle that synced, the checker asks the       *)
(* database what there is to tell, looks in alert_history whether it was   *)
(* told, sends, and records.  The client keeps to the limit of the bot API *)
(* and is shared with the test button of the settings page.                *)
(*                                                                         *)
(* A message may be delivered and its answer lost, recording may fail, and *)
(* the process may be restarted between any two steps.  The clock ticks    *)
(* Day times a day; the minute of the limit is short against a tick.       *)
(***************************************************************************)
EXTENDS Integers, Sequences, FiniteSetsExt

CONSTANTS
    Channel,
    Day,          \* ticks of 24 hours
    Offset,       \* ticks the local time zone is ahead of UTC
    WeekDays,     \* days the fees are averaged over: 7
    Fee,          \* fees a forward may earn
    MaxPerMinute, \* messages a minute: 20
    MaxTests,     \* presses of the test button at work at once
    LastTick,     \* bound: the clock
    MaxChanges,   \* bound: changes of the channels, forwards, presses of the test button
    MaxFaults     \* bound: failed steps and restarts

ASSUME AlertsAssumption ==
    /\ Day \in Nat \ {0} /\ Offset \in 0 .. Day /\ WeekDays \in Nat \ {0}
    /\ Fee \subseteq Nat /\ MaxPerMinute \in Nat \ {0}
    /\ MaxTests \in Nat /\ LastTick \in Nat

VARIABLES
    now,
    closing,   \* channels with a closing_tx_hash
    low,       \* channels with less than a tenth of their capacity
    fees,      \* forwarding_events: the fees of each tick
    history,   \* alert_history
    configured,\* the settings have a token and a chat
    wired,     \* the process was started with them
    sentAt,    \* sends of the last minute
    testing,   \* test messages that found room and are not answered
    job,       \* where Check is
    chat,      \* history: what was delivered about each subject
    changes, faults   \* bound counters

table == <<closing, low, fees, configured>>
counters == <<changes, faults>>
vars == <<now, table, history, wired, sentAt, testing, job, chat, counters>>

Checks == <<"channel_close", "low_balance", "fee_spike", "daily_summary">>
Date(t) == (t + Offset) \div Day
Midnight(t) == t - (t % Day)      \* of UTC
Subject == [type : {"channel_close", "low_balance"}, id : Channel]
             \cup [type : {"fee_spike", "daily_summary"}, id : 0 .. Date(LastTick)]
About(type, id) == [type |-> type, id |-> id]

Idle == [stage |-> "idle", check |-> 1, todo |-> {}, about |-> {}]
Begin(i) == IF i > Len(Checks) THEN Idle ELSE [Idle EXCEPT !.stage = "begin", !.check = i]
Done == Begin(job.check + 1)

TypeOK ==
    /\ now \in 0 .. LastTick
    /\ closing \subseteq Channel /\ low \subseteq Channel /\ fees \in [0 .. LastTick -> Nat]
    /\ configured \in BOOLEAN /\ wired \in BOOLEAN /\ (wired => configured)
    /\ history \subseteq {[about |-> s, at |-> t] : s \in Subject, t \in 0 .. now}
    /\ sentAt \in Nat /\ testing \in 0 .. MaxTests
    /\ job \in [stage : {"idle", "begin", "loop", "wait", "send", "record"}, check : DOMAIN Checks,
                todo : SUBSET Channel, about : {{}} \cup {{s} : s \in Subject}]
    /\ (job.stage \in {"wait", "send", "record"}) <=> (job.about # {})
    /\ \A s \in job.about : s.type = Checks[job.check]
    /\ DOMAIN chat = Subject
    /\ \A s \in Subject : \A i \in DOMAIN chat[s] :
         chat[s][i] \in [at : 0 .. now, recorded : BOOLEAN]

Init ==
    /\ now = 0 /\ closing = {} /\ low = {} /\ fees = [t \in 0 .. LastTick |-> 0]
    /\ history = {} /\ configured \in BOOLEAN /\ wired = configured
    /\ sentAt = 0 /\ testing = 0 /\ job = Idle
    /\ chat = [s \in Subject |-> <<>>]
    /\ changes = 0 /\ faults = 0

Fault == faults < MaxFaults /\ faults' = faults + 1 /\ UNCHANGED changes

\* Between cycles, or while the checker waits for room; the rest takes seconds.
Tick ==
    /\ job.stage \in {"idle", "wait"}
    /\ now < LastTick /\ now' = now + 1
    /\ UNCHANGED <<table, history, wired, sentAt, testing, job, chat, counters>>

-----------------------------------------------------------------------------
(* The database.                                                            *)

\* Mutant: an alert of any time ago is recent only for a day.
RecentlyForADay(s, since) ==
    \E r \in history : r.about = s /\ r.at >= (IF since > now - Day THEN since ELSE now - Day)

HasAlertedRecently(s, since) == \E r \in history : r.about = s /\ r.at >= since

ChannelsWithClosingTx == closing
\* A closed channel is not active.
ChannelsBelowBalancePct == low \ closing

FeesMsatSince(since) == MapThenSumSet(LAMBDA t : fees[t], {t \in 0 .. now : t >= since})

\* A cycle: the channels and forwards it stored, then Check.
Cycle ==
    /\ job = Idle
    /\ job' = IF wired THEN Begin(1) ELSE Idle
    /\ UNCHANGED <<now, history, configured, wired, sentAt, testing, chat, faults>>
    /\ \/ UNCHANGED <<closing, low, fees, changes>>
       \/ /\ changes < MaxChanges /\ changes' = changes + 1
          /\ \/ \E c \in Channel \ closing : closing' = closing \cup {c} /\ UNCHANGED <<low, fees>>
             \/ \E c \in Channel \ closing :
                   /\ low' = IF c \in low THEN low \ {c} ELSE low \cup {c}
                   /\ UNCHANGED <<closing, fees>>
             \/ \E fee \in Fee : fees' = [fees EXCEPT ![now] = @ + fee] /\ UNCHANGED <<closing, low>>

-----------------------------------------------------------------------------
(* Check: the four checks in turn.  One that fails ends, and the next runs. *)

Step == UNCHANGED <<now, table, history, wired, sentAt, testing, chat, counters>>

Since(i) == IF i = 1 THEN -Day * (LastTick + 1) ELSE now - Day

\* The channels that were told are passed over; the next of the others is sent.
Pass(told, channels) ==
    IF channels \subseteq told THEN job' = Done
    ELSE \E c \in channels \ told :
           job' = [job EXCEPT !.stage = "wait", !.about = {About(Checks[job.check], c)},
                              !.todo = channels \ (told \cup {c})]

Told(channels) == {c \in channels : HasAlertedRecently(About(Checks[job.check], c), Since(job.check))}

\* The channels are read once, at the beginning of a check.
checkChannelCloses ==
    /\ job.stage = "begin" /\ job.check = 1
    /\ Pass(Told(ChannelsWithClosingTx), ChannelsWithClosingTx)
    /\ Step

checkLowBalance ==
    /\ job.stage = "begin" /\ job.check = 2
    /\ Pass(Told(ChannelsBelowBalancePct), ChannelsBelowBalancePct)
    /\ Step

\* The loop goes on after a message.
NextChannel == job.stage = "loop" /\ Pass(Told(job.todo), job.todo) /\ Step

SendUnless(nothing, s, since) ==
    job' = IF nothing \/ HasAlertedRecently(s, since) THEN Done ELSE [job EXCEPT !.stage = "wait", !.about = {s}]

checkFeeSpike ==
    LET fees24h == FeesMsatSince(now - Day)
        avg24h == FeesMsatSince(now - WeekDays * Day) \div WeekDays
    IN /\ job.stage = "begin" /\ job.check = 3
       /\ SendUnless(avg24h = 0 \/ fees24h < 2 * avg24h, About("fee_spike", Date(now)), now - Day)
       /\ Step

checkDailySummary ==
    /\ job.stage = "begin" /\ job.check = 4
    /\ SendUnless(FALSE, About("daily_summary", Date(now)), Midnight(now))
    /\ Step

\* A query fails: the rest of the check is left to the next cycle.
CheckFails ==
    /\ job.stage \in {"begin", "loop"}
    /\ Fault /\ job' = Done
    /\ UNCHANGED <<now, table, history, wired, sentAt, testing, chat>>

-----------------------------------------------------------------------------
(* The client.  Whether there is room is asked under the mutex, which is    *)
(* released before the request; only an answer 200 is counted.              *)

\* Mutant: the limit is asked after the message that reaches it.
RoomForOneMore == sentAt <= MaxPerMinute

Room == sentAt < MaxPerMinute

\* The oldest send of the minute falls out of it.
MinutePasses == sentAt > 0 /\ sentAt' = sentAt - 1
                /\ UNCHANGED <<now, table, history, wired, testing, job, chat, counters>>

waitForRateLimit ==
    /\ job.stage = "wait" /\ Room
    /\ job' = [job EXCEPT !.stage = "send"]
    /\ Step

Deliver(s) == chat' = [chat EXCEPT ![s] = Append(@, [at |-> now, recorded |-> FALSE])]

\* Mutant: recorded before it is sent.
RecordThenSend ==
    /\ job.stage = "send"
    /\ history' = history \cup {[about |-> s, at |-> now] : s \in job.about}
    /\ \/ \A s \in job.about : Deliver(s) /\ sentAt' = sentAt + 1
          /\ job' = [job EXCEPT !.stage = "record"] /\ UNCHANGED counters
       \/ Fault /\ job' = Done /\ UNCHANGED <<sentAt, chat>>
    /\ UNCHANGED <<now, table, wired, testing>>

SendMessage ==
    /\ job.stage = "send"
    /\ \/ /\ \A s \in job.about : Deliver(s)
          /\ sentAt' = sentAt + 1 /\ job' = [job EXCEPT !.stage = "record"]
          /\ UNCHANGED counters
       \/ \* the answer is lost: delivered, and an error all the same
          /\ Fault /\ \A s \in job.about : Deliver(s)
          /\ job' = Done /\ UNCHANGED sentAt
       \/ \* it does not arrive, or is refused
          /\ Fault /\ job' = Done /\ UNCHANGED <<sentAt, chat>>
    /\ UNCHANGED <<now, table, history, wired, testing>>

AfterSend == IF job.todo = {} THEN Done ELSE [job EXCEPT !.stage = "loop", !.about = {}]

\* A failure to record is logged only.
RecordAlert ==
    /\ job.stage = "record"
    /\ \/ /\ UNCHANGED counters
          /\ \E s \in job.about :
               /\ history' = history \cup {[about |-> s, at |-> now]}
               /\ chat' = [chat EXCEPT ![s][Len(chat[s])].recorded = TRUE]
       \/ Fault /\ UNCHANGED <<history, chat>>
    /\ job' = AfterSend
    /\ UNCHANGED <<now, table, wired, sentAt, testing>>

-----------------------------------------------------------------------------
(* The settings page.                                                       *)

\* The client is made at start: what is saved counts after a restart.
HandleTelegramSave ==
    /\ ~configured /\ configured' = TRUE
    /\ UNCHANGED <<now, closing, low, fees, history, wired, sentAt, testing, job, chat, counters>>

\* Requests run at once, and each sends as the checker does: it finds room ...
HandleTelegramTest ==
    /\ configured /\ wired /\ Room
    /\ changes < MaxChanges /\ changes' = changes + 1
    /\ testing < MaxTests /\ testing' = testing + 1
    /\ UNCHANGED <<now, table, history, wired, sentAt, job, chat, faults>>

\* ... and is counted if it is answered 200, and not if it failed or the answer
\* was lost.
TestAnswered ==
    /\ testing > 0 /\ testing' = testing - 1
    /\ sentAt' \in {sentAt, sentAt + 1}
    /\ UNCHANGED <<now, table, history, wired, job, chat, counters>>

\* Mutant: the checker is made without a token.
AlwaysWired ==
    /\ Fault
    /\ wired' = TRUE /\ sentAt' = 0 /\ testing' = 0 /\ job' = Idle
    /\ UNCHANGED <<now, table, history, chat>>

Restart ==
    /\ Fault
    /\ wired' = configured /\ sentAt' = 0 /\ testing' = 0 /\ job' = Idle
    /\ UNCHANGED <<now, table, history, chat>>

Check == checkChannelCloses \/ checkLowBalance \/ NextChannel \/ checkFeeSpike \/ checkDailySummary
         \/ waitForRateLimit \/ SendMessage \/ RecordAlert

Next == Tick \/ Cycle \/ Check \/ CheckFails \/ MinutePasses
        \/ HandleTelegramSave \/ HandleTelegramTest \/ TestAnswered \/ Restart

\* The loop of the syncer runs cycle after cycle, a step of Check is not left
\* undone, and minutes pass.
Spec == Init /\ [][Next]_vars
Fairness == WF_vars(Cycle) /\ WF_vars(Check) /\ WF_vars(MinutePasses)
FairSpec == Spec /\ Fairness

-----------------------------------------------------------------------------
(* Properties.                                                              *)

\* A channel's closing is told once, a low balance once in a day, a fee spike
\* and, where the local time is UTC, a summary once a date: a message that was
\* answered and recorded is not sent again, whatever restarts and failures
\* there are.  Only one that was not recorded can be.
RepeatedOnlyInDoubt ==
    \A s \in Subject : \A i, j \in DOMAIN chat[s] :
        i < j /\ chat[s][i].recorded =>
            \/ s.type = "low_balance" /\ chat[s][j].at > chat[s][i].at + Day
            \/ s.type = "daily_summary" /\ Offset \notin {0, Day}

\* The limit is passed by no more messages than the test button may have on
\* their way beside the checker's: whoever found room did so before the others
\* were counted, and what fails, or is never answered, takes no room for good.
RateLimit == sentAt <= MaxPerMinute + MaxTests

\* A closed channel is told in the end: no failure, no restart and no full
\* minute keeps a later channel or check from its turn for good.
ClosedIsTold ==
    \A c \in Channel :
        (wired /\ c \in closing) ~> (chat[About("channel_close", c)] # <<>>)

\* "checkDailySummary sends one summary per calendar day".
OneSummaryPerDay ==
    \A date \in 0 .. Date(LastTick) : Len(chat[About("daily_summary", date)]) <= 1
=============================================================================
