---------------------------- MODULE AlertsProofs ----------------------------
(***************************************************************************)
(* Theorems about Alerts, for every set of channels and of fees, every     *)
(* length of day, offset of the time zone and limit, and any number of     *)
(* cycles, faults and restarts.                                            *)
(*                                                                         *)
(* A message is on its way only if nothing in alert_history forbids it,    *)
(* and no other step writes that table meanwhile; what was recorded is in  *)
(* it with the time it was delivered.                                      *)
(***************************************************************************)
EXTENDS Alerts, TLAPS

Stages == {"idle", "begin", "loop", "wait", "send", "record"}
Abouts == {{}} \cup {{s} : s \in Subject}
Job == [stage : Stages, check : DOMAIN Checks, todo : SUBSET Channel, about : Abouts]
Delivery == [at : 0 .. LastTick, recorded : BOOLEAN]
Entry(s, t) == [about |-> s, at |-> t]

-----------------------------------------------------------------------------
(* The inductive invariant.                                                 *)

\* A message about s may follow one recorded at t when it is sent at u.
Repeatable(s, t, u) ==
    \/ s.type = "low_balance" /\ u > t + Day
    \/ s.type = "daily_summary" /\ Offset \notin {0, Day}

\* The subject of a spike or a summary is a date that has come.
NotAhead(s, t) == s.type \in {"fee_spike", "daily_summary"} => s.id <= Date(t)

\* Where Check is, by the table h, the chat c and the clock n.
JobFine(j, h, c, n) ==
    /\ j \in Job
    /\ j.stage \in {"wait", "send", "record"} <=> j.about # {}
    /\ j.stage = "loop" \/ j.todo # {} => j.check \in {1, 2}
    /\ \A s \in j.about : s.type = Checks[j.check] /\ NotAhead(s, n)
    /\ j.stage \in {"wait", "send"} =>
         \A s \in j.about : \A r \in h : r.about = s => Repeatable(s, r.at, n)
    /\ j.stage = "record" =>
         \A s \in j.about : c[s] # <<>> /\ c[s][Len(c[s])].at = n

\* What was delivered about s, by the table h.
ChatFine(s, d, h, n) ==
    /\ d \in Seq(Delivery)
    /\ \A i \in DOMAIN d : d[i].at <= n
    /\ \A i \in DOMAIN d : d[i].recorded => Entry(s, d[i].at) \in h
    /\ \A i, j \in DOMAIN d : i < j /\ d[i].recorded => Repeatable(s, d[i].at, d[j].at)

HistoryFine(h, n) ==
    /\ h \subseteq {Entry(s, t) : s \in Subject, t \in 0 .. n}
    /\ \A r \in h : NotAhead(r.about, r.at)

TablesOK ==
    /\ now \in 0 .. LastTick
    /\ closing \subseteq Channel /\ low \subseteq Channel /\ fees \in [0 .. LastTick -> Nat]
    /\ configured \in BOOLEAN /\ wired \in BOOLEAN /\ (wired => configured)
    /\ sentAt \in Nat /\ testing \in 0 .. MaxTests

AInv ==
    /\ TablesOK
    /\ HistoryFine(history, now)
    /\ chat \in [Subject -> Seq(Delivery)]
    /\ \A s \in Subject : ChatFine(s, chat[s], history, now)
    /\ JobFine(job, history, chat, now)

-----------------------------------------------------------------------------
(* Dates.                                                                   *)

LEMMA DivisionIs ==
    ASSUME NEW n \in Int, NEW d \in Nat \ {0}
    PROVE  /\ n \div d \in Int /\ n % d \in 0 .. d - 1
           /\ n = d * (n \div d) + (n % d)
  BY Z3

LEMMA QuotientIs ==
    ASSUME NEW n \in Int, NEW d \in Nat \ {0}, NEW q \in Int, NEW r \in 0 .. d - 1,
           n = d * q + r
    PROVE  n \div d = q
<1>1. PICK p \in Int, t \in 0 .. d - 1 : p = n \div d /\ n = d * p + t
  BY DivisionIs
<1>2. d * (p - q) = r - t
  BY <1>1, SMT
<1>3. p - q < 1 /\ p - q > -1
  BY <1>1, <1>2, SMT
<1> QED
  BY <1>1, <1>3

LEMMA QuotientGrows ==
    ASSUME NEW m \in Int, NEW n \in Int, NEW d \in Nat \ {0}, m <= n
    PROVE  m \div d <= n \div d
  BY DivisionIs, SMT

LEMMA QuotientOfNext ==
    ASSUME NEW n \in Int, NEW d \in Nat \ {0}
    PROVE  (n + d) \div d = n \div d + 1
<1>1. PICK p \in Int, t \in 0 .. d - 1 : p = n \div d /\ n = d * p + t
  BY DivisionIs
<1>2. n + d = d * (p + 1) + t
  BY <1>1
<1> QED
  BY <1>1, <1>2, QuotientIs

LEMMA DateType ==
    ASSUME NEW t \in Nat
    PROVE  Date(t) \in Nat
<1>1. 0 \div Day = 0
  BY AlertsAssumption, QuotientIs
<1>2. 0 <= t + Offset /\ t + Offset \in Int
  BY AlertsAssumption
<1>3. Date(t) \in Int
  BY <1>2, AlertsAssumption, DivisionIs DEF Date
<1>4. 0 \div Day <= Date(t)
  BY <1>2, AlertsAssumption, QuotientGrows DEF Date
<1> QED
  BY <1>1, <1>3, <1>4

LEMMA DatesGrow ==
    ASSUME NEW t \in Nat, NEW u \in Nat, t <= u
    PROVE  Date(t) <= Date(u)
<1>1. t + Offset \in Int /\ u + Offset \in Int /\ t + Offset <= u + Offset
  BY AlertsAssumption
<1> QED
  BY <1>1, AlertsAssumption, QuotientGrows DEF Date

\* More than a day later is another date.
LEMMA DayLater ==
    ASSUME NEW t \in Nat, NEW u \in Nat, t < u - Day
    PROVE  Date(t) < Date(u)
<1>1. /\ t + Offset \in Int /\ (t + Offset) + Day \in Int /\ u + Offset \in Int
      /\ (t + Offset) + Day <= u + Offset
  BY AlertsAssumption
<1>2. ((t + Offset) + Day) \div Day <= Date(u)
  BY <1>1, AlertsAssumption, QuotientGrows DEF Date
<1>3. ((t + Offset) + Day) \div Day = Date(t) + 1
  BY <1>1, AlertsAssumption, QuotientOfNext DEF Date
<1> QED
  BY <1>2, <1>3, DateType

\* Before the last midnight is another date, where midnight is that of UTC.
LEMMA MidnightPassed ==
    ASSUME NEW t \in Nat, NEW u \in Nat, t < Midnight(u), Offset \in {0, Day}
    PROVE  Date(t) < Date(u)
<1> DEFINE p == t \div Day
           q == u \div Day
<1>1. /\ p \in Int /\ q \in Int /\ Day \in Nat \ {0}
      /\ t >= Day * p /\ Midnight(u) = Day * q
  <2>1. t \in Int /\ u \in Int /\ Day \in Nat \ {0}
    BY AlertsAssumption
  <2>2. p \in Int /\ t % Day \in 0 .. Day - 1 /\ t = Day * p + (t % Day)
    BY <2>1, DivisionIs
  <2>3. q \in Int /\ u % Day \in 0 .. Day - 1 /\ u = Day * q + (u % Day)
    BY <2>1, DivisionIs
  <2> HIDE DEF p, q
  <2>4. Day * p \in Int /\ Day * q \in Int
    BY <2>1, <2>2, <2>3
  <2> QED
    BY <2>1, <2>2, <2>3, <2>4 DEF Midnight
<1>2. p < q
  <2> HIDE DEF p, q
  <2>1. Day * p < Day * q
    BY <1>1
  <2> QED
    BY <1>1, <2>1, SMT
<1>3. CASE Offset = 0
  <2>1. t + 0 = t /\ u + 0 = u
    OBVIOUS
  <2> QED
    BY <1>2, <1>3, <2>1 DEF Date
<1>4. CASE Offset = Day
  <2>1. (t + Day) \div Day = p + 1 /\ (u + Day) \div Day = q + 1
    <3>1. t \in Int /\ u \in Int /\ Day \in Nat \ {0}
      BY AlertsAssumption
    <3> QED
      BY <3>1, QuotientOfNext
  <2>2. Date(t) = p + 1 /\ Date(u) = q + 1
    BY <1>4, <2>1 DEF Date
  <2> QED
    BY <1>1, <1>2, <2>2
<1> QED
  BY <1>3, <1>4

-----------------------------------------------------------------------------
(* Subjects and checks.                                                     *)

LEMMA ChecksAre ==
    /\ Len(Checks) = 4 /\ DOMAIN Checks = 1 .. 4
    /\ Checks[1] = "channel_close" /\ Checks[2] = "low_balance"
    /\ Checks[3] = "fee_spike" /\ Checks[4] = "daily_summary"
  BY DEF Checks

LEMMA ChannelSubject ==
    ASSUME NEW c \in Channel, NEW i \in {1, 2}
    PROVE  /\ About(Checks[i], c) \in Subject
           /\ About(Checks[i], c).type = Checks[i]
           /\ ~(Checks[i] \in {"fee_spike", "daily_summary"})
<1>1. Checks[i] \in {"channel_close", "low_balance"}
  BY ChecksAre
<1> QED
  BY <1>1 DEF About, Subject

LEMMA DateSubject ==
    ASSUME NEW type \in {"fee_spike", "daily_summary"}, NEW t \in 0 .. LastTick
    PROVE  /\ About(type, Date(t)) \in Subject
           /\ About(type, Date(t)).type = type
           /\ NotAhead(About(type, Date(t)), t)
           /\ About(type, Date(t)).id = Date(t)
<1>1. t \in Nat /\ LastTick \in Nat /\ t <= LastTick
  BY AlertsAssumption
<1>2. Date(t) \in Nat /\ Date(LastTick) \in Nat /\ Date(t) <= Date(LastTick)
  BY <1>1, DateType, DatesGrow
<1>3. Date(t) \in 0 .. Date(LastTick)
  BY <1>2
<1> QED
  BY <1>2, <1>3 DEF About, Subject, NotAhead

LEMMA SubjectsAre ==
    ASSUME NEW s \in Subject
    PROVE  \/ s.type \in {"channel_close", "low_balance"}
           \/ s.type \in {"fee_spike", "daily_summary"} /\ s.id \in Nat
<1>1. CASE s \in [type : {"channel_close", "low_balance"}, id : Channel]
  BY <1>1
<1>2. CASE s \in [type : {"fee_spike", "daily_summary"}, id : 0 .. Date(LastTick)]
  BY <1>2
<1> QED
  BY <1>1, <1>2 DEF Subject

LEMMA EntryIs ==
    ASSUME NEW h, NEW n \in Nat, HistoryFine(h, n), NEW r \in h
    PROVE  /\ r.about \in Subject /\ r.at \in 0 .. n /\ r.at \in Nat /\ r.at <= n
           /\ r = Entry(r.about, r.at) /\ NotAhead(r.about, r.at)
<1>1. PICK s \in Subject, t \in 0 .. n : r = Entry(s, t)
  BY DEF HistoryFine
<1>2. r.about = s /\ r.at = t
  BY <1>1 DEF Entry
<1> QED
  BY <1>1, <1>2 DEF HistoryFine

LEMMA RepeatableLater ==
    ASSUME NEW s, NEW t \in Nat, NEW u \in Nat, NEW v \in Nat, u <= v, Repeatable(s, t, u)
    PROVE  Repeatable(s, t, v)
  BY AlertsAssumption DEF Repeatable

LEMMA NotAheadLater ==
    ASSUME NEW s \in Subject, NEW t \in Nat, NEW u \in Nat, t <= u, NotAhead(s, t)
    PROVE  NotAhead(s, u)
<1>1. Date(t) \in Nat /\ Date(u) \in Nat /\ Date(t) <= Date(u)
  BY DateType, DatesGrow
<1>2. s.type \in {"channel_close", "low_balance"} => ~(s.type \in {"fee_spike", "daily_summary"})
  OBVIOUS
<1> QED
  BY <1>1, <1>2, SubjectsAre DEF NotAhead

-----------------------------------------------------------------------------
(* Where Check is.                                                          *)

\* Between two messages.
Quiet(j) ==
    /\ j \in Job
    /\ j.about = {}
    /\ j.stage \in {"idle", "begin", "loop"}
    /\ j.stage = "loop" \/ j.todo # {} => j.check \in {1, 2}

LEMMA QuietFine ==
    ASSUME NEW j, Quiet(j), NEW h, NEW c, NEW n
    PROVE  JobFine(j, h, c, n)
  BY DEF Quiet, JobFine

LEMMA BeginQuiet ==
    ASSUME NEW i \in 1 .. 5
    PROVE  Quiet(Begin(i))
<1>1. Quiet(Idle)
  BY ChecksAre DEF Quiet, Idle, Job, Stages, Abouts
<1>2. CASE i = 5
  BY <1>1, <1>2, ChecksAre DEF Begin
<1>3. CASE i \in 1 .. 4
  <2>1. Begin(i) = [Idle EXCEPT !.stage = "begin", !.check = i]
    BY <1>3, ChecksAre DEF Begin
  <2>2. Idle \in Job /\ Idle.todo = {} /\ Idle.about = {}
    BY ChecksAre DEF Idle, Job, Stages, Abouts
  <2>3. "begin" \in Stages /\ i \in DOMAIN Checks
    BY <1>3, ChecksAre DEF Stages
  <2>4. /\ Begin(i) \in Job /\ Begin(i).stage = "begin" /\ Begin(i).check = i
        /\ Begin(i).todo = {} /\ Begin(i).about = {}
    BY <2>1, <2>2, <2>3 DEF Job
  <2> QED
    BY <2>4 DEF Quiet
<1> QED
  BY <1>1, <1>2, <1>3

LEMMA DoneQuiet ==
    ASSUME job \in Job
    PROVE  Quiet(Done)
<1>1. job.check + 1 \in 1 .. 5
  BY ChecksAre DEF Job
<1> QED
  BY <1>1, BeginQuiet DEF Done

\* A message about s is about to be sent.
WaitFor(j, s) == [j EXCEPT !.stage = "wait", !.about = {s}]
WaitForNext(j, s, rest) == [j EXCEPT !.stage = "wait", !.about = {s}, !.todo = rest]

LEMMA WaitIs ==
    ASSUME NEW j \in Job, NEW s \in Subject, NEW rest \in SUBSET Channel
    PROVE  /\ WaitFor(j, s) \in Job
           /\ WaitFor(j, s).stage = "wait" /\ WaitFor(j, s).check = j.check
           /\ WaitFor(j, s).about = {s} /\ WaitFor(j, s).todo = j.todo
           /\ WaitForNext(j, s, rest) \in Job
           /\ WaitForNext(j, s, rest).stage = "wait" /\ WaitForNext(j, s, rest).check = j.check
           /\ WaitForNext(j, s, rest).about = {s} /\ WaitForNext(j, s, rest).todo = rest
<1>1. {s} \in Abouts /\ "wait" \in Stages
  BY DEF Abouts, Stages
<1> QED
  BY <1>1 DEF WaitFor, WaitForNext, Job

\* What has not been told may be sent.
Clear(s, h, n) == \A r \in h : r.about = s => Repeatable(s, r.at, n)
MaySend(s, h, n) == NotAhead(s, n) /\ Clear(s, h, n)

LEMMA WaitFine ==
    ASSUME NEW w \in Job, NEW s \in Subject, NEW h, NEW c, NEW n,
           w.stage = "wait", w.about = {s}, s.type = Checks[w.check],
           w.todo # {} => w.check \in {1, 2}, MaySend(s, h, n)
    PROVE  JobFine(w, h, c, n)
  BY DEF JobFine, MaySend, Clear

\* An alert about a channel that was not told recently enough.
LEMMA ChannelMaySend ==
    ASSUME AInv, NEW c \in Channel, job.check \in {1, 2},
           ~HasAlertedRecently(About(Checks[job.check], c), Since(job.check))
    PROVE  MaySend(About(Checks[job.check], c), history, now)
<1> DEFINE s == About(Checks[job.check], c)
<1>1. s \in Subject /\ s.type = Checks[job.check] /\ NotAhead(s, now)
  BY ChannelSubject DEF NotAhead
<1>2. now \in Nat /\ Day \in Nat \ {0} /\ LastTick \in Nat
  BY AlertsAssumption DEF AInv, TablesOK
<1> HIDE DEF s
<1>3. ASSUME NEW r \in history, r.about = s
      PROVE  Repeatable(s, r.at, now)
  <2>1. r.at \in Nat
    BY <1>2, <1>3, EntryIs DEF AInv
  <2>2. ~(r.at >= Since(job.check))
    BY <1>3 DEF HasAlertedRecently, s
  <2>3. CASE job.check = 1
    <3>1. -Day * (LastTick + 1) <= 0 /\ -Day * (LastTick + 1) \in Int
      BY <1>2, SMT
    <3>2. Since(job.check) = -Day * (LastTick + 1)
      BY <2>3 DEF Since
    <3> QED
      BY <2>1, <2>2, <3>1, <3>2
  <2>4. CASE job.check = 2
    <3>1. s.type = "low_balance"
      BY <1>1, <2>4, ChecksAre
    <3>2. Since(job.check) = now - Day
      BY <2>4 DEF Since
    <3>3. now > r.at + Day
      BY <1>2, <2>1, <2>2, <3>2
    <3> QED
      BY <3>1, <3>3 DEF Repeatable
  <2> QED
    BY <2>3, <2>4
<1> QED
  BY <1>1, <1>3 DEF MaySend, Clear, s

LEMMA PassFine ==
    ASSUME AInv, job.check \in {1, 2}, NEW channels \in SUBSET Channel,
           Pass(Told(channels), channels)
    PROVE  JobFine(job', history, chat, now)
<1>1. job \in Job
  BY DEF AInv, JobFine
<1>2. CASE job' = Done
  BY <1>1, <1>2, DoneQuiet, QuietFine
<1>3. CASE \E c \in channels \ Told(channels) :
             job' = WaitForNext(job, About(Checks[job.check], c), channels \ (Told(channels) \cup {c}))
  <2>1. PICK c \in channels \ Told(channels) :
          job' = WaitForNext(job, About(Checks[job.check], c), channels \ (Told(channels) \cup {c}))
    BY <1>3
  <2> DEFINE s == About(Checks[job.check], c)
             rest == channels \ (Told(channels) \cup {c})
  <2>2. c \in Channel /\ ~HasAlertedRecently(s, Since(job.check)) /\ rest \in SUBSET Channel
    BY <2>1 DEF Told
  <2>3. s \in Subject /\ s.type = Checks[job.check]
    BY <2>2, ChannelSubject
  <2>4. MaySend(s, history, now)
    BY <2>2, ChannelMaySend
  <2> HIDE DEF s, rest
  <2>5. /\ job' \in Job /\ job'.stage = "wait" /\ job'.about = {s} /\ job'.check = job.check
    BY <1>1, <2>1, <2>2, <2>3, WaitIs DEF s, rest
  <2> QED
    BY <2>3, <2>4, <2>5, WaitFine
<1> QED
  BY <1>2, <1>3 DEF Pass, WaitForNext

\* A subject that is a date: nothing recorded for it once it was looked for.
LEMMA SendUnlessFine ==
    ASSUME AInv, job.todo = {}, NEW nothing, NEW s \in Subject, NEW since,
           s.type = Checks[job.check],
           ~HasAlertedRecently(s, since) => MaySend(s, history, now),
           SendUnless(nothing, s, since)
    PROVE  JobFine(job', history, chat, now)
<1>1. job \in Job
  BY DEF AInv, JobFine
<1>2. CASE job' = Done
  BY <1>1, <1>2, DoneQuiet, QuietFine
<1>3. CASE ~HasAlertedRecently(s, since) /\ job' = WaitFor(job, s)
  <2>1. /\ job' \in Job /\ job'.stage = "wait" /\ job'.about = {s} /\ job'.check = job.check
        /\ job'.todo = {}
    BY <1>1, <1>3, WaitIs
  <2> QED
    BY <1>3, <2>1, WaitFine
<1> QED
  BY <1>2, <1>3 DEF SendUnless, WaitFor

LEMMA SpikeMaySend ==
    ASSUME AInv, ~HasAlertedRecently(About("fee_spike", Date(now)), now - Day)
    PROVE  MaySend(About("fee_spike", Date(now)), history, now)
<1> DEFINE s == About("fee_spike", Date(now))
<1>1. now \in 0 .. LastTick /\ now \in Nat /\ Day \in Nat \ {0}
  BY AlertsAssumption DEF AInv, TablesOK
<1>2. s.type = "fee_spike" /\ s.id = Date(now) /\ NotAhead(s, now)
  BY <1>1, DateSubject
<1> HIDE DEF s
<1>3. ASSUME NEW r \in history, r.about = s
      PROVE  FALSE
  <2>1. r.at \in Nat /\ NotAhead(s, r.at)
    BY <1>1, <1>3, EntryIs DEF AInv
  <2>2. ~(r.at >= now - Day)
    BY <1>3 DEF HasAlertedRecently, s
  <2>3. Date(r.at) < Date(now)
    BY <1>1, <2>1, <2>2, DayLater
  <2>4. Date(now) <= Date(r.at)
    BY <1>2, <2>1 DEF NotAhead
  <2> QED
    BY <1>1, <2>1, <2>3, <2>4, DateType
<1> QED
  BY <1>2, <1>3 DEF MaySend, Clear, s

LEMMA SummaryMaySend ==
    ASSUME AInv, ~HasAlertedRecently(About("daily_summary", Date(now)), Midnight(now))
    PROVE  MaySend(About("daily_summary", Date(now)), history, now)
<1> DEFINE s == About("daily_summary", Date(now))
<1>1. now \in 0 .. LastTick /\ now \in Nat /\ Day \in Nat \ {0}
  BY AlertsAssumption DEF AInv, TablesOK
<1>2. s.type = "daily_summary" /\ s.id = Date(now) /\ NotAhead(s, now)
  BY <1>1, DateSubject
<1>3. Midnight(now) \in Int
  <2>1. now % Day \in Int
    BY <1>1, DivisionIs
  <2> QED
    BY <1>1, <2>1 DEF Midnight
<1> HIDE DEF s
<1>4. ASSUME NEW r \in history, r.about = s, Offset \in {0, Day}
      PROVE  FALSE
  <2>1. r.at \in Nat /\ NotAhead(s, r.at)
    BY <1>1, <1>4, EntryIs DEF AInv
  <2>2. ~(r.at >= Midnight(now))
    BY <1>4 DEF HasAlertedRecently, s
  <2>3. Date(r.at) < Date(now)
    BY <1>1, <1>3, <1>4, <2>1, <2>2, MidnightPassed
  <2>4. Date(now) <= Date(r.at)
    BY <1>2, <2>1 DEF NotAhead
  <2> QED
    BY <1>1, <2>1, <2>3, <2>4, DateType
<1>5. \A r \in history : r.about = s => Repeatable(s, r.at, now)
  BY <1>2, <1>4 DEF Repeatable
<1> QED
  BY <1>2, <1>5 DEF MaySend, Clear, s

-----------------------------------------------------------------------------
(* The steps.                                                               *)

LEMMA AInvInit == Init => AInv
<1> SUFFICES ASSUME Init PROVE AInv
  OBVIOUS
<1>1. TablesOK
  BY AlertsAssumption DEF Init, TablesOK
<1>2. HistoryFine(history, now)
  BY DEF Init, HistoryFine
<1>3. chat \in [Subject -> Seq(Delivery)] /\ \A s \in Subject : chat[s] = <<>>
  BY DEF Init
<1>4. \A s \in Subject : ChatFine(s, chat[s], history, now)
  BY <1>3 DEF ChatFine
<1>5. JobFine(job, history, chat, now)
  <2>1. Quiet(Idle)
    BY ChecksAre DEF Quiet, Idle, Job, Stages, Abouts
  <2> QED
    BY <2>1, QuietFine DEF Init
<1> QED
  BY <1>1, <1>2, <1>3, <1>4, <1>5 DEF AInv

\* A step that neither delivers nor records.
LEMMA StepKeeps ==
    ASSUME AInv, UNCHANGED <<now, history, chat>>, TablesOK',
           JobFine(job', history, chat, now)
    PROVE  AInv'
  BY DEF AInv

\* ... nor touches the tables of others.
LEMMA CheckStepKeeps ==
    ASSUME AInv, Step, JobFine(job', history, chat, now)
    PROVE  AInv'
<1>1. UNCHANGED <<now, history, chat, closing, low, fees, configured, wired, sentAt, testing>>
  BY DEF Step, table
<1>2. TablesOK'
  BY <1>1 DEF AInv, TablesOK
<1> QED
  BY <1>1, <1>2, StepKeeps

LEMMA CyclesKeep ==
    ASSUME AInv, Cycle
    PROVE  AInv'
<1>1. UNCHANGED <<now, history, chat, configured, wired, sentAt, testing>>
  BY DEF Cycle
<1>2. Quiet(job')
  <2>1. Quiet(Idle)
    BY ChecksAre DEF Quiet, Idle, Job, Stages, Abouts
  <2>2. Quiet(Begin(1))
    BY BeginQuiet
  <2> QED
    BY <2>1, <2>2 DEF Cycle
<1>3. closing' \subseteq Channel /\ low' \subseteq Channel
  BY DEF Cycle, AInv, TablesOK
<1>4. fees' \in [0 .. LastTick -> Nat]
  <2>1. ASSUME NEW fee \in Fee, fees' = [fees EXCEPT ![now] = @ + fee]
        PROVE  fees' \in [0 .. LastTick -> Nat]
    <3>1. fees[now] + fee \in Nat
      BY AlertsAssumption DEF AInv, TablesOK
    <3> QED
      BY <2>1, <3>1 DEF AInv, TablesOK
  <2> QED
    BY <2>1 DEF Cycle, AInv, TablesOK
<1>5. TablesOK'
  BY <1>1, <1>3, <1>4 DEF AInv, TablesOK
<1>6. JobFine(job', history, chat, now)
  BY <1>2, QuietFine
<1> QED
  BY <1>1, <1>5, <1>6, StepKeeps

LEMMA ChecksKeep ==
    ASSUME AInv, checkChannelCloses \/ checkLowBalance \/ NextChannel
                   \/ checkFeeSpike \/ checkDailySummary
    PROVE  AInv'
<1>1. closing \in SUBSET Channel /\ (low \ closing) \in SUBSET Channel
  BY DEF AInv, TablesOK
<1>2. job \in Job /\ job.todo \in SUBSET Channel
  BY DEF AInv, JobFine, Job
<1>3. now \in 0 .. LastTick
  BY DEF AInv, TablesOK
<1>4. CASE checkChannelCloses
  BY <1>1, <1>4, PassFine, CheckStepKeeps DEF checkChannelCloses, ChannelsWithClosingTx
<1>5. CASE checkLowBalance
  BY <1>1, <1>5, PassFine, CheckStepKeeps DEF checkLowBalance, ChannelsBelowBalancePct
<1>6. CASE NextChannel
  <2>1. job.check \in {1, 2}
    BY <1>6 DEF NextChannel, AInv, JobFine
  <2> QED
    BY <1>2, <1>6, <2>1, PassFine, CheckStepKeeps DEF NextChannel
<1>7. CASE checkFeeSpike
  <2> DEFINE s == About("fee_spike", Date(now))
  <2>1. job.todo = {} /\ job.check = 3 /\ Checks[job.check] = "fee_spike"
    BY <1>7, ChecksAre DEF checkFeeSpike, AInv, JobFine
  <2>2. s \in Subject /\ s.type = "fee_spike"
    BY <1>3, DateSubject
  <2>3. ~HasAlertedRecently(s, now - Day) => MaySend(s, history, now)
    BY SpikeMaySend
  <2>4. PICK nothing : SendUnless(nothing, s, now - Day)
    BY <1>7 DEF checkFeeSpike
  <2>5. Step
    BY <1>7 DEF checkFeeSpike
  <2> HIDE DEF s
  <2> QED
    BY <2>1, <2>2, <2>3, <2>4, <2>5, SendUnlessFine, CheckStepKeeps
<1>8. CASE checkDailySummary
  <2> DEFINE s == About("daily_summary", Date(now))
  <2>1. job.todo = {} /\ job.check = 4 /\ Checks[job.check] = "daily_summary"
    BY <1>8, ChecksAre DEF checkDailySummary, AInv, JobFine
  <2>2. s \in Subject /\ s.type = "daily_summary"
    BY <1>3, DateSubject
  <2>3. ~HasAlertedRecently(s, Midnight(now)) => MaySend(s, history, now)
    BY SummaryMaySend
  <2>4. SendUnless(FALSE, s, Midnight(now)) /\ Step
    BY <1>8 DEF checkDailySummary
  <2> HIDE DEF s
  <2> QED
    BY <2>1, <2>2, <2>3, <2>4, SendUnlessFine, CheckStepKeeps
<1> QED
  BY <1>4, <1>5, <1>6, <1>7, <1>8

LEMMA CheckFailsKeeps ==
    ASSUME AInv, CheckFails
    PROVE  AInv'
<1>1. UNCHANGED <<now, history, chat, closing, low, fees, configured, wired, sentAt, testing>>
  BY DEF CheckFails, table
<1>2. TablesOK'
  BY <1>1 DEF AInv, TablesOK
<1>3. JobFine(job', history, chat, now)
  BY DoneQuiet, QuietFine DEF CheckFails, AInv, JobFine
<1> QED
  BY <1>1, <1>2, <1>3, StepKeeps

\* The sends of the minute and the test messages.
LEMMA ClientKeeps ==
    ASSUME AInv, MinutePasses \/ waitForRateLimit \/ HandleTelegramTest \/ TestAnswered
    PROVE  AInv'
<1>1. UNCHANGED <<now, history, chat, closing, low, fees, configured, wired>>
  BY DEF MinutePasses, waitForRateLimit, HandleTelegramTest, TestAnswered, Step, table
<1>2. sentAt' \in Nat /\ testing' \in 0 .. MaxTests
  <2>1. sentAt \in Nat /\ testing \in 0 .. MaxTests /\ MaxTests \in Nat
    BY AlertsAssumption DEF AInv, TablesOK
  <2> QED
    BY <2>1 DEF MinutePasses, waitForRateLimit, HandleTelegramTest, TestAnswered, Step
<1>3. TablesOK'
  BY <1>1, <1>2 DEF AInv, TablesOK
<1>4. JobFine(job', history, chat, now)
  <2>1. CASE waitForRateLimit
    <3>1. /\ job' = [job EXCEPT !.stage = "send"] /\ job.stage = "wait"
      BY <2>1 DEF waitForRateLimit
    <3>2. /\ job' \in Job /\ job'.stage = "send" /\ job'.about = job.about
          /\ job'.check = job.check /\ job'.todo = job.todo
      <4>1. job \in Job /\ "send" \in Stages
        BY DEF AInv, JobFine, Stages
      <4> QED
        BY <3>1, <4>1 DEF Job
    <3> QED
      BY <3>1, <3>2 DEF AInv, JobFine
  <2>2. CASE job' = job
    BY <2>2 DEF AInv
  <2> QED
    BY <2>1, <2>2 DEF MinutePasses, HandleTelegramTest, TestAnswered
<1> QED
  BY <1>1, <1>3, <1>4, StepKeeps

LEMMA SettingsKeep ==
    ASSUME AInv, HandleTelegramSave \/ Restart
    PROVE  AInv'
<1>1. UNCHANGED <<now, history, chat, closing, low, fees>>
  BY DEF HandleTelegramSave, Restart, table
<1>2. TablesOK'
  <2>1. CASE HandleTelegramSave
    BY <1>1, <2>1 DEF HandleTelegramSave, AInv, TablesOK
  <2>2. CASE Restart
    <3>1. /\ configured' = configured /\ wired' = configured
          /\ sentAt' = 0 /\ testing' = 0
      BY <2>2 DEF Restart, table
    <3>2. 0 \in 0 .. MaxTests
      BY AlertsAssumption
    <3> QED
      BY <1>1, <3>1, <3>2 DEF AInv, TablesOK
  <2> QED
    BY <2>1, <2>2
<1>3. JobFine(job', history, chat, now)
  <2>1. Quiet(Idle)
    BY ChecksAre DEF Quiet, Idle, Job, Stages, Abouts
  <2> QED
    BY <2>1, QuietFine DEF HandleTelegramSave, Restart, AInv
<1> QED
  BY <1>1, <1>2, <1>3, StepKeeps

LEMMA MessageIs ==
    ASSUME NEW d \in Seq(Delivery), NEW i \in DOMAIN d
    PROVE  d[i] \in Delivery /\ d[i].at \in 0 .. LastTick
<1>1. d[i] \in Delivery
  OBVIOUS
<1> QED
  BY <1>1 DEF Delivery

LEMMA MoreHistory ==
    ASSUME NEW s, NEW d, NEW h, NEW g, NEW n, h \subseteq g, ChatFine(s, d, h, n)
    PROVE  ChatFine(s, d, g, n)
<1>1. \A i \in DOMAIN d : d[i].recorded => Entry(s, d[i].at) \in g
  BY DEF ChatFine
<1> QED
  BY <1>1 DEF ChatFine

\* The clock moves between cycles, or while a message waits for room.
LEMMA TickKeeps ==
    ASSUME AInv, Tick
    PROVE  AInv'
<1>1. /\ now \in Nat /\ now' \in 0 .. LastTick /\ now' \in Nat /\ now <= now'
      /\ UNCHANGED <<history, chat, job, sentAt, testing, closing, low, fees, configured, wired>>
  BY AlertsAssumption DEF Tick, table, AInv, TablesOK
<1>2. TablesOK'
  BY <1>1 DEF AInv, TablesOK
<1>3. HistoryFine(history, now')
  BY <1>1 DEF AInv, HistoryFine
<1>4. ASSUME NEW s \in Subject
      PROVE  ChatFine(s, chat[s], history, now')
  <2>1. ChatFine(s, chat[s], history, now)
    BY DEF AInv
  <2>2. \A i \in DOMAIN chat[s] : chat[s][i].at \in Int
    BY <2>1, MessageIs, AlertsAssumption DEF ChatFine
  <2>3. \A i \in DOMAIN chat[s] : chat[s][i].at <= now'
    BY <1>1, <2>1, <2>2 DEF ChatFine
  <2> QED
    BY <2>1, <2>3 DEF ChatFine
<1>5. JobFine(job, history, chat, now')
  <2>1. job.stage \in {"idle", "wait"} /\ JobFine(job, history, chat, now)
    BY DEF Tick, AInv
  <2>2. \A s \in job.about : s \in Subject
    BY <2>1 DEF JobFine, Job, Abouts
  <2>3. \A s \in job.about : NotAhead(s, now')
    BY <1>1, <2>1, <2>2, NotAheadLater DEF JobFine
  <2>4. ASSUME job.stage = "wait", NEW s \in job.about, NEW r \in history, r.about = s
        PROVE  Repeatable(s, r.at, now')
    <3>1. r.at \in Nat
      BY <1>1, EntryIs DEF AInv
    <3>2. Repeatable(s, r.at, now)
      BY <2>1, <2>4 DEF JobFine
    <3> QED
      BY <1>1, <3>1, <3>2, RepeatableLater
  <2> QED
    BY <2>1, <2>3, <2>4 DEF JobFine
<1> QED
  BY <1>1, <1>2, <1>3, <1>4, <1>5 DEF AInv

\* One more message about s, not yet recorded.
Delivered(d, n) == Append(d, [at |-> n, recorded |-> FALSE])
EndsAt(d, n) == d # <<>> /\ d[Len(d)].at = n

LEMMA DeliveredFine ==
    ASSUME NEW s, NEW d, NEW h, NEW n \in 0 .. LastTick,
           ChatFine(s, d, h, n), Clear(s, h, n)
    PROVE  ChatFine(s, Delivered(d, n), h, n) /\ EndsAt(Delivered(d, n), n)
<1> DEFINE new == [at |-> n, recorded |-> FALSE]
           e == Delivered(d, n)
<1>1. new \in Delivery /\ new.at = n /\ ~new.recorded
  BY DEF Delivery
<1>2. d \in Seq(Delivery)
  BY DEF ChatFine
<1> HIDE DEF new
<1>3. /\ e \in Seq(Delivery) /\ Len(e) = Len(d) + 1 /\ e[Len(d) + 1] = new
      /\ DOMAIN e = 1 .. Len(d) + 1 /\ DOMAIN d = 1 .. Len(d) /\ Len(d) \in Nat
      /\ \A i \in 1 .. Len(d) : e[i] = d[i]
  <2>1. e = Append(d, new)
    BY DEF new, Delivered
  <2> HIDE DEF e
  <2> QED
    BY <1>1, <1>2, <2>1
<1> HIDE DEF e
<1>4. \A i \in DOMAIN e : i \in DOMAIN d \/ i = Len(d) + 1
  BY <1>3
<1>5. \A i \in DOMAIN e : e[i].at <= n
  BY <1>1, <1>3, <1>4, AlertsAssumption DEF ChatFine
<1>6. \A i \in DOMAIN e : e[i].recorded => Entry(s, e[i].at) \in h
  BY <1>1, <1>3, <1>4 DEF ChatFine
<1>7. ASSUME NEW i \in DOMAIN e, NEW j \in DOMAIN e, i < j, e[i].recorded
      PROVE  Repeatable(s, e[i].at, e[j].at)
  <2>1. i \in DOMAIN d
    BY <1>3, <1>7
  <2>2. CASE j \in DOMAIN d
    BY <1>3, <1>7, <2>1, <2>2 DEF ChatFine
  <2>3. CASE j = Len(d) + 1
    <3>1. Entry(s, e[i].at) \in h /\ Entry(s, e[i].at).about = s /\ Entry(s, e[i].at).at = e[i].at
      BY <1>6, <1>7 DEF Entry
    <3> QED
      BY <1>1, <1>3, <2>3, <3>1 DEF Clear
  <2> QED
    BY <1>4, <2>2, <2>3
<1>8. ChatFine(s, e, h, n)
  BY <1>3, <1>5, <1>6, <1>7 DEF ChatFine
<1>9. e # <<>> /\ e[Len(e)].at = n
  BY <1>1, <1>3
<1> QED
  BY <1>8, <1>9 DEF e, EndsAt

\* The last message about s is recorded.
LEMMA RecordedFine ==
    ASSUME NEW s, NEW d, NEW h, NEW n, ChatFine(s, d, h, n), d # <<>>, d[Len(d)].at = n
    PROVE  ChatFine(s, [d EXCEPT ![Len(d)].recorded = TRUE], h \cup {Entry(s, n)}, n)
<1> DEFINE last == [d[Len(d)] EXCEPT !.recorded = TRUE]
           e == [d EXCEPT ![Len(d)] = last]
<1>1. d \in Seq(Delivery) /\ Len(d) \in Nat /\ Len(d) \in DOMAIN d /\ DOMAIN d = 1 .. Len(d)
  BY DEF ChatFine
<1>2. last \in Delivery /\ last.at = n
  <2>1. d[Len(d)] \in Delivery
    BY <1>1
  <2> QED
    BY <2>1 DEF Delivery
<1> HIDE DEF last
<1>3. /\ e \in Seq(Delivery) /\ DOMAIN e = DOMAIN d /\ e[Len(d)] = last
      /\ \A i \in DOMAIN d : i # Len(d) => e[i] = d[i]
  BY <1>1, <1>2
<1>4. e = [d EXCEPT ![Len(d)].recorded = TRUE]
  BY DEF last
<1> HIDE DEF e
<1>5. \A i \in DOMAIN e : e[i].at = d[i].at
  BY <1>2, <1>3
<1>6. \A i \in DOMAIN e : e[i].at <= n
  BY <1>3, <1>5 DEF ChatFine
<1>7. \A i \in DOMAIN e : e[i].recorded => Entry(s, e[i].at) \in h \cup {Entry(s, n)}
  BY <1>2, <1>3 DEF ChatFine
<1>8. ASSUME NEW i \in DOMAIN e, NEW j \in DOMAIN e, i < j, e[i].recorded
      PROVE  Repeatable(s, e[i].at, e[j].at)
  <2>1. i # Len(d)
    BY <1>1, <1>3, <1>8
  <2> QED
    BY <1>3, <1>5, <1>8, <2>1 DEF ChatFine
<1>9. ChatFine(s, e, h \cup {Entry(s, n)}, n)
  BY <1>3, <1>6, <1>7, <1>8 DEF ChatFine
<1> QED
  BY <1>4, <1>9

LEMMA SendKeeps ==
    ASSUME AInv, SendMessage
    PROVE  AInv'
<1>1. /\ UNCHANGED <<now, history, closing, low, fees, configured, wired, testing>>
      /\ job.stage = "send" /\ JobFine(job, history, chat, now)
  BY DEF SendMessage, table, AInv
<1>2. now \in 0 .. LastTick /\ sentAt \in Nat
  BY DEF AInv, TablesOK
<1>3. PICK s \in Subject : job.about = {s}
  BY <1>1 DEF JobFine, Job, Abouts
<1>4. Clear(s, history, now)
  BY <1>1, <1>3 DEF JobFine, Clear
<1> DEFINE e == Delivered(chat[s], now)
<1>5. ChatFine(s, chat[s], history, now) /\ chat \in [Subject -> Seq(Delivery)]
  BY DEF AInv
<1>6. ChatFine(s, e, history, now) /\ EndsAt(e, now)
  BY <1>2, <1>4, <1>5, DeliveredFine
<1>7. Deliver(s) => chat' = [chat EXCEPT ![s] = e]
  BY DEF Deliver, Delivered
<1> HIDE DEF e
<1>8. chat' = [chat EXCEPT ![s] = e] \/ chat' = chat
  BY <1>3, <1>7 DEF SendMessage
<1>9. chat' \in [Subject -> Seq(Delivery)]
  BY <1>5, <1>6, <1>8 DEF ChatFine
<1>10. \A x \in Subject : ChatFine(x, chat'[x], history, now)
  BY <1>5, <1>6, <1>8 DEF AInv
<1>11. sentAt' \in Nat
  BY <1>2 DEF SendMessage
<1>12. TablesOK'
  BY <1>1, <1>11 DEF AInv, TablesOK
<1>13. JobFine(job', history, chat', now)
  <2>1. CASE job' = Done
    BY <1>1, <2>1, DoneQuiet, QuietFine DEF JobFine
  <2>2. CASE job' = [job EXCEPT !.stage = "record"] /\ Deliver(s)
    <3>1. /\ job' \in Job /\ job'.stage = "record" /\ job'.about = job.about
          /\ job'.check = job.check /\ job'.todo = job.todo
      <4>1. job \in Job /\ "record" \in Stages
        BY <1>1 DEF JobFine, Stages
      <4> QED
        BY <2>2, <4>1 DEF Job
    <3>2. chat'[s] # <<>> /\ chat'[s][Len(chat'[s])].at = now
      BY <1>5, <1>6, <1>7, <2>2 DEF EndsAt
    <3> QED
      BY <1>1, <1>3, <3>1, <3>2 DEF JobFine
  <2> QED
    BY <1>3, <2>1, <2>2 DEF SendMessage
<1> QED
  BY <1>1, <1>9, <1>10, <1>12, <1>13 DEF AInv

LEMMA AfterSendQuiet ==
    ASSUME AInv
    PROVE  Quiet(AfterSend)
<1>1. job \in Job /\ (job.todo # {} => job.check \in {1, 2})
  BY DEF AInv, JobFine
<1>2. CASE job.todo = {}
  BY <1>1, <1>2, DoneQuiet DEF AfterSend
<1>3. CASE job.todo # {}
  <2>1. AfterSend = [job EXCEPT !.stage = "loop", !.about = {}]
    BY <1>3 DEF AfterSend
  <2>2. "loop" \in Stages /\ {} \in Abouts
    BY DEF Stages, Abouts
  <2>3. /\ AfterSend \in Job /\ AfterSend.stage = "loop" /\ AfterSend.about = {}
        /\ AfterSend.check = job.check
    BY <1>1, <2>1, <2>2 DEF Job
  <2> QED
    BY <1>1, <1>3, <2>3 DEF Quiet
<1> QED
  BY <1>2, <1>3

LEMMA RecordKeeps ==
    ASSUME AInv, RecordAlert
    PROVE  AInv'
<1>1. /\ UNCHANGED <<now, sentAt, testing, closing, low, fees, configured, wired>>
      /\ job.stage = "record" /\ JobFine(job, history, chat, now)
      /\ job' = AfterSend
  BY DEF RecordAlert, table, AInv
<1>2. TablesOK'
  BY <1>1 DEF AInv, TablesOK
<1>3. JobFine(job', history', chat', now)
  BY <1>1, AfterSendQuiet, QuietFine
<1>4. CASE UNCHANGED <<history, chat>>
  BY <1>1, <1>2, <1>3, <1>4 DEF AInv
<1>5. ASSUME NEW s \in job.about, history' = history \cup {Entry(s, now)},
             chat' = [chat EXCEPT ![s][Len(chat[s])].recorded = TRUE]
      PROVE  AInv'
  <2>1. s \in Subject /\ NotAhead(s, now) /\ chat[s] # <<>> /\ chat[s][Len(chat[s])].at = now
    BY <1>1 DEF JobFine, Job, Abouts
  <2> DEFINE e == [chat[s] EXCEPT ![Len(chat[s])].recorded = TRUE]
  <2>2. chat \in [Subject -> Seq(Delivery)] /\ chat' = [chat EXCEPT ![s] = e]
    BY <1>5 DEF AInv
  <2>3. ChatFine(s, chat[s], history, now)
    BY <2>1 DEF AInv
  <2>4. ChatFine(s, e, history', now)
    BY <1>5, <2>1, <2>3, RecordedFine
  <2> HIDE DEF e
  <2>5. chat' \in [Subject -> Seq(Delivery)]
    BY <2>2, <2>4 DEF ChatFine
  <2>6. ASSUME NEW x \in Subject
        PROVE  ChatFine(x, chat'[x], history', now)
    <3>1. CASE x = s
      BY <2>1, <2>2, <2>4, <3>1
    <3>2. CASE x # s
      <4>1. chat'[x] = chat[x] /\ ChatFine(x, chat[x], history, now)
        BY <2>2, <3>2 DEF AInv
      <4> QED
        BY <1>5, <4>1, MoreHistory
    <3> QED
      BY <3>1, <3>2
  <2>7. HistoryFine(history', now)
    <3>1. now \in 0 .. now
      BY AlertsAssumption DEF AInv, TablesOK
    <3>2. Entry(s, now).about = s /\ Entry(s, now).at = now
      BY DEF Entry
    <3> QED
      BY <1>5, <2>1, <3>1, <3>2 DEF AInv, HistoryFine
  <2> QED
    BY <1>1, <1>2, <1>3, <2>5, <2>6, <2>7 DEF AInv
<1> QED
  BY <1>4, <1>5 DEF RecordAlert, Entry

LEMMA AInvNext == AInv /\ [Next]_vars => AInv'
<1> SUFFICES ASSUME AInv, [Next]_vars PROVE AInv'
  OBVIOUS
<1>1. CASE UNCHANGED vars
  <2>1. UNCHANGED <<now, history, chat, job, closing, low, fees, configured, wired, sentAt, testing>>
    BY <1>1 DEF vars, table
  <2> QED
    BY <2>1 DEF AInv, TablesOK
<1>2. CASE Next
  BY <1>2, TickKeeps, CyclesKeep, ChecksKeep, CheckFailsKeeps, ClientKeeps, SettingsKeep,
     SendKeeps, RecordKeeps DEF Next, Check
<1> QED
  BY <1>1, <1>2

LEMMA AInvAlways == Spec => []AInv
  BY AInvInit, AInvNext, PTL DEF Spec

-----------------------------------------------------------------------------
(* The theorems.                                                            *)

LEMMA AInvTypes == AInv => TypeOK
<1> SUFFICES ASSUME AInv PROVE TypeOK
  OBVIOUS
<1>1. history \subseteq {[about |-> s, at |-> t] : s \in Subject, t \in 0 .. now}
  BY DEF AInv, HistoryFine, Entry
<1>2. job \in [stage : {"idle", "begin", "loop", "wait", "send", "record"}, check : DOMAIN Checks,
               todo : SUBSET Channel, about : {{}} \cup {{s} : s \in Subject}]
  BY DEF AInv, JobFine, Job, Stages, Abouts
<1>3. ASSUME NEW s \in Subject, NEW i \in DOMAIN chat[s]
      PROVE  chat[s][i] \in [at : 0 .. now, recorded : BOOLEAN]
  <2>1. ChatFine(s, chat[s], history, now) /\ now \in 0 .. LastTick
    BY DEF AInv, TablesOK
  <2>2. chat[s][i] \in Delivery /\ chat[s][i].at <= now
    BY <2>1 DEF ChatFine
  <2> QED
    BY <2>1, <2>2, AlertsAssumption DEF Delivery
<1>4. /\ (job.stage \in {"wait", "send", "record"}) <=> (job.about # {})
      /\ \A s \in job.about : s.type = Checks[job.check]
      /\ DOMAIN chat = Subject
  BY DEF AInv, JobFine
<1> QED
  BY <1>1, <1>2, <1>3, <1>4 DEF AInv, TablesOK, TypeOK

\* Every variable keeps its type: a job has a subject exactly while a message is
\* on its way, of the check it is in, and nothing is recorded or delivered later
\* than now (Check and the four checks of checker.go).
THEOREM TypeCorrect == Spec => []TypeOK
  BY AInvAlways, AInvTypes, PTL

LEMMA AInvRepeats == AInv => RepeatedOnlyInDoubt
<1> SUFFICES ASSUME AInv, NEW s \in Subject, NEW i \in DOMAIN chat[s], NEW j \in DOMAIN chat[s],
                    i < j, chat[s][i].recorded
             PROVE  \/ s.type = "low_balance" /\ chat[s][j].at > chat[s][i].at + Day
                    \/ s.type = "daily_summary" /\ Offset \notin {0, Day}
  BY DEF RepeatedOnlyInDoubt
<1> QED
  BY DEF AInv, ChatFine, Repeatable

\* What was answered and recorded is not sent again, whatever faults and
\* restarts come in between, except a low balance after a day and, away from
\* UTC, a summary (HasAlertedRecently before and RecordAlert after SendMessage).
THEOREM RecordedIsNotRepeated == Spec => []RepeatedOnlyInDoubt
  BY AInvAlways, AInvRepeats, PTL

(* The limit: what is counted and what found room and is not yet counted.   *)

OnItsWay == IF job.stage = "send" THEN 1 ELSE 0
LimitInv == sentAt + testing + OnItsWay <= MaxPerMinute + MaxTests

LEMMA LimitCounts ==
    ASSUME AInv
    PROVE  /\ sentAt \in Nat /\ testing \in Nat /\ testing <= MaxTests
           /\ MaxPerMinute \in Nat /\ MaxPerMinute > 0 /\ MaxTests \in Nat
           /\ OnItsWay \in {0, 1}
  BY AlertsAssumption DEF AInv, TablesOK, OnItsWay

\* Nothing is counted, and no message found room.
LEMMA LimitUnmoved ==
    ASSUME AInv, LimitInv, UNCHANGED <<sentAt, testing>>,
           job' = job \/ job'.stage # "send"
    PROVE  LimitInv'
<1>1. OnItsWay' = OnItsWay \/ OnItsWay' = 0
  BY DEF OnItsWay
<1> QED
  BY <1>1, LimitCounts DEF LimitInv

\* Who finds room makes the sum at most the limit, with the other tests.
LEMMA LimitKept ==
    ASSUME AInv, AInv', LimitInv, [Next]_vars
    PROVE  LimitInv'
<1>1. job \in Job /\ Quiet(Done) /\ Quiet(AfterSend)
  BY DoneQuiet, AfterSendQuiet DEF AInv, JobFine
<1>2. Done.stage # "send" /\ AfterSend.stage # "send"
  BY <1>1 DEF Quiet
<1>3. CASE UNCHANGED vars
  BY <1>3, LimitUnmoved DEF vars
<1>4. CASE Tick
  BY <1>4, LimitUnmoved DEF Tick
<1>5. CASE Cycle
  <2>1. Quiet(Idle) /\ Quiet(Begin(1))
    BY BeginQuiet, ChecksAre DEF Quiet, Idle, Job, Stages, Abouts
  <2>2. job'.stage # "send"
    BY <1>5, <2>1 DEF Cycle, Quiet
  <2> QED
    BY <1>5, <2>2, LimitUnmoved DEF Cycle
<1>6. CASE checkChannelCloses \/ checkLowBalance \/ NextChannel \/ checkFeeSpike \/ checkDailySummary
  <2>1. UNCHANGED <<sentAt, testing>>
    BY <1>6 DEF checkChannelCloses, checkLowBalance, NextChannel, checkFeeSpike, checkDailySummary, Step
  <2>2. \A told, channels : Pass(told, channels) => job'.stage # "send"
    BY <1>1, <1>2 DEF Pass, Job
  <2>3. \A nothing, s, since : SendUnless(nothing, s, since) => job'.stage # "send"
    BY <1>1, <1>2 DEF SendUnless, Job
  <2>4. job'.stage # "send"
    BY <1>6, <2>2, <2>3 DEF checkChannelCloses, checkLowBalance, NextChannel, checkFeeSpike, checkDailySummary
  <2> QED
    BY <2>1, <2>4, LimitUnmoved
<1>7. CASE CheckFails
  BY <1>2, <1>7, LimitUnmoved DEF CheckFails
<1>8. CASE MinutePasses
  <2>1. OnItsWay' = OnItsWay
    BY <1>8 DEF MinutePasses, OnItsWay
  <2> QED
    BY <1>8, <2>1, LimitCounts DEF MinutePasses, LimitInv
<1>9. CASE waitForRateLimit
  <2>1. sentAt' = sentAt /\ testing' = testing /\ sentAt < MaxPerMinute
    BY <1>9 DEF waitForRateLimit, Step, Room
  <2>2. OnItsWay' \in {0, 1}
    BY DEF OnItsWay
  <2> QED
    BY <2>1, <2>2, LimitCounts DEF LimitInv
<1>10. CASE SendMessage
  <2>1. OnItsWay = 1
    BY <1>10 DEF SendMessage, OnItsWay
  <2>2. OnItsWay' = 0
    BY <1>1, <1>2, <1>10 DEF SendMessage, OnItsWay, Job
  <2>3. sentAt' \in {sentAt, sentAt + 1} /\ testing' = testing
    BY <1>10 DEF SendMessage
  <2> QED
    BY <2>1, <2>2, <2>3, LimitCounts DEF LimitInv
<1>11. CASE RecordAlert
  BY <1>2, <1>11, LimitUnmoved DEF RecordAlert
<1>12. CASE HandleTelegramSave
  BY <1>12, LimitUnmoved DEF HandleTelegramSave
<1>13. CASE HandleTelegramTest
  <2>1. sentAt' = sentAt /\ sentAt < MaxPerMinute /\ job' = job
    BY <1>13 DEF HandleTelegramTest, Room
  <2>2. OnItsWay' \in {0, 1} /\ testing' \in Nat /\ testing' <= MaxTests
    BY LimitCounts, <1>13 DEF HandleTelegramTest, OnItsWay
  <2> QED
    BY <2>1, <2>2, LimitCounts DEF LimitInv
<1>14. CASE TestAnswered
  <2>1. OnItsWay' = OnItsWay
    BY <1>14 DEF TestAnswered, OnItsWay
  <2> QED
    BY <1>14, <2>1, LimitCounts DEF TestAnswered, LimitInv
<1>15. CASE Restart
  <2>1. sentAt' = 0 /\ testing' = 0 /\ OnItsWay' = 0
    BY <1>15 DEF Restart, OnItsWay, Idle
  <2> QED
    BY <2>1, LimitCounts DEF LimitInv
<1> QED
  BY <1>3, <1>4, <1>5, <1>6, <1>7, <1>8, <1>9, <1>10, <1>11, <1>12, <1>13, <1>14, <1>15
     DEF Next, Check

\* The limit of the bot API is passed by no more messages than test messages may
\* be at work at once, although whoever asks for room is counted only when the
\* message is answered: the checker and any number of requests of the settings
\* page ask in any order (waitForRateLimit, SendMessage).
THEOREM LimitHolds == Spec => []RateLimit
<1>1. Init => LimitInv
  BY AlertsAssumption DEF Init, LimitInv, OnItsWay, Idle
<1>2. AInv /\ AInv' /\ LimitInv /\ [Next]_vars => LimitInv'
  BY LimitKept
<1>3. AInv /\ LimitInv => RateLimit
  BY LimitCounts DEF LimitInv, RateLimit
<1> QED
  BY <1>1, <1>2, <1>3, AInvAlways, PTL DEF Spec
=============================================================================
