------------------------------ MODULE CostBasis -----------------------------
(***************************************************************************)
(* The cost basis engine: which lots a sale takes its bitcoin from, what   *)
(* is left in each lot, and what a tax report and the loss harvester make  *)
(* of it.  These are functions of the lots and the disposals the database  *)
(* returns; nothing is stored.                                             *)
(*                                                                         *)
(* A lot is [n, at, sat, usd]: n is its id, usd what all of it cost.  A    *)
(* disposal is [ref, at, sat, usd].  Times are days.  Dollars are whole,   *)
(* so a share of a price is exact only if it divides; the code has floats. *)
(***************************************************************************)
EXTENDS Integers, Sequences, FiniteSets, SequencesExt

CONSTANTS Year,     \* days of a year: 365
          WashDays  \* days before a sale in which a buy is a wash sale: 30

ASSUME CostBasisAssumption == Year \in Nat \ {0} /\ WashDays \in Nat

FIFO == "fifo"
LIFO == "lifo"
YearOf(day) == day \div Year

\* CostPerSat times an amount.
Part(usd, sat, whole) == (usd * sat) \div whole

\* The elements of a sequence that are in S.
Only(seq, S) == FoldLeft(LAMBDA kept, x : IF x \in S THEN Append(kept, x) ELSE kept, <<>>, seq)

\* In chronological order; of the same instant, in some order.
Earliest(S) == CHOOSE x \in {y \in S : \A z \in S : y.at <= z.at} : TRUE
Latest(S) == CHOOSE x \in {y \in S : \A z \in S : z.at <= y.at} : TRUE

\* Mutant: a sale takes from any lot, also one bought after it.
CandidatesOfAnyDate(lots, open, at) == {l \in lots : open[l.n] > 0}

\* candidateLots: open lots that were bought by then.
candidateLots(lots, open, at) == {l \in lots : l.at <= at /\ open[l.n] > 0}

\* The candidate that comes last: the newest, for LIFO the oldest.
LastTaken(S, method) == IF method = LIFO THEN Earliest(S) ELSE Latest(S)

\* Mutant: every candidate gives what the sale is worth.
TakeWhole(acc, lot, d) ==
    LET taken == acc.left IN
    IF acc.left <= 0 THEN acc
    ELSE [open |-> [acc.open EXCEPT ![lot.n] = @ - taken], left |-> acc.left - taken,
          events |-> Append(acc.events,
              [lot |-> lot.n, ref |-> d.ref, acquired |-> lot.at, at |-> d.at, sat |-> taken,
               cost |-> Part(lot.usd, taken, lot.sat), proceeds |-> Part(d.usd, taken, d.sat),
               longTerm |-> d.at - lot.at > Year])]

\* One candidate gives what it has, up to what the sale still needs.
Take(acc, lot, d) ==
    LET taken == IF acc.open[lot.n] > acc.left THEN acc.left ELSE acc.open[lot.n] IN
    IF acc.left <= 0 THEN acc
    ELSE [open |-> [acc.open EXCEPT ![lot.n] = @ - taken], left |-> acc.left - taken,
          events |-> Append(acc.events,
              [lot |-> lot.n, ref |-> d.ref, acquired |-> lot.at, at |-> d.at, sat |-> taken,
               cost |-> Part(lot.usd, taken, lot.sat), proceeds |-> Part(d.usd, taken, d.sat),
               longTerm |-> d.at - lot.at > Year])]

\* The sale takes from one candidate after the other.
TakeInOrder(start, candidates, d, method) ==
    MapThenFoldSet(LAMBDA lot, acc : Take(acc, lot, d), start,
                   LAMBDA lot : lot, LAMBDA S : LastTaken(S, method), candidates)

\* One sale: [open, events, unmatched] after it.
Dispose(result, lots, d, method) ==
    LET start == [open |-> result.open, left |-> d.sat, events |-> result.events]
        done == TakeInOrder(start, candidateLots(lots, result.open, d.at), d, method)
    IN [open |-> done.open, events |-> done.events, unmatched |-> result.unmatched + done.left]

\* Before the first sale all of each lot is open.
Unsold(lots) ==
    [open |-> [n \in {l.n : l \in lots} |-> (CHOOSE l \in lots : l.n = n).sat],
     events |-> <<>>, unmatched |-> 0]

Match(lots, disposals, method) ==
    MapThenFoldSet(LAMBDA d, result : Dispose(result, lots, d, method), Unsold(lots),
                   LAMBDA d : d, Latest, disposals)

-----------------------------------------------------------------------------
(* Reports.                                                                 *)

Total(f(_), events) == SumFunction([i \in DOMAIN events |-> f(events[i])])
Gain(e) == e.proceeds - e.cost

\* HandleTaxExport, the tax page: everything is matched, then one year is shown.
EventsOfYear(events, year) == Only(events, {e \in Range(events) : YearOf(e.at) = year})

\* Form 8949 has a row for each event.
Form8949(events) ==
    [i \in DOMAIN events |->
        [acquired |-> events[i].acquired, sold |-> events[i].at, sat |-> events[i].sat,
         proceeds |-> events[i].proceeds, cost |-> events[i].cost, gain |-> Gain(events[i]),
         period |-> IF events[i].longTerm THEN "Long-term" ELSE "Short-term"]]

\* The unmatched amount is that of all years.
Summarize(events, unmatched) ==
    LET long == Only(events, {e \in Range(events) : e.longTerm})
        short == Only(events, {e \in Range(events) : ~e.longTerm})
    IN [proceeds |-> Total(LAMBDA e : e.proceeds, events), cost |-> Total(LAMBDA e : e.cost, events),
        gain |-> Total(Gain, events), longGain |-> Total(Gain, long), shortGain |-> Total(Gain, short),
        longCount |-> Len(long), shortCount |-> Len(short), unmatched |-> unmatched]

Consumed(events, lot) == Total(LAMBDA e : IF e.lot = lot.n THEN e.sat ELSE 0, events)

\* Open lots that are worth less than they cost, and what was realised this year.
Harvest(lots, disposals, method, usdPerSat, asOf) ==
    LET events == Match(lots, disposals, method).events
        known == EventsOfYear(events, YearOf(asOf))
        open(lot) == lot.sat - Consumed(events, lot)
        loss(lot) == open(lot) * usdPerSat - Part(lot.usd, open(lot), lot.sat)
    IN [candidates |-> {[lot |-> l.n, sat |-> open(l), loss |-> loss(l)] :
                            l \in {k \in lots : open(k) > 0 /\ loss(k) < 0}},
        ytd |-> Total(Gain, Only(known, {e \in Range(known) : e.at <= asOf})),
        wash |-> \E l \in lots : l.at >= asOf - WashDays /\ l.at < asOf]
=============================================================================
