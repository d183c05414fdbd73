--------------------------- MODULE LicenseProofs ---------------------------
(***************************************************************************)
(* Proofs about LicenseServer, for every set of subscriptions, tiers and   *)
(* webhook requests, and about LicenseChecker with the server it asks, for *)
(* every set of keys, and for every bound.                                 *)
(*                                                                         *)
(* A webhook acts on the row it looked up one statement earlier, so the    *)
(* invariant says that this row is still the first of its subscription.    *)
(* What the row says is tied to the number of the last event that was      *)
(* answered: everything later is still on its way.                         *)
(*                                                                         *)
(* The checker's requests share the configured key without a lock, so      *)
(* nothing ties the key of a row to the key of its token.  What holds is   *)
(* that a token is stored only after its own key was the configured one,   *)
(* and that no day passes between an answer and the row that it is stored  *)
(* in.                                                                     *)
(***************************************************************************)
EXTENDS LicenseChecker, WellFoundedInduction, FiniteSetTheorems, SequenceTheorems, TLAPS

-----------------------------------------------------------------------------
(* The inductive invariant.                                                 *)

Seqs(s) == {e.seq : e \in {f \in events : f.sub = s}}

\* A subscription that is not bought has no events; one that is over has two.
StateOK(s) ==
    LET n == subscription[s].seq IN
    /\ subscription[s].state \in {"none", "checkout"} <=> n = 0
    /\ subscription[s].state = "deleted" => n > 1
    /\ applied[s] <= n

\* What the number of an event says about it, and about the subscription.
EventOK(e) ==
    LET c == subscription[e.sub] IN
    /\ 0 < e.seq /\ e.seq <= c.seq
    /\ e.kind = "checkout" <=> e.seq = 1
    /\ e.kind = "deleted" <=> c.state = "deleted" /\ e.seq = c.seq
    /\ e.seq = c.seq => e.tier = c.tier

\* What a webhook has looked up still holds when it writes.
HookOK(w) ==
    LET h == hook[w]
        s == h.event.sub
    IN
    h # Rest =>
      /\ EventOK(h.event)
      /\ h.pc \in {"ask", "create"} => h.event.kind = "checkout"
      /\ h.pc = "revoke" => h.event.kind = "deleted"
      /\ h.pc = "upgrade" => h.event.kind = "updated"
      /\ h.pc \in {"revoke", "upgrade"} => h.row = FirstRow(s) /\ h.row # None
      /\ h.event.kind = "checkout" /\ subscription[s].seq = 1 => h.tier = subscription[s].tier
      /\ h.pc = "create" /\ s \notin disturbed => RowsOf(s) = {}

\* The customer is shown the row that the webhooks write, and a revoked row stays.
KeyOK(s) ==
    /\ shown[s] # None => shown[s] = FirstRow(s)
    /\ s \in revoked => FirstRow(s) # None /\ ~ licenses[FirstRow(s)].active

\* No event is lost but those that were answered, and the row is as the last of
\* them left it.
RowOK(s) ==
    /\ \A i \in (applied[s] + 1) .. subscription[s].seq : i \in Seqs(s)
    /\ s \notin disturbed =>
         /\ applied[s] = 0 => RowsOf(s) = {}
         /\ applied[s] > 0 => \E k \in DOMAIN licenses :
              /\ RowsOf(s) = {k} /\ licenses[k].expires = Never
              /\ subscription[s].state = "active" => licenses[k].active
              /\ applied[s] = subscription[s].seq =>
                    IF subscription[s].state = "deleted" THEN ~ licenses[k].active
                    ELSE licenses[k].tier = subscription[s].tier

IInv ==
    /\ TypeOK
    /\ \A s \in Sub : StateOK(s) /\ KeyOK(s) /\ RowOK(s)
    /\ \A e \in events : EventOK(e)
    /\ \A w \in Webhook : HookOK(w)

-----------------------------------------------------------------------------
(* Rows.                                                                    *)

\* A non-empty set of naturals has a smallest element.
LEMMA SmallestElement ==
    ASSUME NEW S \in SUBSET Nat, S # {}
    PROVE  \E x \in S : \A y \in S : x <= y
<1>1. \E x \in S : \A y \in S : ~ (<<y, x>> \in OpToRel(<, Nat))
  BY NatLessThanWellFounded, WFMin
<1>2. \A x, y \in Nat : y < x => <<y, x>> \in OpToRel(<, Nat)
  BY DEF OpToRel
<1>3. PICK x \in S : \A y \in S : ~ (<<y, x>> \in OpToRel(<, Nat))
  BY <1>1
<1>4. \A y \in S : x <= y
  <2> TAKE y \in S
  <2>1. ~ (y < x)
    BY <1>2, <1>3
  <2> QED
    BY <2>1
<1> QED
  BY <1>4

LEMMA MinIs ==
    ASSUME NEW S \in SUBSET Nat, S # {}
    PROVE  Min(S) \in S /\ \A y \in S : Min(S) <= y
BY SmallestElement, Zenon DEF Min

LEMMA MaxOfTwo ==
    ASSUME NEW a \in Nat, NEW b \in Nat
    PROVE  Max({a, b}) = IF a >= b THEN a ELSE b
<1> DEFINE m == IF a >= b THEN a ELSE b
<1>1. m \in {a, b} /\ (\A y \in {a, b} : m >= y)
  OBVIOUS
<1>2. \A x \in {a, b} : (\A y \in {a, b} : x >= y) => x = m
  OBVIOUS
<1> HIDE DEF m
<1>3. Max({a, b}) = m
  BY <1>1, <1>2, Zenon DEF Max
<1> QED
  BY <1>3 DEF m

\* LookupByStripeSubscription returns a row of the subscription, and nil only when it has none.
LEMMA FirstRowIs ==
    ASSUME NEW s, licenses \in Seq(License)
    PROVE  /\ FirstRow(s) = None <=> RowsOf(s) = {}
           /\ FirstRow(s) # None => /\ FirstRow(s) \in RowsOf(s)
                                    /\ \A k \in RowsOf(s) : FirstRow(s) <= k
           /\ FirstRow(s) \in 0 .. Len(licenses)
<1>1. RowsOf(s) \in SUBSET (1 .. Len(licenses)) /\ RowsOf(s) \in SUBSET Nat
  BY DEF RowsOf
<1>2. CASE RowsOf(s) = {}
  BY <1>2 DEF FirstRow, None
<1>3. CASE RowsOf(s) # {}
  <2>1. FirstRow(s) = Min(RowsOf(s))
    BY <1>3 DEF FirstRow
  <2> QED
    BY <1>1, <1>3, <2>1, MinIs DEF None
<1> QED
  BY <1>2, <1>3

\* Rows are appended and never change hands, so a first row stays the first.
LEMMA FirstRowStays ==
    ASSUME licenses \in Seq(License), licenses' \in Seq(License),
           Len(licenses) <= Len(licenses'),
           \A k \in 1 .. Len(licenses) : licenses'[k].sub = licenses[k].sub,
           NEW s, FirstRow(s) # None
    PROVE  FirstRow(s)' = FirstRow(s)
<1>1. /\ FirstRow(s) \in RowsOf(s)
      /\ \A k \in RowsOf(s) : FirstRow(s) <= k
  BY FirstRowIs
<1>2. RowsOf(s)' \in SUBSET Nat /\ FirstRow(s) \in RowsOf(s)'
  BY <1>1 DEF RowsOf
<1>3. FirstRow(s)' = Min(RowsOf(s)')
  BY <1>2 DEF FirstRow
<1>4. FirstRow(s)' \in RowsOf(s)' /\ FirstRow(s)' <= FirstRow(s)
  BY <1>2, <1>3, MinIs
<1>5. FirstRow(s)' \in RowsOf(s)
  BY <1>1, <1>4 DEF RowsOf
<1> QED
  BY <1>1, <1>4, <1>5 DEF RowsOf

LEMMA RowTypes ==
    ASSUME NEW l \in License
    PROVE  /\ l.tier \in Tier /\ l.active \in BOOLEAN /\ l.expires \in Nat
           /\ [l EXCEPT !.active = FALSE] \in License
           /\ [l EXCEPT !.active = FALSE].sub = l.sub
           /\ [l EXCEPT !.active = FALSE].tier = l.tier
           /\ [l EXCEPT !.active = FALSE].expires = l.expires
           /\ ~ [l EXCEPT !.active = FALSE].active
           /\ \A t \in Tier : /\ [l EXCEPT !.tier = t] \in License
                              /\ [l EXCEPT !.tier = t].sub = l.sub
                              /\ [l EXCEPT !.tier = t].tier = t
                              /\ [l EXCEPT !.tier = t].expires = l.expires
                              /\ [l EXCEPT !.tier = t].active = l.active
BY DEF License

\* The table grows or one of its rows changes its tier or its state.
LEMMA AppendTypes ==
    ASSUME licenses \in Seq(License), NEW l \in License, licenses' = Append(licenses, l)
    PROVE  /\ licenses' \in Seq(License)
           /\ Len(licenses') = Len(licenses) + 1
           /\ licenses'[Len(licenses')] = l
           /\ \A k \in 1 .. Len(licenses) : licenses'[k] = licenses[k]
OBVIOUS

LEMMA RevokeTypes ==
    ASSUME NEW L \in Seq(License), NEW k \in 1 .. Len(L)
    PROVE  LET M == [L EXCEPT ![k].active = FALSE] IN
           /\ M \in Seq(License) /\ Len(M) = Len(L)
           /\ \A i \in 1 .. Len(L) : /\ M[i].sub = L[i].sub
                                     /\ M[i].tier = L[i].tier
                                     /\ M[i].expires = L[i].expires
                                     /\ i # k => M[i] = L[i]
           /\ ~ M[k].active
<1> DEFINE l == [L[k] EXCEPT !.active = FALSE]
           M == [L EXCEPT ![k] = l]
<1>0. \A i \in 1 .. Len(L) : L[i] \in License
  OBVIOUS
<1>1. l \in License
  BY <1>0, RowTypes
<1>2. [L EXCEPT ![k].active = FALSE] = M
  OBVIOUS
<1>3. /\ M \in Seq(License) /\ Len(M) = Len(L)
      /\ \A i \in 1 .. Len(L) : M[i] = IF i = k THEN l ELSE L[i]
  BY <1>1, ExceptSeq
<1> QED
  BY <1>0, <1>2, <1>3, RowTypes

LEMMA UpgradeTypes ==
    ASSUME NEW L \in Seq(License), NEW k \in 1 .. Len(L), NEW t \in Tier
    PROVE  LET M == [L EXCEPT ![k].tier = t] IN
           /\ M \in Seq(License) /\ Len(M) = Len(L)
           /\ \A i \in 1 .. Len(L) : /\ M[i].sub = L[i].sub
                                     /\ M[i].active = L[i].active
                                     /\ M[i].expires = L[i].expires
                                     /\ i # k => M[i] = L[i]
           /\ M[k].tier = t
<1> DEFINE l == [L[k] EXCEPT !.tier = t]
           M == [L EXCEPT ![k] = l]
<1>0. \A i \in 1 .. Len(L) : L[i] \in License
  OBVIOUS
<1>1. l \in License
  BY <1>0, RowTypes
<1>2. [L EXCEPT ![k].tier = t] = M
  OBVIOUS
<1>3. /\ M \in Seq(License) /\ Len(M) = Len(L)
      /\ \A i \in 1 .. Len(L) : M[i] = IF i = k THEN l ELSE L[i]
  BY <1>1, ExceptSeq
<1> QED
  BY <1>0, <1>2, <1>3, RowTypes

-----------------------------------------------------------------------------
(* Types.                                                                   *)

LEMMA TypeInit == ServerInit => TypeOK
<1> SUFFICES ASSUME ServerInit PROVE TypeOK
  OBVIOUS
<1>1. Len(licenses) = 0 /\ licenses \in Seq(License)
  BY DEF ServerInit
<1>2. events \subseteq Event /\ 0 \in 0 .. LastDay /\ 0 \in 0 .. MaxCommands
        /\ 0 \in 0 .. MaxFailures /\ 0 <= MaxIssued
  BY ServerBounds DEF ServerInit
<1> QED
  BY <1>1, <1>2 DEF ServerInit, TypeOK, Rest, None

\* A request at work as a record of its fields.
LEMMA WorkFields ==
    ASSUME NEW n \in Nat, NEW h \in Work(n)
    PROVE  /\ h.event \in Event /\ h.tier \in Tier /\ h.row \in 0 .. n
           /\ h.event.sub \in Sub /\ h.event.tier \in Tier /\ h.event.seq \in Nat
           /\ h.event.kind \in Kind
           /\ \A m \in Nat : n <= m => h \in Work(m)
<1>1. h.event \in Event /\ h.tier \in Tier /\ h.row \in 0 .. n
  BY DEF Work
<1>2. \A m \in Nat : n <= m => h \in Work(m)
  BY DEF Work
<1> QED
  BY <1>1, <1>2 DEF Event

LEMMA HookIsWork ==
    ASSUME TypeOK, NEW w \in Webhook, hook[w] # Rest
    PROVE  hook[w] \in Work(Len(licenses)) /\ Len(licenses) \in Nat
  BY DEF TypeOK

LEMMA HookIsAbout ==
    ASSUME TypeOK, NEW w \in Webhook, hook[w] # Rest
    PROVE  /\ hook[w].event \in Event /\ hook[w].event.sub \in Sub
           /\ hook[w].tier \in Tier /\ hook[w].row \in 0 .. Len(licenses)
           /\ subscription[hook[w].event.sub].tier \in Tier
<1>1. /\ hook[w].event \in Event /\ hook[w].event.sub \in Sub
      /\ hook[w].tier \in Tier /\ hook[w].row \in 0 .. Len(licenses)
  BY HookIsWork, WorkFields
<1>2. \A s \in Sub : subscription[s].tier \in Tier
  BY DEF TypeOK
<1> QED
  BY <1>1, <1>2

Pc == {"ask", "lookup", "create", "revoke", "upgrade"}
Moved(h, pc, k) == [h EXCEPT !.pc = pc, !.row = k]
Asked(h, pc, t) == [h EXCEPT !.pc = pc, !.tier = t]

LEMMA WorkRow ==
    ASSUME NEW n \in Nat, NEW h \in Work(n), NEW k \in 0 .. n,
           NEW pc \in Pc
    PROVE  LET g == Moved(h, pc, k) IN
           g \in Work(n) /\ g.pc = pc /\ g.event = h.event /\ g.tier = h.tier /\ g.row = k
BY DEF Work, Pc, Moved

LEMMA WorkTier ==
    ASSUME NEW n \in Nat, NEW h \in Work(n), NEW t \in Tier,
           NEW pc \in Pc
    PROVE  LET g == Asked(h, pc, t) IN
           g \in Work(n) /\ g.pc = pc /\ g.event = h.event /\ g.tier = t /\ g.row = h.row
BY DEF Work, Pc, Asked

LEMMA WorkPc ==
    ASSUME NEW n \in Nat, NEW h \in Work(n), 
           NEW pc \in Pc
    PROVE  LET g == [h EXCEPT !.pc = pc] IN
           g \in Work(n) /\ g.pc = pc /\ g.event = h.event /\ g.tier = h.tier /\ g.row = h.row
BY DEF Work, Pc

\* A webhook that goes on: what it is about stays the same.
Goes(w, pc, t, k) ==
    /\ hook'[w] \in Work(Len(licenses))
    /\ hook'[w].pc = pc /\ hook'[w].event = hook[w].event
    /\ hook'[w].tier = t /\ hook'[w].row = k
    /\ \A v \in Webhook \ {w} : hook'[v] = hook[v]
    /\ hook' = [v \in Webhook |-> hook'[v]]

LEMMA ContinueIs ==
    ASSUME TypeOK, NEW w \in Webhook, hook[w] # Rest
    PROVE  /\ \A pc \in {"create", "revoke", "upgrade"} : \A k \in 0 .. Len(licenses) :
                Continue(w, pc, k) => Goes(w, pc, hook[w].tier, k)
           /\ LookupCheckoutFails(w) => Goes(w, "create", hook[w].tier, hook[w].row)
           /\ AskStripe(w) => Goes(w, "lookup", subscription[hook[w].event.sub].tier, hook[w].row)
<1>1. hook[w] \in Work(Len(licenses)) /\ Len(licenses) \in Nat
  BY DEF TypeOK
<1>2. hook[w].tier \in Tier /\ subscription[hook[w].event.sub].tier \in Tier
        /\ hook[w].row \in 0 .. Len(licenses)
  BY HookIsAbout
<1>3. ASSUME NEW pc \in {"create", "revoke", "upgrade"}, NEW k \in 0 .. Len(licenses),
             Continue(w, pc, k)
      PROVE  Goes(w, pc, hook[w].tier, k)
  <2> DEFINE g == Moved(hook[w], pc, k)
  <2>1. hook' = [hook EXCEPT ![w] = g]
    BY <1>3 DEF Continue, Moved
  <2>2. hook'[w] = g
    BY <2>1 DEF TypeOK
  <2>3. (\A v \in Webhook \ {w} : hook'[v] = hook[v]) /\ hook' = [v \in Webhook |-> hook'[v]]
    BY <2>1 DEF TypeOK
  <2>4. /\ g \in Work(Len(licenses)) /\ g.pc = pc /\ g.event = hook[w].event
        /\ g.tier = hook[w].tier /\ g.row = k
    <3>1. pc \in Pc
      BY DEF Pc
    <3> QED
      BY <1>1, <3>1, WorkRow
  <2> HIDE DEF g
  <2> QED
    BY <2>2, <2>3, <2>4 DEF Goes
<1>4. ASSUME LookupCheckoutFails(w)
      PROVE  Goes(w, "create", hook[w].tier, hook[w].row)
  <2> DEFINE g == [hook[w] EXCEPT !.pc = "create"]
  <2>1. hook' = [hook EXCEPT ![w] = g]
    BY <1>4 DEF LookupCheckoutFails
  <2>2. hook'[w] = g
    BY <2>1 DEF TypeOK
  <2>3. (\A v \in Webhook \ {w} : hook'[v] = hook[v]) /\ hook' = [v \in Webhook |-> hook'[v]]
    BY <2>1 DEF TypeOK
  <2>4. /\ g \in Work(Len(licenses)) /\ g.pc = "create" /\ g.event = hook[w].event
        /\ g.tier = hook[w].tier /\ g.row = hook[w].row
    <3>1. "create" \in Pc
      BY DEF Pc
    <3> QED
      BY <1>1, <3>1, WorkPc
  <2> HIDE DEF g
  <2> QED
    BY <2>2, <2>3, <2>4 DEF Goes
<1>5. ASSUME AskStripe(w)
      PROVE  Goes(w, "lookup", subscription[hook[w].event.sub].tier, hook[w].row)
  <2> DEFINE g == Asked(hook[w], "lookup", subscription[hook[w].event.sub].tier)
  <2>1. hook' = [hook EXCEPT ![w] = g]
    BY <1>5 DEF AskStripe, Asked
  <2>2. hook'[w] = g
    BY <2>1 DEF TypeOK
  <2>3. (\A v \in Webhook \ {w} : hook'[v] = hook[v]) /\ hook' = [v \in Webhook |-> hook'[v]]
    BY <2>1 DEF TypeOK
  <2>4. /\ g \in Work(Len(licenses)) /\ g.pc = "lookup" /\ g.event = hook[w].event
        /\ g.tier = subscription[hook[w].event.sub].tier /\ g.row = hook[w].row
    <3>1. "lookup" \in Pc
      BY DEF Pc
    <3> QED
      BY <1>1, <1>2, <3>1, WorkTier
  <2> HIDE DEF g
  <2> QED
    BY <2>2, <2>3, <2>4 DEF Goes
<1> QED
  BY <1>3, <1>4, <1>5

LEMMA RestPc == Rest.pc = "rest"
BY DEF Rest

\* What an action of Stripe leaves behind.
LEMMA StripeTypes ==
    ASSUME TypeOK, NEW s \in Sub,
           \/ \E t \in Tier : HandleSubscribe(s, t)
           \/ Pay(s) \/ ChangePlan(s) \/ Unsubscribe(s)
    PROVE  TypeOK'
<1> DEFINE Subscription == [state : {"none", "checkout", "active", "deleted"}, tier : Tier,
                            seq : Nat, bare : BOOLEAN]
<1>1. subscription \in [Sub -> Subscription]
  BY DEF TypeOK
<1>2. CASE \E t \in Tier : HandleSubscribe(s, t)
  <2>1. subscription' \in [Sub -> Subscription]
    BY <1>1, <1>2, ZenonT(60) DEF HandleSubscribe, checkoutHandler, CreateCheckoutSession
  <2> QED
    BY <1>2, <2>1 DEF HandleSubscribe, checkoutHandler, CreateCheckoutSession, TypeOK, serverHistory
<1>3. ASSUME NEW state \in {"active", "deleted"}, NEW t \in Tier, NEW kind \in Kind,
             Happens(s, state, t, kind)
      PROVE  TypeOK'
  <2>1. subscription' \in [Sub -> Subscription]
    BY <1>1, <1>3 DEF Happens
  <2>2. events' \subseteq Event
    BY <1>1, <1>3 DEF Happens, Event, TypeOK
  <2> QED
    BY <1>3, <2>1, <2>2 DEF Happens, TypeOK, serverHistory
<1>4. subscription[s].tier \in Tier
  BY <1>1
<1> QED
  BY <1>2, <1>3, <1>4 DEF Pay, ChangePlan, Unsubscribe, Kind

\* A webhook that answers: which event it is, and what it leaves alone.
LEMMA AnswerTypes ==
    ASSUME TypeOK, NEW w \in Webhook, hook[w] # Rest, Answer(w), NEW wrong, Note(w, wrong)
    PROVE  /\ events' \subseteq Event
           /\ applied' \in [Sub -> Nat]
           /\ disturbed' \subseteq Sub
           /\ hook' = [hook EXCEPT ![w] = Rest]
           /\ UNCHANGED <<subscription, shown, day, commands>>
<1>1. hook[w] \in Work(Len(licenses)) /\ Len(licenses) \in Nat
  BY DEF TypeOK
<1>2. hook[w].event.sub \in Sub /\ hook[w].event.seq \in Nat
  BY <1>1, WorkFields
<1>3. applied[hook[w].event.sub] \in Nat
  BY <1>2 DEF TypeOK
<1>4. Max({applied[hook[w].event.sub], hook[w].event.seq}) \in Nat
  BY <1>2, <1>3, MaxOfTwo
<1> QED
  BY <1>2, <1>4 DEF Answer, Note, TypeOK

LEMMA GoesTypes ==
    ASSUME TypeOK, NEW w \in Webhook, NEW pc, NEW t, NEW k, Goes(w, pc, t, k),
           pc \in {"revoke", "upgrade"} => k # None /\ licenses[k].sub = hook[w].event.sub,
           UNCHANGED <<stripe, licenses, shown, applied, revoked, day, commands>>,
           disturbed' \subseteq Sub, failures' \in 0 .. MaxFailures
    PROVE  TypeOK'
<1>1. hook' \in [Webhook -> {Rest} \cup Work(Len(licenses))]
  BY DEF TypeOK, Goes
<1>2. \A v \in Webhook : hook'[v].pc \in {"revoke", "upgrade"} =>
          hook'[v].row # None /\ licenses[hook'[v].row].sub = hook'[v].event.sub
  BY DEF TypeOK, Goes
<1> QED
  BY <1>1, <1>2 DEF TypeOK, stripe

LEMMA WebhookTypes ==
    ASSUME TypeOK, NEW w \in Webhook, hook[w] # Rest,
           \/ AskStripe(w) \/ AskStripeFails(w)
           \/ LookupCheckout(w) \/ LookupCheckoutFails(w) \/ CreateLicense(w)
           \/ LookupChange(w) \/ LookupChangeFails(w) \/ Revoke(w) \/ Upgrade(w) \/ WriteFails(w)
    PROVE  TypeOK'
<1>0. /\ hook \in [Webhook -> {Rest} \cup Work(Len(licenses))]
      /\ hook[w] \in Work(Len(licenses))
      /\ licenses \in Seq(License) /\ Len(licenses) \in Nat /\ Len(licenses) <= MaxIssued
  BY DEF TypeOK
<1>1. hook[w].event \in Event /\ hook[w].tier \in Tier /\ hook[w].event.sub \in Sub
  BY <1>0, WorkFields
\* The webhook answers, and the table keeps its rows or gets one more.
<1>2. ASSUME hook' = [hook EXCEPT ![w] = Rest],
             licenses' \in Seq(License), Len(licenses') \in Len(licenses) .. MaxIssued,
             \A k \in 1 .. Len(licenses) : licenses'[k].sub = licenses[k].sub,
             events' \subseteq Event, applied' \in [Sub -> Nat],
             disturbed' \subseteq Sub, revoked' \subseteq Sub,
             UNCHANGED <<subscription, shown, day, commands>>, failures' \in 0 .. MaxFailures
      PROVE  TypeOK'
  <2>1. hook' \in [Webhook -> {Rest} \cup Work(Len(licenses'))]
    <3>1. \A v \in Webhook : hook[v] \in {Rest} \cup Work(Len(licenses'))
      BY <1>0, <1>2, WorkFields
    <3> QED
      BY <1>0, <1>2, <3>1
  <2>2. \A v \in Webhook : hook'[v].pc \in {"revoke", "upgrade"} =>
            hook'[v].row # None /\ licenses'[hook'[v].row].sub = hook'[v].event.sub
    <3> TAKE v \in Webhook
    <3>1. CASE v = w
      BY <1>0, <1>2, <3>1, RestPc
    <3>2. CASE v # w /\ hook[v].pc \in {"revoke", "upgrade"}
      <4>1. hook'[v] = hook[v]
        BY <1>0, <1>2, <3>2
      <4>2. hook[v].row \in 1 .. Len(licenses) /\ licenses[hook[v].row].sub = hook[v].event.sub
        <5>1. hook[v] \in Work(Len(licenses))
          BY <1>0, <3>2, RestPc
        <5> QED
          BY <1>0, <3>2, <5>1, WorkFields DEF TypeOK, None
      <4> QED
        BY <1>2, <4>1, <4>2 DEF None
    <3> QED
      BY <1>0, <1>2, <3>1, <3>2
  <2> QED
    BY <1>2, <2>1, <2>2 DEF TypeOK
<1>3. failures \in 0 .. MaxFailures /\ (MayFail => failures' \in 0 .. MaxFailures)
  BY ServerBounds DEF TypeOK, MayFail
<1>4. UNCHANGED licenses => /\ licenses' \in Seq(License)
                            /\ Len(licenses') \in Len(licenses) .. MaxIssued
                            /\ \A k \in 1 .. Len(licenses) : licenses'[k].sub = licenses[k].sub
  BY <1>0, ServerBounds
<1>5. hook[w].row \in 0 .. Len(licenses)
  BY <1>0, WorkFields
<1>6. CASE AskStripe(w)
  <2>1. disturbed' \subseteq Sub /\ failures' \in 0 .. MaxFailures
    BY <1>3, <1>6 DEF AskStripe, TypeOK, serverHistory
  <2>2. UNCHANGED <<stripe, licenses, shown, applied, revoked, day, commands>>
    BY <1>6 DEF AskStripe, serverHistory
  <2> QED
    BY <1>6, <2>1, <2>2, ContinueIs, GoesTypes
<1>7. CASE AskStripeFails(w)
  BY <1>2, <1>3, <1>4, <1>7 DEF AskStripeFails, TypeOK, stripe, serverHistory
<1>8. CASE LookupCheckout(w)
  <2>1. CASE Answer(w) /\ Note(w, FALSE) /\ UNCHANGED <<licenses, revoked, failures>>
    BY <1>2, <1>3, <1>4, <2>1, AnswerTypes DEF TypeOK
  <2>2. CASE Continue(w, "create", None) /\ UNCHANGED failures
    <3>1. disturbed' \subseteq Sub /\ failures' \in 0 .. MaxFailures
      BY <1>3, <2>2 DEF Continue, TypeOK, serverHistory
    <3>2. UNCHANGED <<stripe, licenses, shown, applied, revoked, day, commands>>
      BY <2>2 DEF Continue, serverHistory
    <3>3. None \in 0 .. Len(licenses)
      BY <1>0 DEF None
    <3> QED
      BY <2>2, <3>1, <3>2, <3>3, ContinueIs, GoesTypes
  <2> QED
    BY <1>8, <2>1, <2>2 DEF LookupCheckout
<1>9. CASE LookupCheckoutFails(w)
  <2>1. disturbed' \subseteq Sub /\ failures' \in 0 .. MaxFailures
    BY <1>1, <1>3, <1>9 DEF LookupCheckoutFails, TypeOK
  <2>2. UNCHANGED <<stripe, licenses, shown, applied, revoked, day, commands>>
    BY <1>9 DEF LookupCheckoutFails
  <2> QED
    BY <1>9, <2>1, <2>2, ContinueIs, GoesTypes
<1>10. CASE CreateLicense(w)
  <2>1. NewLicense(hook[w].event.sub, hook[w].tier, Never) \in License
    BY <1>1, ServerBounds DEF NewLicense, License, Never
  <2>2. /\ licenses' \in Seq(License) /\ Len(licenses') \in Len(licenses) .. MaxIssued
        /\ \A k \in 1 .. Len(licenses) : licenses'[k].sub = licenses[k].sub
    BY <1>0, <1>10, <2>1, AppendTypes, ServerBounds DEF CreateLicense
  <2> QED
    BY <1>2, <1>3, <1>10, <2>2, AnswerTypes DEF CreateLicense, TypeOK
<1>11. CASE LookupChange(w)
  <2> DEFINE k == FirstRow(hook[w].event.sub)
  <2>1. CASE Answer(w) /\ Note(w, k = None) /\ UNCHANGED <<licenses, revoked, failures>>
    BY <1>2, <1>3, <1>4, <2>1, AnswerTypes DEF TypeOK
  <2>2. ASSUME NEW pc \in {"revoke", "upgrade"}, k # None, Continue(w, pc, k), UNCHANGED failures
        PROVE  TypeOK'
    <3> HIDE DEF k
    <3>1. k \in 0 .. Len(licenses) /\ licenses[k].sub = hook[w].event.sub
      BY <1>0, <2>2, FirstRowIs DEF RowsOf, k
    <3>2. disturbed' \subseteq Sub /\ failures' \in 0 .. MaxFailures
      BY <1>3, <2>2 DEF Continue, TypeOK, serverHistory
    <3>3. UNCHANGED <<stripe, licenses, shown, applied, revoked, day, commands>>
      BY <2>2 DEF Continue, serverHistory
    <3> QED
      BY <2>2, <3>1, <3>2, <3>3, ContinueIs, GoesTypes
  <2> QED
    BY <1>11, <2>1, <2>2 DEF LookupChange
<1>12. CASE LookupChangeFails(w) \/ WriteFails(w)
  BY <1>2, <1>3, <1>4, <1>12, AnswerTypes DEF LookupChangeFails, WriteFails, TypeOK
<1>13. CASE Revoke(w)
  <2>1. hook[w].row \in 1 .. Len(licenses)
    BY <1>5, <1>13 DEF Revoke, TypeOK, None
  <2>2. /\ licenses' \in Seq(License) /\ Len(licenses') \in Len(licenses) .. MaxIssued
        /\ \A k \in 1 .. Len(licenses) : licenses'[k].sub = licenses[k].sub
    BY <1>0, <1>13, <2>1, RevokeTypes, ServerBounds DEF Revoke
  <2> QED
    BY <1>1, <1>2, <1>3, <1>13, <2>2, AnswerTypes DEF Revoke, TypeOK
<1>14. CASE Upgrade(w)
  <2>1. hook[w].row \in 1 .. Len(licenses)
    BY <1>5, <1>14 DEF Upgrade, TypeOK, None
  <2>2. /\ licenses' \in Seq(License) /\ Len(licenses') \in Len(licenses) .. MaxIssued
        /\ \A k \in 1 .. Len(licenses) : licenses'[k].sub = licenses[k].sub
    <3>1. hook[w].event.tier \in Tier
      BY <1>0, WorkFields
    <3> QED
      BY <1>0, <1>14, <2>1, <3>1, UpgradeTypes, ServerBounds DEF Upgrade
  <2> QED
    BY <1>2, <1>3, <1>14, <2>2, AnswerTypes DEF Upgrade, TypeOK
<1> QED
  BY <1>6, <1>7, <1>8, <1>9, <1>10, <1>11, <1>12, <1>13, <1>14

\* A webhook request starts, all of them end with the process, and the success page.
LEMMA DeliverTypes ==
    ASSUME TypeOK, NEW w \in Webhook, NEW e \in events, Deliver(w, e)
    PROVE  TypeOK'
<1> DEFINE pc == IF e.kind = "checkout" /\ subscription[e.sub].bare THEN "ask" ELSE "lookup"
           g == [pc |-> pc, event |-> e, tier |-> e.tier, row |-> None]
<1>1. e \in Event /\ e.tier \in Tier
  BY DEF TypeOK, Event
<1>2. pc \in {"ask", "lookup"}
  OBVIOUS
<1>3. hook' = [hook EXCEPT ![w] = g]
  BY DEF Deliver
<1> HIDE DEF pc
<1>4. g \in Work(Len(licenses)) /\ g.pc \notin {"revoke", "upgrade"}
  BY <1>1, <1>2, ServerBounds DEF Work, None, TypeOK
<1> HIDE DEF g
<1>5. hook' \in [Webhook -> {Rest} \cup Work(Len(licenses))]
  BY <1>3, <1>4 DEF TypeOK
<1>6. \A v \in Webhook : hook'[v].pc \in {"revoke", "upgrade"} =>
          hook'[v].row # None /\ licenses[hook'[v].row].sub = hook'[v].event.sub
  BY <1>3, <1>4 DEF TypeOK
<1> QED
  BY <1>5, <1>6 DEF Deliver, TypeOK, stripe, serverHistory

LEMMA KilledTypes == TypeOK /\ ServerKilled => TypeOK'
<1> SUFFICES ASSUME TypeOK, ServerKilled PROVE TypeOK'
  OBVIOUS
<1>1. failures' \in 0 .. MaxFailures
  BY ServerBounds DEF ServerKilled, MayFail, TypeOK
<1>2. /\ hook' \in [Webhook -> {Rest} \cup Work(Len(licenses))]
      /\ \A v \in Webhook : hook'[v].pc \notin {"revoke", "upgrade"}
  BY RestPc DEF ServerKilled
<1> QED
  BY <1>1, <1>2 DEF ServerKilled, TypeOK, stripe, serverHistory

LEMMA SuccessTypes ==
    ASSUME TypeOK, NEW s \in Sub, Success(s)
    PROVE  TypeOK'
<1>1. FirstRow(s) \in 0 .. Len(licenses)
  BY FirstRowIs DEF TypeOK
<1> QED
  BY <1>1 DEF Success, TypeOK, stripe

\* The operator's commands change the table and leave the requests alone.
LEMMA TableTypes ==
    ASSUME TypeOK, licenses' \in Seq(License), Len(licenses') \in Len(licenses) .. MaxIssued,
           \A k \in 1 .. Len(licenses) : licenses'[k].sub = licenses[k].sub,
           commands' \in 0 .. MaxCommands, disturbed' \subseteq Sub,
           UNCHANGED <<stripe, hook, shown, applied, revoked, day, failures>>
    PROVE  TypeOK'
<1>0. Len(licenses) \in Nat /\ Len(licenses') \in Nat
  BY DEF TypeOK
<1>1. hook' \in [Webhook -> {Rest} \cup Work(Len(licenses'))]
  <2>1. \A v \in Webhook : hook[v] \in {Rest} \cup Work(Len(licenses'))
    BY <1>0, WorkFields DEF TypeOK
  <2> QED
    BY <2>1 DEF TypeOK
<1>2. \A v \in Webhook : hook'[v].pc \in {"revoke", "upgrade"} =>
          hook'[v].row # None /\ licenses'[hook'[v].row].sub = hook'[v].event.sub
  <2> SUFFICES ASSUME NEW v \in Webhook, hook[v].pc \in {"revoke", "upgrade"}
               PROVE  hook[v].row # None /\ licenses'[hook[v].row].sub = hook[v].event.sub
    OBVIOUS
  <2>1. hook[v] \in Work(Len(licenses))
    BY RestPc DEF TypeOK
  <2>2. hook[v].row \in 1 .. Len(licenses) /\ licenses[hook[v].row].sub = hook[v].event.sub
    BY <1>0, <2>1, WorkFields DEF TypeOK, None
  <2> QED
    BY <2>2 DEF None
<1> QED
  BY <1>0, <1>1, <1>2 DEF TypeOK, stripe

LEMMA CommandTypes ==
    ASSUME TypeOK,
           \/ \E t \in Tier, e \in (day + 1) .. Never : cmdCreate(t, e)
           \/ \E k \in DOMAIN licenses : cmdRevoke(k) \/ \E t \in Tier : cmdUpgrade(k, t)
    PROVE  TypeOK'
<1>0. licenses \in Seq(License) /\ Len(licenses) \in Nat /\ Len(licenses) <= MaxIssued
  BY DEF TypeOK
<1>1. ASSUME NEW t \in Tier, NEW e \in (day + 1) .. Never, cmdCreate(t, e)
      PROVE  TypeOK'
  <2>1. NewLicense(NoSub, t, e) \in License
    BY ServerBounds DEF NewLicense, License, TypeOK, Never
  <2>2. /\ licenses' \in Seq(License) /\ Len(licenses') \in Len(licenses) .. MaxIssued
        /\ \A k \in 1 .. Len(licenses) : licenses'[k].sub = licenses[k].sub
    BY <1>0, <1>1, <2>1, AppendTypes, ServerBounds DEF cmdCreate
  <2>3. commands' \in 0 .. MaxCommands /\ disturbed' \subseteq Sub
    BY <1>1, ServerBounds, SMTT(30) DEF cmdCreate, serverHistory, TypeOK
  <2> QED
    BY <1>1, <2>2, <2>3, TableTypes DEF cmdCreate, serverHistory
<1>2. ASSUME NEW k \in DOMAIN licenses, Command(k)
      PROVE  /\ commands' \in 0 .. MaxCommands /\ disturbed' \subseteq Sub
             /\ UNCHANGED <<stripe, hook, shown, applied, revoked, day, failures>>
  BY <1>2, ServerBounds DEF Command, TypeOK
<1>3. ASSUME NEW k \in DOMAIN licenses, cmdRevoke(k)
      PROVE  TypeOK'
  <2>1. /\ licenses' \in Seq(License) /\ Len(licenses') \in Len(licenses) .. MaxIssued
        /\ \A i \in 1 .. Len(licenses) : licenses'[i].sub = licenses[i].sub
    BY <1>0, <1>3, RevokeTypes, ServerBounds DEF cmdRevoke
  <2> QED
    BY <1>2, <1>3, <2>1, TableTypes DEF cmdRevoke
<1>4. ASSUME NEW k \in DOMAIN licenses, NEW t \in Tier, cmdUpgrade(k, t)
      PROVE  TypeOK'
  <2>1. /\ licenses' \in Seq(License) /\ Len(licenses') \in Len(licenses) .. MaxIssued
        /\ \A i \in 1 .. Len(licenses) : licenses'[i].sub = licenses[i].sub
    BY <1>0, <1>4, UpgradeTypes, ServerBounds DEF cmdUpgrade
  <2> QED
    BY <1>2, <1>4, <2>1, TableTypes DEF cmdUpgrade
<1> QED
  BY <1>1, <1>3, <1>4

LEMMA TypeNext == TypeOK /\ [ServerNext]_serverVars => TypeOK'
<1> SUFFICES ASSUME TypeOK, [ServerNext]_serverVars PROVE TypeOK'
  OBVIOUS
<1>1. CASE \E s \in Sub, t \in Tier : HandleSubscribe(s, t)
  BY <1>1, StripeTypes
<1>2. CASE \E s \in Sub : Pay(s) \/ ChangePlan(s) \/ Unsubscribe(s) \/ Success(s)
  BY <1>2, StripeTypes, SuccessTypes
<1>3. CASE \E w \in Webhook, e \in events : Deliver(w, e)
  BY <1>3, DeliverTypes
<1>4. CASE \E w \in {v \in Webhook : hook[v] # Rest} :
             (\/ AskStripe(w) \/ AskStripeFails(w)
              \/ LookupCheckout(w) \/ LookupCheckoutFails(w) \/ CreateLicense(w)
              \/ LookupChange(w) \/ LookupChangeFails(w) \/ Revoke(w) \/ Upgrade(w)
              \/ WriteFails(w))
  BY <1>4, WebhookTypes
<1>5. CASE ServerKilled
  BY <1>5, KilledTypes
<1>6. CASE \/ \E t \in Tier, e \in (day + 1) .. Never : cmdCreate(t, e)
           \/ \E k \in DOMAIN licenses : cmdRevoke(k) \/ \E t \in Tier : cmdUpgrade(k, t)
  BY <1>6, CommandTypes
<1>7. CASE UNCHANGED serverVars
  BY <1>7 DEF TypeOK, serverVars
<1> QED
  BY <1>1, <1>2, <1>3, <1>4, <1>5, <1>6, <1>7 DEF ServerNext

\* Every state of the server is a well-formed one; what a webhook is about to revoke or
\* upgrade is a row of the table that belongs to the subscription of its event.
THEOREM ServerTypeCorrect == ServerSpec => []TypeOK
<1>1. ServerInit => TypeOK
  BY TypeInit
<1>2. TypeOK /\ [ServerNext]_serverVars => TypeOK'
  BY TypeNext
<1> QED
  BY <1>1, <1>2, PTL DEF ServerSpec

-----------------------------------------------------------------------------
(* The inductive invariant, one step at a time.                             *)

LEMMA IInvInit == ServerInit => IInv
<1> SUFFICES ASSUME ServerInit PROVE IInv
  OBVIOUS
<1>1. TypeOK
  BY TypeInit
<1>2. \A s \in Sub : RowsOf(s) = {} /\ FirstRow(s) = None
  <2>1. DOMAIN licenses = {}
    BY DEF ServerInit
  <2> QED
    BY <2>1 DEF RowsOf, FirstRow
<1>3. \A s \in Sub : StateOK(s)
  BY DEF ServerInit, StateOK
<1>4. \A s \in Sub : KeyOK(s)
  BY <1>2 DEF ServerInit, KeyOK
<1>5. \A s \in Sub : RowOK(s)
  BY <1>2 DEF ServerInit, RowOK
<1>6. (\A e \in events : EventOK(e)) /\ (\A w \in Webhook : HookOK(w))
  BY DEF ServerInit, HookOK
<1> QED
  BY <1>1, <1>3, <1>4, <1>5, <1>6 DEF IInv

\* The rows of a subscription are left as they are.
KeptRows(s) ==
    /\ RowsOf(s)' = RowsOf(s) /\ FirstRow(s)' = FirstRow(s)
    /\ \A k \in RowsOf(s) : k \in (DOMAIN licenses)' /\ licenses'[k] = licenses[k]

LEMMA SameTable ==
    ASSUME UNCHANGED licenses, NEW s
    PROVE  KeptRows(s)
BY DEF KeptRows, RowsOf, FirstRow

\* A table that grows by one row, of another subscription or of none.
LEMMA OthersKeep ==
    ASSUME licenses \in Seq(License), NEW l \in License, licenses' = Append(licenses, l),
           NEW s, l.sub # s
    PROVE  KeptRows(s)
<1>1. RowsOf(s)' = RowsOf(s)
  BY DEF RowsOf
<1>2. FirstRow(s)' = FirstRow(s)
  BY <1>1 DEF FirstRow
<1>3. \A k \in RowsOf(s) : k \in (DOMAIN licenses)' /\ licenses'[k] = licenses[k]
  BY DEF RowsOf
<1> QED
  BY <1>1, <1>2, <1>3 DEF KeptRows

\* A row that changes keeps its subscription: those of the others stay as they are.
LEMMA ChangeKeeps ==
    ASSUME licenses \in Seq(License), licenses' \in Seq(License), Len(licenses') = Len(licenses),
           \A i \in 1 .. Len(licenses) : licenses'[i].sub = licenses[i].sub,
           NEW k \in 1 .. Len(licenses),
           \A i \in 1 .. Len(licenses) : i # k => licenses'[i] = licenses[i],
           NEW s
    PROVE  /\ RowsOf(s)' = RowsOf(s) /\ FirstRow(s)' = FirstRow(s)
           /\ (DOMAIN licenses)' = DOMAIN licenses
           /\ licenses[k].sub # s => KeptRows(s)
<1>1. (DOMAIN licenses)' = DOMAIN licenses /\ DOMAIN licenses = 1 .. Len(licenses)
  OBVIOUS
<1>2. RowsOf(s)' = RowsOf(s)
  BY <1>1 DEF RowsOf
<1>3. FirstRow(s)' = FirstRow(s)
  BY <1>2 DEF FirstRow
<1>4. licenses[k].sub # s => \A i \in RowsOf(s) : i \in DOMAIN licenses /\ licenses'[i] = licenses[i]
  BY <1>1 DEF RowsOf
<1> QED
  BY <1>1, <1>2, <1>3, <1>4 DEF KeptRows

LEMMA KeyStays ==
    ASSUME licenses \in Seq(License), NEW s \in Sub, KeyOK(s), KeptRows(s), UNCHANGED shown,
           s \in revoked' => s \in revoked
    PROVE  KeyOK(s)'
<1>1. FirstRow(s) # None => FirstRow(s) \in RowsOf(s)
  BY FirstRowIs
<1> QED
  BY <1>1 DEF KeyOK, KeptRows

LEMMA RowStays ==
    ASSUME TypeOK, NEW s \in Sub, RowOK(s), KeptRows(s),
           subscription'[s] = subscription[s], applied'[s] = applied[s],
           s \in disturbed => s \in disturbed',
           \A i : i \in Seqs(s) /\ i > applied[s] => i \in Seqs(s)'
    PROVE  RowOK(s)'
<1>1. \A i \in (applied[s] + 1) .. subscription[s].seq : i \in Seqs(s)
  BY DEF RowOK
<1>2. \A i \in (applied'[s] + 1) .. subscription'[s].seq : i \in Seqs(s)'
  <2>1. applied[s] \in Nat /\ subscription[s].seq \in Nat
    BY DEF TypeOK
  <2> QED
    BY <1>1, <2>1
<1>3. RowsOf(s)' = RowsOf(s) /\ \A k \in RowsOf(s) : k \in (DOMAIN licenses)' /\ licenses'[k] = licenses[k]
  BY DEF KeptRows
<1>4. ASSUME s \notin disturbed, applied[s] > 0
      PROVE  \E k \in (DOMAIN licenses)' :
              /\ RowsOf(s)' = {k} /\ licenses'[k].expires = Never
              /\ subscription'[s].state = "active" => licenses'[k].active
              /\ applied'[s] = subscription'[s].seq =>
                    IF subscription'[s].state = "deleted" THEN ~ licenses'[k].active
                    ELSE licenses'[k].tier = subscription'[s].tier
  BY <1>3, <1>4 DEF RowOK
<1> QED
  BY <1>2, <1>3, <1>4 DEF RowOK

LEMMA EventFields ==
    ASSUME NEW kind \in Kind, NEW s \in Sub, NEW t \in Tier, NEW n \in Nat
    PROVE  LET e == [kind |-> kind, sub |-> s, tier |-> t, seq |-> n] IN
           e \in Event /\ e.kind = kind /\ e.sub = s /\ e.tier = t /\ e.seq = n
BY DEF Event

\* An action of Stripe numbers a new event and leaves the table and the requests alone.
LEMMA StripeStep ==
    ASSUME IInv, TypeOK', NEW s \in Sub,
           \/ \E t \in Tier : HandleSubscribe(s, t)
           \/ Pay(s) \/ ChangePlan(s) \/ Unsubscribe(s)
    PROVE  IInv'
<1> DEFINE c == subscription[s]
           d == subscription'[s]
<1>1. /\ TypeOK
      /\ \A r \in Sub : StateOK(r) /\ KeyOK(r) /\ RowOK(r)
      /\ \A e \in events : EventOK(e)
      /\ \A w \in Webhook : HookOK(w)
  BY DEF IInv
<1>2. /\ c.seq \in Nat /\ applied[s] \in Nat /\ applied[s] <= c.seq
      /\ c.state \in {"none", "checkout"} <=> c.seq = 0
      /\ c.state = "deleted" => c.seq > 1
      /\ c.state \in {"none", "checkout", "active", "deleted"}
  BY <1>1 DEF TypeOK, StateOK
<1>3. UNCHANGED <<licenses, hook, shown, applied, disturbed, revoked>>
  BY DEF HandleSubscribe, checkoutHandler, CreateCheckoutSession, Pay, ChangePlan, Unsubscribe,
         Happens, serverHistory
<1>4. \A r \in Sub \ {s} : subscription'[r] = subscription[r]
  BY <1>1 DEF HandleSubscribe, checkoutHandler, CreateCheckoutSession, Pay, ChangePlan,
              Unsubscribe, Happens, TypeOK
<1>5. \A r : KeptRows(r)
  BY <1>3, SameTable
\* Either nothing happened that Stripe tells us of, or there is one more event.
<1>6. \/ events' = events /\ c.seq = 0 /\ d.seq = 0 /\ d.state = "checkout"
      \/ \E e \in Event :
            /\ events' = events \cup {e} /\ e.sub = s /\ e.seq = c.seq + 1
            /\ d.seq = c.seq + 1 /\ d.tier = e.tier /\ c.state # "deleted"
            /\ e.kind = "checkout" <=> c.seq = 0
            /\ IF e.kind = "deleted" THEN d.state = "deleted" ELSE d.state = "active"
            /\ e.kind # "checkout" => c.state = "active"
  <2>1. CASE \E t \in Tier : HandleSubscribe(s, t)
    <3>1. PICK t \in Tier : HandleSubscribe(s, t)
      BY <2>1
    <3>2. events' = events /\ c.state = "none"
      BY <3>1 DEF HandleSubscribe, checkoutHandler, CreateCheckoutSession
    <3>3. d = [c EXCEPT !.state = "checkout", !.tier = t]
      BY <1>1, <3>1 DEF HandleSubscribe, checkoutHandler, CreateCheckoutSession, TypeOK
    <3>4. d.state = "checkout" /\ d.seq = c.seq
      BY <1>1, <3>3 DEF TypeOK
    <3> QED
      BY <1>2, <3>2, <3>4
  <2>2. ASSUME NEW state \in {"active", "deleted"}, NEW kind \in Kind, NEW t \in Tier,
               Happens(s, state, t, kind)
        PROVE  \E e \in Event :
                  /\ events' = events \cup {e} /\ e.sub = s /\ e.seq = c.seq + 1
                  /\ e.tier = t /\ e.kind = kind
                  /\ d.seq = c.seq + 1 /\ d.tier = t /\ d.state = state
    <3> DEFINE e == [kind |-> kind, sub |-> s, tier |-> t, seq |-> c.seq + 1]
    <3>1. c.seq + 1 \in Nat
      BY <1>2
    <3>2. e \in Event /\ e.kind = kind /\ e.sub = s /\ e.tier = t /\ e.seq = c.seq + 1
      BY <3>1, EventFields
    <3>3. events' = events \cup {e}
      BY <2>2 DEF Happens
    <3>4. d.seq = c.seq + 1 /\ d.tier = t /\ d.state = state
      BY <1>1, <2>2 DEF Happens, TypeOK
    <3> QED
      BY <3>2, <3>3, <3>4
  <2>3. CASE Pay(s)
    <3>1. c.state \in {"none", "checkout"} /\ Happens(s, "active", c.tier, "checkout")
            /\ c.tier \in Tier
      BY <1>1, <2>3 DEF Pay, TypeOK
    <3>2. "checkout" \in Kind
      BY DEF Kind
    <3> QED
      BY <1>2, <2>2, <3>1, <3>2
  <2>4. CASE ChangePlan(s)
    <3>1. PICK t \in Tier : c.state = "active" /\ Happens(s, "active", t, "updated")
      BY <2>4 DEF ChangePlan
    <3>2. "updated" \in Kind
      BY DEF Kind
    <3> QED
      BY <1>2, <2>2, <3>1, <3>2
  <2>5. CASE Unsubscribe(s)
    <3>1. c.state = "active" /\ Happens(s, "deleted", c.tier, "deleted") /\ c.tier \in Tier
      BY <1>1, <2>5 DEF Unsubscribe, TypeOK
    <3>2. "deleted" \in Kind
      BY DEF Kind
    <3> QED
      BY <1>2, <2>2, <3>1, <3>2
  <2> QED
    BY <2>1, <2>3, <2>4, <2>5
<1> HIDE DEF c, d
<1>7. \A r \in Sub : StateOK(r)'
  <2>1. StateOK(s)'
    BY <1>2, <1>3, <1>6 DEF StateOK, d, c
  <2> QED
    BY <1>1, <1>3, <1>4, <2>1 DEF StateOK
<1>8. \A r \in Sub : KeyOK(r)'
  BY <1>1, <1>3, <1>5, KeyStays DEF TypeOK
\* An earlier event stays what it was: it is no longer the last one.
<1>9. ASSUME NEW e \in Event, EventOK(e)
      PROVE  EventOK(e)' /\ (e.sub = s => d.seq > 1 /\ c.seq > 0)
  <2>1. CASE e.sub # s
    <3>1. e.sub \in Sub
      BY DEF Event
    <3> QED
      BY <1>4, <1>9, <2>1, <3>1 DEF EventOK
  <2>2. CASE e.sub = s
    <3>1. 0 < e.seq /\ e.seq <= c.seq /\ e.seq \in Nat
      BY <1>9, <2>2 DEF EventOK, c, Event
    <3>2. c.seq > 0 /\ d.seq = c.seq + 1 /\ c.state # "deleted"
      BY <1>2, <1>6, <3>1
    <3>3. e.kind # "deleted" /\ (e.kind = "checkout" <=> e.seq = 1)
      BY <1>9, <2>2, <3>2 DEF EventOK, c
    <3>4. e.seq # d.seq /\ e.seq <= d.seq /\ d.seq > 1
      BY <1>2, <3>1, <3>2
    <3> QED
      BY <2>2, <3>1, <3>2, <3>3, <3>4 DEF EventOK, d
  <2> QED
    BY <2>1, <2>2
<1>10. \A e \in events' : EventOK(e)'
  <2>1. \A e \in events : e \in Event /\ EventOK(e)'
    BY <1>1, <1>9 DEF TypeOK
  <2>2. ASSUME NEW e \in Event, e.sub = s, e.seq = c.seq + 1,
               d.seq = c.seq + 1, d.tier = e.tier, e.kind = "checkout" <=> c.seq = 0,
               IF e.kind = "deleted" THEN d.state = "deleted" ELSE d.state = "active"
        PROVE  EventOK(e)'
    BY <1>2, <2>2 DEF EventOK, d
  <2> QED
    BY <1>6, <2>1, <2>2
<1>11. \A w \in Webhook : HookOK(w)'
  <2> SUFFICES ASSUME NEW w \in Webhook, hook[w] # Rest PROVE HookOK(w)'
    BY <1>3 DEF HookOK
  <2> DEFINE e == hook[w].event
  <2>1. e \in Event /\ e.sub \in Sub
    BY <1>1, HookIsAbout
  <2>2. EventOK(e)
    BY <1>1 DEF HookOK
  <2>3. EventOK(e)' /\ (e.sub = s => d.seq > 1)
    <3> HIDE DEF e
    <3>1. \A f \in Event : EventOK(f) => EventOK(f)' /\ (f.sub = s => d.seq > 1)
      BY <1>9
    <3>2. e' = e
      BY <1>3 DEF e
    <3> QED
      BY <2>1, <2>2, <3>1, <3>2
  <2> QED
    BY <1>1, <1>3, <1>4, <1>5, <2>1, <2>3 DEF HookOK, d, KeptRows
<1>12. \A r \in Sub : RowOK(r)'
  <2>1. \A r : Seqs(r) \subseteq Seqs(r)'
    <3>1. events \subseteq events'
      BY <1>6
    <3> QED
      BY <3>1 DEF Seqs
  <2>2. \A r \in Sub \ {s} : RowOK(r)'
    BY <1>1, <1>3, <1>4, <1>5, <2>1, RowStays
  <2>3. RowOK(s)'
    <3>1. \A i \in (applied[s] + 1) .. d.seq : i \in Seqs(s)'
      <4> TAKE i \in (applied[s] + 1) .. d.seq
      <4>1. CASE i <= c.seq
        <5>1. i \in (applied[s] + 1) .. c.seq
          BY <1>2, <4>1
        <5> QED
          BY <1>1, <2>1, <5>1 DEF RowOK, c
      <4>2. CASE ~ (i <= c.seq)
        <5>1. i = c.seq + 1 /\ d.seq # 0
          BY <1>2, <1>6, <4>2
        <5>2. PICK f \in events' : f.sub = s /\ f.seq = i
          BY <1>6, <5>1
        <5> QED
          BY <5>2 DEF Seqs
      <4> QED
        BY <4>1, <4>2
    <3>2. s \notin disturbed' => disturbed' = disturbed
      BY <1>3
    <3>3. applied[s] # d.seq \/ applied[s] = 0
      BY <1>2, <1>6
    <3>4. ASSUME s \notin disturbed, applied[s] > 0
          PROVE  \E k \in DOMAIN licenses :
                   /\ RowsOf(s) = {k} /\ licenses[k].expires = Never
                   /\ d.state = "active" => licenses[k].active
      <4>1. PICK k \in DOMAIN licenses :
                   /\ RowsOf(s) = {k} /\ licenses[k].expires = Never
                   /\ c.state = "active" => licenses[k].active
        BY <1>1, <3>4 DEF RowOK, c
      <4>2. c.seq # 0
        BY <1>2, <3>4
      <4>3. d.state = "active" => c.state = "active"
        BY <1>6, <1>2, <4>2
      <4> QED
        BY <4>1, <4>3
    <3>5. s \notin disturbed /\ applied[s] = 0 => RowsOf(s) = {}
      BY <1>1 DEF RowOK
    <3>6. RowsOf(s)' = RowsOf(s)
      BY <1>5 DEF KeptRows
    <3>7. ASSUME s \notin disturbed', applied'[s] > 0
          PROVE  \E k \in (DOMAIN licenses)' :
                   /\ RowsOf(s)' = {k} /\ licenses'[k].expires = Never
                   /\ d.state = "active" => licenses'[k].active
                   /\ applied'[s] # d.seq
      <4>1. applied[s] # d.seq
        BY <1>2, <1>3, <3>3, <3>7
      <4> QED
        BY <1>3, <3>4, <3>6, <3>7, <4>1
    <3> QED
      BY <1>3, <3>1, <3>5, <3>6, <3>7 DEF RowOK, d
  <2> QED
    BY <2>2, <2>3
<1> QED
  BY <1>7, <1>8, <1>10, <1>11, <1>12 DEF IInv

\* What an event says does not change while Stripe does nothing.
LEMMA EventStays ==
    ASSUME UNCHANGED subscription, NEW e
    PROVE  EventOK(e)' <=> EventOK(e)
BY DEF EventOK

\* A request that is not touched still has what it looked up, if the first rows are
\* what they were and no row comes up behind one that is about to create.
LEMMA HookStays ==
    ASSUME UNCHANGED subscription, NEW w \in Webhook, HookOK(w), hook'[w] = hook[w],
           NEW e, e = hook[w].event,
           FirstRow(e.sub) # None => FirstRow(e.sub)' = FirstRow(e.sub),
           hook[w] # Rest /\ hook[w].pc = "create" /\ e.sub \notin disturbed' =>
              e.sub \notin disturbed /\ RowsOf(e.sub)' = RowsOf(e.sub)
    PROVE  HookOK(w)'
<1> SUFFICES ASSUME hook[w] # Rest PROVE HookOK(w)'
  BY DEF HookOK
<1> DEFINE h == hook[w]
<1>1. /\ EventOK(e)
      /\ h.pc \in {"ask", "create"} => e.kind = "checkout"
      /\ h.pc = "revoke" => e.kind = "deleted"
      /\ h.pc = "upgrade" => e.kind = "updated"
      /\ h.pc \in {"revoke", "upgrade"} => h.row = FirstRow(e.sub) /\ h.row # None
      /\ e.kind = "checkout" /\ subscription[e.sub].seq = 1 => h.tier = subscription[e.sub].tier
      /\ h.pc = "create" /\ e.sub \notin disturbed => RowsOf(e.sub) = {}
  BY DEF HookOK
<1>2. EventOK(e)'
  BY <1>1, EventStays
<1>3. h.pc \in {"revoke", "upgrade"} => h.row = FirstRow(e.sub)'
  BY <1>1
<1>4. h.pc = "create" /\ e.sub \notin disturbed' => RowsOf(e.sub)' = {}
  BY <1>1
<1>5. hook'[w] = h /\ h.event = e
  OBVIOUS
<1> QED
  BY <1>1, <1>2, <1>3, <1>4, <1>5 DEF HookOK

\* Only the requests change.
LEMMA OnlyHooks ==
    ASSUME IInv, TypeOK', UNCHANGED <<subscription, events, licenses, shown, applied, revoked>>,
           disturbed \subseteq disturbed', \A w \in Webhook : HookOK(w)'
    PROVE  IInv'
<1>1. /\ TypeOK
      /\ \A s \in Sub : StateOK(s) /\ KeyOK(s) /\ RowOK(s)
      /\ \A e \in events : EventOK(e)
  BY DEF IInv
<1>2. \A s \in Sub : StateOK(s)'
  BY <1>1 DEF StateOK
<1>3. \A s \in Sub : KeyOK(s)'
  BY <1>1, SameTable, KeyStays DEF TypeOK
<1>4. \A s : Seqs(s)' = Seqs(s)
  BY DEF Seqs
<1>5. \A s \in Sub : RowOK(s)'
  BY <1>1, <1>4, SameTable, RowStays
<1>6. \A e \in events' : EventOK(e)'
  BY <1>1, EventStays
<1> QED
  BY <1>2, <1>3, <1>5, <1>6 DEF IInv

LEMMA DeliverStep ==
    ASSUME IInv, TypeOK', NEW w \in Webhook, NEW e \in events, Deliver(w, e)
    PROVE  IInv'
<1> DEFINE pc == IF e.kind = "checkout" /\ subscription[e.sub].bare THEN "ask" ELSE "lookup"
           g == [pc |-> pc, event |-> e, tier |-> e.tier, row |-> None]
<1>1. EventOK(e) /\ TypeOK /\ e \in Event /\ e.sub \in Sub /\ \A v \in Webhook : HookOK(v)
  BY DEF IInv, TypeOK, Event
<1>2. pc \in {"ask", "lookup"} /\ (pc = "ask" => e.kind = "checkout")
  OBVIOUS
<1>3. hook' = [hook EXCEPT ![w] = g]
  BY DEF Deliver
<1>4. UNCHANGED <<subscription, events, licenses, shown, applied, revoked, disturbed>>
  BY DEF Deliver, stripe, serverHistory
<1> HIDE DEF pc
<1>5. g.pc = pc /\ g.event = e /\ g.tier = e.tier
  OBVIOUS
<1> HIDE DEF g
<1>6. hook'[w] = g /\ \A v \in Webhook \ {w} : hook'[v] = hook[v]
  BY <1>1, <1>3 DEF TypeOK
<1>7. EventOK(e)'
  BY <1>1, <1>4, EventStays
<1>8. e.kind = "checkout" /\ subscription[e.sub].seq = 1 => e.tier = subscription[e.sub].tier
  BY <1>1 DEF EventOK
<1>9. HookOK(w)'
  BY <1>2, <1>4, <1>5, <1>6, <1>7, <1>8 DEF HookOK
<1>10. \A v \in Webhook \ {w} : HookOK(v)'
  <2> TAKE v \in Webhook \ {w}
  <2>1. KeptRows(hook[v].event.sub)
    BY <1>4, SameTable
  <2> QED
    BY <1>1, <1>4, <1>6, <2>1, HookStays DEF KeptRows
<1> QED
  BY <1>4, <1>9, <1>10, OnlyHooks

LEMMA KilledStep == IInv /\ TypeOK' /\ ServerKilled => IInv'
<1> SUFFICES ASSUME IInv, TypeOK', ServerKilled PROVE IInv'
  OBVIOUS
<1>1. UNCHANGED <<subscription, events, licenses, shown, applied, revoked, disturbed>>
  BY DEF ServerKilled, stripe, serverHistory
<1>2. \A w \in Webhook : HookOK(w)'
  BY DEF ServerKilled, HookOK
<1> QED
  BY <1>1, <1>2, OnlyHooks

LEMMA SuccessStep ==
    ASSUME IInv, TypeOK', NEW s \in Sub, Success(s)
    PROVE  IInv'
<1>1. /\ TypeOK
      /\ \A r \in Sub : StateOK(r) /\ KeyOK(r) /\ RowOK(r)
      /\ \A e \in events : EventOK(e)
      /\ \A w \in Webhook : HookOK(w)
  BY DEF IInv
<1>2. UNCHANGED <<subscription, events, licenses, hook, applied, disturbed, revoked>>
  BY DEF Success, stripe
<1>3. \A r : KeptRows(r) /\ Seqs(r)' = Seqs(r)
  BY <1>2, SameTable DEF Seqs
<1>4. \A r \in Sub : StateOK(r)' /\ RowOK(r)'
  BY <1>1, <1>2, <1>3, RowStays DEF StateOK
<1>5. \A r \in Sub : KeyOK(r)'
  <2>1. \A r \in Sub \ {s} : shown'[r] = shown[r]
    BY <1>1 DEF Success, TypeOK
  <2>2. shown'[s] = FirstRow(s)
    BY <1>1 DEF Success, TypeOK
  <2>3. \A r \in Sub \ {s} : KeyOK(r)'
    BY <1>1, <1>2, <1>3, <2>1 DEF KeyOK, KeptRows
  <2>4. KeyOK(s)'
    BY <1>1, <1>2, <1>3, <2>2 DEF KeyOK, KeptRows
  <2> QED
    BY <2>3, <2>4
<1>6. \A e \in events' : EventOK(e)'
  BY <1>1, <1>2, EventStays
<1>7. \A w \in Webhook : HookOK(w)'
  BY <1>1, <1>2, <1>3, HookStays DEF KeptRows
<1> QED
  BY <1>4, <1>5, <1>6, <1>7 DEF IInv

\* A request goes on with what it has read, which holds as long as it does not answer.
LEMMA GoesStep ==
    ASSUME IInv, TypeOK', NEW w \in Webhook, hook[w] # Rest, NEW pc, NEW t, NEW k,
           Goes(w, pc, t, k), NEW e, e = hook[w].event,
           UNCHANGED <<stripe, licenses, shown, applied, revoked>>, disturbed \subseteq disturbed',
           pc \in {"ask", "create"} => e.kind = "checkout",
           pc = "revoke" => e.kind = "deleted",
           pc = "upgrade" => e.kind = "updated",
           pc \in {"revoke", "upgrade"} => k = FirstRow(e.sub) /\ k # None,
           t \in {hook[w].tier, subscription[e.sub].tier},
           pc = "create" /\ e.sub \notin disturbed' => RowsOf(e.sub) = {}
    PROVE  IInv'
<1>1. \A v \in Webhook : HookOK(v)
  BY DEF IInv
<1>2. UNCHANGED <<subscription, events, licenses, shown, applied, revoked>>
  BY DEF stripe
<1>3. \A r : KeptRows(r)
  BY SameTable
<1>4. EventOK(e)' /\ (e.kind = "checkout" /\ subscription[e.sub].seq = 1 =>
                        hook[w].tier = subscription[e.sub].tier)
  BY <1>1, <1>2, EventStays DEF HookOK
<1>5. /\ hook'[w].pc = pc /\ hook'[w].event = e /\ hook'[w].tier = t /\ hook'[w].row = k
      /\ \A v \in Webhook \ {w} : hook'[v] = hook[v]
  BY DEF Goes
<1>6. HookOK(w)'
  BY <1>2, <1>3, <1>4, <1>5 DEF HookOK, KeptRows
<1>7. \A v \in Webhook \ {w} : HookOK(v)'
  <2> TAKE v \in Webhook \ {w}
  <2>1. KeptRows(hook[v].event.sub)
    BY <1>3
  <2> QED
    BY <1>1, <1>2, <1>5, <2>1, HookStays DEF KeptRows
<1> QED
  BY <1>2, <1>6, <1>7, OnlyHooks

\* An answer takes its event off the list, or not, and counts it as applied.
LEMMA AnswerFacts ==
    ASSUME IInv, NEW w \in Webhook, hook[w] # Rest, Answer(w), NEW wrong, Note(w, wrong),
           NEW e, e = hook[w].event
    PROVE  /\ e \in Event /\ e.sub \in Sub /\ EventOK(e)
           /\ \A r \in Sub : StateOK(r)'
           /\ \A f \in events' : EventOK(f)'
           /\ \A r \in Sub \ {e.sub} : applied'[r] = applied[r] /\ Seqs(r) \subseteq Seqs(r)'
           /\ applied'[e.sub] = IF applied[e.sub] >= e.seq THEN applied[e.sub] ELSE e.seq
           /\ \A i \in (applied'[e.sub] + 1) .. subscription[e.sub].seq : i \in Seqs(e.sub)'
           /\ disturbed \subseteq disturbed'
           /\ e.sub \notin disturbed' => ~ wrong /\ ~ Late(e)
           /\ \A v \in Webhook \ {w} : hook'[v] = hook[v]
           /\ hook'[w] = Rest
           /\ UNCHANGED <<subscription, shown>>
<1>1. /\ TypeOK
      /\ \A r \in Sub : StateOK(r) /\ RowOK(r)
      /\ \A f \in events : EventOK(f)
      /\ \A v \in Webhook : HookOK(v)
  BY DEF IInv
<1>2. hook[w] \in Work(Len(licenses)) /\ Len(licenses) \in Nat
  BY <1>1 DEF TypeOK
<1>3. e \in Event /\ e.sub \in Sub /\ e.seq \in Nat
  BY <1>2, WorkFields
<1>4. EventOK(e)
  BY <1>1 DEF HookOK
<1>5. UNCHANGED <<subscription, shown>> /\ hook' = [hook EXCEPT ![w] = Rest]
  BY DEF Answer
<1>6. (\A v \in Webhook \ {w} : hook'[v] = hook[v]) /\ hook'[w] = Rest
  BY <1>1, <1>5 DEF TypeOK
<1>7. applied' = [applied EXCEPT ![e.sub] = Max({applied[e.sub], e.seq})]
  BY DEF Answer
<1>8. applied[e.sub] \in Nat
  BY <1>1, <1>3 DEF TypeOK
<1>9. /\ applied'[e.sub] = IF applied[e.sub] >= e.seq THEN applied[e.sub] ELSE e.seq
      /\ \A r \in Sub \ {e.sub} : applied'[r] = applied[r]
  BY <1>1, <1>3, <1>7, <1>8, MaxOfTwo DEF TypeOK
<1>10. events' \subseteq events /\ \A f \in events : f = e \/ f \in events'
  BY DEF Answer
<1>11. \A r \in Sub : StateOK(r)'
  <2>1. e.seq <= subscription[e.sub].seq
    BY <1>4 DEF EventOK
  <2>2. \A r \in Sub : applied'[r] <= subscription[r].seq
    BY <1>1, <1>9, <2>1 DEF StateOK
  <2> QED
    BY <1>1, <1>5, <2>2 DEF StateOK
<1>12. \A f \in events' : EventOK(f)'
  BY <1>1, <1>5, <1>10, EventStays
<1>13. \A r \in Sub \ {e.sub} : Seqs(r) \subseteq Seqs(r)'
  BY <1>10 DEF Seqs
<1>14. \A i \in (applied'[e.sub] + 1) .. subscription[e.sub].seq : i \in Seqs(e.sub)'
  <2> TAKE i \in (applied'[e.sub] + 1) .. subscription[e.sub].seq
  <2>1. subscription[e.sub].seq \in Nat
    BY <1>1, <1>3 DEF TypeOK
  <2>2. i \in (applied[e.sub] + 1) .. subscription[e.sub].seq /\ i # e.seq
    BY <1>3, <1>8, <1>9, <2>1
  <2>3. i \in Seqs(e.sub)
    BY <1>1, <1>3, <2>2 DEF RowOK
  <2>4. PICK f \in events : f.sub = e.sub /\ f.seq = i
    BY <2>3 DEF Seqs
  <2>5. f \in events'
    BY <1>10, <2>2, <2>4
  <2> QED
    BY <2>4, <2>5 DEF Seqs
<1>15. disturbed \subseteq disturbed' /\ (e.sub \notin disturbed' => ~ wrong /\ ~ Late(e))
  BY DEF Note
<1> QED
  BY <1>3, <1>4, <1>5, <1>6, <1>9, <1>11, <1>12, <1>13, <1>14, <1>15

\* What is left to show of an action that answers: the rows of the event's own subscription,
\* and what the other requests have looked up of them.
LEMMA AnswerStep ==
    ASSUME IInv, TypeOK', NEW w \in Webhook, hook[w] # Rest, Answer(w), NEW wrong, Note(w, wrong),
           NEW e, e = hook[w].event,
           \A r \in Sub \ {e.sub} : KeptRows(r) /\ (r \in revoked' => r \in revoked),
           KeyOK(e.sub)',
           FirstRow(e.sub) # None => FirstRow(e.sub)' = FirstRow(e.sub),
           \A v \in Webhook \ {w} :
              hook[v] # Rest /\ hook[v].pc = "create" /\ hook[v].event.sub = e.sub =>
                 e.sub \in disturbed' \/ RowsOf(e.sub)' = RowsOf(e.sub),
           e.sub \notin disturbed' =>
              /\ applied'[e.sub] > 0
              /\ \E k \in (DOMAIN licenses)' :
                  /\ RowsOf(e.sub)' = {k} /\ licenses'[k].expires = Never
                  /\ subscription[e.sub].state = "active" => licenses'[k].active
                  /\ applied'[e.sub] = subscription[e.sub].seq =>
                       IF subscription[e.sub].state = "deleted" THEN ~ licenses'[k].active
                       ELSE licenses'[k].tier = subscription[e.sub].tier
    PROVE  IInv'
<1>1. /\ TypeOK
      /\ \A r \in Sub : StateOK(r) /\ KeyOK(r) /\ RowOK(r)
      /\ \A v \in Webhook : HookOK(v)
  BY DEF IInv
<1>2. /\ e \in Event /\ e.sub \in Sub
      /\ \A r \in Sub : StateOK(r)'
      /\ \A f \in events' : EventOK(f)'
      /\ \A r \in Sub \ {e.sub} : applied'[r] = applied[r] /\ Seqs(r) \subseteq Seqs(r)'
      /\ \A i \in (applied'[e.sub] + 1) .. subscription[e.sub].seq : i \in Seqs(e.sub)'
      /\ disturbed \subseteq disturbed'
      /\ \A v \in Webhook \ {w} : hook'[v] = hook[v]
      /\ hook'[w] = Rest
      /\ UNCHANGED <<subscription, shown>>
  BY AnswerFacts
<1>3. \A r \in Sub \ {e.sub} : KeyOK(r)'
  BY <1>1, <1>2, KeyStays DEF TypeOK
<1>4. \A r \in Sub \ {e.sub} : RowOK(r)'
  <2> TAKE r \in Sub \ {e.sub}
  <2>1. \A i : i \in Seqs(r) /\ i > applied[r] => i \in Seqs(r)'
    BY <1>2
  <2>2. r \in disturbed => r \in disturbed'
    BY <1>2
  <2> QED
    BY <1>1, <1>2, <2>1, <2>2, RowStays
<1>5. RowOK(e.sub)'
  <2>1. \A i \in (applied'[e.sub] + 1) .. subscription'[e.sub].seq : i \in Seqs(e.sub)'
    BY <1>2
  <2>2. e.sub \notin disturbed' => ~ (applied'[e.sub] = 0)
    OBVIOUS
  <2>3. ASSUME e.sub \notin disturbed'
        PROVE  \E k \in (DOMAIN licenses)' :
                  /\ RowsOf(e.sub)' = {k} /\ licenses'[k].expires = Never
                  /\ subscription'[e.sub].state = "active" => licenses'[k].active
                  /\ applied'[e.sub] = subscription'[e.sub].seq =>
                       IF subscription'[e.sub].state = "deleted" THEN ~ licenses'[k].active
                       ELSE licenses'[k].tier = subscription'[e.sub].tier
    BY <1>2, <2>3
  <2> QED
    BY <2>1, <2>2, <2>3 DEF RowOK
<1>6. \A v \in Webhook \ {w} : HookOK(v)'
  <2> TAKE v \in Webhook \ {w}
  <2>1. CASE hook[v] = Rest
    BY <1>2, <2>1 DEF HookOK
  <2>2. CASE hook[v] # Rest
    <3>1. PICK f : f = hook[v].event
      OBVIOUS
    <3>2. f.sub \in Sub
      BY <1>1, <2>2, <3>1, HookIsAbout
    <3>3. CASE f.sub = e.sub
      <4>1. FirstRow(f.sub) # None => FirstRow(f.sub)' = FirstRow(f.sub)
        BY <3>3
      <4>2. hook[v].pc = "create" /\ f.sub \notin disturbed' =>
               f.sub \notin disturbed /\ RowsOf(f.sub)' = RowsOf(f.sub)
        BY <1>2, <2>2, <3>1, <3>3
      <4> QED
        BY <1>1, <1>2, <3>1, <4>1, <4>2, HookStays
    <3>4. CASE f.sub # e.sub
      <4>1. KeptRows(f.sub) /\ (f.sub \notin disturbed' => f.sub \notin disturbed)
        BY <1>2, <3>2, <3>4
      <4> QED
        BY <1>1, <1>2, <3>1, <4>1, HookStays DEF KeptRows
    <3> QED
      BY <3>3, <3>4
  <2> QED
    BY <2>1, <2>2
<1>7. HookOK(w)'
  BY <1>2 DEF HookOK
<1> QED
  BY <1>2, <1>3, <1>4, <1>5, <1>6, <1>7 DEF IInv

LEMMA OneRow ==
    ASSUME IInv, NEW s \in Sub, s \notin disturbed, FirstRow(s) # None
    PROVE  /\ applied[s] > 0 /\ RowsOf(s) = {FirstRow(s)} /\ FirstRow(s) \in DOMAIN licenses
           /\ licenses[FirstRow(s)].expires = Never
           /\ subscription[s].state = "active" => licenses[FirstRow(s)].active
           /\ applied[s] = subscription[s].seq =>
                IF subscription[s].state = "deleted" THEN ~ licenses[FirstRow(s)].active
                ELSE licenses[FirstRow(s)].tier = subscription[s].tier
<1>1. FirstRow(s) \in RowsOf(s) /\ RowsOf(s) # {}
  BY FirstRowIs DEF IInv, TypeOK
<1>2. applied[s] > 0
  BY <1>1 DEF IInv, RowOK, TypeOK
<1>3. PICK k \in DOMAIN licenses :
              /\ RowsOf(s) = {k} /\ licenses[k].expires = Never
              /\ subscription[s].state = "active" => licenses[k].active
              /\ applied[s] = subscription[s].seq =>
                    IF subscription[s].state = "deleted" THEN ~ licenses[k].active
                    ELSE licenses[k].tier = subscription[s].tier
  BY <1>2 DEF IInv, RowOK
<1>4. k = FirstRow(s)
  BY <1>1, <1>3
<1> QED
  BY <1>2, <1>3, <1>4

\* What is known of the event of a request that is at work.
LEMMA AtWork ==
    ASSUME IInv, NEW w \in Webhook, hook[w] # Rest, NEW e, e = hook[w].event
    PROVE  /\ e \in Event /\ e.sub \in Sub /\ e.seq \in Nat /\ e.tier \in Tier /\ e.kind \in Kind
           /\ hook[w].tier \in Tier
           /\ EventOK(e) /\ 0 < e.seq /\ e.seq <= subscription[e.sub].seq
           /\ applied[e.sub] \in Nat /\ subscription[e.sub].seq \in Nat
           /\ licenses \in Seq(License) /\ Len(licenses) \in Nat
           /\ KeyOK(e.sub) /\ StateOK(e.sub)
<1>1. hook[w] \in Work(Len(licenses)) /\ licenses \in Seq(License) /\ Len(licenses) \in Nat
  BY DEF IInv, TypeOK
<1>2. /\ e \in Event /\ e.sub \in Sub /\ e.seq \in Nat /\ e.tier \in Tier /\ e.kind \in Kind
      /\ hook[w].tier \in Tier
  BY <1>1, WorkFields
<1>3. EventOK(e)
  BY DEF IInv, HookOK
<1> QED
  BY <1>1, <1>2, <1>3 DEF IInv, TypeOK, EventOK

LEMMA LookupCheckoutStep ==
    ASSUME IInv, TypeOK', NEW w \in Webhook, hook[w] # Rest, LookupCheckout(w)
    PROVE  IInv'
<1>1. PICK e : e = hook[w].event
  OBVIOUS
<1>2. /\ e \in Event /\ e.sub \in Sub /\ e.seq \in Nat /\ EventOK(e) /\ applied[e.sub] \in Nat
      /\ licenses \in Seq(License) /\ Len(licenses) \in Nat /\ KeyOK(e.sub) /\ 0 < e.seq
  BY <1>1, AtWork
<1>3. e.kind = "checkout"
  BY <1>1 DEF LookupCheckout
<1>4. CASE FirstRow(e.sub) # None /\ Answer(w) /\ Note(w, FALSE) /\ UNCHANGED <<licenses, revoked, failures>>
  <2>1. e.seq = 1
    BY <1>2, <1>3 DEF EventOK
  <2>2. \A r : KeptRows(r)
    BY <1>4, SameTable
  <2>3. UNCHANGED <<subscription, shown>> /\ disturbed \subseteq disturbed'
          /\ applied'[e.sub] = IF applied[e.sub] >= e.seq THEN applied[e.sub] ELSE e.seq
    BY <1>1, <1>4, AnswerFacts
  <2>4. KeyOK(e.sub)'
    BY <1>2, <1>4, <2>2, <2>3, KeyStays
  <2>5. ASSUME e.sub \notin disturbed'
        PROVE  /\ applied'[e.sub] > 0
               /\ \E k \in (DOMAIN licenses)' :
                  /\ RowsOf(e.sub)' = {k} /\ licenses'[k].expires = Never
                  /\ subscription[e.sub].state = "active" => licenses'[k].active
                  /\ applied'[e.sub] = subscription[e.sub].seq =>
                       IF subscription[e.sub].state = "deleted" THEN ~ licenses'[k].active
                       ELSE licenses'[k].tier = subscription[e.sub].tier
    <3>1. e.sub \notin disturbed
      BY <2>3, <2>5
    <3>2. applied'[e.sub] = applied[e.sub] /\ applied[e.sub] > 0
      BY <1>2, <1>4, <2>1, <2>3, <3>1, OneRow
    <3>3. RowsOf(e.sub)' = RowsOf(e.sub) /\ licenses' = licenses
      BY <1>4, <2>2 DEF KeptRows
    <3> QED
      BY <1>2, <1>4, <3>1, <3>2, <3>3, OneRow
  <2>6. \A v \in Webhook \ {w} : RowsOf(e.sub)' = RowsOf(e.sub)
    BY <2>2 DEF KeptRows
  <2> QED
    BY <1>1, <1>4, <2>2, <2>4, <2>5, <2>6, AnswerStep DEF KeptRows
<1>5. CASE FirstRow(e.sub) = None /\ Continue(w, "create", None) /\ UNCHANGED failures
  <2>1. Goes(w, "create", hook[w].tier, None)
    <3>1. None \in 0 .. Len(licenses)
      BY <1>2 DEF None
    <3> QED
      BY <1>5, <3>1, ContinueIs DEF IInv
  <2>2. UNCHANGED <<stripe, licenses, shown, applied, revoked>> /\ disturbed \subseteq disturbed'
    BY <1>5 DEF Continue, serverHistory
  <2>3. RowsOf(e.sub) = {}
    BY <1>2, <1>5, FirstRowIs
  <2> QED
    BY <1>1, <1>3, <2>1, <2>2, <2>3, GoesStep
<1> QED
  BY <1>1, <1>4, <1>5 DEF LookupCheckout

\* The read of the table or of the subscription, and what fails before a write.
LEMMA AskStep ==
    ASSUME IInv, TypeOK', NEW w \in Webhook, hook[w] # Rest,
           AskStripe(w) \/ AskStripeFails(w) \/ LookupCheckoutFails(w)
    PROVE  IInv'
<1>1. PICK e : e = hook[w].event
  OBVIOUS
<1>2. CASE AskStripe(w)
  <2>1. Goes(w, "lookup", subscription[e.sub].tier, hook[w].row)
    BY <1>1, <1>2, ContinueIs DEF IInv
  <2>2. UNCHANGED <<stripe, licenses, shown, applied, revoked>> /\ disturbed \subseteq disturbed'
    BY <1>2 DEF AskStripe, serverHistory
  <2> QED
    BY <1>1, <2>1, <2>2, GoesStep
<1>3. CASE AskStripeFails(w)
  <2>1. UNCHANGED <<subscription, events, licenses, shown, applied, revoked, disturbed>>
    BY <1>3 DEF AskStripeFails, stripe, serverHistory
  <2>2. hook'[w] = Rest /\ \A v \in Webhook \ {w} : hook'[v] = hook[v]
    BY <1>3 DEF AskStripeFails, IInv, TypeOK
  <2>3. \A v \in Webhook \ {w} : HookOK(v)'
    <3> TAKE v \in Webhook \ {w}
    <3>1. KeptRows(hook[v].event.sub)
      BY <2>1, SameTable
    <3> QED
      BY <2>1, <2>2, <3>1, HookStays DEF KeptRows, IInv
  <2>4. HookOK(w)'
    BY <2>2 DEF HookOK
  <2> QED
    BY <2>1, <2>3, <2>4, OnlyHooks
<1>4. CASE LookupCheckoutFails(w)
  <2>1. Goes(w, "create", hook[w].tier, hook[w].row)
    BY <1>4, ContinueIs DEF IInv
  <2>2. UNCHANGED <<stripe, licenses, shown, applied, revoked>> /\ disturbed \subseteq disturbed'
          /\ e.sub \in disturbed' /\ e.kind = "checkout"
    BY <1>1, <1>4 DEF LookupCheckoutFails
  <2> QED
    BY <1>1, <2>1, <2>2, GoesStep
<1> QED
  BY <1>2, <1>3, <1>4

LEMMA CreateStep ==
    ASSUME IInv, TypeOK', NEW w \in Webhook, hook[w] # Rest, CreateLicense(w)
    PROVE  IInv'
<1>1. PICK e : e = hook[w].event
  OBVIOUS
<1>2. /\ e \in Event /\ e.sub \in Sub /\ e.seq \in Nat /\ EventOK(e) /\ applied[e.sub] \in Nat
      /\ licenses \in Seq(License) /\ Len(licenses) \in Nat /\ KeyOK(e.sub) /\ 0 < e.seq
      /\ hook[w].tier \in Tier /\ StateOK(e.sub) /\ subscription[e.sub].seq \in Nat
  BY <1>1, AtWork
<1>3. PICK wrong : /\ wrong = \E v \in Webhook \ {w} :
                         hook[v] # Rest /\ hook[v].pc = "create" /\ hook[v].event.sub = e.sub
                   /\ Note(w, wrong)
  BY <1>1 DEF CreateLicense
<1>4. Answer(w) /\ UNCHANGED revoked /\ hook[w].pc = "create"
  BY DEF CreateLicense
<1>5. PICK l : l = NewLicense(e.sub, hook[w].tier, Never)
  OBVIOUS
<1>6. l \in License /\ l.sub = e.sub /\ l.tier = hook[w].tier /\ l.active /\ l.expires = Never
  BY <1>2, <1>5, ServerBounds DEF NewLicense, License, Never
<1>7. licenses' = Append(licenses, l)
  BY <1>1, <1>5 DEF CreateLicense
<1>8. /\ licenses' \in Seq(License) /\ Len(licenses') = Len(licenses) + 1
      /\ licenses'[Len(licenses')] = l
      /\ \A k \in 1 .. Len(licenses) : licenses'[k] = licenses[k]
  BY <1>2, <1>6, <1>7, AppendTypes
<1>9. \A r \in Sub \ {e.sub} : KeptRows(r)
  BY <1>2, <1>6, <1>7, OthersKeep
<1>10. FirstRow(e.sub) # None =>
          FirstRow(e.sub)' = FirstRow(e.sub) /\ FirstRow(e.sub) \in 1 .. Len(licenses)
  <2>1. FirstRow(e.sub) # None => FirstRow(e.sub) \in 1 .. Len(licenses)
    BY <1>2, FirstRowIs DEF None
  <2> QED
    BY <1>2, <1>8, <2>1, FirstRowStays
<1>11. /\ UNCHANGED <<subscription, shown>>
       /\ applied'[e.sub] = IF applied[e.sub] >= e.seq THEN applied[e.sub] ELSE e.seq
       /\ disturbed \subseteq disturbed' /\ (e.sub \notin disturbed' => ~ wrong)
  BY <1>1, <1>3, <1>4, AnswerFacts
<1>12. KeyOK(e.sub)'
  <2>1. shown[e.sub] # None => shown[e.sub] = FirstRow(e.sub)
    BY <1>2 DEF KeyOK
  <2>2. e.sub \in revoked => FirstRow(e.sub) # None /\ ~ licenses[FirstRow(e.sub)].active
    BY <1>2 DEF KeyOK
  <2> QED
    BY <1>4, <1>8, <1>10, <1>11, <2>1, <2>2 DEF KeyOK
<1>13. ASSUME e.sub \notin disturbed'
       PROVE  /\ applied'[e.sub] > 0
              /\ \E k \in (DOMAIN licenses)' :
                  /\ RowsOf(e.sub)' = {k} /\ licenses'[k].expires = Never
                  /\ subscription[e.sub].state = "active" => licenses'[k].active
                  /\ applied'[e.sub] = subscription[e.sub].seq =>
                       IF subscription[e.sub].state = "deleted" THEN ~ licenses'[k].active
                       ELSE licenses'[k].tier = subscription[e.sub].tier
  <2>1. e.sub \notin disturbed
    BY <1>11, <1>13
  <2>2. HookOK(w)
    BY DEF IInv
  <2>3. RowsOf(e.sub) = {} /\ e.kind = "checkout"
          /\ (subscription[e.sub].seq = 1 => hook[w].tier = subscription[e.sub].tier)
    BY <1>1, <1>4, <2>1, <2>2 DEF HookOK
  <2>4. e.seq = 1
    BY <1>2, <2>3 DEF EventOK
  <2>5. applied[e.sub] = 0
    <3>1. RowOK(e.sub)
      BY <1>2 DEF IInv
    <3> QED
      BY <1>2, <2>1, <2>3, <3>1 DEF RowOK
  <2>6. applied'[e.sub] = 1
    BY <1>11, <2>4, <2>5
  <2> DEFINE n == Len(licenses')
  <2>7. RowsOf(e.sub)' = {n} /\ n \in (DOMAIN licenses)'
    <3>1. DOMAIN licenses' = 1 .. (Len(licenses) + 1) /\ n = Len(licenses) + 1
      BY <1>2, <1>8
    <3>2. \A k \in 1 .. Len(licenses) : licenses'[k].sub # e.sub
      BY <1>2, <1>8, <2>3 DEF RowsOf
    <3> QED
      BY <1>2, <1>6, <1>8, <3>1, <3>2 DEF RowsOf
  <2>8. 1 = subscription[e.sub].seq =>
           subscription[e.sub].state # "deleted" /\ l.tier = subscription[e.sub].tier
    BY <1>2, <1>6, <2>3 DEF StateOK
  <2> QED
    BY <1>6, <1>8, <2>6, <2>7, <2>8
<1>14. \A v \in Webhook \ {w} :
         hook[v] # Rest /\ hook[v].pc = "create" /\ hook[v].event.sub = e.sub => e.sub \in disturbed'
  BY <1>3, <1>11
<1>15. Note(w, wrong)
  BY <1>3
<1>16. \A r \in Sub \ {e.sub} : KeptRows(r) /\ (r \in revoked' => r \in revoked)
  BY <1>4, <1>9
<1>17. FirstRow(e.sub) # None => FirstRow(e.sub)' = FirstRow(e.sub)
  BY <1>10
<1>18. \A v \in Webhook \ {w} :
         hook[v] # Rest /\ hook[v].pc = "create" /\ hook[v].event.sub = e.sub =>
            e.sub \in disturbed' \/ RowsOf(e.sub)' = RowsOf(e.sub)
  BY <1>14
<1> QED
  BY <1>1, <1>4, <1>12, <1>13, <1>15, <1>16, <1>17, <1>18, AnswerStep

\* An event that is dropped, or whose statement fails, is noted.
LEMMA FailStep ==
    ASSUME IInv, TypeOK', NEW w \in Webhook, hook[w] # Rest,
           LookupChangeFails(w) \/ WriteFails(w)
    PROVE  IInv'
<1>1. PICK e : e = hook[w].event
  OBVIOUS
<1>2. KeyOK(e.sub) /\ e.sub \in Sub /\ licenses \in Seq(License)
  BY <1>1, AtWork
<1>3. Answer(w) /\ Note(w, TRUE) /\ UNCHANGED <<licenses, revoked>>
  BY DEF LookupChangeFails, WriteFails
<1>4. \A r : KeptRows(r)
  BY <1>3, SameTable
<1>5. UNCHANGED shown /\ e.sub \in disturbed'
  BY <1>1, <1>3, AnswerFacts
<1>6. KeyOK(e.sub)'
  BY <1>2, <1>3, <1>4, <1>5, KeyStays
<1>7. FirstRow(e.sub)' = FirstRow(e.sub)
  BY <1>4 DEF KeptRows
<1> QED
  BY <1>1, <1>3, <1>4, <1>5, <1>6, <1>7, AnswerStep

LEMMA LookupChangeStep ==
    ASSUME IInv, TypeOK', NEW w \in Webhook, hook[w] # Rest, LookupChange(w)
    PROVE  IInv'
<1>1. PICK e : e = hook[w].event
  OBVIOUS
<1>2. /\ e \in Event /\ e.sub \in Sub /\ e.seq \in Nat /\ EventOK(e) /\ applied[e.sub] \in Nat
      /\ licenses \in Seq(License) /\ Len(licenses) \in Nat /\ KeyOK(e.sub) /\ 0 < e.seq
  BY <1>1, AtWork
<1>3. PICK k : k = FirstRow(e.sub)
  OBVIOUS
<1>4. e.kind # "checkout"
  BY <1>1 DEF LookupChange
<1>5. CASE /\ k # None => e.kind = "updated" /\ e.tier = licenses[k].tier
           /\ Answer(w) /\ Note(w, k = None) /\ UNCHANGED <<licenses, revoked, failures>>
  <2>1. PICK wrong : wrong = (k = None) /\ Note(w, wrong)
    BY <1>5
  <2>2. \A r : KeptRows(r)
    BY <1>5, SameTable
  <2>3. /\ UNCHANGED <<subscription, shown>> /\ disturbed \subseteq disturbed'
        /\ applied'[e.sub] = IF applied[e.sub] >= e.seq THEN applied[e.sub] ELSE e.seq
        /\ e.sub \notin disturbed' => ~ wrong /\ ~ Late(e)
    BY <1>1, <1>5, <2>1, AnswerFacts
  <2>4. KeyOK(e.sub)'
    BY <1>2, <1>5, <2>2, <2>3, KeyStays
  <2>5. ASSUME e.sub \notin disturbed'
        PROVE  /\ applied'[e.sub] > 0
               /\ \E i \in (DOMAIN licenses)' :
                  /\ RowsOf(e.sub)' = {i} /\ licenses'[i].expires = Never
                  /\ subscription[e.sub].state = "active" => licenses'[i].active
                  /\ applied'[e.sub] = subscription[e.sub].seq =>
                       IF subscription[e.sub].state = "deleted" THEN ~ licenses'[i].active
                       ELSE licenses'[i].tier = subscription[e.sub].tier
    <3>1. e.sub \notin disturbed /\ k # None /\ ~ Late(e)
      BY <2>1, <2>3, <2>5
    <3>2. applied'[e.sub] = e.seq
      BY <1>2, <1>4, <2>3, <3>1 DEF Late
    <3>3. e.kind = "updated" /\ e.tier = licenses[k].tier
      BY <1>5, <3>1
    <3>4. e.seq = subscription[e.sub].seq =>
             subscription[e.sub].state # "deleted" /\ licenses[k].tier = subscription[e.sub].tier
      BY <1>2, <3>3 DEF EventOK
    <3>5. RowsOf(e.sub)' = RowsOf(e.sub) /\ licenses' = licenses
      BY <1>5, <2>2 DEF KeptRows
    <3>6. /\ RowsOf(e.sub) = {k} /\ k \in DOMAIN licenses /\ licenses[k].expires = Never
          /\ subscription[e.sub].state = "active" => licenses[k].active
      BY <1>2, <1>3, <3>1, OneRow
    <3>7. e.seq > 0
      BY <1>2
    <3> QED
      BY <3>2, <3>4, <3>5, <3>6, <3>7
  <2>6. FirstRow(e.sub)' = FirstRow(e.sub) /\ RowsOf(e.sub)' = RowsOf(e.sub)
    BY <2>2 DEF KeptRows
  <2> QED
    BY <1>1, <1>5, <2>1, <2>2, <2>4, <2>5, <2>6, AnswerStep
<1>6. ASSUME NEW pc \in {"revoke", "upgrade"}, k # None, Continue(w, pc, k),
             pc = "revoke" => e.kind = "deleted", pc = "upgrade" => e.kind = "updated"
      PROVE  IInv'
  <2>1. k \in 0 .. Len(licenses)
    BY <1>2, <1>3, FirstRowIs
  <2>2. Goes(w, pc, hook[w].tier, k)
    BY <1>6, <2>1, ContinueIs DEF IInv
  <2>3. UNCHANGED <<stripe, licenses, shown, applied, revoked>> /\ disturbed \subseteq disturbed'
    BY <1>6 DEF Continue, serverHistory
  <2> QED
    BY <1>1, <1>3, <1>6, <2>2, <2>3, GoesStep
<1> QED
  BY <1>1, <1>3, <1>5, <1>6 DEF LookupChange

\* A write goes to the first row of the subscription, which is still the one looked up.
LEMMA WriteStep ==
    ASSUME IInv, TypeOK', NEW w \in Webhook, hook[w] # Rest, Revoke(w) \/ Upgrade(w)
    PROVE  IInv'
<1>1. PICK e : e = hook[w].event
  OBVIOUS
<1>2. /\ e \in Event /\ e.sub \in Sub /\ e.seq \in Nat /\ EventOK(e) /\ applied[e.sub] \in Nat
      /\ licenses \in Seq(License) /\ Len(licenses) \in Nat /\ KeyOK(e.sub) /\ 0 < e.seq
      /\ e.tier \in Tier /\ e.seq <= subscription[e.sub].seq /\ subscription[e.sub].seq \in Nat
      /\ StateOK(e.sub)
  BY <1>1, AtWork
<1>3. PICK k : k = hook[w].row
  OBVIOUS
<1>4. /\ k = FirstRow(e.sub) /\ k # None
      /\ Revoke(w) => e.kind = "deleted"
      /\ Upgrade(w) => e.kind = "updated"
  <2>1. HookOK(w)
    BY DEF IInv
  <2> QED
    BY <1>1, <1>3, <2>1 DEF HookOK, Revoke, Upgrade
<1>5. k \in 1 .. Len(licenses) /\ licenses[k].sub = e.sub /\ k \in DOMAIN licenses
  BY <1>2, <1>4, FirstRowIs DEF RowsOf
<1>6. Answer(w) /\ Note(w, FALSE)
  BY DEF Revoke, Upgrade
<1>7. /\ licenses' \in Seq(License) /\ Len(licenses') = Len(licenses)
      /\ \A i \in 1 .. Len(licenses) : /\ licenses'[i].sub = licenses[i].sub
                                       /\ licenses'[i].expires = licenses[i].expires
                                       /\ i # k => licenses'[i] = licenses[i]
      /\ Revoke(w) => ~ licenses'[k].active
      /\ Upgrade(w) => licenses'[k].active = licenses[k].active /\ licenses'[k].tier = e.tier
  <2>1. CASE Revoke(w)
    <3>1. licenses' = [licenses EXCEPT ![k].active = FALSE] /\ ~ Upgrade(w)
      BY <1>3, <2>1 DEF Revoke, Upgrade
    <3> QED
      BY <1>2, <1>5, <3>1, RevokeTypes, ZenonT(60)
  <2>2. CASE Upgrade(w)
    <3>1. licenses' = [licenses EXCEPT ![k].tier = e.tier] /\ ~ Revoke(w)
      BY <1>1, <1>3, <2>2 DEF Revoke, Upgrade
    <3>2. PICK t \in Tier : t = e.tier
      BY <1>2
    <3>3. /\ licenses' \in Seq(License) /\ Len(licenses') = Len(licenses)
          /\ \A i \in 1 .. Len(licenses) : /\ licenses'[i].sub = licenses[i].sub
                                           /\ licenses'[i].active = licenses[i].active
                                           /\ licenses'[i].expires = licenses[i].expires
                                           /\ i # k => licenses'[i] = licenses[i]
          /\ licenses'[k].tier = t
      <4>1. licenses' = [licenses EXCEPT ![k].tier = t]
        BY <3>1, <3>2
      <4>2. licenses \in Seq(License) /\ k \in 1 .. Len(licenses) /\ t \in Tier
        BY <1>2, <1>5
      <4> QED
        BY <4>1, <4>2, UpgradeTypes
    <3> QED
      BY <1>5, <3>1, <3>2, <3>3
  <2> QED
    BY <2>1, <2>2
<1>8. /\ RowsOf(e.sub)' = RowsOf(e.sub) /\ FirstRow(e.sub)' = FirstRow(e.sub)
      /\ (DOMAIN licenses)' = DOMAIN licenses
  BY <1>2, <1>5, <1>7, ChangeKeeps
<1>9. /\ Revoke(w) => revoked' = revoked \cup {e.sub}
      /\ Upgrade(w) => revoked' = revoked
  BY <1>1 DEF Revoke, Upgrade
<1>10. \A r \in Sub \ {e.sub} : KeptRows(r) /\ (r \in revoked' => r \in revoked)
  <2> TAKE r \in Sub \ {e.sub}
  <2>1. KeptRows(r)
    BY <1>2, <1>5, <1>7, ChangeKeeps
  <2>2. r \in revoked' => r \in revoked
    BY <1>9
  <2> QED
    BY <2>1, <2>2
<1>11. /\ UNCHANGED <<subscription, shown>>
       /\ applied'[e.sub] = IF applied[e.sub] >= e.seq THEN applied[e.sub] ELSE e.seq
       /\ disturbed \subseteq disturbed' /\ (e.sub \notin disturbed' => ~ Late(e))
  BY <1>1, <1>6, AnswerFacts, ZenonT(60)
<1>12. KeyOK(e.sub)'
  <2>1. shown[e.sub] # None => shown[e.sub] = k
    BY <1>2, <1>4 DEF KeyOK
  <2>2. e.sub \in revoked' => ~ licenses'[k].active
    BY <1>2, <1>4, <1>7, <1>9 DEF KeyOK
  <2> QED
    BY <1>4, <1>8, <1>11, <2>1, <2>2 DEF KeyOK
<1>13. ASSUME e.sub \notin disturbed'
       PROVE  /\ applied'[e.sub] > 0
              /\ \E i \in (DOMAIN licenses)' :
                  /\ RowsOf(e.sub)' = {i} /\ licenses'[i].expires = Never
                  /\ subscription[e.sub].state = "active" => licenses'[i].active
                  /\ applied'[e.sub] = subscription[e.sub].seq =>
                       IF subscription[e.sub].state = "deleted" THEN ~ licenses'[i].active
                       ELSE licenses'[i].tier = subscription[e.sub].tier
  <2>1. e.sub \notin disturbed /\ ~ Late(e)
    BY <1>11, <1>13
  <2>2. applied'[e.sub] = e.seq /\ e.seq > 0
    <3>1. e.kind # "checkout"
      BY <1>4
    <3> QED
      BY <1>2, <1>11, <2>1, <3>1 DEF Late
  <2>3. /\ RowsOf(e.sub) = {k} /\ licenses[k].expires = Never
        /\ subscription[e.sub].state = "active" => licenses[k].active
    BY <1>2, <1>4, <2>1, OneRow
  <2>4. licenses'[k].expires = Never /\ k \in (DOMAIN licenses)' /\ RowsOf(e.sub)' = {k}
    BY <1>5, <1>7, <1>8, <2>3
  <2>5. CASE Revoke(w)
    <3>1. subscription[e.sub].state = "deleted"
      BY <1>2, <1>4, <2>5 DEF EventOK
    <3> QED
      BY <1>7, <2>2, <2>4, <2>5, <3>1
  <2>6. CASE Upgrade(w)
    <3>1. e.seq = subscription[e.sub].seq =>
             subscription[e.sub].state # "deleted" /\ e.tier = subscription[e.sub].tier
      BY <1>2, <1>4, <2>6 DEF EventOK
    <3>2. subscription[e.sub].state = "active" => licenses'[k].active
      BY <1>7, <2>3, <2>6
    <3> QED
      BY <1>7, <2>2, <2>4, <2>6, <3>1, <3>2
  <2> QED
    BY <2>5, <2>6
<1> QED
  BY <1>1, <1>6, <1>8, <1>10, <1>12, <1>13, AnswerStep

\* The operator's commands.
LEMMA TableStep ==
    ASSUME IInv, TypeOK', UNCHANGED <<stripe, hook, shown, applied, revoked>>,
           disturbed \subseteq disturbed',
           \A r \in Sub : r \notin disturbed' => KeptRows(r),
           \A r \in Sub : KeyOK(r)',
           \A r \in Sub : FirstRow(r) # None => FirstRow(r)' = FirstRow(r)
    PROVE  IInv'
<1>1. /\ TypeOK
      /\ \A r \in Sub : StateOK(r) /\ RowOK(r)
      /\ \A e \in events : EventOK(e)
      /\ \A w \in Webhook : HookOK(w)
  BY DEF IInv
<1>2. UNCHANGED <<subscription, events, hook, shown, applied, revoked>>
  BY DEF stripe
<1>3. \A r \in Sub : StateOK(r)'
  BY <1>1, <1>2 DEF StateOK
<1>4. \A r : Seqs(r)' = Seqs(r)
  BY <1>2 DEF Seqs
<1>5. \A r \in Sub : RowOK(r)'
  <2> TAKE r \in Sub
  <2>1. CASE r \in disturbed'
    BY <1>1, <1>2, <1>4, <2>1 DEF RowOK
  <2>2. CASE r \notin disturbed'
    <3>1. KeptRows(r) /\ r \notin disturbed
      BY <2>2
    <3> QED
      BY <1>1, <1>2, <1>4, <3>1, RowStays
  <2> QED
    BY <2>1, <2>2
<1>6. \A e \in events' : EventOK(e)'
  BY <1>1, <1>2, EventStays
<1>7. \A w \in Webhook : HookOK(w)'
  <2> TAKE w \in Webhook
  <2>1. CASE hook[w] = Rest
    BY <1>2, <2>1 DEF HookOK
  <2>2. CASE hook[w] # Rest
    <3>1. PICK e : e = hook[w].event
      OBVIOUS
    <3>2. e.sub \in Sub
      BY <2>2, <3>1, AtWork
    <3>3. FirstRow(e.sub) # None => FirstRow(e.sub)' = FirstRow(e.sub)
      BY <3>2
    <3>4. e.sub \notin disturbed' => e.sub \notin disturbed /\ RowsOf(e.sub)' = RowsOf(e.sub)
      BY <3>2 DEF KeptRows
    <3> QED
      BY <1>1, <1>2, <3>1, <3>3, <3>4, HookStays
  <2> QED
    BY <2>1, <2>2
<1> QED
  BY <1>3, <1>5, <1>6, <1>7 DEF IInv

LEMMA CommandStep ==
    ASSUME IInv, TypeOK',
           \/ \E t \in Tier, e \in (day + 1) .. Never : cmdCreate(t, e)
           \/ \E k \in DOMAIN licenses : cmdRevoke(k) \/ \E t \in Tier : cmdUpgrade(k, t)
    PROVE  IInv'
<1>0. /\ licenses \in Seq(License) /\ Len(licenses) \in Nat /\ DOMAIN licenses = 1 .. Len(licenses)
      /\ \A r \in Sub : KeyOK(r)
  BY DEF IInv, TypeOK
<1>1. ASSUME NEW t \in Tier, NEW e \in (day + 1) .. Never, cmdCreate(t, e)
      PROVE  IInv'
  <2>1. PICK l : l = NewLicense(NoSub, t, e)
    OBVIOUS
  <2>2. l \in License /\ l.sub = NoSub
    BY <2>1, ServerBounds, SMTT(30) DEF NewLicense, License, IInv, TypeOK, Never
  <2>3. licenses' = Append(licenses, l)
          /\ UNCHANGED <<stripe, hook, shown, applied, revoked, disturbed>>
    BY <1>1, <2>1 DEF cmdCreate, serverHistory
  <2>4. \A r \in Sub : KeptRows(r)
    BY <1>0, <2>2, <2>3, OthersKeep, SubAssumption DEF NoSub
  <2>5. \A r \in Sub : KeyOK(r)'
    BY <1>0, <2>3, <2>4, KeyStays
  <2> QED
    BY <2>3, <2>4, <2>5, TableStep DEF KeptRows
<1>2. ASSUME NEW k \in DOMAIN licenses, Command(k),
             licenses' \in Seq(License), Len(licenses') = Len(licenses),
             \A i \in 1 .. Len(licenses) : licenses'[i].sub = licenses[i].sub,
             \A i \in 1 .. Len(licenses) : i # k => licenses'[i] = licenses[i],
             licenses'[k].active => licenses[k].active
      PROVE  IInv'
  <2>1. UNCHANGED <<stripe, hook, shown, applied, revoked>> /\ disturbed \subseteq disturbed'
    BY <1>2 DEF Command
  <2>2. \A r \in Sub : RowsOf(r)' = RowsOf(r) /\ FirstRow(r)' = FirstRow(r)
                         /\ (licenses[k].sub # r => KeptRows(r))
    BY <1>0, <1>2, ChangeKeeps
  <2>3. \A r \in Sub : r \notin disturbed' => licenses[k].sub # r
    BY <1>2 DEF Command
  <2>4. \A r \in Sub : KeyOK(r)'
    <3> TAKE r \in Sub
    <3>1. FirstRow(r) # None => FirstRow(r) \in 1 .. Len(licenses)
      BY <1>0, FirstRowIs DEF RowsOf
    <3>2. FirstRow(r) # None /\ licenses'[FirstRow(r)].active => licenses[FirstRow(r)].active
      BY <1>2, <3>1
    <3> QED
      BY <1>0, <2>1, <2>2, <3>2 DEF KeyOK
  <2> QED
    BY <2>1, <2>2, <2>3, <2>4, TableStep
<1>3. ASSUME NEW k \in DOMAIN licenses, cmdRevoke(k)
      PROVE  IInv'
  <2>1. licenses' = [licenses EXCEPT ![k].active = FALSE] /\ Command(k) /\ k \in 1 .. Len(licenses)
    BY <1>0, <1>3 DEF cmdRevoke
  <2>2. /\ licenses' \in Seq(License) /\ Len(licenses') = Len(licenses)
        /\ \A i \in 1 .. Len(licenses) : licenses'[i].sub = licenses[i].sub
        /\ \A i \in 1 .. Len(licenses) : i # k => licenses'[i] = licenses[i]
        /\ ~ licenses'[k].active
    BY <1>0, <2>1, RevokeTypes
  <2> QED
    BY <1>2, <2>1, <2>2
<1>4. ASSUME NEW k \in DOMAIN licenses, NEW t \in Tier, cmdUpgrade(k, t)
      PROVE  IInv'
  <2>1. licenses' = [licenses EXCEPT ![k].tier = t] /\ Command(k) /\ k \in 1 .. Len(licenses)
    BY <1>0, <1>4 DEF cmdUpgrade
  <2>2. /\ licenses' \in Seq(License) /\ Len(licenses') = Len(licenses)
        /\ \A i \in 1 .. Len(licenses) : licenses'[i].sub = licenses[i].sub
        /\ \A i \in 1 .. Len(licenses) : i # k => licenses'[i] = licenses[i]
        /\ licenses'[k].active = licenses[k].active
    BY <1>0, <2>1, UpgradeTypes
  <2> QED
    BY <1>2, <2>1, <2>2
<1> QED
  BY <1>1, <1>3, <1>4

LEMMA IInvNext == IInv /\ [ServerNext]_serverVars => IInv'
<1> SUFFICES ASSUME IInv, [ServerNext]_serverVars PROVE IInv'
  OBVIOUS
<1>0. TypeOK'
  BY TypeNext DEF IInv
<1>1. CASE \E s \in Sub, t \in Tier : HandleSubscribe(s, t)
  BY <1>0, <1>1, StripeStep
<1>2. CASE \E s \in Sub : Pay(s) \/ ChangePlan(s) \/ Unsubscribe(s) \/ Success(s)
  BY <1>0, <1>2, StripeStep, SuccessStep
<1>3. CASE \E w \in Webhook, e \in events : Deliver(w, e)
  BY <1>0, <1>3, DeliverStep
<1>4. CASE \E w \in {v \in Webhook : hook[v] # Rest} :
             (\/ AskStripe(w) \/ AskStripeFails(w)
              \/ LookupCheckout(w) \/ LookupCheckoutFails(w) \/ CreateLicense(w)
              \/ LookupChange(w) \/ LookupChangeFails(w) \/ Revoke(w) \/ Upgrade(w)
              \/ WriteFails(w))
  BY <1>0, <1>4, AskStep, LookupCheckoutStep, CreateStep, LookupChangeStep, FailStep, WriteStep
<1>5. CASE ServerKilled
  BY <1>0, <1>5, KilledStep
<1>6. CASE \/ \E t \in Tier, e \in (day + 1) .. Never : cmdCreate(t, e)
           \/ \E k \in DOMAIN licenses : cmdRevoke(k) \/ \E t \in Tier : cmdUpgrade(k, t)
  BY <1>0, <1>6, CommandStep
<1>7. CASE UNCHANGED serverVars
  <2>1. UNCHANGED <<subscription, events, licenses, hook, shown, applied, disturbed, revoked>>
    BY <1>7 DEF serverVars
  <2>2. \A r : KeptRows(r)
    BY <2>1, SameTable
  <2>3. \A w \in Webhook : HookOK(w)'
    BY <2>1, <2>2, HookStays DEF IInv, KeptRows
  <2> QED
    BY <1>0, <2>1, <2>3, OnlyHooks
<1> QED
  BY <1>1, <1>2, <1>3, <1>4, <1>5, <1>6, <1>7 DEF ServerNext

-----------------------------------------------------------------------------
(* What follows.                                                            *)

LEMMA InvariantHolds == ServerSpec => []IInv
<1>1. ServerInit => IInv
  BY IInvInit
<1>2. IInv /\ [ServerNext]_serverVars => IInv'
  BY IInvNext
<1> QED
  BY <1>1, <1>2, PTL DEF ServerSpec

\* When a deletion has been carried out, the key the customer was shown is no longer valid,
\* whatever the deliveries, their order, the failures and the kills were.
THEOREM DeletedKeyIsInvalid == ServerSpec => []DeletionHitsShownKey
<1>1. IInv => DeletionHitsShownKey
  <2> SUFFICES ASSUME IInv, NEW s \in revoked, shown[s] # None
               PROVE  ~ IsValid(shown[s])
    BY DEF DeletionHitsShownKey
  <2>1. s \in Sub /\ KeyOK(s)
    BY DEF IInv, TypeOK
  <2> QED
    BY <2>1 DEF KeyOK, IsValid
<1> QED
  BY <1>1, InvariantHolds, PTL

\* Once every event of a subscription has its answer and none was disturbed, the table has
\* the license that the subscription pays for and no other.
THEOREM LicenseIsThePlan == ServerSpec => []LicenseFollowsSubscription
<1>1. IInv => LicenseFollowsSubscription
  <2> SUFFICES ASSUME IInv, NEW s \in Sub, Quiet(s), s \notin disturbed
               PROVE  LET rows == {licenses[k] : k \in RowsOf(s)} IN
                      CASE subscription[s].state \in {"none", "checkout"} -> RowsOf(s) = {}
                        [] subscription[s].state = "active" ->
                             /\ Cardinality(RowsOf(s)) = 1
                             /\ rows = {NewLicense(s, subscription[s].tier, Never)}
                        [] subscription[s].state = "deleted" ->
                             Cardinality(RowsOf(s)) = 1 /\ \A r \in rows : ~ r.active
    BY DEF LicenseFollowsSubscription
  <2> DEFINE c == subscription[s]
  <2>1. /\ applied[s] \in Nat /\ c.seq \in Nat /\ applied[s] <= c.seq
        /\ c.state \in {"none", "checkout"} <=> c.seq = 0
        /\ c.state \in {"none", "checkout", "active", "deleted"}
        /\ RowOK(s) /\ licenses \in Seq(License)
    BY DEF IInv, TypeOK, StateOK
  <2>2. Seqs(s) = {}
    BY DEF Quiet, Seqs
  <2>3. applied[s] = c.seq
    <3>1. \A i \in (applied[s] + 1) .. c.seq : FALSE
      BY <2>1, <2>2 DEF RowOK
    <3> QED
      BY <2>1, <3>1
  <2>4. CASE c.seq = 0
    <3>1. RowsOf(s) = {}
      BY <2>1, <2>3, <2>4 DEF RowOK
    <3>2. c.state \in {"none", "checkout"}
      BY <2>1, <2>4
    <3> QED
      BY <3>1, <3>2
  <2>5. CASE c.seq # 0
    <3>1. c.state \in {"active", "deleted"} /\ applied[s] > 0
      BY <2>1, <2>3, <2>5
    <3>2. PICK k \in DOMAIN licenses :
              /\ RowsOf(s) = {k} /\ licenses[k].expires = Never
              /\ c.state = "active" => licenses[k].active
              /\ IF c.state = "deleted" THEN ~ licenses[k].active ELSE licenses[k].tier = c.tier
      BY <2>1, <2>3, <3>1 DEF RowOK
    <3>3. Cardinality(RowsOf(s)) = 1 /\ {licenses[i] : i \in RowsOf(s)} = {licenses[k]}
      <4>1. Cardinality({k}) = 1
        BY FS_Singleton
      <4>2. {licenses[i] : i \in RowsOf(s)} = {licenses[k]}
        BY <3>2
      <4> QED
        BY <3>2, <4>1, <4>2
    <3>4. licenses[k].sub = s /\ licenses[k] \in License
      BY <2>1, <3>2 DEF RowsOf
    <3>5. CASE c.state = "active"
      <4>1. licenses[k] = NewLicense(s, c.tier, Never)
        BY <3>2, <3>4, <3>5 DEF NewLicense, License
      <4> QED
        BY <3>3, <3>5, <4>1
    <3>6. CASE c.state = "deleted"
      BY <3>2, <3>3, <3>6
    <3> QED
      BY <3>1, <3>5, <3>6
  <2> QED
    BY <2>4, <2>5
<1> QED
  BY <1>1, InvariantHolds, PTL

-----------------------------------------------------------------------------
(* The license checker and the server it asks: the inductive invariant.     *)

\* A row holds a token of a key the user entered, and outlives it in no case.
RowFine(row) ==
    row.token # NoToken =>
      /\ row.token \in signed /\ row.token.key \in entered /\ row.token.tier \notin Unknown
      /\ row.key # None /\ row.until <= row.token.until

\* An answer is from today; once it is accepted its key was the configured one.
ReqFine(r) ==
    LET q == req[r] IN
    /\ q.pc = "activate" => q.key \in Key
    /\ q.pc \in {"asked", "answered", "adopt"} => licenseKey # None
    /\ q.answer # NoToken =>
         /\ q.pc \in {"answered", "adopt"}
         /\ q.answer \in signed /\ q.answer.until = day + Life
    /\ q.pc = "adopt" /\ q.answer # NoToken =>
         q.answer.key \in entered /\ q.answer.tier \notin Unknown
    /\ RowFine(q.row)

\* The row that a restart reads brings back the tier.
Backs(row) ==
    tier # Free => /\ licenseKey # None /\ row.key = licenseKey
                   /\ row.token # NoToken /\ row.token.tier = tier

\* A verification that meets no other one leaves tier and row in agreement.
Sure ==
    ~ unsure =>
      /\ \A q, r \in Req : Busy(q) /\ Busy(r) => q = r
      /\ AllIdle => Backs(cache)
      /\ \A r \in Req : /\ req[r].pc = "store" => Backs(req[r].row)
                        /\ req[r].pc = "downgrade" => tier = Free
                        /\ req[r].pc = "decide" => req[r].row = cache

\* After a restart the first verification reads the row that was written before.
Kept ==
    promise # NoPromise =>
      /\ ~ unsure /\ \A r \in Page : ~ Busy(r)
      /\ licenseKey # None /\ cache.key = licenseKey /\ day < cache.until
      /\ cache.token # NoToken /\ cache.token.tier = promise
      /\ req[Main].pc \in {"idle", "begin", "asked", "answered", "fallback", "decide"}
      /\ req[Main].pc = "idle" => tier = promise

CInv ==
    /\ CheckerTypeOK
    /\ licenseKey # None => licenseKey \in entered
    /\ RowFine(cache)
    /\ \A r \in Req : ReqFine(r)
    /\ Sure /\ Kept

-----------------------------------------------------------------------------
(* Records.                                                                 *)

Step == {"idle", "activate", "begin", "asked", "answered", "adopt", "store", "fallback",
         "decide", "downgrade"}
Request == [pc : Step, key : Key \cup {None}, answer : Token \cup {NoToken}, row : Row]

LEMMA Types ==
    ASSUME CheckerTypeOK
    PROVE  /\ TypeOK /\ req \in [Req -> Request] /\ cache \in Row
           /\ licenseKey \in Key \cup {None} /\ env \in Key \cup {None}
           /\ savedKey \in Key \cup {None}
           /\ tier \in {Free} \cup (Tier \ Unknown)
           /\ signed \subseteq Token /\ entered \subseteq Key
           /\ requests \in Nat /\ unsure \in BOOLEAN /\ promise \in {NoPromise} \cup Tier
           /\ day \in Nat /\ day <= LastDay
<1>1. day \in 0 .. LastDay
  BY DEF CheckerTypeOK, TypeOK
<1>2. req \in [Req -> Request]
  BY DEF CheckerTypeOK, Request, Step
<1> QED
  BY <1>1, <1>2, ServerBounds DEF CheckerTypeOK

LEMMA KeyIsNat == Key \subseteq Nat \ {0}
BY ServerBounds DEF Key

LEMMA TokenFields ==
    ASSUME NEW t \in Token
    PROVE  /\ t.key \in Key /\ t.tier \in Tier /\ t.until \in Nat /\ t.key # None /\ t # NoToken
<1>1. t.key \in Key /\ t.tier \in Tier /\ t.until \in Nat
  BY DEF Token
<1>2. t.key # None
  BY <1>1, KeyIsNat DEF None
<1>3. NoToken.key = None
  BY DEF NoToken
<1> QED
  BY <1>1, <1>2, <1>3

LEMMA RowFields ==
    ASSUME NEW k \in Key \cup {None}, NEW t \in Tier \cup {Free}, NEW a \in Token \cup {NoToken},
           NEW n \in Nat
    PROVE  LET row == [key |-> k, tier |-> t, token |-> a, until |-> n] IN
           row \in Row /\ row.key = k /\ row.token = a /\ row.until = n
BY DEF Row

LEMMA RowTypes2 ==
    ASSUME NEW row \in Row
    PROVE  row.key \in Key \cup {None} /\ row.token \in Token \cup {NoToken} /\ row.until \in Nat
BY DEF Row

LEMMA NoLicenseRow ==
    /\ NoLicense \in Row /\ NoLicense.token = NoToken /\ NoLicense.key = None
    /\ \A k \in Key \cup {None} : LET row == [NoLicense EXCEPT !.key = k] IN
         row \in Row /\ row.token = NoToken /\ row.key = k
BY DEF NoLicense, Row

LEMMA ReqFields ==
    ASSUME NEW q \in Request
    PROVE  /\ q.pc \in Step /\ q.key \in Key \cup {None} /\ q.answer \in Token \cup {NoToken}
           /\ q.row \in Row
BY DEF Request

LEMMA IdleFields ==
    Idle \in Request /\ Idle.pc = "idle" /\ Idle.key = None /\ Idle.answer = NoToken /\ Idle.row = NoLicense
BY NoLicenseRow DEF Idle, Request, Step

With(q, pc) == [q EXCEPT !.pc = pc]
WithRow(q, pc, row) == [q EXCEPT !.pc = pc, !.row = row]
WithKey(q, pc, k) == [q EXCEPT !.pc = pc, !.key = k]
WithAnswer(q, pc, t) == [q EXCEPT !.pc = pc, !.answer = t]

LEMMA WithFields ==
    ASSUME NEW q \in Request, NEW pc \in Step
    PROVE  LET g == With(q, pc) IN
           g \in Request /\ g.pc = pc /\ g.key = q.key /\ g.answer = q.answer /\ g.row = q.row
BY DEF Request, With

LEMMA WithRowFields ==
    ASSUME NEW q \in Request, NEW pc \in Step, NEW row \in Row
    PROVE  LET g == WithRow(q, pc, row) IN
           g \in Request /\ g.pc = pc /\ g.key = q.key /\ g.answer = q.answer /\ g.row = row
BY DEF Request, WithRow

LEMMA WithKeyFields ==
    ASSUME NEW q \in Request, NEW pc \in Step, NEW k \in Key \cup {None}
    PROVE  LET g == WithKey(q, pc, k) IN
           g \in Request /\ g.pc = pc /\ g.key = k /\ g.answer = q.answer /\ g.row = q.row
BY DEF Request, WithKey

LEMMA WithAnswerFields ==
    ASSUME NEW q \in Request, NEW pc \in Step, NEW t \in Token \cup {NoToken}
    PROVE  LET g == WithAnswer(q, pc, t) IN
           g \in Request /\ g.pc = pc /\ g.key = q.key /\ g.answer = t /\ g.row = q.row
BY DEF Request, WithAnswer

\* One request takes a step.
Turn(r, pc, k, t, row) ==
    /\ req' \in [Req -> Request]
    /\ req'[r].pc = pc /\ req'[r].key = k /\ req'[r].answer = t /\ req'[r].row = row
    /\ \A q \in Req \ {r} : req'[q] = req[q]

LEMMA TurnIs ==
    ASSUME req \in [Req -> Request], NEW r \in Req, NEW g \in Request, req' = [req EXCEPT ![r] = g]
    PROVE  Turn(r, g.pc, g.key, g.answer, g.row)
BY DEF Turn

\* What each step of a verification does to its request.
LEMMA TurnToIdle ==
    ASSUME req \in [Req -> Request], NEW r \in Req, req' = [req EXCEPT ![r] = Idle]
    PROVE  Turn(r, "idle", None, NoToken, NoLicense)
<1>1. Turn(r, Idle.pc, Idle.key, Idle.answer, Idle.row)
  BY TurnIs, IdleFields
<1> QED
  BY <1>1, IdleFields

LEMMA TurnFromIdle ==
    ASSUME req \in [Req -> Request], NEW r \in Req, NEW pc \in Step,
           req' = [req EXCEPT ![r] = [Idle EXCEPT !.pc = pc]]
    PROVE  Turn(r, pc, None, NoToken, NoLicense)
<1> DEFINE g == With(Idle, pc)
<1>1. req' = [req EXCEPT ![r] = g]
  BY DEF With
<1>2. g \in Request /\ g.pc = pc /\ g.key = None /\ g.answer = NoToken /\ g.row = NoLicense
  BY IdleFields, WithFields
<1> HIDE DEF g
<1>3. Turn(r, g.pc, g.key, g.answer, g.row)
  BY <1>1, <1>2, TurnIs
<1> QED
  BY <1>2, <1>3

-----------------------------------------------------------------------------
(* One step of a verification.                                              *)

\* What a step has to show: the types of what it writes, where the new token and row come
\* from, and that tier and row agree when no other verification is under way.
LEMMA StepOK ==
    ASSUME CInv, NEW r \in Req, Busy(r), NEW pc, NEW k, NEW t, NEW row, Turn(r, pc, k, t, row),
           TypeOK', UNCHANGED <<day, env, savedKey, requests>>,
           licenseKey' \in Key \cup {None}, tier' \in {Free} \cup (Tier \ Unknown), cache' \in Row,
           signed \subseteq signed', signed' \subseteq Token,
           entered \subseteq entered', entered' \subseteq Key,
           unsure' \in {unsure, TRUE}, promise' \in {NoPromise, promise},
           licenseKey' # None => licenseKey' \in entered',
           RowFine(cache)', RowFine(row)',
           pc = "activate" => k \in Key,
           licenseKey # None => licenseKey' # None,
           pc \in {"asked", "answered", "adopt"} => licenseKey' # None,
           t # NoToken => pc \in {"answered", "adopt"} /\ t \in signed' /\ t.until = day + Life,
           pc = "adopt" /\ t # NoToken => t.key \in entered' /\ t.tier \notin Unknown,
           ~ unsure' => /\ pc = "idle" => Backs(cache)'
                        /\ pc = "store" => Backs(row)'
                        /\ pc = "downgrade" => tier' = Free
                        /\ pc = "decide" => row = cache',
           promise' # NoPromise =>
             /\ UNCHANGED <<unsure, licenseKey, cache>>
             /\ r = Main => /\ pc \in {"idle", "begin", "asked", "answered", "fallback", "decide"}
                            /\ pc = "idle" => tier' = promise
    PROVE  CInv'
<1>1. CheckerTypeOK /\ Sure /\ Kept /\ \A q \in Req : ReqFine(q)
  BY DEF CInv
<1>2. /\ req' \in [Req -> Request]
      /\ req'[r].pc = pc /\ req'[r].key = k /\ req'[r].answer = t /\ req'[r].row = row
      /\ \A q \in Req \ {r} : req'[q] = req[q]
  BY DEF Turn
<1>3. CheckerTypeOK'
  <2>1. requests' \in Nat /\ unsure' \in BOOLEAN /\ promise' \in {NoPromise} \cup Tier
          /\ env' \in Key \cup {None} /\ savedKey' \in Key \cup {None}
    BY <1>1, Types
  <2>2. req' \in [Req -> [pc : {"idle", "activate", "begin", "asked", "answered", "adopt", "store",
                              "fallback", "decide", "downgrade"},
                        key : Key \cup {None}, answer : Token \cup {NoToken}, row : Row]]
    BY <1>2 DEF Request, Step
  <2> QED
    BY <2>1, <2>2 DEF CheckerTypeOK
<1>4. \A q \in Req : ReqFine(q)'
  <2>1. ReqFine(r)'
    BY <1>2 DEF ReqFine, RowFine
  <2>2. ASSUME NEW q \in Req \ {r}
        PROVE  ReqFine(q)'
    <3>1. ReqFine(q) /\ req'[q] = req[q]
      BY <1>1, <1>2
    <3> QED
      BY <3>1 DEF ReqFine, RowFine
  <2> QED
    BY <2>1, <2>2
<1>5. Sure'
  <2> SUFFICES ASSUME ~ unsure'
               PROVE  /\ \A q, p \in Req : Busy(q)' /\ Busy(p)' => q = p
                      /\ AllIdle' => Backs(cache)'
                      /\ \A q \in Req : /\ req'[q].pc = "store" => Backs(req[q].row)'
                                        /\ req'[q].pc = "downgrade" => tier' = Free
                                        /\ req'[q].pc = "decide" => req'[q].row = cache'
    BY DEF Sure
  <2>1. \A q \in Req \ {r} : req'[q].pc = "idle"
    BY <1>1, <1>2 DEF Sure, Busy
  <2>2. \A q, p \in Req : Busy(q)' /\ Busy(p)' => q = p
    BY <2>1 DEF Busy
  <2>3. AllIdle' => Backs(cache)'
    BY <1>2 DEF AllIdle, Busy
  <2>4. \A q \in Req : /\ req'[q].pc = "store" => Backs(req[q].row)'
                       /\ req'[q].pc = "downgrade" => tier' = Free
                       /\ req'[q].pc = "decide" => req'[q].row = cache'
    <3> TAKE q \in Req
    <3>1. CASE q = r
      <4>1. pc = "store" => Backs(req[q].row)'
        BY <1>2, <3>1 DEF Backs
      <4> QED
        BY <1>2, <3>1, <4>1
    <3>2. CASE q # r
      BY <2>1, <3>2
    <3> QED
      BY <3>1, <3>2
  <2> QED
    BY <2>2, <2>3, <2>4
<1>6. Kept'
  <2> SUFFICES ASSUME promise' # NoPromise
               PROVE  /\ ~ unsure' /\ \A q \in Page : ~ Busy(q)'
                      /\ licenseKey' # None /\ cache'.key = licenseKey' /\ day' < cache'.until
                      /\ cache'.token # NoToken /\ cache'.token.tier = promise'
                      /\ req'[Main].pc \in {"idle", "begin", "asked", "answered", "fallback", "decide"}
                      /\ req'[Main].pc = "idle" => tier' = promise'
    BY DEF Kept
  <2>1. promise' = promise /\ UNCHANGED <<unsure, licenseKey, cache, day>>
    OBVIOUS
  <2>2. /\ ~ unsure /\ \A q \in Page : ~ Busy(q)
        /\ licenseKey # None /\ cache.key = licenseKey /\ day < cache.until
        /\ cache.token # NoToken /\ cache.token.tier = promise
    BY <1>1, <2>1 DEF Kept
  <2>3. r = Main
    BY <2>2 DEF Req
  <2>4. \A q \in Page : ~ Busy(q)'
    BY <1>2, <2>2, <2>3, PageAssumption DEF Busy, Req
  <2> QED
    BY <1>2, <2>1, <2>2, <2>3, <2>4
<1> QED
  BY <1>3, <1>4, <1>5, <1>6 DEF CInv

LEMMA ServerStays ==
    ASSUME TypeOK, UNCHANGED <<stripe, licenses, hook, serverHistory, day, commands>>,
           MayFail \/ UNCHANGED failures
    PROVE  TypeOK'
<1>1. failures' \in 0 .. MaxFailures
  BY ServerBounds DEF TypeOK, MayFail
<1> QED
  BY <1>1 DEF TypeOK, stripe, serverHistory

\* What is known of a request that is at work.
LEMMA ReqFacts ==
    ASSUME CInv, NEW r \in Req, NEW q, q = req[r]
    PROVE  /\ q \in Request /\ q.pc \in Step /\ q.key \in Key \cup {None}
           /\ q.answer \in Token \cup {NoToken} /\ q.row \in Row
           /\ q.pc = "activate" => q.key \in Key
           /\ q.pc \in {"asked", "answered", "adopt"} => licenseKey # None
           /\ q.answer # NoToken =>
                q.pc \in {"answered", "adopt"} /\ q.answer \in signed /\ q.answer.until = day + Life
           /\ q.pc = "adopt" /\ q.answer # NoToken =>
                q.answer.key \in entered /\ q.answer.tier \notin Unknown
           /\ RowFine(q.row) /\ RowFine(cache) /\ RowFine(NoLicense)
           /\ licenseKey # None => licenseKey \in entered
<1>1. q \in Request
  BY Types DEF CInv
<1>2. RowFine(NoLicense)
  BY NoLicenseRow DEF RowFine
<1>3. ReqFine(r) /\ RowFine(cache) /\ (licenseKey # None => licenseKey \in entered)
  BY DEF CInv
<1> QED
  BY <1>1, <1>2, <1>3, ReqFields DEF ReqFine

\* A row that was fine stays so.
LEMMA FineStays ==
    ASSUME signed \subseteq signed', entered \subseteq entered', NEW row, RowFine(row)
    PROVE  RowFine(row)'
BY DEF RowFine

LEMMA SetKeyStep ==
    ASSUME CInv, NEW r \in Req, SetKey(r)
    PROVE  CInv'
<1>1. PICK q : q = req[r]
  OBVIOUS
<1>2. /\ TypeOK /\ req \in [Req -> Request] /\ cache \in Row
      /\ tier \in {Free} \cup (Tier \ Unknown) /\ signed \subseteq Token /\ entered \subseteq Key
  BY Types DEF CInv
<1>3. /\ q.pc = "activate" /\ q.key \in Key /\ q.key # None /\ RowFine(cache) /\ RowFine(NoLicense)
  BY <1>1, ReqFacts, KeyIsNat DEF SetKey, None
<1>4. /\ licenseKey' = q.key /\ entered' = entered \cup {q.key}
      /\ UNCHANGED <<serverVars, env, savedKey, cache, tier, signed, unsure, promise, requests>>
  BY <1>1 DEF SetKey
<1>5. Turn(r, "begin", None, NoToken, NoLicense)
  <2>1. "begin" \in Step
    BY DEF Step
  <2> QED
    BY <1>2, <2>1, TurnFromIdle DEF SetKey
<1>6. TypeOK' /\ day' = day
  BY <1>2, <1>4, ServerStays DEF serverVars, stripe, serverHistory
<1>7. RowFine(cache)' /\ RowFine(NoLicense)'
  BY <1>3, <1>4, FineStays DEF RowFine
<1>8. promise # NoPromise => \A p \in Page : ~ Busy(p)
  BY DEF CInv, Kept
<1>9. promise # NoPromise => FALSE
  BY <1>1, <1>3, <1>8 DEF CInv, Kept, Req, Busy
<1> QED
  BY <1>1, <1>2, <1>3, <1>4, <1>5, <1>6, <1>7, <1>9, StepOK DEF Busy

LEMMA VerifyNoKeyStep ==
    ASSUME CInv, NEW r \in Req, VerifyNoKey(r)
    PROVE  CInv'
<1>1. PICK q : q = req[r]
  OBVIOUS
<1>2. /\ TypeOK /\ req \in [Req -> Request] /\ cache \in Row
      /\ licenseKey \in Key \cup {None} /\ signed \subseteq Token /\ entered \subseteq Key
  BY Types DEF CInv
<1>3. q \in Request /\ RowFine(cache) /\ RowFine(NoLicense) /\ q.pc = "begin" /\ q.answer = NoToken
  BY <1>1, ReqFacts DEF VerifyNoKey
<1>4. /\ licenseKey = None /\ tier' = Free
      /\ UNCHANGED <<serverVars, env, savedKey, cache, licenseKey, requests, signed, entered,
                     unsure, promise>>
  BY DEF VerifyNoKey, checkerHistory
<1>5. Turn(r, "store", q.key, NoToken, NoLicense)
  <2> DEFINE g == WithRow(q, "store", NoLicense)
  <2>1. "store" \in Step
    BY DEF Step
  <2>2. g \in Request /\ g.pc = "store" /\ g.key = q.key /\ g.answer = NoToken /\ g.row = NoLicense
    BY <1>3, <2>1, WithRowFields, NoLicenseRow
  <2>3. req' = [req EXCEPT ![r] = g]
    BY <1>1, <1>2 DEF VerifyNoKey, WithRow
  <2> HIDE DEF g
  <2>4. Turn(r, g.pc, g.key, g.answer, g.row)
    BY <1>2, <2>2, <2>3, TurnIs
  <2> QED
    BY <2>2, <2>4
<1>6. TypeOK' /\ day' = day
  BY <1>2, <1>4, ServerStays DEF serverVars, stripe, serverHistory
<1>7. RowFine(cache)' /\ RowFine(NoLicense)'
  BY <1>3, <1>4, FineStays DEF RowFine
<1>8. promise # NoPromise => FALSE
  <2>1. promise # NoPromise => licenseKey # None
    BY DEF CInv, Kept
  <2> QED
    BY <1>4, <2>1
<1>9. Backs(NoLicense)'
  BY <1>4 DEF Backs
<1> QED
  BY <1>1, <1>2, <1>3, <1>4, <1>5, <1>6, <1>7, <1>8, <1>9, StepOK DEF Busy

LEMMA PhoneHomeStep ==
    ASSUME CInv, NEW r \in Req, PhoneHome(r)
    PROVE  CInv'
<1>1. PICK q : q = req[r]
  OBVIOUS
<1>2. /\ TypeOK /\ req \in [Req -> Request] /\ cache \in Row
      /\ licenseKey \in Key \cup {None} /\ signed \subseteq Token /\ entered \subseteq Key
      /\ tier \in {Free} \cup (Tier \ Unknown)
  BY Types DEF CInv
<1>3. /\ q \in Request /\ RowFine(cache) /\ RowFine(q.row) /\ q.pc = "begin" /\ q.answer = NoToken
      /\ licenseKey # None => licenseKey \in entered
  BY <1>1, ReqFacts DEF PhoneHome
<1>4. /\ licenseKey # None
      /\ UNCHANGED <<serverVars, env, savedKey, cache, licenseKey, tier, requests, signed, entered,
                     unsure, promise>>
  BY DEF PhoneHome, checkerHistory
<1>5. Turn(r, "asked", licenseKey, NoToken, q.row)
  <2> DEFINE g == WithKey(q, "asked", licenseKey)
  <2>1. "asked" \in Step
    BY DEF Step
  <2>2. g \in Request /\ g.pc = "asked" /\ g.key = licenseKey /\ g.answer = NoToken /\ g.row = q.row
    BY <1>2, <1>3, <2>1, WithKeyFields
  <2>3. req' = [req EXCEPT ![r] = g]
    BY <1>1, <1>2 DEF PhoneHome, WithKey
  <2> HIDE DEF g
  <2>4. Turn(r, g.pc, g.key, g.answer, g.row)
    BY <1>2, <2>2, <2>3, TurnIs
  <2> QED
    BY <2>2, <2>4
<1>6. TypeOK' /\ day' = day
  BY <1>2, <1>4, ServerStays DEF serverVars, stripe, serverHistory
<1>7. RowFine(cache)' /\ RowFine(q.row)'
  BY <1>3, <1>4, FineStays DEF RowFine
<1>8. PICK k : k = licenseKey
  OBVIOUS
<1> QED
  BY <1>1, <1>2, <1>3, <1>4, <1>5, <1>6, <1>7, <1>8, StepOK DEF Busy

LEMMA ValidateStep ==
    ASSUME CInv, NEW r \in Req, Validate(r)
    PROVE  CInv'
<1>1. PICK q : q = req[r]
  OBVIOUS
<1>2. /\ TypeOK /\ req \in [Req -> Request] /\ cache \in Row
      /\ licenseKey \in Key \cup {None} /\ signed \subseteq Token /\ entered \subseteq Key
      /\ tier \in {Free} \cup (Tier \ Unknown) /\ day \in Nat
  BY Types DEF CInv
<1>3. /\ q \in Request /\ RowFine(cache) /\ RowFine(NoLicense) /\ q.pc = "asked"
      /\ licenseKey # None
      /\ licenseKey # None => licenseKey \in entered
  BY <1>1, ReqFacts DEF Validate
<1>4. PICK t : t = IF IsValid(q.key) THEN SignToken(q.key) ELSE NoToken
  OBVIOUS
<1>5. /\ signed' = signed \cup ({t} \ {NoToken})
      /\ req' = [req EXCEPT ![r] = [Idle EXCEPT !.pc = "answered", !.answer = t]]
      /\ UNCHANGED <<serverVars, env, savedKey, cache, licenseKey, tier, requests, entered,
                     unsure, promise>>
  BY <1>1, <1>4 DEF Validate
<1>6. t \in Token \cup {NoToken} /\ (t # NoToken => t.until = day + Life)
  <2>1. CASE ~ IsValid(q.key)
    BY <1>4, <2>1
  <2>2. CASE IsValid(q.key)
    <3>1. q.key \in 1 .. Len(licenses) /\ Len(licenses) <= MaxIssued /\ licenses \in Seq(License)
      BY <1>2, <2>2 DEF IsValid, TypeOK
    <3>2. q.key \in Key /\ licenses[q.key] \in License
      BY <3>1, ServerBounds DEF Key
    <3>3. licenses[q.key].tier \in Tier /\ day + Life \in Nat
      BY <1>2, <3>2, TimeAssumption DEF License
    <3> QED
      BY <1>4, <2>2, <3>2, <3>3 DEF SignToken, Token
  <2> QED
    BY <2>1, <2>2
<1>7. Turn(r, "answered", None, t, NoLicense)
  <2> DEFINE g == WithAnswer(Idle, "answered", t)
  <2>1. "answered" \in Step
    BY DEF Step
  <2>2. g \in Request /\ g.pc = "answered" /\ g.key = None /\ g.answer = t /\ g.row = NoLicense
    BY <1>6, <2>1, IdleFields, WithAnswerFields
  <2>3. req' = [req EXCEPT ![r] = g]
    BY <1>5 DEF WithAnswer
  <2> HIDE DEF g
  <2>4. Turn(r, g.pc, g.key, g.answer, g.row)
    BY <1>2, <2>2, <2>3, TurnIs
  <2> QED
    BY <2>2, <2>4
<1>8. TypeOK' /\ day' = day
  BY <1>2, <1>5, ServerStays DEF serverVars, stripe, serverHistory
<1>9. /\ signed \subseteq signed' /\ signed' \subseteq Token /\ (t # NoToken => t \in signed')
  BY <1>2, <1>5, <1>6
<1>10. RowFine(cache)' /\ RowFine(NoLicense)'
  BY <1>3, <1>5, <1>9, FineStays DEF RowFine
<1> QED
  BY <1>1, <1>2, <1>3, <1>5, <1>6, <1>7, <1>8, <1>9, <1>10, StepOK DEF Busy

LEMMA NoAnswerStep ==
    ASSUME CInv, NEW r \in Req, NoAnswer(r)
    PROVE  CInv'
<1>1. PICK q : q = req[r]
  OBVIOUS
<1>2. /\ TypeOK /\ req \in [Req -> Request] /\ cache \in Row
      /\ licenseKey \in Key \cup {None} /\ signed \subseteq Token /\ entered \subseteq Key
      /\ tier \in {Free} \cup (Tier \ Unknown)
  BY Types DEF CInv
<1>3. /\ RowFine(cache) /\ RowFine(NoLicense) /\ q.pc \in {"asked", "answered"}
      /\ licenseKey # None => licenseKey \in entered
  BY <1>1, ReqFacts DEF NoAnswer
<1>4. UNCHANGED <<serverVars, env, savedKey, cache, licenseKey, tier, requests, signed, entered,
                  unsure, promise>>
  BY DEF NoAnswer, checkerHistory
<1>5. Turn(r, "fallback", None, NoToken, NoLicense)
  <2>1. "fallback" \in Step
    BY DEF Step
  <2> QED
    BY <1>2, <2>1, TurnFromIdle DEF NoAnswer
<1>6. TypeOK' /\ day' = day
  BY <1>2, <1>4, ServerStays DEF serverVars, stripe, serverHistory
<1>7. RowFine(cache)' /\ RowFine(NoLicense)'
  BY <1>3, <1>4, FineStays DEF RowFine
<1> QED
  BY <1>1, <1>2, <1>3, <1>4, <1>5, <1>6, <1>7, StepOK DEF Busy

LEMMA CheckAnswerStep ==
    ASSUME CInv, NEW r \in Req, CheckAnswer(r)
    PROVE  CInv'
<1>1. PICK q : q = req[r]
  OBVIOUS
<1>2. /\ TypeOK /\ req \in [Req -> Request] /\ cache \in Row
      /\ licenseKey \in Key \cup {None} /\ signed \subseteq Token /\ entered \subseteq Key
      /\ tier \in {Free} \cup (Tier \ Unknown)
  BY Types DEF CInv
<1>3. /\ q \in Request /\ RowFine(cache) /\ RowFine(NoLicense) /\ RowFine(q.row)
      /\ q.pc = "answered" /\ licenseKey # None /\ q.answer \in Token \cup {NoToken}
      /\ q.answer # NoToken => q.answer \in signed /\ q.answer.until = day + Life
      /\ licenseKey # None => licenseKey \in entered
  BY <1>1, ReqFacts DEF CheckAnswer
<1>4. /\ promise' = NoPromise
      /\ UNCHANGED <<serverVars, env, savedKey, cache, licenseKey, tier, requests, signed, entered,
                     unsure>>
  BY DEF CheckAnswer
<1>5. TypeOK' /\ day' = day
  BY <1>2, <1>4, ServerStays DEF serverVars, stripe, serverHistory
<1>6. RowFine(cache)' /\ RowFine(NoLicense)' /\ RowFine(q.row)'
  BY <1>3, <1>4, FineStays DEF RowFine
<1>7. CASE TokenAccepted(q.answer)
  <2>1. Turn(r, "adopt", q.key, q.answer, q.row)
    <3> DEFINE g == With(q, "adopt")
    <3>1. "adopt" \in Step
      BY DEF Step
    <3>2. g \in Request /\ g.pc = "adopt" /\ g.key = q.key /\ g.answer = q.answer /\ g.row = q.row
      BY <1>3, <3>1, WithFields
    <3>3. req' = [req EXCEPT ![r] = g]
      BY <1>1, <1>2, <1>7 DEF CheckAnswer, With
    <3> HIDE DEF g
    <3>4. Turn(r, g.pc, g.key, g.answer, g.row)
      BY <1>2, <3>2, <3>3, TurnIs
    <3> QED
      BY <3>2, <3>4
  <2>2. q.answer # NoToken => q.answer.key \in entered /\ q.answer.tier \notin Unknown
    <3>1. q.answer # NoToken => q.answer.key = licenseKey /\ q.answer.key # None
      BY <1>3, <1>7, TokenFields DEF TokenAccepted
    <3> QED
      BY <1>3, <1>7, <3>1 DEF TokenAccepted
  <2> QED
    BY <1>1, <1>2, <1>3, <1>4, <1>5, <1>6, <2>1, <2>2, StepOK DEF Busy
<1>8. CASE ~ TokenAccepted(q.answer)
  <2>1. Turn(r, "fallback", None, NoToken, NoLicense)
    <3>1. "fallback" \in Step
      BY DEF Step
    <3>2. req' = [req EXCEPT ![r] = [Idle EXCEPT !.pc = "fallback"]]
      BY <1>1, <1>8 DEF CheckAnswer
    <3> QED
      BY <1>2, <3>1, <3>2, TurnFromIdle
  <2> QED
    BY <1>1, <1>2, <1>3, <1>4, <1>5, <1>6, <2>1, StepOK DEF Busy
<1> QED
  BY <1>7, <1>8

LEMMA AdoptStep ==
    ASSUME CInv, NEW r \in Req, Adopt(r)
    PROVE  CInv'
<1>1. PICK q : q = req[r]
  OBVIOUS
<1>2. /\ TypeOK /\ req \in [Req -> Request] /\ cache \in Row
      /\ licenseKey \in Key \cup {None} /\ signed \subseteq Token /\ entered \subseteq Key
      /\ tier \in {Free} \cup (Tier \ Unknown) /\ day \in Nat
  BY Types DEF CInv
<1>3. PICK t : t = q.answer
  OBVIOUS
<1>4. /\ q \in Request /\ RowFine(cache) /\ q.pc = "adopt" /\ licenseKey # None /\ t \in Token \cup {NoToken}
      /\ t # NoToken => /\ t \in signed /\ t.until = day + Life
                        /\ t.key \in entered /\ t.tier \notin Unknown
      /\ licenseKey # None => licenseKey \in entered
  BY <1>1, <1>3, ReqFacts DEF Adopt
<1>5. PICK row : row = [key |-> licenseKey, tier |-> t.tier, token |-> t, until |-> day + Grace]
  OBVIOUS
<1>6. t.tier \in {Free} \cup (Tier \ Unknown) /\ (t = NoToken => t.tier = Free)
  <2>1. NoToken.tier = Free
    BY DEF NoToken
  <2> QED
    BY <1>4, <2>1, TokenFields
<1>7. row \in Row /\ row.key = licenseKey /\ row.token = t /\ row.until = day + Grace
  <2>1. day + Grace \in Nat /\ t.tier \in Tier \cup {Free}
    BY <1>2, <1>6, TimeAssumption
  <2> QED
    BY <1>2, <1>4, <1>5, <2>1, RowFields
<1>8. /\ tier' = t.tier
      /\ req' = [req EXCEPT ![r] = [Idle EXCEPT !.pc = "store", !.row = row]]
      /\ UNCHANGED <<serverVars, env, savedKey, cache, licenseKey, requests, signed, entered,
                     unsure, promise>>
  BY <1>1, <1>3, <1>5 DEF Adopt, checkerHistory
<1>9. Turn(r, "store", None, NoToken, row)
  <2> DEFINE g == WithRow(Idle, "store", row)
  <2>1. "store" \in Step
    BY DEF Step
  <2>2. g \in Request /\ g.pc = "store" /\ g.key = None /\ g.answer = NoToken /\ g.row = row
    BY <1>7, <2>1, IdleFields, WithRowFields
  <2>3. req' = [req EXCEPT ![r] = g]
    BY <1>8 DEF WithRow
  <2> HIDE DEF g
  <2>4. Turn(r, g.pc, g.key, g.answer, g.row)
    BY <1>2, <2>2, <2>3, TurnIs
  <2> QED
    BY <2>2, <2>4
<1>10. TypeOK' /\ day' = day
  BY <1>2, <1>8, ServerStays DEF serverVars, stripe, serverHistory
<1>11. RowFine(row)
  BY <1>2, <1>4, <1>7, TimeAssumption DEF RowFine
<1>12. RowFine(cache)' /\ RowFine(row)'
  BY <1>4, <1>8, <1>11, FineStays DEF RowFine
\* A token that was accepted has the configured key, as long as no other request changed it.
<1>13. ~ unsure' => Backs(row)'
  BY <1>4, <1>6, <1>7, <1>8 DEF Backs
<1>14. promise # NoPromise => FALSE
  BY <1>1, <1>4 DEF CInv, Kept, Req, Busy
<1> QED
  BY <1>1, <1>2, <1>4, <1>6, <1>7, <1>8, <1>9, <1>10, <1>12, <1>13, <1>14, StepOK DEF Busy

LEMMA StoreStep ==
    ASSUME CInv, NEW r \in Req, Store(r) \/ StoreFails(r)
    PROVE  CInv'
<1>1. PICK q : q = req[r]
  OBVIOUS
<1>2. /\ TypeOK /\ req \in [Req -> Request] /\ cache \in Row
      /\ licenseKey \in Key \cup {None} /\ signed \subseteq Token /\ entered \subseteq Key
      /\ tier \in {Free} \cup (Tier \ Unknown)
  BY Types DEF CInv
<1>3. /\ q \in Request /\ q.row \in Row /\ RowFine(cache) /\ RowFine(q.row) /\ RowFine(NoLicense)
      /\ q.pc = "store"
      /\ licenseKey # None => licenseKey \in entered
  BY <1>1, ReqFacts DEF Store, StoreFails
<1>4. Turn(r, "idle", None, NoToken, NoLicense)
  BY <1>2, TurnToIdle DEF Store, StoreFails
<1>5. promise # NoPromise => FALSE
  BY <1>1, <1>3 DEF CInv, Kept, Req, Busy
<1>6. CASE Store(r)
  <2>1. /\ cache' = q.row
        /\ UNCHANGED <<serverVars, env, savedKey, licenseKey, tier, requests, signed, entered,
                       unsure, promise>>
    BY <1>1, <1>6 DEF Store, checkerHistory
  <2>2. TypeOK' /\ day' = day
    BY <1>2, <2>1, ServerStays DEF serverVars, stripe, serverHistory
  <2>3. RowFine(cache)' /\ RowFine(NoLicense)'
    BY <1>3, <2>1, FineStays DEF RowFine
  <2>4. ~ unsure' => Backs(cache)'
    BY <1>1, <1>3, <2>1 DEF CInv, Sure, Backs
  <2> QED
    BY <1>1, <1>2, <1>3, <1>4, <1>5, <2>1, <2>2, <2>3, <2>4, StepOK DEF Busy
<1>7. CASE StoreFails(r)
  <2>1. /\ unsure' = TRUE /\ MayFail
        /\ UNCHANGED <<stripe, licenses, hook, serverHistory, day, commands>>
        /\ UNCHANGED <<env, savedKey, cache, licenseKey, tier, signed, entered, promise, requests>>
    BY <1>7 DEF StoreFails
  <2>2. TypeOK'
    BY <1>2, <2>1, ServerStays
  <2>3. RowFine(cache)' /\ RowFine(NoLicense)'
    BY <1>3, <2>1, FineStays DEF RowFine
  <2> QED
    BY <1>1, <1>2, <1>3, <1>4, <1>5, <2>1, <2>2, <2>3, StepOK DEF Busy
<1> QED
  BY <1>6, <1>7

LEMMA ReadCacheStep ==
    ASSUME CInv, NEW r \in Req, ReadCache(r) \/ ReadCacheFails(r)
    PROVE  CInv'
<1>1. PICK q : q = req[r]
  OBVIOUS
<1>2. /\ TypeOK /\ req \in [Req -> Request] /\ cache \in Row
      /\ licenseKey \in Key \cup {None} /\ signed \subseteq Token /\ entered \subseteq Key
      /\ tier \in {Free} \cup (Tier \ Unknown)
  BY Types DEF CInv
<1>3. /\ q \in Request /\ q.row \in Row /\ RowFine(cache) /\ RowFine(NoLicense)
      /\ q.pc = "fallback" /\ q.answer = NoToken
      /\ licenseKey # None => licenseKey \in entered
  BY <1>1, ReqFacts DEF ReadCache, ReadCacheFails
<1>4. CASE ReadCache(r)
  <2>1. UNCHANGED <<serverVars, env, savedKey, cache, licenseKey, tier, requests, signed, entered,
                    unsure, promise>>
    BY <1>4 DEF ReadCache, checkerHistory
  <2>2. PICK row : row = cache
    OBVIOUS
  <2>3. Turn(r, "decide", q.key, NoToken, row)
    <3> DEFINE g == WithRow(q, "decide", row)
    <3>1. "decide" \in Step
      BY DEF Step
    <3>2. g \in Request /\ g.pc = "decide" /\ g.key = q.key /\ g.answer = NoToken /\ g.row = row
      BY <1>2, <1>3, <2>2, <3>1, WithRowFields
    <3>3. req' = [req EXCEPT ![r] = g]
      BY <1>1, <1>2, <1>4, <2>2 DEF ReadCache, WithRow
    <3> HIDE DEF g
    <3>4. Turn(r, g.pc, g.key, g.answer, g.row)
      BY <1>2, <3>2, <3>3, TurnIs
    <3> QED
      BY <3>2, <3>4
  <2>4. TypeOK' /\ day' = day
    BY <1>2, <2>1, ServerStays DEF serverVars, stripe, serverHistory
  <2>5. RowFine(cache)' /\ RowFine(row)'
    BY <1>3, <2>1, <2>2, FineStays DEF RowFine
  <2> QED
    BY <1>1, <1>2, <1>3, <2>1, <2>2, <2>3, <2>4, <2>5, StepOK DEF Busy
<1>5. CASE ReadCacheFails(r)
  <2>1. /\ tier' = Free /\ MayFail /\ promise' = NoPromise
        /\ UNCHANGED <<stripe, licenses, hook, serverHistory, day, commands>>
        /\ UNCHANGED <<env, savedKey, cache, licenseKey, signed, entered, unsure, requests>>
    BY <1>5 DEF ReadCacheFails
  <2>2. Turn(r, "idle", None, NoToken, NoLicense)
    BY <1>2, <1>5, TurnToIdle DEF ReadCacheFails
  <2>3. TypeOK'
    BY <1>2, <2>1, ServerStays
  <2>4. RowFine(cache)' /\ RowFine(NoLicense)' /\ Backs(cache)'
    BY <1>3, <2>1, FineStays DEF RowFine, Backs
  <2> QED
    BY <1>1, <1>2, <1>3, <2>1, <2>2, <2>3, <2>4, StepOK DEF Busy
<1> QED
  BY <1>4, <1>5

LEMMA DecideStep ==
    ASSUME CInv, NEW r \in Req, Decide(r)
    PROVE  CInv'
<1>1. PICK q : q = req[r]
  OBVIOUS
<1>2. /\ TypeOK /\ req \in [Req -> Request] /\ cache \in Row
      /\ licenseKey \in Key \cup {None} /\ signed \subseteq Token /\ entered \subseteq Key
      /\ day \in Nat
  BY Types DEF CInv
<1>3. /\ q \in Request /\ q.row \in Row /\ RowFine(cache) /\ RowFine(q.row) /\ RowFine(NoLicense)
      /\ q.pc = "decide"
      /\ licenseKey # None => licenseKey \in entered
  BY <1>1, ReqFacts DEF Decide
<1>4. PICK row : row = q.row
  OBVIOUS
<1>5. PICK graced \in BOOLEAN : graced <=> CachedToken(row) /\ day < row.until
  OBVIOUS
<1>6. tier' = IF graced THEN row.token.tier ELSE Free
  BY <1>1, <1>4, <1>5 DEF Decide
<1>7. UNCHANGED <<serverVars, env, savedKey, cache, licenseKey, requests, signed, entered, unsure,
                  promise>>
  BY DEF Decide, checkerHistory
<1>8. row.token \in Token \cup {NoToken} /\ row.until \in Nat
  BY <1>3, <1>4, RowTypes2
<1>9. tier' \in {Free} \cup (Tier \ Unknown)
  <2>1. graced => row.token \in Token /\ row.token.tier \notin Unknown
    BY <1>3, <1>4, <1>5, <1>8 DEF CachedToken, RowFine
  <2> QED
    BY <1>6, <2>1, TokenFields
<1>10. TypeOK' /\ day' = day
  BY <1>2, <1>7, ServerStays DEF serverVars, stripe, serverHistory
<1>11. RowFine(cache)' /\ RowFine(NoLicense)'
  BY <1>3, <1>7, FineStays DEF RowFine
<1>12. CASE CachedToken(row) /\ ~ graced
  <2>1. Turn(r, "downgrade", None, NoToken, NoLicense)
    <3>1. "downgrade" \in Step
      BY DEF Step
    <3>2. req' = [req EXCEPT ![r] = [Idle EXCEPT !.pc = "downgrade"]]
      BY <1>1, <1>4, <1>5, <1>12 DEF Decide
    <3> QED
      BY <1>2, <3>1, <3>2, TurnFromIdle
  <2>2. promise # NoPromise => r # Main
    <3> SUFFICES ASSUME promise # NoPromise, r = Main PROVE FALSE
      OBVIOUS
    <3>1. ~ unsure /\ day < cache.until /\ row = cache
      BY <1>1, <1>3, <1>4 DEF CInv, Kept, Sure
    <3> QED
      BY <1>5, <1>12, <3>1
  <2>3. tier' = Free
    BY <1>6, <1>12
  <2>4. promise # NoPromise => FALSE
    BY <1>1, <1>3, <2>2 DEF CInv, Kept, Req, Busy
  <2> QED
    BY <1>1, <1>2, <1>3, <1>7, <1>9, <1>10, <1>11, <2>1, <2>3, <2>4, StepOK DEF Busy
<1>13. CASE ~ (CachedToken(row) /\ ~ graced)
  <2>1. Turn(r, "idle", None, NoToken, NoLicense)
    <3>1. req' = [req EXCEPT ![r] = Idle]
      BY <1>1, <1>4, <1>5, <1>13 DEF Decide
    <3> QED
      BY <1>2, <3>1, TurnToIdle
  <2>2. ~ unsure => row = cache
    BY <1>1, <1>3, <1>4 DEF CInv, Sure
  <2>3. ~ unsure' => Backs(cache)'
    <3>1. CASE graced
      <4>1. row.key = licenseKey /\ row.token # NoToken /\ row.key # None
        <5>1. row.key = licenseKey /\ row.token # NoToken
          BY <1>5, <3>1 DEF CachedToken
        <5> QED
          BY <1>3, <1>4, <5>1 DEF RowFine
      <4> QED
        BY <1>6, <1>7, <2>2, <3>1, <4>1 DEF Backs
    <3>2. CASE ~ graced
      BY <1>6, <3>2 DEF Backs
    <3> QED
      BY <3>1, <3>2
  <2>4. promise # NoPromise /\ r = Main => tier' = promise
    <3> SUFFICES ASSUME promise # NoPromise, r = Main PROVE tier' = promise
      OBVIOUS
    <3>1. /\ ~ unsure /\ day < cache.until /\ row = cache /\ cache.key = licenseKey
          /\ cache.token # NoToken /\ cache.token.tier = promise
      BY <2>2 DEF CInv, Kept
    <3>2. cache.until <= cache.token.until /\ cache.until \in Nat /\ cache.token.until \in Nat
      BY <1>3, <1>4, <1>8, <3>1, TokenFields DEF RowFine
    <3>3. CachedToken(row)
      BY <1>2, <3>1, <3>2 DEF CachedToken, VerifyTokenAt
    <3> QED
      BY <1>5, <1>6, <3>1, <3>3
  <2> QED
    BY <1>1, <1>2, <1>3, <1>7, <1>9, <1>10, <1>11, <2>1, <2>3, <2>4, StepOK DEF Busy
<1> QED
  BY <1>12, <1>13

LEMMA DowngradeStep ==
    ASSUME CInv, NEW r \in Req, Downgrade(r)
    PROVE  CInv'
<1>1. PICK q : q = req[r]
  OBVIOUS
<1>2. /\ TypeOK /\ req \in [Req -> Request] /\ cache \in Row
      /\ licenseKey \in Key \cup {None} /\ signed \subseteq Token /\ entered \subseteq Key
      /\ tier \in {Free} \cup (Tier \ Unknown)
  BY Types DEF CInv
<1>3. /\ q \in Request /\ RowFine(cache) /\ q.pc = "downgrade" /\ q.answer = NoToken
      /\ licenseKey # None => licenseKey \in entered
  BY <1>1, ReqFacts DEF Downgrade
<1>4. UNCHANGED <<serverVars, env, savedKey, cache, licenseKey, tier, requests, signed, entered,
                  unsure, promise>>
  BY DEF Downgrade, checkerHistory
<1>5. PICK row : row = [NoLicense EXCEPT !.key = licenseKey]
  OBVIOUS
<1>6. row \in Row /\ row.token = NoToken
  BY <1>2, <1>5, NoLicenseRow
<1>7. Turn(r, "store", q.key, NoToken, row)
  <2> DEFINE g == WithRow(q, "store", row)
  <2>1. "store" \in Step
    BY DEF Step
  <2>2. g \in Request /\ g.pc = "store" /\ g.key = q.key /\ g.answer = NoToken /\ g.row = row
    BY <1>3, <1>6, <2>1, WithRowFields
  <2>3. req' = [req EXCEPT ![r] = g]
    BY <1>1, <1>2, <1>5 DEF Downgrade, WithRow
  <2> HIDE DEF g
  <2>4. Turn(r, g.pc, g.key, g.answer, g.row)
    BY <1>2, <2>2, <2>3, TurnIs
  <2> QED
    BY <2>2, <2>4
<1>8. TypeOK' /\ day' = day
  BY <1>2, <1>4, ServerStays DEF serverVars, stripe, serverHistory
<1>9. RowFine(cache)' /\ RowFine(row)'
  BY <1>3, <1>4, <1>6, FineStays DEF RowFine
<1>10. ~ unsure => tier = Free
  BY <1>1, <1>3 DEF CInv, Sure
<1>11. ~ unsure' => Backs(row)'
  BY <1>4, <1>10 DEF Backs
<1>12. promise # NoPromise => FALSE
  BY <1>1, <1>3 DEF CInv, Kept, Req, Busy
<1> QED
  BY <1>1, <1>2, <1>3, <1>4, <1>6, <1>7, <1>8, <1>9, <1>11, <1>12, StepOK DEF Busy

LEMMA VerifyingStep ==
    ASSUME CInv, NEW r \in Req, Verifying(r)
    PROVE  CInv'
BY SetKeyStep, VerifyNoKeyStep, PhoneHomeStep, ValidateStep, NoAnswerStep, CheckAnswerStep,
   AdoptStep, StoreStep, ReadCacheStep, DecideStep, DowngradeStep
   DEF Verifying

-----------------------------------------------------------------------------
(* A request arrives, the process restarts, and the steps of others.        *)

LEMMA ArriveStep ==
    ASSUME CInv, NEW r \in Page, NEW pc \in {"activate", "begin"}, NEW k \in Key \cup {None},
           pc = "activate" => k \in Key, Arrive(r, pc, k), savedKey' \in Key \cup {None}
    PROVE  CInv'
<1>1. /\ TypeOK /\ req \in [Req -> Request] /\ cache \in Row
      /\ licenseKey \in Key \cup {None} /\ env \in Key \cup {None}
      /\ signed \subseteq Token /\ entered \subseteq Key
      /\ tier \in {Free} \cup (Tier \ Unknown) /\ requests \in Nat
  BY Types DEF CInv
<1>2. /\ ~ Busy(r) /\ requests' = requests + 1 /\ promise' = NoPromise
      /\ unsure' = \E q \in Req : Busy(q)
      /\ UNCHANGED <<serverVars, env, cache, licenseKey, tier, signed, entered>>
  BY DEF Arrive
<1>3. r \in Req
  BY DEF Req
<1>4. Turn(r, pc, k, NoToken, NoLicense)
  <2> DEFINE g == WithKey(Idle, pc, k)
  <2>1. pc \in Step
    BY DEF Step
  <2>2. g \in Request /\ g.pc = pc /\ g.key = k /\ g.answer = NoToken /\ g.row = NoLicense
    BY <2>1, IdleFields, WithKeyFields
  <2>3. req' = [req EXCEPT ![r] = g]
    BY DEF Arrive, WithKey
  <2> HIDE DEF g
  <2>4. Turn(r, g.pc, g.key, g.answer, g.row)
    BY <1>1, <1>3, <2>2, <2>3, TurnIs
  <2> QED
    BY <2>2, <2>4
<1>5. /\ req' \in [Req -> Request]
      /\ req'[r].pc = pc /\ req'[r].key = k /\ req'[r].answer = NoToken /\ req'[r].row = NoLicense
      /\ \A q \in Req \ {r} : req'[q] = req[q]
  BY <1>4 DEF Turn
<1>6. TypeOK' /\ day' = day
  BY <1>1, <1>2, ServerStays DEF serverVars, stripe, serverHistory
<1>7. CheckerTypeOK'
  <2>1. req' \in [Req -> [pc : {"idle", "activate", "begin", "asked", "answered", "adopt", "store",
                              "fallback", "decide", "downgrade"},
                        key : Key \cup {None}, answer : Token \cup {NoToken}, row : Row]]
    BY <1>5 DEF Request, Step
  <2>2. unsure' \in BOOLEAN /\ requests' \in Nat
    BY <1>1, <1>2
  <2> QED
    BY <1>1, <1>2, <1>6, <2>1, <2>2 DEF CheckerTypeOK
<1>8. (licenseKey # None => licenseKey \in entered)' /\ RowFine(cache)'
  BY <1>2 DEF CInv, RowFine
<1>9. \A q \in Req : ReqFine(q)'
  <2>1. ReqFine(r)'
    BY <1>2, <1>5, NoLicenseRow DEF ReqFine, RowFine
  <2>2. ASSUME NEW q \in Req \ {r}
        PROVE  ReqFine(q)'
    <3>1. ReqFine(q) /\ req'[q] = req[q]
      BY <1>5 DEF CInv
    <3> QED
      BY <1>2, <1>6, <3>1 DEF ReqFine, RowFine
  <2> QED
    BY <2>1, <2>2
<1>10. Sure'
  <2> SUFFICES ASSUME ~ unsure'
               PROVE  /\ \A q, p \in Req : Busy(q)' /\ Busy(p)' => q = p
                      /\ AllIdle' => Backs(cache)'
                      /\ \A q \in Req : /\ req'[q].pc = "store" => Backs(req[q].row)'
                                        /\ req'[q].pc = "downgrade" => tier' = Free
                                        /\ req'[q].pc = "decide" => req'[q].row = cache'
    BY DEF Sure
  <2>1. \A q \in Req \ {r} : req'[q].pc = "idle"
    BY <1>2, <1>5 DEF Busy
  <2> QED
    BY <1>3, <1>5, <2>1 DEF Busy, AllIdle
<1>11. Kept'
  BY <1>2 DEF Kept
<1> QED
  BY <1>7, <1>8, <1>9, <1>10, <1>11 DEF CInv

\* At a start nothing is under way, and the row is the one of the last verification.
LEMMA RestartStep == CInv /\ Restart => CInv'
<1> SUFFICES ASSUME CInv, Restart PROVE CInv'
  OBVIOUS
<1> DEFINE g == [Idle EXCEPT !.pc = "begin"]
<1>1. /\ TypeOK /\ req \in [Req -> Request] /\ cache \in Row
      /\ licenseKey \in Key \cup {None} /\ env \in Key \cup {None} /\ savedKey \in Key \cup {None}
      /\ signed \subseteq Token /\ entered \subseteq Key
      /\ tier \in {Free} \cup (Tier \ Unknown) /\ requests \in Nat
  BY Types DEF CInv
<1>2. PICK k : k = StartKey
  OBVIOUS
<1>3. k \in Key \cup {None}
  BY <1>1, <1>2 DEF StartKey
<1>4. /\ licenseKey' = k /\ tier' = Free /\ unsure' = FALSE
      /\ entered' = entered \cup ({k} \ {None})
      /\ UNCHANGED <<serverVars, env, savedKey, cache, signed, requests>>
  BY <1>2 DEF Restart
<1>5. req' = [r \in Req |-> IF r = Main /\ k # None THEN g ELSE Idle]
  BY <1>2 DEF Restart, Start
<1>6. g \in Request /\ g.pc = "begin" /\ g.key = None /\ g.answer = NoToken /\ g.row = NoLicense
  <2>1. g = With(Idle, "begin") /\ "begin" \in Step
    BY DEF With, Step
  <2> HIDE DEF g
  <2> QED
    BY <2>1, IdleFields, WithFields
<1> HIDE DEF g
<1>7. /\ req' \in [Req -> Request]
      /\ \A r \in Req : /\ req'[r].pc \in {"idle", "begin"}
                        /\ req'[r].answer = NoToken /\ req'[r].row = NoLicense
                        /\ req'[r].pc = "begin" <=> r = Main /\ k # None
  BY <1>5, <1>6, IdleFields
<1>8. TypeOK' /\ day' = day
  BY <1>1, <1>4, ServerStays DEF serverVars, stripe, serverHistory
<1>9. \/ promise' = NoPromise
      \/ /\ AllIdle /\ ~ unsure /\ licenseKey = k /\ tier # Free /\ day < cache.until
         /\ promise' = tier
  BY <1>2 DEF Restart
<1>10. CheckerTypeOK'
  <2>1. req' \in [Req -> [pc : {"idle", "activate", "begin", "asked", "answered", "adopt", "store",
                              "fallback", "decide", "downgrade"},
                        key : Key \cup {None}, answer : Token \cup {NoToken}, row : Row]]
    BY <1>7 DEF Request, Step
  <2>2. entered' \subseteq Key /\ promise' \in {NoPromise} \cup Tier
    BY <1>1, <1>3, <1>4, <1>9
  <2> QED
    BY <1>1, <1>3, <1>4, <1>8, <2>1, <2>2 DEF CheckerTypeOK
<1>11. (licenseKey # None => licenseKey \in entered)' /\ RowFine(cache)'
  BY <1>3, <1>4 DEF CInv, RowFine
<1>12. \A r \in Req : ReqFine(r)'
  BY <1>7, NoLicenseRow DEF ReqFine, RowFine
<1>13. Sure'
  BY <1>4, <1>7 DEF Sure, Busy, Backs
<1>14. Kept'
  <2> SUFFICES ASSUME promise' # NoPromise
               PROVE  /\ ~ unsure' /\ \A q \in Page : ~ Busy(q)'
                      /\ licenseKey' # None /\ cache'.key = licenseKey' /\ day' < cache'.until
                      /\ cache'.token # NoToken /\ cache'.token.tier = promise'
                      /\ req'[Main].pc \in {"idle", "begin", "asked", "answered", "fallback", "decide"}
                      /\ req'[Main].pc = "idle" => tier' = promise'
    BY DEF Kept
  <2>1. /\ AllIdle /\ ~ unsure /\ licenseKey = k /\ tier # Free /\ day < cache.until
        /\ promise' = tier
    BY <1>9
  <2>2. licenseKey # None /\ cache.key = licenseKey /\ cache.token # NoToken /\ cache.token.tier = tier
    BY <2>1 DEF CInv, Sure, Backs
  <2>3. \A q \in Page : ~ Busy(q)'
    BY <1>7, PageAssumption DEF Busy, Req
  <2>4. req'[Main].pc = "begin"
    BY <1>7, <2>1, <2>2 DEF Req
  <2> QED
    BY <1>4, <1>8, <2>1, <2>2, <2>3, <2>4
<1> QED
  BY <1>10, <1>11, <1>12, <1>13, <1>14 DEF CInv

\* The server's own steps take no time.
LEMMA DayStays == ServerNext => day' = day
<1> SUFFICES ASSUME ServerNext PROVE day' = day
  OBVIOUS
<1>1. ASSUME NEW s \in Sub,
             (\E t \in Tier : HandleSubscribe(s, t)) \/ Pay(s) \/ ChangePlan(s) \/ Unsubscribe(s)
               \/ Success(s)
      PROVE  day' = day
  BY <1>1 DEF HandleSubscribe, checkoutHandler, CreateCheckoutSession, Pay, ChangePlan,
              Unsubscribe, Happens, Success
<1>2. ASSUME NEW w \in Webhook,
             \/ AskStripe(w) \/ AskStripeFails(w)
             \/ LookupCheckout(w) \/ LookupCheckoutFails(w) \/ CreateLicense(w)
             \/ LookupChange(w) \/ LookupChangeFails(w) \/ Revoke(w) \/ Upgrade(w)
             \/ WriteFails(w)
      PROVE  day' = day
  BY <1>2 DEF AskStripe, AskStripeFails, LookupCheckout, LookupCheckoutFails, CreateLicense,
              LookupChange, LookupChangeFails, Revoke, Upgrade, WriteFails, Continue, Answer
<1>3. ASSUME NEW w \in Webhook, NEW e \in events, Deliver(w, e)
      PROVE  day' = day
  BY <1>3 DEF Deliver
<1>4. ServerKilled => day' = day
  BY DEF ServerKilled
<1>5. ASSUME NEW t \in Tier, NEW e \in (day + 1) .. Never, cmdCreate(t, e)
      PROVE  day' = day
  BY <1>5 DEF cmdCreate
<1>6. ASSUME NEW k \in DOMAIN licenses, cmdRevoke(k) \/ \E t \in Tier : cmdUpgrade(k, t)
      PROVE  day' = day
  BY <1>6 DEF cmdRevoke, cmdUpgrade, Command
<1> QED
  BY <1>1, <1>2, <1>3, <1>4, <1>5, <1>6 DEF ServerNext

\* What the server and Stripe do leaves the checker alone.
LEMMA ServerStep ==
    ASSUME CInv, TypeOK', UNCHANGED checkerVars, UNCHANGED day
    PROVE  CInv'
<1>1. UNCHANGED <<env, savedKey, cache, licenseKey, tier, req, requests, signed, entered, unsure,
                  promise>>
  BY DEF checkerVars
<1>2. CheckerTypeOK'
  BY <1>1 DEF CInv, CheckerTypeOK
<1>3. (licenseKey # None => licenseKey \in entered)' /\ RowFine(cache)'
  BY <1>1 DEF CInv, RowFine
<1>4. \A r \in Req : ReqFine(r)'
  BY <1>1 DEF CInv, ReqFine, RowFine
<1>5. Sure'
  BY <1>1 DEF CInv, Sure, Busy, AllIdle, Backs
<1>6. Kept'
  BY <1>1 DEF CInv, Kept, Busy
<1> QED
  BY <1>2, <1>3, <1>4, <1>5, <1>6 DEF CInv

\* A day passes when nothing is under way: there is no answer that could get old.
LEMMA NextDayStep == CInv /\ NextDay => CInv'
<1> SUFFICES ASSUME CInv, NextDay PROVE CInv'
  OBVIOUS
<1>1. /\ AllIdle /\ promise' = NoPromise /\ day' = day + 1 /\ day < LastDay
      /\ UNCHANGED <<stripe, licenses, hook, serverHistory, commands, failures>>
      /\ UNCHANGED <<env, savedKey, cache, licenseKey, tier, req, signed, entered, unsure, requests>>
  BY DEF NextDay
<1>2. TypeOK'
  <2>1. TypeOK /\ day' \in 0 .. LastDay
    BY <1>1, ServerBounds DEF CInv, CheckerTypeOK, TypeOK
  <2> QED
    BY <1>1, <2>1 DEF TypeOK, stripe, serverHistory
<1>3. CheckerTypeOK'
  BY <1>1, <1>2 DEF CInv, CheckerTypeOK
<1>4. (licenseKey # None => licenseKey \in entered)' /\ RowFine(cache)'
  BY <1>1 DEF CInv, RowFine
<1>5. \A r \in Req : ReqFine(r)'
  BY <1>1 DEF CInv, ReqFine, RowFine, AllIdle, Busy
<1>6. Sure'
  BY <1>1 DEF CInv, Sure, Busy, AllIdle, Backs
<1>7. Kept'
  BY <1>1 DEF Kept
<1> QED
  BY <1>3, <1>4, <1>5, <1>6, <1>7 DEF CInv

LEMMA CInvInit == Init => CInv
<1> SUFFICES ASSUME Init PROVE CInv
  OBVIOUS
<1> DEFINE g == [Idle EXCEPT !.pc = "begin"]
<1>1. TypeOK
  BY TypeInit DEF Init
<1>2. g \in Request /\ g.pc = "begin" /\ g.key = None /\ g.answer = NoToken /\ g.row = NoLicense
  <2>1. g = With(Idle, "begin") /\ "begin" \in Step
    BY DEF With, Step
  <2> HIDE DEF g
  <2> QED
    BY <2>1, IdleFields, WithFields
<1>3. req = [r \in Req |-> IF r = Main /\ env # None THEN g ELSE Idle]
  BY DEF Init
<1>4. /\ env \in Key \cup {None} /\ savedKey = None /\ cache = NoLicense /\ licenseKey = env
      /\ tier = Free /\ signed = {} /\ entered = {env} \ {None} /\ requests = 0
      /\ unsure = FALSE /\ promise = NoPromise
  BY PageAssumption DEF Init
<1> HIDE DEF g
<1>5. /\ req \in [Req -> Request]
      /\ \A r \in Req : /\ req[r].pc \in {"idle", "begin"}
                        /\ req[r].answer = NoToken /\ req[r].row = NoLicense
                        /\ req[r].pc = "begin" => r = Main
  BY <1>2, <1>3, IdleFields
<1>6. CheckerTypeOK
  <2>1. req \in [Req -> [pc : {"idle", "activate", "begin", "asked", "answered", "adopt", "store",
                              "fallback", "decide", "downgrade"},
                        key : Key \cup {None}, answer : Token \cup {NoToken}, row : Row]]
    BY <1>5 DEF Request, Step
  <2>2. cache \in Row /\ entered \subseteq Key
    BY <1>4, NoLicenseRow
  <2> QED
    BY <1>1, <1>4, <2>1, <2>2 DEF CheckerTypeOK
<1>7. (licenseKey # None => licenseKey \in entered) /\ RowFine(cache)
  BY <1>4, NoLicenseRow DEF RowFine
<1>8. \A r \in Req : ReqFine(r)
  BY <1>5, NoLicenseRow DEF ReqFine, RowFine
<1>9. Sure
  BY <1>4, <1>5 DEF Sure, Busy, Backs
<1>10. Kept
  BY <1>4 DEF Kept
<1> QED
  BY <1>6, <1>7, <1>8, <1>9, <1>10 DEF CInv

LEMMA CInvNext == CInv /\ [Next]_vars => CInv'
<1> SUFFICES ASSUME CInv, [Next]_vars PROVE CInv'
  OBVIOUS
<1>0. TypeOK
  BY DEF CInv, CheckerTypeOK
<1>1. CASE ServerNext /\ UNCHANGED checkerVars
  BY <1>0, <1>1, TypeNext, DayStays, ServerStep
<1>2. CASE \E r \in Req : Verifying(r)
  BY <1>2, VerifyingStep
<1>3. ASSUME NEW r \in Page, HandleLicenseVerify(r)
      PROVE  CInv'
  <2>1. Arrive(r, "begin", None) /\ savedKey' \in Key \cup {None}
    BY <1>3, Types DEF CInv, HandleLicenseVerify
  <2> QED
    BY <2>1, ArriveStep
<1>4. ASSUME NEW r \in Page, NEW k \in Key, Activate(r, k)
      PROVE  CInv'
  BY <1>4, ArriveStep DEF Activate
<1>5. CASE Restart
  BY <1>5, RestartStep
<1>6. CASE NextDay
  BY <1>6, NextDayStep
<1>7. CASE UNCHANGED vars
  <2>1. UNCHANGED serverVars /\ UNCHANGED checkerVars
    BY <1>7 DEF vars
  <2>2. TypeOK' /\ UNCHANGED day
    BY <1>0, <2>1, TypeNext DEF serverVars
  <2> QED
    BY <2>1, <2>2, ServerStep
<1> QED
  BY <1>1, <1>2, <1>3, <1>4, <1>5, <1>6, <1>7 DEF Next, CheckerNext

LEMMA CheckerInvariant == Spec => []CInv
<1>1. Init => CInv
  BY CInvInit
<1>2. CInv /\ [Next]_vars => CInv'
  BY CInvNext
<1> QED
  BY <1>1, <1>2, PTL DEF Spec

-----------------------------------------------------------------------------
(* The refinement.                                                          *)

LEMMA WorthTypes == TypeOK => Worth \in [Key -> Tier \cup {"worthless"}]
<1> SUFFICES ASSUME TypeOK, NEW k \in Key
             PROVE  (IF IsValid(k) THEN licenses[k].tier ELSE "worthless") \in Tier \cup {"worthless"}
  BY DEF Worth
<1>1. IsValid(k) => licenses[k] \in License
  BY DEF IsValid, TypeOK
<1>2. IsValid(k) => licenses[k].tier \in Tier
  BY <1>1 DEF License
<1> QED
  BY <1>2

\* A step that leaves the table and the day alone leaves the worth of the keys alone.
LEMMA WorthStays ==
    ASSUME UNCHANGED <<licenses, day>>
    PROVE  Worth' = Worth
BY DEF Worth, IsValid

LEMMA VerifyingIsEntitled ==
    ASSUME CInv, NEW r \in Req, Verifying(r)
    PROVE  [Ent!Next]_(Ent!vars)
<1>1. PICK q : q = req[r]
  OBVIOUS
<1>2. /\ TypeOK /\ req \in [Req -> Request] /\ cache \in Row
      /\ licenseKey \in Key \cup {None} /\ signed \subseteq Token /\ entered \subseteq Key
      /\ tier \in {Free} \cup (Tier \ Unknown) /\ day \in Nat
  BY Types DEF CInv
<1>3. /\ q.row \in Row /\ q.answer \in Token \cup {NoToken}
      /\ q.pc = "activate" => q.key \in Key
      /\ q.answer # NoToken => q.answer \in signed /\ q.answer.until = day + Life
      /\ q.pc = "adopt" /\ q.answer # NoToken => q.answer.key \in entered
      /\ RowFine(q.row)
  BY <1>1, ReqFacts
<1>4. ASSUME UNCHANGED <<licenses, day, signed, entered, tier>>
      PROVE  UNCHANGED Ent!vars
  BY <1>4, WorthStays DEF Ent!vars
<1>5. ASSUME UNCHANGED <<licenses, day, signed, entered>>,
             tier' = Free \/ \E g \in signed : g.key \in entered /\ g.until >= day /\ tier' = g.tier
      PROVE  [Ent!Next]_(Ent!vars)
  <2>1. Ent!TakeUp
    BY <1>5, WorthStays DEF Ent!TakeUp
  <2> QED
    BY <2>1 DEF Ent!Next
<1>6. CASE SetKey(r)
  <2>1. Ent!Enter(q.key) /\ q.key \in Key
    BY <1>1, <1>3, <1>6, WorthStays DEF SetKey, serverVars, Ent!Enter
  <2> QED
    BY <2>1 DEF Ent!Next
<1>7. CASE VerifyNoKey(r)
  BY <1>5, <1>7 DEF VerifyNoKey, serverVars, checkerHistory
<1>8. CASE Validate(r)
  <2>1. CASE ~ IsValid(q.key)
    <3>1. UNCHANGED <<licenses, day, signed, entered, tier>>
      BY <1>1, <1>8, <2>1 DEF Validate, serverVars
    <3> QED
      BY <1>4, <3>1
  <2>2. CASE IsValid(q.key)
    <3>1. q.key \in 1 .. Len(licenses) /\ Len(licenses) <= MaxIssued /\ licenses \in Seq(License)
      BY <1>2, <2>2 DEF IsValid, TypeOK
    <3>2. q.key \in Key /\ licenses[q.key] \in License
      BY <3>1, ServerBounds DEF Key
    <3>3. licenses[q.key].tier \in Tier /\ day + Life \in Nat
      BY <1>2, <3>2, TimeAssumption DEF License
    <3>4. Worth[q.key] = licenses[q.key].tier
      BY <2>2, <3>2 DEF Worth
    <3>5. SignToken(q.key) = [key |-> q.key, tier |-> Worth[q.key], until |-> day + Life]
      BY <3>4 DEF SignToken
    <3>6. SignToken(q.key) \in Token
      BY <3>2, <3>3 DEF SignToken, Token
    <3>7. SignToken(q.key) # NoToken
      BY <3>6, TokenFields
    <3>8. signed' = signed \cup {SignToken(q.key)} /\ UNCHANGED <<licenses, day, entered, tier>>
      BY <1>1, <1>8, <2>2, <3>7 DEF Validate, serverVars
    <3>9. Ent!Sign(q.key)
      BY <3>3, <3>4, <3>5, <3>8, WorthStays DEF Ent!Sign
    <3> QED
      BY <3>2, <3>9 DEF Ent!Next
  <2> QED
    BY <2>1, <2>2
<1>9. CASE Adopt(r)
  <2>1. tier' = q.answer.tier /\ q.pc = "adopt" /\ UNCHANGED <<licenses, day, signed, entered>>
    BY <1>1, <1>9 DEF Adopt, serverVars, checkerHistory
  <2>2. CASE q.answer = NoToken
    BY <1>5, <2>1, <2>2 DEF NoToken
  <2>3. CASE q.answer # NoToken
    <3>1. q.answer.until >= day
      BY <1>2, <1>3, <2>3, TimeAssumption
    <3> QED
      BY <1>3, <1>5, <2>1, <2>3, <3>1
  <2> QED
    BY <2>2, <2>3
<1>10. CASE Decide(r)
  <2>1. UNCHANGED <<licenses, day, signed, entered>>
    BY <1>10 DEF Decide, serverVars, checkerHistory
  <2>2. tier' = Free \/ (CachedToken(q.row) /\ tier' = q.row.token.tier)
    BY <1>1, <1>10 DEF Decide
  <2>3. CachedToken(q.row) =>
           q.row.token \in signed /\ q.row.token.key \in entered /\ q.row.token.until >= day
    BY <1>3 DEF CachedToken, RowFine, VerifyTokenAt
  <2> QED
    BY <1>5, <2>1, <2>2, <2>3
<1>11. CASE ReadCacheFails(r)
  BY <1>5, <1>11 DEF ReadCacheFails
<1>12. CASE PhoneHome(r) \/ NoAnswer(r) \/ CheckAnswer(r) \/ Store(r) \/ ReadCache(r) \/ Downgrade(r)
            \/ StoreFails(r)
  <2>1. UNCHANGED <<licenses, day, signed, entered, tier>>
    BY <1>12 DEF PhoneHome, NoAnswer, CheckAnswer, Store, ReadCache, Downgrade, StoreFails,
                 serverVars, checkerHistory
  <2> QED
    BY <1>4, <2>1
<1> QED
  BY <1>6, <1>7, <1>8, <1>9, <1>10, <1>11, <1>12 DEF Verifying

LEMMA StepIsEntitled == CInv /\ CInv' /\ [Next]_vars => [Ent!Next]_(Ent!vars)
<1> SUFFICES ASSUME CInv, CInv', [Next]_vars PROVE [Ent!Next]_(Ent!vars)
  OBVIOUS
<1>0. TypeOK /\ TypeOK' /\ env \in Key \cup {None} /\ savedKey \in Key \cup {None}
  BY Types DEF CInv, CheckerTypeOK
<1>1. Worth' \in [Key -> Tier \cup {"worthless"}]
  <2>1. \A k \in Key : licenses'[k].tier \in Tier \/ ~ IsValid(k)'
    <3> TAKE k \in Key
    <3>1. IsValid(k)' => licenses'[k] \in License
      BY <1>0 DEF IsValid, TypeOK
    <3> QED
      BY <3>1 DEF License
  <2> QED
    BY <2>1 DEF Worth
<1>2. ASSUME day' \in {day, day + 1}, UNCHANGED <<signed, entered, tier>>
      PROVE  [Ent!Next]_(Ent!vars)
  <2>1. Ent!Trade
    BY <1>1, <1>2 DEF Ent!Trade
  <2> QED
    BY <2>1 DEF Ent!Next
<1>3. CASE ServerNext /\ UNCHANGED checkerVars
  BY <1>2, <1>3, DayStays DEF checkerVars
<1>4. CASE \E r \in Req : Verifying(r)
  BY <1>4, VerifyingIsEntitled
<1>5. CASE \E r \in Page : HandleLicenseVerify(r) \/ \E k \in Key : Activate(r, k)
  <2>1. UNCHANGED <<licenses, day, signed, entered, tier>>
    BY <1>5 DEF HandleLicenseVerify, Activate, Arrive, serverVars
  <2> QED
    BY <1>2, <2>1
<1>6. CASE Restart
  <2>1. UNCHANGED <<licenses, day, signed>> /\ tier' = Free
          /\ entered' = entered \cup ({StartKey} \ {None})
    BY <1>6 DEF Restart, serverVars
  <2>2. Worth' = Worth
    BY <2>1, WorthStays
  <2>3. CASE StartKey = None
    <3>1. Ent!TakeUp
      BY <2>1, <2>2, <2>3 DEF Ent!TakeUp
    <3> QED
      BY <3>1 DEF Ent!Next
  <2>4. CASE StartKey # None
    <3>1. StartKey \in Key
      BY <1>0, <2>4 DEF StartKey
    <3>2. Ent!Enter(StartKey)
      BY <2>1, <2>2, <2>4 DEF Ent!Enter
    <3> QED
      BY <3>1, <3>2 DEF Ent!Next
  <2> QED
    BY <2>3, <2>4
<1>7. CASE NextDay
  BY <1>2, <1>7 DEF NextDay
<1>8. CASE UNCHANGED vars
  BY <1>2, <1>8 DEF vars, serverVars, checkerVars
<1> QED
  BY <1>3, <1>4, <1>5, <1>6, <1>7, <1>8 DEF Next, CheckerNext

-----------------------------------------------------------------------------
(* What follows.                                                            *)

\* The checker's state is well-formed: no request is left with a key, an answer or a row that
\* its next step cannot use, and the tier is one the application knows.
THEOREM CheckerTypeCorrect == Spec => []CheckerTypeOK
<1>1. CInv => CheckerTypeOK
  BY DEF CInv
<1> QED
  BY <1>1, CheckerInvariant, PTL

\* Within the grace period a restart without an answer brings back the tier from before.
THEOREM TierSurvivesRestart == Spec => []RestartKeepsTier
<1>1. CInv => RestartKeepsTier
  <2> SUFFICES ASSUME CInv, promise # NoPromise, AllIdle PROVE tier = promise
    BY DEF RestartKeepsTier
  <2>1. req[Main].pc = "idle"
    BY DEF AllIdle, Busy, Req
  <2> QED
    BY <2>1 DEF CInv, Kept
<1> QED
  BY <1>1, CheckerInvariant, PTL

\* The checker and the server together implement Entitlement: the initial states are its
\* initial states, and each step signs, enters a key, takes up a tier, trades or stutters.
THEOREM CheckerIsEntitled == Spec => Entitled
<1>1. Init => Ent!Init
  <2> SUFFICES ASSUME Init PROVE Ent!Init
    OBVIOUS
  <2>1. CInv
    BY CInvInit
  <2>2. Worth \in [Key -> Tier \cup {"worthless"}]
    BY <2>1, WorthTypes DEF CInv, CheckerTypeOK
  <2> QED
    BY <2>1, <2>2, Types DEF Init, ServerInit, CInv, Ent!Init
<1>2. CInv /\ CInv' /\ [Next]_vars => [Ent!Next]_(Ent!vars)
  BY StepIsEntitled
<1> QED
  BY <1>1, <1>2, CheckerInvariant, PTL DEF Spec, Entitled, Ent!Spec
=============================================================================
