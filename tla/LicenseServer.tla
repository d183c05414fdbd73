--------------------------- MODULE LicenseServer ---------------------------
(***************************************************************************)
(* The license server: a table of licenses, written by the webhooks Stripe *)
(* calls when a subscription is paid, changed or deleted and by the        *)
(* operator's commands, and read by the success page and by validation.    *)
(*                                                                         *)
(* A webhook looks a license up and writes in two statements, and several  *)
(* run at once.  Stripe delivers an event until it gets an answer, in any  *)
(* order, and may deliver it again; every handler that returns answers     *)
(* 200, also when it failed.  Stripe is external: it is modelled from how  *)
(* cmd/licenseserver and internal/stripe use it.                           *)
(***************************************************************************)
EXTENDS Integers, Sequences, FiniteSets, FiniteSetsExt

CONSTANTS
    Sub,         \* Stripe subscriptions
    Tier,        \* tiers on sale; what the operator types may be any of them
    Webhook,     \* webhook requests at work at once
    MaxChanges,  \* bound: plan changes of one subscription
    MaxIssued,   \* bound: licenses in the table
    MaxCommands, \* bound: create, revoke and upgrade commands of the operator
    MaxFailures, \* bound: statements and calls that fail, kills
    LastDay      \* bound: the clock, in days

ASSUME SubAssumption == "no subscription" \notin Sub
ASSUME ServerBounds == {MaxChanges, MaxIssued, MaxCommands, MaxFailures, LastDay} \subseteq Nat

None == 0
Never == LastDay + 1
NoSub == "no subscription"

VARIABLES
    subscription, \* Stripe: state, tier and number of events of each; bare when it was not
                  \* bought in our checkout, which puts the tier in the metadata
    events,       \* Stripe: events with no answer so far
    licenses,     \* the table: a key is the position of its row
    hook,         \* where each webhook request is
    shown,        \* history: the key the success page has shown for each
    applied,      \* history: number of the last event that each handled
    disturbed,    \* history: an event was dropped, failed or came out of order
    revoked,      \* history: a webhook revoked a license of these
    day, commands, failures

stripe == <<subscription, events>>
serverHistory == <<shown, applied, disturbed, revoked>>
serverVars == <<subscription, events, licenses, hook, shown, applied, disturbed, revoked,
                day, commands, failures>>

Kind == {"checkout", "updated", "deleted"}
Event == [kind : Kind, sub : Sub, tier : Tier, seq : Nat]
Rest == [pc |-> "rest"]
\* A request at work; its row, which may be None, is one of the first n.
Work(n) == [pc : {"ask", "lookup", "create", "revoke", "upgrade"}, event : Event, tier : Tier,
            row : 0 .. n]
License == [sub : Sub \cup {NoSub}, tier : Tier, active : BOOLEAN, expires : Nat]

TypeOK ==
    /\ subscription \in [Sub -> [state : {"none", "checkout", "active", "deleted"}, tier : Tier,
                              seq : Nat, bare : BOOLEAN]]
    /\ events \subseteq Event
    /\ licenses \in Seq(License) /\ Len(licenses) <= MaxIssued
    /\ hook \in [Webhook -> {Rest} \cup Work(Len(licenses))]
    /\ \A w \in Webhook : hook[w].pc \in {"revoke", "upgrade"} =>
          hook[w].row # None /\ licenses[hook[w].row].sub = hook[w].event.sub
    /\ shown \in [Sub -> 0 .. Len(licenses)]
    /\ applied \in [Sub -> Nat]
    /\ disturbed \subseteq Sub /\ revoked \subseteq Sub
    /\ day \in 0 .. LastDay /\ commands \in 0 .. MaxCommands /\ failures \in 0 .. MaxFailures

ServerInit ==
    /\ subscription \in [Sub -> [state : {"none"}, tier : Tier, seq : {0}, bare : BOOLEAN]]
    /\ events = {} /\ licenses = << >>
    /\ hook = [w \in Webhook |-> Rest]
    /\ shown = [s \in Sub |-> None] /\ applied = [s \in Sub |-> 0]
    /\ disturbed = {} /\ revoked = {}
    /\ day = 0 /\ commands = 0 /\ failures = 0

MayFail == failures < MaxFailures /\ failures' = failures + 1

RowsOf(s) == {k \in DOMAIN licenses : licenses[k].sub = s}

\* LookupByStripeSubscription takes the first row its index has.
FirstRow(s) == IF RowsOf(s) = {} THEN None ELSE Min(RowsOf(s))

IsValid(k) == k \in DOMAIN licenses /\ licenses[k].active /\ licenses[k].expires >= day

NewLicense(s, t, e) == [sub |-> s, tier |-> t, active |-> TRUE, expires |-> e]

-----------------------------------------------------------------------------
(* Stripe. Events of a subscription are numbered as they happen.            *)

Happens(s, state, tier, kind) ==
    LET n == subscription[s].seq + 1 IN
    /\ subscription' = [subscription EXCEPT ![s].state = state, ![s].tier = tier, ![s].seq = n]
    /\ events' = events \cup {[kind |-> kind, sub |-> s, tier |-> tier, seq |-> n]}
    /\ UNCHANGED <<licenses, hook, serverHistory, day, commands, failures>>

\* The tier goes into the metadata of the session and of the subscription.
CreateCheckoutSession(s, t) ==
    /\ subscription' = [subscription EXCEPT ![s] = [@ EXCEPT !.state = "checkout", !.tier = t]]
    /\ UNCHANGED <<events, licenses, hook, serverHistory, day, commands, failures>>

priceForTier(t) == t \in {"pro", "power"}

checkoutHandler(s, t) == priceForTier(t) /\ CreateCheckoutSession(s, t)

\* The application asks the license server for the session to redirect to.
HandleSubscribe(s, t) ==
    /\ subscription[s].state = "none" /\ ~subscription[s].bare
    /\ t \in {"pro", "power"}
    /\ checkoutHandler(s, t)

Pay(s) ==
    /\ subscription[s].state = IF subscription[s].bare THEN "none" ELSE "checkout"
    /\ Happens(s, "active", subscription[s].tier, "checkout")

ChangePlan(s) ==
    /\ subscription[s].state = "active" /\ subscription[s].seq <= MaxChanges
    /\ \E t \in Tier \ {subscription[s].tier} : Happens(s, "active", t, "updated")

Unsubscribe(s) ==
    /\ subscription[s].state = "active"
    /\ Happens(s, "deleted", subscription[s].tier, "deleted")

-----------------------------------------------------------------------------
(* The webhook.                                                             *)

\* A checkout without a tier in its metadata asks Stripe for the subscription.
Deliver(w, e) ==
    /\ hook[w] = Rest /\ e \in events
    /\ hook' = [hook EXCEPT ![w] =
          [pc |-> IF e.kind = "checkout" /\ subscription[e.sub].bare THEN "ask" ELSE "lookup",
           event |-> e, tier |-> e.tier, row |-> None]]
    /\ UNCHANGED <<stripe, licenses, serverHistory, day, commands, failures>>

\* The price the subscription has now names the tier.
AskStripe(w) ==
    /\ hook[w].pc = "ask"
    /\ hook' = [hook EXCEPT ![w].pc = "lookup", ![w].tier = subscription[hook[w].event.sub].tier]
    /\ UNCHANGED <<stripe, licenses, serverHistory, day, commands, failures>>

\* GetSubscription returns nil and its metadata is read: the request panics
\* and Stripe gets no answer.
AskStripeFails(w) ==
    /\ hook[w].pc = "ask" /\ MayFail
    /\ hook' = [hook EXCEPT ![w] = Rest]
    /\ UNCHANGED <<stripe, licenses, serverHistory, day, commands>>

\* The handler returns: 200, which Stripe may not get.
Answer(w) ==
    LET e == hook[w].event IN
    /\ hook' = [hook EXCEPT ![w] = Rest]
    /\ events' \in {events, events \ {e}}
    /\ applied' = [applied EXCEPT ![e.sub] = Max({@, e.seq})]
    /\ UNCHANGED <<subscription, shown, day, commands>>

Late(e) == e.seq < applied[e.sub] /\ e.kind # "checkout"

Note(w, wrong) ==
    disturbed' = IF wrong \/ Late(hook[w].event) THEN disturbed \cup {hook[w].event.sub}
                 ELSE disturbed

Continue(w, pc, k) ==
    /\ hook' = [hook EXCEPT ![w].pc = pc, ![w].row = k]
    /\ UNCHANGED <<stripe, licenses, serverHistory, day, commands>>

\* Mutant: the existing license is not looked for.
LookupCheckoutAlwaysNew(w) ==
    /\ hook[w].pc = "lookup" /\ hook[w].event.kind = "checkout"
    /\ Continue(w, "create", None) /\ UNCHANGED failures

LookupCheckout(w) ==
    /\ hook[w].pc = "lookup" /\ hook[w].event.kind = "checkout"
    /\ \/ /\ FirstRow(hook[w].event.sub) # None
          /\ Answer(w) /\ Note(w, FALSE) /\ UNCHANGED <<licenses, revoked, failures>>
       \/ /\ FirstRow(hook[w].event.sub) = None
          /\ Continue(w, "create", None) /\ UNCHANGED failures

\* Its error is ignored, as if there were no license.
LookupCheckoutFails(w) ==
    /\ hook[w].pc = "lookup" /\ hook[w].event.kind = "checkout" /\ MayFail
    /\ hook' = [hook EXCEPT ![w].pc = "create"]
    /\ disturbed' = disturbed \cup {hook[w].event.sub}
    /\ UNCHANGED <<stripe, licenses, shown, applied, revoked, day, commands>>

CreateLicense(w) ==
    LET s == hook[w].event.sub IN
    /\ hook[w].pc = "create" /\ Len(licenses) < MaxIssued
    /\ licenses' = Append(licenses, NewLicense(s, hook[w].tier, Never))
    /\ Answer(w)
    /\ Note(w, \E v \in Webhook \ {w} : hook[v] # Rest /\ hook[v].pc = "create" /\ hook[v].event.sub = s)
    /\ UNCHANGED <<revoked, failures>>

\* Mutant: a deletion goes on without a license.
LookupChangeNoCheck(w) ==
    LET e == hook[w].event
        k == FirstRow(e.sub)
    IN
    /\ hook[w].pc = "lookup" /\ e.kind = "deleted"
    /\ Continue(w, "revoke", k) /\ UNCHANGED failures

\* An update or a deletion for which there is no license yet is dropped.
LookupChange(w) ==
    LET e == hook[w].event
        k == FirstRow(e.sub)
    IN
    /\ hook[w].pc = "lookup" /\ e.kind # "checkout"
    /\ \/ /\ k # None => e.kind = "updated" /\ e.tier = licenses[k].tier
          /\ Answer(w) /\ Note(w, k = None) /\ UNCHANGED <<licenses, revoked, failures>>
       \/ /\ k # None /\ e.kind = "deleted"
          /\ Continue(w, "revoke", k) /\ UNCHANGED failures
       \/ /\ k # None /\ e.kind = "updated" /\ e.tier # licenses[k].tier
          /\ Continue(w, "upgrade", k) /\ UNCHANGED failures

LookupChangeFails(w) ==
    /\ hook[w].pc = "lookup" /\ hook[w].event.kind # "checkout" /\ MayFail
    /\ Answer(w) /\ Note(w, TRUE)
    /\ UNCHANGED <<licenses, revoked>>

Revoke(w) ==
    /\ hook[w].pc = "revoke"
    /\ licenses' = [licenses EXCEPT ![hook[w].row].active = FALSE]
    /\ revoked' = revoked \cup {hook[w].event.sub}
    /\ Answer(w) /\ Note(w, FALSE)
    /\ UNCHANGED failures

\* Mutant: an upgrade also activates the license.
UpgradeActivates(w) ==
    /\ hook[w].pc = "upgrade"
    /\ licenses' = [licenses EXCEPT ![hook[w].row].tier = hook[w].event.tier,
                                    ![hook[w].row].active = TRUE]
    /\ Answer(w) /\ Note(w, FALSE)
    /\ UNCHANGED <<revoked, failures>>

Upgrade(w) ==
    /\ hook[w].pc = "upgrade"
    /\ licenses' = [licenses EXCEPT ![hook[w].row].tier = hook[w].event.tier]
    /\ Answer(w) /\ Note(w, FALSE)
    /\ UNCHANGED <<revoked, failures>>

\* The failed statement is logged, and Stripe is told 200.
WriteFails(w) ==
    /\ hook[w].pc \in {"create", "revoke", "upgrade"} /\ MayFail
    /\ Answer(w) /\ Note(w, TRUE)
    /\ UNCHANGED <<licenses, revoked>>

ServerKilled ==
    /\ \E w \in Webhook : hook[w] # Rest
    /\ MayFail
    /\ hook' = [w \in Webhook |-> Rest]
    /\ UNCHANGED <<stripe, licenses, serverHistory, day, commands>>

\* The success page redirects with the key of a paid session; with no license
\* yet it asks the customer to come back.
Success(s) ==
    /\ subscription[s].state \notin {"none", "checkout"} /\ FirstRow(s) # None
    /\ shown' = [shown EXCEPT ![s] = FirstRow(s)]
    /\ UNCHANGED <<stripe, licenses, hook, applied, disturbed, revoked, day, commands, failures>>

-----------------------------------------------------------------------------
(* The operator's commands, each a process of its own.                      *)

Command(k) ==
    /\ commands < MaxCommands /\ commands' = commands + 1
    /\ disturbed' = disturbed \cup ({licenses[k].sub} \cap Sub)
    /\ UNCHANGED <<stripe, hook, shown, applied, revoked, day, failures>>

cmdCreate(t, e) ==
    /\ commands < MaxCommands /\ commands' = commands + 1
    /\ Len(licenses) < MaxIssued
    /\ licenses' = Append(licenses, NewLicense(NoSub, t, e))
    /\ UNCHANGED <<stripe, hook, serverHistory, day, failures>>

cmdRevoke(k) ==
    /\ licenses' = [licenses EXCEPT ![k].active = FALSE]
    /\ Command(k)

cmdUpgrade(k, t) ==
    /\ licenses' = [licenses EXCEPT ![k].tier = t]
    /\ Command(k)

ServerNext ==
    \/ \E s \in Sub, t \in Tier : HandleSubscribe(s, t)
    \/ \E s \in Sub : Pay(s) \/ ChangePlan(s) \/ Unsubscribe(s) \/ Success(s)
    \/ \E w \in Webhook, e \in events : Deliver(w, e)
    \/ \E w \in {v \in Webhook : hook[v] # Rest} :
          (\/ AskStripe(w) \/ AskStripeFails(w)
           \/ LookupCheckout(w) \/ LookupCheckoutFails(w) \/ CreateLicense(w)
           \/ LookupChange(w) \/ LookupChangeFails(w) \/ Revoke(w) \/ Upgrade(w)
           \/ WriteFails(w))
    \/ ServerKilled
    \/ \E t \in Tier, e \in (day + 1) .. Never : cmdCreate(t, e)
    \/ \E k \in DOMAIN licenses : cmdRevoke(k) \/ \E t \in Tier : cmdUpgrade(k, t)

ServerSpec == ServerInit /\ [][ServerNext]_serverVars

-----------------------------------------------------------------------------
(* Properties.                                                              *)

Quiet(s) ==
    /\ \A e \in events : e.sub # s
    /\ \A w \in Webhook : hook[w] # Rest => hook[w].event.sub # s

\* Once Stripe has an answer for every event of a subscription, none of them
\* dropped, failed, overtaken by a later one or at work twice at the moment the
\* license is created, the subscription has exactly
\* one license, active while it is paid for, with the tier of its plan: repeated
\* deliveries, lost answers and kills between the statements do no harm.
LicenseFollowsSubscription ==
    \A s \in Sub : Quiet(s) /\ s \notin disturbed =>
        LET rows == {licenses[k] : k \in RowsOf(s)} IN
        CASE subscription[s].state \in {"none", "checkout"} -> RowsOf(s) = {}
          [] subscription[s].state = "active" ->
                Cardinality(RowsOf(s)) = 1 /\ rows = {NewLicense(s, subscription[s].tier, Never)}
          [] subscription[s].state = "deleted" ->
                Cardinality(RowsOf(s)) = 1 /\ \A r \in rows : ~r.active

\* When a deletion has been carried out, the key the customer was shown is no
\* longer valid, also when deliveries raced and the subscription has two rows.
DeletionHitsShownKey ==
    \A s \in revoked : shown[s] # None => ~IsValid(shown[s])
=============================================================================
