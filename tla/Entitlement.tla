---------------------------- MODULE Entitlement ----------------------------
(***************************************************************************)
(* What a license means, without the messages: the issuer signs for a key  *)
(* no more than the key is worth at that moment, and the application takes *)
(* up a paid tier only on the strength of a signature that has not run     *)
(* out, made for a key its user entered.  It may fall back to the free     *)
(* tier at any time.                                                       *)
(***************************************************************************)
EXTENDS Integers

CONSTANTS
    Key, Tier,
    Free,      \* the tier that needs no license; no license has it
    Worthless, \* what a key without a valid license is worth
    Life       \* days a signature lasts

VARIABLES worth, signed, entered, tier, day
vars == <<worth, signed, entered, tier, day>>

Grant == [key : Key, tier : Tier, until : Nat]

Init ==
    /\ worth \in [Key -> Tier \cup {Worthless}]
    /\ signed = {} /\ entered \subseteq Key /\ tier = Free /\ day = 0

\* Licenses are issued, changed, cancelled and expire.
Trade ==
    /\ worth' \in [Key -> Tier \cup {Worthless}]
    /\ day' \in {day, day + 1}
    /\ UNCHANGED <<signed, entered, tier>>

Sign(k) ==
    /\ worth[k] \in Tier
    /\ signed' = signed \cup {[key |-> k, tier |-> worth[k], until |-> day + Life]}
    /\ UNCHANGED <<worth, entered, tier, day>>

\* A key is entered at runtime, or at a start, which begins with the free tier.
Enter(k) ==
    /\ entered' = entered \cup {k} /\ tier' \in {tier, Free}
    /\ UNCHANGED <<worth, signed, day>>

TakeUp ==
    /\ tier' \in {Free} \cup {g.tier : g \in {h \in signed : h.key \in entered /\ h.until >= day}}
    /\ UNCHANGED <<worth, signed, entered, day>>

Next == Trade \/ (\E k \in Key : Sign(k) \/ Enter(k)) \/ TakeUp
Spec == Init /\ [][Next]_vars
=============================================================================
