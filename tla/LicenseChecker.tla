--------------------------- MODULE LicenseChecker --------------------------
(***************************************************************************)
(* The license checker of the application.  It asks the license server     *)
(* about the configured key at start and when the settings page asks, and  *)
(* keeps the last signed answer in the row license_cache, which carries    *)
(* the tier over a grace period while the server cannot be reached.        *)
(*                                                                         *)
(* Requests of the settings page run at the same time and share the field  *)
(* licenseKey without a lock: each step below is one read or write of it,  *)
(* one statement, or one message.                                          *)
(***************************************************************************)
EXTENDS LicenseServer

CONSTANTS
    Page,     \* requests of the settings page at work at once
    MaxRequests, \* bound: requests of the settings page
    EnvKey,   \* values SATSBOOK_LICENSE_KEY may have; None when it is not set
    Unknown,  \* tiers the operator may type and the application does not know
    Life,     \* days a token is good for: 30
    Grace     \* days the cache is good for: 7

Free == "free"
NoPromise == "none"
Main == "main"
Req == Page \cup {Main}
Key == 1 .. MaxIssued
NoToken == [key |-> None, tier |-> Free, until |-> 0]
NoLicense == [key |-> None, tier |-> Free, token |-> NoToken, until |-> 0]

ASSUME PageAssumption == Main \notin Page /\ EnvKey \subseteq Key \cup {None}
ASSUME TierAssumption == Free \notin Tier /\ Unknown \subseteq Tier
ASSUME TimeAssumption == Grace \in Nat /\ Life \in Nat /\ Grace <= Life

VARIABLES
    env,         \* SATSBOOK_LICENSE_KEY
    savedKey,    \* settings: license_key
    cache,       \* license_cache
    licenseKey,  \* DefaultChecker.licenseKey
    tier,        \* DefaultChecker.currentTier
    req,         \* where each verification is
    signed,      \* history: the tokens the server signed
    entered,     \* history: the keys that were configured
    requests,    \* bound counter
    unsure,      \* history: the last verification met another one or could not write
    promise      \* history: the tier a restart has to bring back while offline

checkerHistory == <<signed, entered, unsure, promise>>
checkerVars == <<env, savedKey, cache, licenseKey, tier, req, requests, signed, entered, unsure,
                 promise>>
vars == <<serverVars, checkerVars>>

Token == [key : Key, tier : Tier, until : Nat]
Row == [key : Key \cup {None}, tier : Tier \cup {Free}, token : Token \cup {NoToken}, until : Nat]
Idle == [pc |-> "idle", key |-> None, answer |-> NoToken, row |-> NoLicense]

CheckerTypeOK ==
    /\ TypeOK
    /\ {env, savedKey, licenseKey} \subseteq Key \cup {None}
    /\ cache \in Row /\ tier \in {Free} \cup (Tier \ Unknown)
    /\ req \in [Req -> [pc : {"idle", "activate", "begin", "asked", "answered", "adopt", "store",
                              "fallback", "decide", "downgrade"},
                        key : Key \cup {None}, answer : Token \cup {NoToken}, row : Row]]
    /\ signed \subseteq Token /\ entered \subseteq Key
    /\ requests \in Nat /\ unsure \in BOOLEAN /\ promise \in {NoPromise} \cup Tier

Busy(r) == req[r].pc # "idle"
AllIdle == \A r \in Req : ~Busy(r)

\* The process starts: an environment key goes before the saved one, and the
\* first verification is over before the pages are served.
StartKey == IF env # None THEN env ELSE savedKey

Start(k) == req' = [r \in Req |-> IF r = Main /\ k # None THEN [Idle EXCEPT !.pc = "begin"] ELSE Idle]

Init ==
    /\ ServerInit
    /\ env \in EnvKey /\ savedKey = None
    /\ cache = NoLicense
    /\ licenseKey = env /\ tier = Free
    /\ req = [r \in Req |-> IF r = Main /\ env # None THEN [Idle EXCEPT !.pc = "begin"] ELSE Idle]
    /\ signed = {} /\ entered = {env} \ {None}
    /\ requests = 0 /\ unsure = FALSE /\ promise = NoPromise

Restart ==
    /\ licenseKey' = StartKey /\ tier' = Free
    /\ Start(StartKey)
    /\ entered' = entered \cup ({StartKey} \ {None})
    /\ unsure' = FALSE
    /\ promise' = IF AllIdle /\ ~unsure /\ licenseKey = StartKey /\ tier # Free /\ day < cache.until
                  THEN tier ELSE NoPromise
    /\ UNCHANGED <<serverVars, env, savedKey, cache, signed, requests>>

\* No verification lasts longer than the 10 seconds of its call.
NextDay ==
    /\ AllIdle /\ day < LastDay
    /\ day' = day + 1 /\ promise' = NoPromise
    /\ UNCHANGED <<stripe, licenses, hook, serverHistory, commands, failures>>
    /\ UNCHANGED <<env, savedKey, cache, licenseKey, tier, req, signed, entered, unsure, requests>>

-----------------------------------------------------------------------------
(* The settings page.                                                       *)

Arrive(r, pc, k) ==
    /\ r \in Page /\ ~Busy(r) /\ ~Busy(Main)
    /\ requests < MaxRequests /\ requests' = requests + 1
    /\ req' = [req EXCEPT ![r] = [Idle EXCEPT !.pc = pc, !.key = k]]
    /\ unsure' = \E q \in Req : Busy(q)
    /\ promise' = NoPromise
    /\ UNCHANGED <<serverVars, env, cache, licenseKey, tier, signed, entered>>

\* HandleLicenseActivate saves the key and goes on to SetKeyAndVerify.
Activate(r, k) == Arrive(r, "activate", k) /\ savedKey' = k

HandleLicenseVerify(r) == Arrive(r, "begin", None) /\ UNCHANGED savedKey

SetKey(r) ==
    /\ req[r].pc = "activate"
    /\ licenseKey' = req[r].key
    /\ entered' = entered \cup {req[r].key}
    /\ req' = [req EXCEPT ![r] = [Idle EXCEPT !.pc = "begin"]]
    /\ UNCHANGED <<serverVars, env, savedKey, cache, tier, signed, unsure, promise, requests>>

-----------------------------------------------------------------------------
(* Verify.                                                                  *)

\* Without a key the tier is free and the cache is emptied.
VerifyNoKey(r) ==
    /\ req[r].pc = "begin" /\ licenseKey = None
    /\ tier' = Free
    /\ req' = [req EXCEPT ![r].pc = "store", ![r].row = NoLicense]
    /\ UNCHANGED <<serverVars, env, savedKey, cache, licenseKey, requests, checkerHistory>>

PhoneHome(r) ==
    /\ req[r].pc = "begin" /\ licenseKey # None
    /\ req' = [req EXCEPT ![r].pc = "asked", ![r].key = licenseKey]
    /\ UNCHANGED <<serverVars, env, savedKey, cache, licenseKey, tier, requests, checkerHistory>>

SignToken(k) == [key |-> k, tier |-> licenses[k].tier, until |-> day + Life]

\* Every token here has the signature of the server; what is left is its expiry.
VerifyTokenAt(t) == t.until >= day

\* Mutant: the state of the license is not looked at.
ValidateAnyLicense(r) ==
    LET token == IF req[r].key \in DOMAIN licenses THEN SignToken(req[r].key) ELSE NoToken IN
    /\ req[r].pc = "asked"
    /\ req' = [req EXCEPT ![r] = [Idle EXCEPT !.pc = "answered", !.answer = token]]
    /\ signed' = signed \cup ({token} \ {NoToken})
    /\ UNCHANGED <<serverVars, env, savedKey, cache, licenseKey, tier, entered, unsure, promise, requests>>

\* validateHandler on the server: a token for a valid license, no token for another key.
Validate(r) ==
    LET token == IF IsValid(req[r].key) THEN SignToken(req[r].key) ELSE NoToken IN
    /\ req[r].pc = "asked"
    /\ req' = [req EXCEPT ![r] = [Idle EXCEPT !.pc = "answered", !.answer = token]]
    /\ signed' = signed \cup ({token} \ {NoToken})
    /\ UNCHANGED <<serverVars, env, savedKey, cache, licenseKey, tier, entered, unsure, promise, requests>>

\* The server cannot be reached, fails, or its answer is late.
NoAnswer(r) ==
    /\ req[r].pc \in {"asked", "answered"}
    /\ req' = [req EXCEPT ![r] = [Idle EXCEPT !.pc = "fallback"]]
    /\ UNCHANGED <<serverVars, env, savedKey, cache, licenseKey, tier, requests, checkerHistory>>

\* Mutant: a tier the application does not know counts too.
TokenSigned(t) == t = NoToken \/ (VerifyTokenAt(t) /\ t.key = licenseKey)

\* A token counts only for the key that is configured now; "not valid" is not
\* compared with any key.
TokenAccepted(t) == t = NoToken \/ (VerifyTokenAt(t) /\ t.key = licenseKey /\ t.tier \notin Unknown)

CheckAnswer(r) ==
    /\ req[r].pc = "answered"
    /\ req' = IF TokenAccepted(req[r].answer) THEN [req EXCEPT ![r].pc = "adopt"]
              ELSE [req EXCEPT ![r] = [Idle EXCEPT !.pc = "fallback"]]
    /\ promise' = NoPromise
    /\ UNCHANGED <<serverVars, env, savedKey, cache, licenseKey, tier, signed, entered, unsure, requests>>

\* Mutant: the signed token is not written to the row.
AdoptNoTokenStored(r) ==
    LET t == req[r].answer IN
    /\ req[r].pc = "adopt"
    /\ tier' = t.tier
    /\ req' = [req EXCEPT ![r] = [Idle EXCEPT !.pc = "store",
          !.row = [key |-> licenseKey, tier |-> t.tier, token |-> NoToken, until |-> day + Grace]]]
    /\ UNCHANGED <<serverVars, env, savedKey, cache, licenseKey, requests, checkerHistory>>

\* The row gets the key that is configured now, also if it changed since.
Adopt(r) ==
    LET t == req[r].answer IN
    /\ req[r].pc = "adopt"
    /\ tier' = t.tier
    /\ req' = [req EXCEPT ![r] = [Idle EXCEPT !.pc = "store",
          !.row = [key |-> licenseKey, tier |-> t.tier, token |-> t, until |-> day + Grace]]]
    /\ UNCHANGED <<serverVars, env, savedKey, cache, licenseKey, requests, checkerHistory>>

Store(r) ==
    /\ req[r].pc = "store"
    /\ cache' = req[r].row
    /\ req' = [req EXCEPT ![r] = Idle]
    /\ UNCHANGED <<serverVars, env, savedKey, licenseKey, tier, requests, checkerHistory>>

\* Logged, and the tier stays what it was set to.
StoreFails(r) ==
    /\ req[r].pc = "store" /\ MayFail
    /\ req' = [req EXCEPT ![r] = Idle]
    /\ unsure' = TRUE
    /\ UNCHANGED <<stripe, licenses, hook, serverHistory, day, commands>>
    /\ UNCHANGED <<env, savedKey, cache, licenseKey, tier, signed, entered, promise, requests>>

-----------------------------------------------------------------------------
(* fallbackToCache.                                                         *)

ReadCache(r) ==
    /\ req[r].pc = "fallback"
    /\ req' = [req EXCEPT ![r].pc = "decide", ![r].row = cache]
    /\ UNCHANGED <<serverVars, env, savedKey, cache, licenseKey, tier, requests, checkerHistory>>

ReadCacheFails(r) ==
    /\ req[r].pc = "fallback" /\ MayFail
    /\ tier' = Free
    /\ req' = [req EXCEPT ![r] = Idle]
    /\ promise' = NoPromise
    /\ UNCHANGED <<stripe, licenses, hook, serverHistory, day, commands>>
    /\ UNCHANGED <<env, savedKey, cache, licenseKey, signed, entered, unsure, requests>>

\* Good for its own life: the token; for the grace period: the row.
CachedToken(row) ==
    /\ row.key = licenseKey /\ row.token # NoToken /\ VerifyTokenAt(row.token)

Decide(r) ==
    LET row == req[r].row
        graced == CachedToken(row) /\ day < row.until
    IN
    /\ req[r].pc = "decide"
    /\ tier' = IF graced THEN row.token.tier ELSE Free
    /\ req' = IF CachedToken(row) /\ ~graced THEN [req EXCEPT ![r] = [Idle EXCEPT !.pc = "downgrade"]]
              ELSE [req EXCEPT ![r] = Idle]
    /\ UNCHANGED <<serverVars, env, savedKey, cache, licenseKey, requests, checkerHistory>>

\* After the grace period the cached tier is overwritten too.
Downgrade(r) ==
    /\ req[r].pc = "downgrade"
    /\ req' = [req EXCEPT ![r].pc = "store", ![r].row = [NoLicense EXCEPT !.key = licenseKey]]
    /\ UNCHANGED <<serverVars, env, savedKey, cache, licenseKey, tier, requests, checkerHistory>>

Verifying(r) ==
    \/ SetKey(r) \/ VerifyNoKey(r) \/ PhoneHome(r) \/ Validate(r) \/ NoAnswer(r)
    \/ CheckAnswer(r) \/ Adopt(r) \/ Store(r) \/ StoreFails(r)
    \/ ReadCache(r) \/ ReadCacheFails(r) \/ Decide(r) \/ Downgrade(r)

CheckerNext ==
    \/ \E r \in Req : Verifying(r)
    \/ \E r \in Page : HandleLicenseVerify(r) \/ \E k \in Key : Activate(r, k)
    \/ Restart

Next ==
    \/ ServerNext /\ UNCHANGED checkerVars
    \/ CheckerNext
    \/ NextDay

Spec == Init /\ [][Next]_vars

-----------------------------------------------------------------------------
(* Properties.                                                              *)

\* The checker and the server together keep what a license means: whatever the
\* requests, restarts, failures and changes of the key do to one another, the
\* server signs only what a key is worth, and a paid tier is taken up only with
\* a signed, unexpired token for a key the user entered.
Worth == [k \in Key |-> IF IsValid(k) THEN licenses[k].tier ELSE "worthless"]
Ent == INSTANCE Entitlement WITH Worthless <- "worthless", worth <- Worth
Entitled == Ent!Spec

\* Within the grace period a restart without an answer from the server brings
\* back the tier the process had before, unless its last verification met
\* another one or could not write the cache.
RestartKeepsTier == promise # NoPromise /\ AllIdle => tier = promise
=============================================================================
