----------------------------- MODULE MonarchTx -----------------------------
(***************************************************************************)
(* The export of transactions to Monarch Money.  A batch lists what has no *)
(* row in monarch_tx_sync, then, under the mutex of one monarch.Syncer,    *)
(* finds or creates the account, asks Monarch for the transactions it has  *)
(* already (their notes carry the source id), creates the others one by    *)
(* one, and after the mutex is released records what it created.           *)
(*                                                                         *)
(* The background syncer starts a batch after each cycle, the settings     *)
(* page starts batches in goroutines.  Each holds a pointer to a           *)
(* monarch.Syncer of its own: the settings page replaces its pointer when  *)
(* the user connects, and both are cleared when the user disconnects.      *)
(*                                                                         *)
(* Monarch is external: it is modelled from how monarch/sync.go uses it.   *)
(***************************************************************************)
EXTENDS Integers, FiniteSets, FiniteSetsExt

CONSTANTS
    Tx,          \* transactions of the selected types, numbered by time
    Worthless,   \* those under one cent: all of LND's, which have no USD amount
    MaxJobs,     \* batches of the settings page at work at once
    MaxChanges,  \* bound: connects and disconnects
    MaxFailures  \* bound: failed or lost calls and statements, killed processes

ASSUME TxAssumption == Tx \subseteq Nat /\ Worthless \subseteq Tx
ASSUME BoundsAssumption == {MaxJobs, MaxChanges, MaxFailures} \subseteq Nat

Background == 0
Job == 1 .. MaxJobs
Runner == {Background} \cup Job

\* The Syncer instances of one process: at start, at a connect, and for a sync
\* request that finds a token and no instance.
Instance == 1 .. 1 + 2 * MaxChanges
None == 0

VARIABLES
    monarch,  \* Monarch: the transactions in each account of our name, oldest first
    created,  \* Monarch: accounts of our name ever created
    known,    \* btc_transactions_v
    marked,   \* monarch_tx_sync
    token,    \* settings: there is a monarch_token
    up,       \* the process runs
    handler,  \* the connect or disconnect request in progress
    bg, web,  \* Syncer.monarch and Handler.monarchSyncer
    made,     \* instances made since the start of the process
    cache,    \* txAccountID of each instance
    run,      \* where each batch is
    blind,    \* history: a query for the existing transactions failed
    overlap,  \* history: two instances were in SyncTransactions at once
    changes, failures  \* bound counters

dbVars == <<known, marked>>
pointers == <<handler, bg, web, made>>
history == <<blind, overlap>>
vars == <<monarch, created, known, marked, token, up, handler, bg, web, made, cache, run,
          blind, overlap, changes, failures>>

NoBatch == [pc |-> "idle", inst |-> None, acct |-> None, dups |-> {},
            todo |-> {}, existing |-> {}, synced |-> {}]

\* The steps taken with the mutex held.
Locked == {"list", "create", "cleanup", "dedup", "post"}

TypeOK ==
    /\ DOMAIN monarch \subseteq 1 .. created
    /\ \A a \in DOMAIN monarch : monarch[a] \in [Tx -> Nat]
    /\ created \in Nat
    /\ known \subseteq Tx /\ marked \subseteq Tx
    /\ {token, up, blind, overlap} \subseteq BOOLEAN
    /\ handler \in {"idle", "connect", "disconnect"}
    /\ {bg, web} \subseteq Instance \cup {None}
    /\ made \in {None} \cup Instance
    /\ cache \in [Instance -> 0 .. created]
    /\ run \in [Runner -> [pc : {"idle", "call", "lock", "mark"} \cup Locked,
                           inst : Instance \cup {None}, acct : 0 .. created,
                           dups : SUBSET (1 .. created), todo : SUBSET Tx,
                           existing : SUBSET Tx, synced : SUBSET Tx]]
    /\ \A r \in Runner : run[r].pc \in {"cleanup", "dedup", "post"} => run[r].acct # None
    /\ changes \in Nat /\ failures \in Nat

Init ==
    /\ monarch = << >> /\ created = 0
    /\ known = {} /\ marked = {}
    /\ token \in BOOLEAN /\ up = TRUE
    /\ handler = "idle"
    /\ made = IF token THEN 1 ELSE 0
    /\ bg = made /\ web = made
    /\ cache = [i \in Instance |-> None]
    /\ run = [r \in Runner |-> NoBatch]
    /\ blind = FALSE /\ overlap = FALSE
    /\ changes = 0 /\ failures = 0

MayFail == failures < MaxFailures /\ failures' = failures + 1

\* A sync or an import adds a row; nothing about a row changes here.
Appear(t) ==
    /\ t \notin known
    /\ known' = known \cup {t}
    /\ UNCHANGED <<monarch, created, marked, token, up, pointers, cache, run, history, changes,
                   failures>>

-----------------------------------------------------------------------------
(* The settings page.                                                       *)

SaveToken ==
    /\ up /\ handler = "idle"
    /\ changes < MaxChanges /\ changes' = changes + 1
    /\ token' \in BOOLEAN
    /\ handler' = IF token' THEN "connect" ELSE "disconnect"
    /\ UNCHANGED <<monarch, created, dbVars, up, bg, web, made, cache, run, history, failures>>

\* HandleMonarchSave and HandleMonarchToken assign the handler's field.
Connect ==
    /\ up /\ handler = "connect"
    /\ web' = made + 1 /\ made' = made + 1
    /\ handler' = "idle"
    /\ UNCHANGED <<monarch, created, dbVars, token, up, bg, cache, run, history, changes, failures>>

\* Mutant: only the handler forgets its instance.
DisconnectWebOnly ==
    /\ up /\ handler = "disconnect"
    /\ web' = None
    /\ handler' = "idle"
    /\ UNCHANGED <<monarch, created, dbVars, token, up, bg, made, cache, run, history, changes,
                   failures>>

\* HandleMonarchDisconnect calls SetMonarchSyncer, which tells the syncer too.
Disconnect ==
    /\ up /\ handler = "disconnect"
    /\ web' = None /\ bg' = None
    /\ handler' = "idle"
    /\ UNCHANGED <<monarch, created, dbVars, token, up, made, cache, run, history, changes,
                   failures>>

ListUnsynced == known \ marked

\* HandleMonarchTxSync makes an instance if there is only a token, and lists; the
\* instance it hands to a goroutine with the list is read again.
RequestSync(r) ==
    LET inst == IF web # None THEN web ELSE made + 1 IN
    /\ up /\ run[r].pc = "idle"
    /\ web # None \/ token
    /\ made < Max(Instance) \/ web # None
    /\ web' = inst
    /\ made' = Max({made, inst})
    /\ ListUnsynced # {}
    /\ run' = [run EXCEPT ![r] = [NoBatch EXCEPT !.pc = "call", !.todo = ListUnsynced]]
    /\ UNCHANGED <<monarch, created, dbVars, token, up, handler, bg, cache, history, changes,
                   failures>>

-----------------------------------------------------------------------------
(* The background syncer.                                                   *)

\* Sync has seen an instance; the settings and the list are read next.
BeginBatch ==
    /\ up /\ run[Background].pc = "idle"
    /\ bg # None
    /\ ListUnsynced # {}
    /\ run' = [run EXCEPT ![Background] = [NoBatch EXCEPT !.pc = "call", !.todo = ListUnsynced]]
    /\ UNCHANGED <<monarch, created, dbVars, token, up, pointers, cache, history, changes, failures>>

-----------------------------------------------------------------------------
(* SyncTransactions.                                                        *)

At(r, pc) == up /\ run[r].pc = pc
Stay == UNCHANGED <<known, token, up, pointers, changes>>

\* The pointer through which a batch calls SyncTransactions, read once more.
Pointer(r) == IF r = Background THEN bg ELSE web

CallSync(r) ==
    /\ At(r, "call")
    /\ Pointer(r) # None
    /\ run' = [run EXCEPT ![r].pc = "lock", ![r].inst = Pointer(r)]
    /\ Stay /\ UNCHANGED <<monarch, created, marked, cache, history, failures>>

\* Mutant: the instance has no mutex.
LockNoMutex(r) ==
    LET i == run[r].inst IN
    /\ At(r, "lock")
    /\ run' = [run EXCEPT ![r].pc = IF cache[i] = None THEN "list" ELSE "dedup",
                          ![r].acct = cache[i]]
    /\ overlap' = (overlap \/ \E q \in Runner : run[q].pc \in Locked /\ run[q].inst # i)
    /\ Stay /\ UNCHANGED <<monarch, created, marked, cache, blind, failures>>

\* Mutant: the cached account is not used.
LockNoAccount(r) ==
    LET i == run[r].inst IN
    /\ At(r, "lock")
    /\ ~ \E q \in Runner : run[q].pc \in Locked /\ run[q].inst = i
    /\ run' = [run EXCEPT ![r].pc = IF cache[i] = None THEN "list" ELSE "dedup"]
    /\ overlap' = (overlap \/ \E q \in Runner : run[q].pc \in Locked)
    /\ Stay /\ UNCHANGED <<monarch, created, marked, cache, blind, failures>>

\* txSyncMu is a field of the instance.
Lock(r) ==
    LET i == run[r].inst IN
    /\ At(r, "lock")
    /\ ~ \E q \in Runner : run[q].pc \in Locked /\ run[q].inst = i
    /\ run' = [run EXCEPT ![r].pc = IF cache[i] = None THEN "list" ELSE "dedup",
                          ![r].acct = cache[i]]
    /\ overlap' = (overlap \/ \E q \in Runner : run[q].pc \in Locked /\ run[q].inst # i)
    /\ Stay /\ UNCHANGED <<monarch, created, marked, cache, blind, failures>>

\* ensureTxAccount keeps the first account of our name and deletes the others.
ListAccounts(r) ==
    LET found == DOMAIN monarch IN
    /\ At(r, "list")
    /\ IF found = {}
       THEN run' = [run EXCEPT ![r].pc = "create"] /\ UNCHANGED cache
       ELSE LET first == Min(found) IN
            /\ run' = [run EXCEPT ![r] = [@ EXCEPT !.acct = first, !.dups = found \ {first},
                          !.pc = IF found = {first} THEN "dedup" ELSE "cleanup"]]
            /\ cache' = [cache EXCEPT ![run[r].inst] = first]
    /\ Stay /\ UNCHANGED <<monarch, created, marked, history, failures>>

\* A failed deletion is only logged.
DeleteDuplicate(r) ==
    LET d == Min(run[r].dups) IN
    /\ At(r, "cleanup")
    /\ \/ /\ monarch' = [a \in DOMAIN monarch \ {d} |-> monarch[a]]
          /\ UNCHANGED failures
       \/ UNCHANGED monarch /\ MayFail
    /\ run' = [run EXCEPT ![r].dups = @ \ {d},
                          ![r].pc = IF run[r].dups = {d} THEN "dedup" ELSE @]
    /\ Stay /\ UNCHANGED <<created, marked, cache, history>>

\* The account is created, and the answer may be lost.
CreateAccount(r) ==
    /\ At(r, "create")
    /\ created' = created + 1
    /\ monarch' = [a \in DOMAIN monarch \cup {created'} |->
                      IF a = created' THEN [t \in Tx |-> 0] ELSE monarch[a]]
    /\ \/ /\ run' = [run EXCEPT ![r].pc = "dedup", ![r].acct = created']
          /\ cache' = [cache EXCEPT ![run[r].inst] = created']
          /\ UNCHANGED failures
       \/ /\ run' = [run EXCEPT ![r] = NoBatch]
          /\ UNCHANGED cache
          /\ MayFail
    /\ Stay /\ UNCHANGED <<marked, history>>

\* No accounts, no account, no category: the batch ends and nothing is recorded.
BatchFails(r) ==
    /\ \E pc \in {"list", "create", "dedup"} : At(r, pc)
    /\ MayFail
    /\ run' = [run EXCEPT ![r] = NoBatch]
    /\ Stay /\ UNCHANGED <<monarch, created, marked, cache, history>>

\* fetchExistingSourceIDs: if the query fails the batch goes on without.
Dedup(r) ==
    LET a == run[r].acct IN
    /\ At(r, "dedup")
    /\ \/ /\ run' = [run EXCEPT ![r].pc = "post",
                       ![r].existing = {t \in Tx : a \in DOMAIN monarch /\ monarch[a][t] > 0}]
          /\ UNCHANGED <<blind, failures>>
       \/ /\ run' = [run EXCEPT ![r].pc = "post"]
          /\ blind' = TRUE
          /\ MayFail
    /\ Stay /\ UNCHANGED <<monarch, created, marked, cache, overlap>>

\* The next of the batch, in the order of time.
Pending(r, t) == At(r, "post") /\ run[r].todo # {} /\ t = Min(run[r].todo)
Done(r, t, ids) == run' = [run EXCEPT ![r].todo = @ \ {t}, ![r].synced = @ \cup ids]

\* Mutant: what Monarch has already is skipped and not recorded.
SkipTxForgets(r, t) ==
    /\ Pending(r, t)
    /\ t \in Worthless \cup run[r].existing
    /\ Done(r, t, {})
    /\ Stay /\ UNCHANGED <<monarch, created, marked, cache, history, failures>>

\* Too small, or in Monarch already: only the latter counts as synced.
SkipTx(r, t) ==
    /\ Pending(r, t)
    /\ t \in Worthless \cup run[r].existing
    /\ Done(r, t, {t} \ Worthless)
    /\ Stay /\ UNCHANGED <<monarch, created, marked, cache, history, failures>>

\* The account that is cached may be gone.
CreateTx(r, t) ==
    LET a == run[r].acct IN
    /\ Pending(r, t)
    /\ t \notin Worthless \cup run[r].existing
    /\ a \in DOMAIN monarch
    /\ monarch' = [monarch EXCEPT ![a][t] = @ + 1]
    /\ \/ Done(r, t, {t}) /\ UNCHANGED failures
       \/ Done(r, t, {}) /\ MayFail
    /\ Stay /\ UNCHANGED <<created, marked, cache, history>>

CreateTxFails(r, t) ==
    /\ Pending(r, t)
    /\ t \notin Worthless \cup run[r].existing
    /\ IF run[r].acct \in DOMAIN monarch THEN MayFail ELSE UNCHANGED failures
    /\ Done(r, t, {})
    /\ Stay /\ UNCHANGED <<monarch, created, marked, cache, history>>

\* SyncTransactions returns and releases the mutex.
EndBatch(r) ==
    /\ At(r, "post") /\ run[r].todo = {}
    /\ run' = [run EXCEPT ![r] = IF run[r].synced = {} THEN NoBatch ELSE [@ EXCEPT !.pc = "mark"]]
    /\ Stay /\ UNCHANGED <<monarch, created, marked, cache, history, failures>>

\* MarkTransactionSynced, in the order of a Go map.
Mark(r, t) ==
    /\ At(r, "mark") /\ t \in run[r].synced
    /\ \/ marked' = marked \cup {t} /\ UNCHANGED failures
       \/ UNCHANGED marked /\ MayFail
    /\ run' = [run EXCEPT ![r] = IF run[r].synced = {t} THEN NoBatch
                                 ELSE [@ EXCEPT !.synced = run[r].synced \ {t}]]
    /\ Stay /\ UNCHANGED <<monarch, created, cache, history>>

-----------------------------------------------------------------------------
(* The process.                                                              *)

Down == /\ up' = FALSE
        /\ handler' = "idle" /\ bg' = None /\ web' = None /\ made' = 0
        /\ cache' = [i \in Instance |-> None]
        /\ run' = [r \in Runner |-> NoBatch]
        /\ UNCHANGED <<monarch, created, dbVars, token, history, changes>>

\* The pointer was looked at before, and the user has disconnected since.
Panic(r) ==
    /\ At(r, "call")
    /\ Pointer(r) = None
    /\ Down
    /\ UNCHANGED failures

Kill == up /\ MayFail /\ Down

\* main gives one instance to the handler, which hands it to the syncer.
Restart ==
    /\ ~ up /\ up' = TRUE
    /\ made' = IF token THEN 1 ELSE 0
    /\ bg' = made' /\ web' = made'
    /\ UNCHANGED <<monarch, created, dbVars, token, handler, cache, run, history, changes, failures>>

BatchStep(r) ==
    \/ ListAccounts(r) \/ DeleteDuplicate(r) \/ CreateAccount(r) \/ Dedup(r)
    \/ \E t \in Tx : SkipTx(r, t) \/ CreateTx(r, t) \/ CreateTxFails(r, t) \/ Mark(r, t)
    \/ EndBatch(r)

Next ==
    \/ \E t \in Tx : Appear(t)
    \/ SaveToken \/ Connect \/ Disconnect
    \/ \E r \in Job : RequestSync(r)
    \/ BeginBatch
    \/ \E r \in Runner : CallSync(r) \/ Panic(r) \/ Lock(r) \/ BatchStep(r) \/ BatchFails(r)
    \/ Kill \/ Restart

Spec == Init /\ [][Next]_vars

\* The loop of Run comes round and every call ends; requests end; a mutex of Go
\* is not withheld for ever; the process is restarted.
FairSpec ==
    /\ Spec
    /\ WF_vars(BeginBatch)
    /\ \A r \in Runner : /\ WF_vars(CallSync(r) \/ Panic(r))
                         /\ SF_vars(Lock(r)) /\ WF_vars(BatchStep(r))
    /\ WF_vars(Connect \/ Disconnect)
    /\ WF_vars(Restart)

-----------------------------------------------------------------------------
(* Properties.                                                               *)

Copies(t) == MapThenSumSet(LAMBDA a : monarch[a][t], DOMAIN monarch)

\* Whatever is killed, lost or retried, and although a batch works on a list read
\* before it had the mutex, no transaction is in Monarch twice, for the notes are
\* looked up again under the mutex, and what monarch_tx_sync records is in Monarch,
\* so that nothing is given up on that is not there.  Left out are a batch whose
\* lookup failed, which goes on without it (sync.go:431), and two instances at work
\* at once, one of which may have its account deleted as a duplicate by a later one.
SyncedOnce ==
    overlap \/ /\ blind \/ \A t \in Tx : Copies(t) <= 1
               /\ \A t \in marked : Copies(t) >= 1

\* handler_settings.go:286: the background loop stops when the user disconnects.
\* It starts no batch unless there is a token or a request is about to say so.
DisconnectStopsLoop == [][ BeginBatch => token \/ handler # "idle" ]_vars

\* While the background syncer has an instance, every transaction worth a cent is
\* recorded in the end, after failed creations, lost answers and crashes between
\* a creation and its record.
AllSynced ==
    []<>(up /\ bg # None /\ ~ overlap => known \ Worthless \subseteq marked)
=============================================================================
