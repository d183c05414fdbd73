-------------------------------- MODULE Wallets -----------------------------
(***************************************************************************)
(* Watched wallets: an address, an extended public key or a descriptor     *)
(* whose balance is read from an Electrum server or from Bitcoin Core.     *)
(*                                                                         *)
(* A scan is a goroutine of its own and takes the mutex scanMu.  Against   *)
(* Electrum it asks for one address after the other over one connection    *)
(* and reads the next line that comes; Core answers for all at once.       *)
(***************************************************************************)
EXTENDS Integers, Sequences, SequencesExt

CONSTANTS
    Value,        \* what the operator may watch
    Kind,         \* of a value: "address", "xpub" or "descriptor"
    Amount,       \* sats a payment may bring to an address
    GapLimit,     \* empty addresses in a row that end a branch: 20
    MaxAddressesPerPath, \* addresses of a branch the Electrum server is asked for: 500
    CoreRange,    \* the last address of a branch that Core looks for: 1000
    MaxWallets,   \* bound: wallets ever added
    MaxRequests,  \* bound: refreshes
    MaxPayments,  \* bound: payments
    MaxTimeouts   \* bound: calls that end without an answer

Branch == {0, 1}
Index == 0 .. MaxAddressesPerPath - 1
\* What Core looks for; a descriptor is one question, and what it stands for is
\* summed by Core.
Address(v) == IF Kind[v] = "xpub" THEN Branch \X (0 .. CoreRange) ELSE {<<0, 0>>}

ASSUME WalletsAssumption ==
    /\ Kind \in [Value -> {"address", "xpub", "descriptor"}]
    /\ Amount \subseteq Nat \ {0}
    /\ GapLimit \in Nat \ {0} /\ MaxAddressesPerPath \in Nat \ {0}
    /\ CoreRange \in Nat /\ MaxAddressesPerPath <= CoreRange + 1
    /\ MaxWallets \in Nat /\ MaxTimeouts \in Nat

VARIABLES
    coins,     \* sats at each address of each value
    moves,     \* history: payments of each value
    provider,  \* the scanner of the process: "electrum" or "core"
    wallets,   \* watched_wallets: id -> [value, sat]; and the payments its last scan saw
    lastId,    \* the id given last; ids are not given again
    jobs,      \* goroutines that wait for scanMu, each with the wallets it has left
    scan,      \* who has scanMu; {} when it is free
    asked,     \* requests the server has not answered
    answers,   \* lines the client has not read
    coreBusy,  \* Core still works on a scan nobody waits for
    requests, timeouts   \* bound counters

chain == <<coins, moves>>
wire == <<asked, answers>>
vars == <<chain, provider, wallets, lastId, jobs, scan, wire, coreBusy, requests, timeouts>>

Job == [id : 1 .. MaxWallets, value : Value]
Ask == [value : Value, at : Branch \X Index]
Scan == [id : 1 .. MaxWallets, value : Value, rest : Seq(Job), branch : Branch,
         index : 0 .. MaxAddressesPerPath, gap : 0 .. GapLimit, sum : Nat, since : Nat]

WalletsTypeOK ==
    /\ DOMAIN coins = Value /\ \A v \in Value : coins[v] \in [Address(v) -> Nat]
    /\ moves \in [Value -> Nat]
    /\ provider \in {"electrum", "core"} /\ coreBusy \in BOOLEAN
    /\ lastId \in 0 .. MaxWallets /\ DOMAIN wallets \subseteq 1 .. lastId
    /\ \A id \in DOMAIN wallets : wallets[id] \in [value : Value, sat : Nat, saw : Nat \cup {-1}]
    /\ \A id, other \in DOMAIN wallets : wallets[id].value = wallets[other].value => id = other
    /\ jobs \in Seq(Seq(Job) \ {<<>>}) /\ asked \in Seq(Ask) /\ answers \in Seq([r : Ask, sat : Nat])
    /\ scan \subseteq Scan /\ (\A s, t \in scan : s = t)
    /\ provider = "core" => asked = <<>> /\ answers = <<>>

Init ==
    /\ coins = [v \in Value |-> [a \in Address(v) |-> 0]] /\ moves = [v \in Value |-> 0]
    /\ provider \in {"electrum", "core"}
    /\ wallets = <<>> /\ lastId = 0
    /\ jobs = <<>> /\ scan = {} /\ asked = <<>> /\ answers = <<>> /\ coreBusy = FALSE
    /\ requests = 0 /\ timeouts = 0

\* What coins c has at the addresses S.
Sats(c, S) == FoldSet(LAMBDA a, sum : sum + c[a], 0, S)

-----------------------------------------------------------------------------
(* The chain: a payment to an address, or of all it has, or of all it has   *)
(* to another address of the same wallet.                                   *)

Payment(v) ==
    /\ FoldFunction(+, 0, moves) < MaxPayments /\ moves' = [moves EXCEPT ![v] = @ + 1]
    /\ LET c == coins[v]
           Now(changed) == coins' = [coins EXCEPT ![v] = changed]
       IN \E a \in Address(v) :
            \/ \E sat \in Amount : Now([c EXCEPT ![a] = @ + sat])
            \/ c[a] > 0 /\ Now([c EXCEPT ![a] = 0])
            \/ \E b \in Address(v) \ {a} : c[a] > 0 /\ Now([c EXCEPT ![a] = 0, ![b] = @ + c[a]])
    /\ UNCHANGED <<provider, wallets, lastId, jobs, scan, wire, coreBusy, requests, timeouts>>

-----------------------------------------------------------------------------
(* The page.                                                                *)

Page == UNCHANGED <<chain, provider, scan, wire, coreBusy, timeouts>>

\* A row that is added; its balance is not known.
NewRow(id, v) ==
    [i \in DOMAIN wallets \cup {id} |-> IF i = id THEN [value |-> v, sat |-> 0, saw |-> -1] ELSE wallets[i]]

\* Mutant: the same value a second time.
AddAgain(v) ==
    /\ lastId < MaxWallets
    /\ lastId' = lastId + 1
    /\ wallets' = NewRow(lastId', v)
    /\ jobs' = Append(jobs, <<[id |-> lastId', value |-> v]>>)
    /\ UNCHANGED requests /\ Page

\* A value is watched once.
HandleAddWallet(v) ==
    /\ lastId < MaxWallets
    /\ \A id \in DOMAIN wallets : wallets[id].value # v
    /\ lastId' = lastId + 1
    /\ wallets' = NewRow(lastId', v)
    /\ jobs' = Append(jobs, <<[id |-> lastId', value |-> v]>>)
    /\ UNCHANGED requests /\ Page

\* A scan of the wallet is not called off.
HandleRemoveWallet(id) ==
    /\ id \in DOMAIN wallets
    /\ wallets' = [other \in DOMAIN wallets \ {id} |-> wallets[other]]
    /\ UNCHANGED <<lastId, jobs, requests>> /\ Page

HandleRefreshWallet(id) ==
    /\ id \in DOMAIN wallets
    /\ requests < MaxRequests /\ requests' = requests + 1
    /\ jobs' = Append(jobs, <<[id |-> id, value |-> wallets[id].value]>>)
    /\ UNCHANGED <<wallets, lastId>> /\ Page

\* One goroutine for the wallets as they are listed now.
HandleRefreshAll ==
    /\ wallets # <<>>
    /\ requests < MaxRequests /\ requests' = requests + 1
    /\ \E order \in SetToSeqs(DOMAIN wallets) :
         jobs' = Append(jobs, [k \in DOMAIN order |-> [id |-> order[k], value |-> wallets[order[k]].value]])
    /\ UNCHANGED <<wallets, lastId>> /\ Page

-----------------------------------------------------------------------------
(* A scan, from the lock to the unlock.                                     *)

\* scanBranch: a balance starts a new gap, and the branch ends with the gap.
BranchEnds(s, sat) == sat = 0 /\ s.gap + 1 >= GapLimit

GetBalance(s) == asked' = Append(asked, [value |-> s.value, at |-> <<s.branch, s.index>>])

Return(s) == jobs' = IF s.rest = <<>> THEN jobs ELSE Append(jobs, s.rest)

\* Mutant: whoever comes may scan.
NoMutex == TRUE

Unlocked == scan = {}

\* scanWallet: the mutex is taken; a descriptor is an error against Electrum.
Lock ==
    /\ Unlocked
    /\ \E i \in DOMAIN jobs :
         LET job == Head(jobs[i])
             s == [id |-> job.id, value |-> job.value, rest |-> Tail(jobs[i]), branch |-> 0,
                   index |-> 0, gap |-> 0, sum |-> 0, since |-> moves[job.value]]
             waiting == RemoveAt(jobs, i)
         IN IF provider = "electrum" /\ Kind[job.value] = "descriptor"
            THEN /\ jobs' = IF s.rest = <<>> THEN waiting ELSE Append(waiting, s.rest)
                 /\ UNCHANGED <<scan, asked>>
            ELSE /\ scan' = scan \cup {s} /\ jobs' = waiting
                 /\ IF provider = "electrum" THEN GetBalance(s) ELSE UNCHANGED asked
    /\ UNCHANGED <<chain, provider, wallets, lastId, answers, coreBusy, requests, timeouts>>

\* The server answers in the order it was asked.
Answer ==
    /\ asked # <<>>
    /\ LET r == Head(asked) IN answers' = Append(answers, [r |-> r, sat |-> coins[r.value][r.at]])
    /\ asked' = Tail(asked)
    /\ UNCHANGED <<chain, provider, wallets, lastId, jobs, scan, coreBusy, requests, timeouts>>

\* UpdateWalletBalance: no row, nothing to update.
UpdateWalletBalance(s, sat) ==
    LET saw == IF s.since > wallets[s.id].saw THEN s.since ELSE wallets[s.id].saw IN
    wallets' = IF s.id \in DOMAIN wallets
               THEN [wallets EXCEPT ![s.id] = [value |-> @.value, sat |-> sat, saw |-> saw]]
               ELSE wallets

\* The next line is the answer; its id is not compared with that of the request.
Read ==
    /\ provider = "electrum" /\ answers # <<>>
    /\ \E s \in scan :
         LET sat == Head(answers).sat
             sum == s.sum + sat
             read == [s EXCEPT !.index = @ + 1, !.sum = sum, !.gap = IF sat > 0 THEN 0 ELSE @ + 1]
             over == BranchEnds(s, sat) \/ s.index + 1 >= MaxAddressesPerPath
             next == IF over THEN [read EXCEPT !.branch = 1, !.index = 0, !.gap = 0] ELSE read
         IN IF Kind[s.value] = "address" \/ (over /\ s.branch = 1)
            THEN /\ UpdateWalletBalance(s, sum)
                 /\ scan' = scan \ {s} /\ Return(s) /\ UNCHANGED asked
            ELSE /\ scan' = (scan \ {s}) \cup {next} /\ GetBalance(next)
                 /\ UNCHANGED <<wallets, jobs>>
    /\ answers' = Tail(answers)
    /\ UNCHANGED <<chain, provider, lastId, coreBusy, requests, timeouts>>

\* scantxoutset: a scan that is still running is aborted, and asked again.
scantxoutset ==
    /\ provider = "core"
    /\ \E s \in scan :
         /\ UpdateWalletBalance(s, Sats(coins[s.value], Address(s.value)))
         /\ scan' = scan \ {s} /\ Return(s)
    /\ coreBusy' = FALSE
    /\ UNCHANGED <<chain, provider, lastId, wire, requests, timeouts>>

\* Mutant: the goroutine ends and scanMu stays locked.
NoUnlock ==
    /\ timeouts < MaxTimeouts /\ timeouts' = timeouts + 1
    /\ scan # {}
    /\ coreBusy' = (provider = "core")
    /\ answers' = <<>> /\ asked' = <<>>
    /\ UNCHANGED <<chain, provider, wallets, lastId, scan, jobs, requests>>

\* Ten minutes are over, or the call failed: the balance stays.  What was asked
\* is answered all the same.
TimeOut ==
    /\ timeouts < MaxTimeouts /\ timeouts' = timeouts + 1
    /\ \E s \in scan : Return(s) /\ scan' = scan \ {s}
    /\ coreBusy' = (provider = "core")
    /\ UNCHANGED <<chain, provider, wallets, lastId, wire, requests>>

Scanning == Lock \/ Answer \/ Read \/ scantxoutset

Next ==
    \/ \E v \in Value : Payment(v) \/ HandleAddWallet(v)
    \/ \E id \in 1 .. lastId : HandleRemoveWallet(id) \/ HandleRefreshWallet(id)
    \/ HandleRefreshAll
    \/ Scanning \/ TimeOut

Spec == Init /\ [][Next]_vars

\* The server answers and a goroutine goes on.
FairSpec == Spec /\ WF_vars(Scanning)

-----------------------------------------------------------------------------
(* Properties.                                                              *)

\* GapLimit empty addresses in a row before an address of a branch.
GapBefore(c, branch, index) ==
    \E from \in 0 .. index - GapLimit : \A k \in from .. from + GapLimit - 1 : c[<<branch, k>>] = 0

\* The addresses of a branch before its first gap.
Found(c, branch) == {i \in Index : ~GapBefore(c, branch, i)}

Balance(v) ==
    IF Kind[v] = "address" \/ provider = "core" THEN Sats(coins[v], Address(v))
    ELSE Sats(coins[v], {a \in Address(v) : a[2] \in Found(coins[v], a[1])})

\* However scans, refreshes, removals and payments cross: when nothing was paid
\* since the scan of a wallet that began last, its row has what is there; no
\* older scan writes over it, and none that was called for another wallet.  A
\* call that timed out voids this for the Electrum connection.
RowsFollowTheChain ==
    timeouts = 0 \/ provider = "core" =>
        \A id \in DOMAIN wallets :
            LET w == wallets[id] IN w.saw = moves[w.value] => w.sat = Balance(w.value)

\* Every scan that was asked for has its turn, also after one that failed.
ScansEnd == []<>(jobs = <<>> /\ scan = {})

\* "GetBalance returns the total balance in satoshis for a given script hash."
BalanceIsOfTheAddress ==
    [][Read => \A s \in scan : Head(answers).r = [value |-> s.value, at |-> <<s.branch, s.index>>]]_vars
=============================================================================
