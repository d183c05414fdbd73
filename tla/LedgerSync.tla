----------------------------- MODULE LedgerSync -----------------------------
(***************************************************************************)
(* What the syncer promises of the committed tables, with no stages, pages *)
(* or transaction: between node steps that never take anything back, whole *)
(* cycles land in one step, and what they leave behind is true of the      *)
(* node, complete up to its cursors, and forgets nothing recorded earlier. *)
(***************************************************************************)
EXTENDS Integers, Sequences

CONSTANT Channel

VARIABLES now, fwdLog, feed, chan, db

vars == <<now, fwdLog, feed, chan, db>>

Feeds == DOMAIN feed
HasRun(l) == l.fwdAt >= 0
Recorded(e, l) == e \in l.fwd

\* No row was invented, and none says more than happened.
Truthful(l) ==
    /\ \A e \in l.fwd : \E i \in DOMAIN fwdLog : fwdLog[i] = e
    /\ \A f \in Feeds : /\ l.present[f] \subseteq DOMAIN feed[f]
                        /\ \A i \in l.settled[f] :
                              i \in DOMAIN feed[f] /\ feed[f][i] = "settled"
    /\ \A c \in l.chanClosed : chan[c] = "closed"
    /\ l.chanActive \cap l.chanClosed = {}

\* Every forward of the covered time, and every invoice behind the cursor.
Complete(l) ==
    /\ HasRun(l) => \A i \in DOMAIN fwdLog :
          l.fwdFrom <= fwdLog[i].ts /\ fwdLog[i].ts < l.fwdAt => Recorded(fwdLog[i], l)
    /\ \A i \in 1 .. l.cursor["invoices"] : i \in l.present["invoices"]

Remembers(old, new) ==
    /\ old.fwd \subseteq new.fwd
    /\ old.fwdAt <= new.fwdAt
    /\ HasRun(old) => new.fwdFrom = old.fwdFrom
    /\ \A f \in Feeds : /\ old.present[f] \subseteq new.present[f]
                        /\ old.settled[f] \subseteq new.settled[f]
    /\ old.chanRows \subseteq new.chanRows
    /\ old.chanClosed \subseteq new.chanClosed

Init ==
    /\ ~ HasRun(db)
    /\ Truthful(db)
    /\ Complete(db)

\* The node goes on; the ledger does not follow by itself.
NodeStep ==
    /\ now <= now'
    /\ DOMAIN fwdLog \subseteq DOMAIN fwdLog'
    /\ \A i \in DOMAIN fwdLog : fwdLog'[i] = fwdLog[i]
    /\ \A i \in DOMAIN fwdLog' \ DOMAIN fwdLog : fwdLog'[i].ts = now
    /\ DOMAIN feed' = DOMAIN feed
    /\ \A f \in Feeds : \A i \in DOMAIN feed[f] :
          i \in DOMAIN feed'[f] /\ (feed[f][i] = "settled" => feed'[f][i] = "settled")
    /\ \A c \in Channel : chan[c] = "closed" => chan'[c] = "closed"
    /\ db' = db

\* A cycle commits: every stage is in it.
CommitCycle ==
    /\ UNCHANGED <<now, fwdLog, feed, chan>>
    /\ db'.fwdAt \in 0 .. now
    /\ db'.wallet >= 0
    /\ Truthful(db')
    /\ Complete(db')
    /\ Remembers(db, db')

Next == NodeStep \/ CommitCycle

Spec == Init /\ [][Next]_vars
=============================================================================
