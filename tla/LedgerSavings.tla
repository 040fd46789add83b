----------------------------- MODULE LedgerSavings -----------------------------
(***************************************************************************)
(* Payments from Savings, which the phone and a Ledger device both sign.   *)
(* One payment at a time is retained in a journal of the browser before    *)
(* anything is signed, and stays there until the chain answers for it.     *)
(*                                                                         *)
(* src/src/lib/vault/ledgerSavingsWallet.ts   the journal and the chain    *)
(* src/src/lib/vault/ledgerPayments.ts        the payment owner of a page  *)
(* src/src/lib/vault/ledgerApproval.ts        the device                   *)
(*                                                                         *)
(* The pages of a browser share the journal.  Each operation on it holds   *)
(* the vault's Savings lock; an operation that asks the chain holds it     *)
(* from its first request to its save, so it has two actions here and the  *)
(* answer may be old when it is used.  A page runs one flight (a review,   *)
(* an approval, a reopening, or an approval on the device) and one         *)
(* observation.  A lock of the session or a cancellation does not stop an  *)
(* operation that was asked for: it ends the flight at its next check.     *)
(* External: the chain, which accepts, confirms and drops transactions;    *)
(* another device that holds a saved journal; other spends of the coins.   *)
(* The coins are confirmed from the start and no block is undone.  Left    *)
(* out: change, fees, the phases of the device and the announcement of a   *)
(* completed payment.                                                      *)
(***************************************************************************)
EXTENDS Integers, FiniteSets

CONSTANTS
    Pages,          \* pages of the browser
    Candidates,     \* transactions a quote may build, by candidateId
    Coins,          \* confirmed Savings outputs
    Drafts,         \* what the user may ask for: an address, an amount, a fee
    Inputs,         \* the coins each candidate spends
    Draft,          \* the draft each candidate pays
    Does,           \* what the user of each page may ask for, and "observe"
    HistoryLimit,   \* bound of the journal's history (100 in the code)
    MaxFaults,      \* bound on deaths of pages, saved files, and other spends
    Nothing

ASSUME CandidateAssumption ==
    /\ Inputs \in [Candidates -> SUBSET Coins \ {{}}]
    /\ Draft \in [Candidates -> Drafts]
ASSUME CommandAssumption ==
    Does \in [Pages -> SUBSET {"review", "approve", "hardware", "reopen", "observe"}]
ASSUME BoundAssumption == {HistoryLimit, MaxFaults} \subseteq Nat

(* LedgerSavingsPaymentRecord.  Signing draws fresh bytes, so an approval  *)
(* is named by the page that made it; "tx" stands for signedPsbt and txHex.*)
Phases == {"prepared", "signing", "signed", "broadcast"}
Record == [id : Candidates, phase : Phases,
           phone : Pages \cup {Nothing}, tx : Pages \cup {Nothing}]
Journal == [pending : Record \cup {Nothing}, history : SUBSET Record]

ASSUME NullAssumption ==
    Nothing \notin Pages \cup Candidates \cup Drafts \cup Record
                       \cup (Pages \X {"flight", "read"})

VARIABLES
    pending, history,   \* the journal
    backup,     \* the journal of a saved recovery file, or Nothing
    chain,      \* per candidate: "absent", "mempool" or "confirmed"
    foreign,    \* coins spent by a confirmed transaction of someone else
    seen,       \* candidates the chain has ever held
    holder,     \* the page and activity that hold the Savings lock
    evidence,   \* what the chain answered to the holder
    open,       \* pages with an unlocked session
    flight,     \* per page: the command under way
    reading,    \* per page: the observation, and whether its generation is current
    view,       \* per page: the payment it shows, with an approval to complete
    faults

Fault == faults < MaxFaults /\ faults' = faults + 1

journal == <<pending, history>>
network == <<chain, foreign, seen>>
page == <<open, reading, view>>
vars == <<pending, history, backup, chain, foreign, seen, holder, evidence, open,
          flight, reading, view, faults>>

Kinds == {"none", "review", "approve", "hardware", "reopen"}
Steps == {"none", "load", "reconcile", "drop", "quote", "retain", "mark", "unlock",
          "save", "ready", "device", "keep", "send"}
(* "was" is the phase of the record a review found, "phone" the approval   *)
(* that goes to the device.                                                *)
Flight == [kind : Kinds, step : Steps, live : BOOLEAN, draft : Drafts \cup {Nothing},
           cand : Candidates \cup {Nothing}, was : Phases \cup {Nothing},
           phone : Pages \cup {Nothing}]
Idle == [kind |-> "none", step |-> "none", live |-> FALSE, draft |-> Nothing,
         cand |-> Nothing, was |-> Nothing, phone |-> Nothing]
(* An approval is shown as long as no transaction is stored with it.       *)
View == [id : Candidates, phone : Pages \cup {Nothing}]
Shown(r) == IF r = Nothing THEN Nothing
            ELSE [id |-> r.id, phone |-> IF r.tx = Nothing THEN r.phone ELSE Nothing]
Evidence == {"none", "prepared", "signing", "unknown", "broadcast", "confirmed",
             "conflicted", "available", "gone", "sent", "refused"}

(* Type correctness of the journal, of the chain and of the pages.         *)
TypeOK ==
    /\ pending \in Record \cup {Nothing} /\ history \subseteq Record
    /\ backup \in Journal \cup {Nothing}
    /\ chain \in [Candidates -> {"absent", "mempool", "confirmed"}]
    /\ foreign \subseteq Coins /\ seen \subseteq Candidates
    /\ holder \in (Pages \X {"flight", "read"}) \cup {Nothing}
    /\ evidence \in Evidence
    /\ open \subseteq Pages /\ flight \in [Pages -> Flight]
    /\ reading \in [Pages -> {"none", "current", "stale"}]
    /\ view \in [Pages -> View \cup {Nothing}] /\ faults \in 0..MaxFaults

Init ==
    /\ pending = Nothing /\ history = {} /\ backup = Nothing
    /\ chain = [c \in Candidates |-> "absent"] /\ foreign = {} /\ seen = {}
    /\ holder = Nothing /\ evidence = "none"
    /\ open = Pages /\ flight = [p \in Pages |-> Idle]
    /\ reading = [p \in Pages |-> "none"]
    /\ view = [p \in Pages |-> Nothing] /\ faults = 0

-------------------------------------------------------------------------------
(* The journal and the chain *)

Records == history \cup ({pending} \ {Nothing})
Identities(rs) == {r.id : r \in rs}
Prepared(c) == [id |-> c, phase |-> "prepared", phone |-> Nothing, tx |-> Nothing]
current(c) == pending # Nothing /\ pending.id = c

SpentBy(c) == IF chain[c] = "absent" THEN {} ELSE Inputs[c]
(* Coins that no transaction the chain holds spends.                       *)
Unspent == Coins \ (foreign \cup UNION {SpentBy(c) : c \in Candidates})
(* An input of the candidate is spent by another confirmed transaction.    *)
Conflicted(c) ==
    \/ Inputs[c] \cap foreign # {}
    \/ \E x \in Candidates \ {c} : chain[x] = "confirmed" /\ Inputs[x] \cap Inputs[c] # {}

outcome(r) ==
    IF r.phase = "prepared" THEN "prepared"
    ELSE IF chain[r.id] = "confirmed" THEN "confirmed"
    ELSE IF chain[r.id] = "mempool" THEN "broadcast"
    ELSE IF Conflicted(r.id) THEN "conflicted"
    ELSE IF r.phase = "signing" THEN "signing" ELSE "unknown"
(* Mutant: a payment of unknown outcome makes room for the next one.       *)
SettledOrUnknown == {"broadcast", "confirmed", "conflicted", "unknown"}

Settled == {"broadcast", "confirmed", "conflicted"}

(* The chain takes a candidate; transactions in conflict with it and not   *)
(* yet confirmed give way.                                                 *)
Holding(c, state) ==
    [x \in Candidates |->
        IF x = c THEN IF chain[c] = "confirmed" THEN "confirmed" ELSE state
        ELSE IF Inputs[x] \cap Inputs[c] # {} /\ chain[x] # "confirmed" THEN "absent"
        ELSE chain[x]]

-------------------------------------------------------------------------------
(* The session of a page and its commands *)

Goes(p, step) == flight' = [flight EXCEPT ![p].step = step]
Ends(p) == flight' = [flight EXCEPT ![p] = Idle]
(* After an operation the flight checks its generation before it goes on.  *)
Continues(p, step) == IF flight[p].live THEN Goes(p, step) ELSE Ends(p)
Shows(p, r) ==
    view' = IF flight[p].live THEN [view EXCEPT ![p] = Shown(r)] ELSE view
At(p, kinds, step) == flight[p].kind \in kinds /\ flight[p].step = step

Unlock(p) ==
    /\ p \notin open
    /\ open' = open \cup {p}
    /\ UNCHANGED <<journal, backup, network, holder, evidence, flight, reading, view,
                   faults>>

(* cancel: the generation moves on and the flight's signal is aborted.     *)
cancel(p) ==
    /\ flight' = [flight EXCEPT ![p].live = FALSE]
    /\ reading' = [reading EXCEPT ![p] = IF @ = "current" THEN "stale" ELSE @]

Lock(p) ==
    /\ Fault
    /\ p \in open
    /\ open' = open \ {p} /\ cancel(p)
    /\ view' = [view EXCEPT ![p] = Nothing]
    /\ UNCHANGED <<journal, backup, network, holder, evidence>>

CancelApproval(p) ==
    /\ Fault
    /\ flight[p].live
    /\ \/ flight[p].kind = "review"
       \/ flight[p].kind = "hardware" /\ flight[p].step \in {"ready", "device"}
    /\ cancel(p)
    /\ UNCHANGED <<journal, backup, network, holder, evidence, open, view>>

(* The browser closes a page: its memory and its lock are gone.            *)
Close(p) ==
    /\ Fault
    /\ open' = open \ {p}
    /\ flight' = [flight EXCEPT ![p] = Idle] /\ reading' = [reading EXCEPT ![p] = "none"]
    /\ view' = [view EXCEPT ![p] = Nothing]
    /\ IF holder # Nothing /\ holder[1] = p
       THEN holder' = Nothing /\ evidence' = "none"
       ELSE UNCHANGED <<holder, evidence>>
    /\ UNCHANGED <<journal, backup, network>>

(* run: one flight at a time; a new one starts a generation.               *)
run(p, command) ==
    /\ p \in open /\ flight[p] = Idle /\ command.kind \in Does[p]
    /\ flight' = [flight EXCEPT ![p] = [command EXCEPT !.live = TRUE]]
    /\ reading' = [reading EXCEPT ![p] = IF @ = "current" THEN "stale" ELSE @]
    /\ UNCHANGED <<journal, backup, network, holder, evidence, open, view, faults>>

review(p, d) ==
    run(p, [Idle EXCEPT !.kind = "review", !.step = "load", !.draft = d])
approve(p, d) ==
    run(p, [Idle EXCEPT !.kind = "approve", !.step = "load", !.draft = d])
reopen(p) ==
    /\ view[p] # Nothing
    /\ run(p, [Idle EXCEPT !.kind = "reopen", !.step = "reconcile", !.cand = view[p].id])
approveWithLedger(p) ==
    /\ view[p] # Nothing /\ view[p].phone # Nothing
    /\ run(p, [Idle EXCEPT !.kind = "hardware", !.step = "ready", !.cand = view[p].id,
               !.phone = view[p].phone])

-------------------------------------------------------------------------------
(* Operations that take the lock and do not ask the chain *)

(* loadLedgerSavingsPayment at the start of a review or an approval.       *)
LoadForReview(p) ==
    /\ At(p, {"review"}, "load") /\ holder = Nothing
    /\ IF ~flight[p].live THEN Ends(p)
       ELSE IF pending = Nothing THEN Goes(p, "quote")
       ELSE \E step \in {IF Draft[pending.id] = flight[p].draft THEN "reconcile"
                         ELSE IF pending.phase = "prepared" THEN "drop" ELSE "quote"} :
               flight' = [flight EXCEPT ![p].step = step, ![p].cand = pending.id,
                          ![p].was = pending.phase]
    /\ UNCHANGED <<journal, backup, network, holder, evidence, page, faults>>

LoadForApproval(p) ==
    /\ At(p, {"approve"}, "load") /\ holder = Nothing
    /\ IF flight[p].live /\ pending # Nothing /\ Draft[pending.id] = flight[p].draft
       THEN flight' = [flight EXCEPT ![p].step = "reconcile", ![p].draft = Nothing,
                       ![p].cand = pending.id]
       ELSE Ends(p)
    /\ UNCHANGED <<journal, backup, network, holder, evidence, page, faults>>

cancelLedgerSavingsPayment(p) ==
    /\ At(p, {"review"}, "drop") /\ holder = Nothing
    /\ IF current(flight[p].cand) /\ pending.phase = "prepared"
       THEN pending' = Nothing /\ Continues(p, "quote")
       ELSE pending' = pending /\ Ends(p)
    /\ UNCHANGED <<history, backup, network, holder, evidence, page, faults>>

(* The phone approval is signed and then retained, by another page too.    *)
saveLedgerSavingsPhoneApproval(p) ==
    /\ At(p, {"approve"}, "save") /\ holder = Nothing
    /\ IF /\ current(flight[p].cand) /\ pending.phase = "signing"
          /\ pending.phone \in {Nothing, p}
       THEN /\ pending' = [pending EXCEPT !.phone = p]
            /\ Shows(p, [pending EXCEPT !.phone = p])
       ELSE UNCHANGED <<pending, view>>
    /\ Ends(p)
    /\ UNCHANGED <<history, backup, network, holder, evidence, open, reading, faults>>

(* onDeviceReady: the device signs what the journal retains now.           *)
Ready(p) ==
    /\ At(p, {"hardware"}, "ready") /\ holder = Nothing
    /\ IF /\ flight[p].live /\ current(flight[p].cand)
          /\ pending.phone = flight[p].phone /\ pending.tx = Nothing
       THEN Goes(p, "device") ELSE Ends(p)
    /\ UNCHANGED <<journal, backup, network, holder, evidence, page, faults>>

saveLedgerSavingsSigned(p) ==
    /\ At(p, {"hardware"}, "keep") /\ holder = Nothing
    /\ LET signed == [pending EXCEPT !.tx = p,
                      !.phase = IF @ = "broadcast" THEN @ ELSE "signed"]
       IN  IF /\ current(flight[p].cand) /\ pending.phone # Nothing
              /\ pending.tx \in {Nothing, p}
           THEN pending' = signed /\ Shows(p, signed) /\ Continues(p, "send")
           ELSE UNCHANGED <<pending, view>> /\ Ends(p)
    /\ UNCHANGED <<history, backup, network, holder, evidence, open, reading, faults>>

-------------------------------------------------------------------------------
(* Operations that hold the lock while they ask the chain *)

Holds(p, who) == holder = <<p, who>>
Asks(p, who, answer) ==
    /\ holder = Nothing /\ holder' = <<p, who>> /\ evidence' = answer
Releases == holder' = Nothing /\ evidence' = "none"

AskOutcome(p) ==
    /\ flight[p].step \in {"reconcile", "retain"}
    /\ Asks(p, "flight", IF pending = Nothing THEN "none" ELSE outcome(pending))
    /\ UNCHANGED <<journal, backup, network, flight, page, faults>>

(* Mutant: the outcome is saved as the phase.                              *)
ReconciledOutcome ==
    IF evidence \in {"broadcast", "confirmed"} /\ pending.tx # Nothing
    THEN [pending EXCEPT !.phase = evidence] ELSE pending

(* What reconcileLedgerSavingsPayment saves and returns.                   *)
Reconciled ==
    IF evidence \in {"broadcast", "confirmed"} /\ pending.tx # Nothing
    THEN [pending EXCEPT !.phase = "broadcast"] ELSE pending

(* The reviewed payment is shown again unless it is settled; then a new   *)
(* one takes its place.                                                    *)
ReconcileReview(p) ==
    /\ At(p, {"review"}, "reconcile") /\ Holds(p, "flight") /\ Releases
    /\ pending' = Reconciled
    /\ IF ~current(flight[p].cand)
       THEN Ends(p) /\ view' = view
       ELSE IF evidence \notin Settled
       THEN Ends(p) /\ Shows(p, Reconciled)
       ELSE /\ Continues(p, IF flight[p].was = "prepared" THEN "drop" ELSE "quote")
            /\ view' = view
    /\ UNCHANGED <<history, backup, network, open, reading, faults>>

ReconcileApproval(p) ==
    /\ At(p, {"approve"}, "reconcile") /\ Holds(p, "flight") /\ Releases
    /\ pending' = Reconciled
    /\ IF ~current(flight[p].cand) \/ evidence \in Settled
       THEN Ends(p)
       ELSE Continues(p, IF Reconciled.tx # Nothing THEN "send" ELSE "mark")
    /\ UNCHANGED <<history, backup, network, page, faults>>

ReconcileReopened(p) ==
    /\ At(p, {"reopen"}, "reconcile") /\ Holds(p, "flight") /\ Releases
    /\ pending' = Reconciled
    /\ IF current(flight[p].cand) THEN Shows(p, Reconciled) ELSE view' = view
    /\ Ends(p)
    /\ UNCHANGED <<history, backup, network, open, reading, faults>>

(* quoteLedgerSavingsPayment: coins the chain lists as confirmed and       *)
(* unspent when the snapshot is taken.                                     *)
Payments(d) == {c \in Candidates : Draft[c] = d /\ Inputs[c] \subseteq Unspent}
quoteLedgerSavingsPayment(p) ==
    /\ At(p, {"review"}, "quote")
    /\ \E c \in Payments(flight[p].draft) :
          IF flight[p].live
          THEN flight' = [flight EXCEPT ![p] =
                  [@ EXCEPT !.step = "retain", !.cand = c,
                             !.draft = Nothing, !.was = Nothing]]
          ELSE Ends(p)
    /\ UNCHANGED <<journal, backup, network, holder, evidence, page, faults>>

Retainable(c) ==
    /\ c \notin Identities(history)
    /\ \/ pending = Nothing \/ current(c)
       \/ evidence \in Settled /\ Cardinality(history) < HistoryLimit
retainLedgerSavingsPayment(p) ==
    /\ At(p, {"review"}, "retain") /\ Holds(p, "flight") /\ Releases
    /\ LET c == flight[p].cand
       IN  IF Retainable(c)
           THEN /\ pending' = IF current(c) THEN pending ELSE Prepared(c)
                /\ history' = IF current(c) THEN history ELSE Records
                /\ Shows(p, IF current(c) THEN pending ELSE Prepared(c))
           ELSE UNCHANGED <<pending, history, view>>
    /\ Ends(p)
    /\ UNCHANGED <<backup, network, open, reading, faults>>

AskCoins(p) ==
    /\ At(p, {"approve"}, "mark")
    /\ Asks(p, "flight", IF \/ ~current(flight[p].cand) \/ pending.phase # "prepared"
                            \/ Inputs[pending.id] \subseteq Unspent
                         THEN "available" ELSE "gone")
    /\ UNCHANGED <<journal, backup, network, flight, page, faults>>

markLedgerSavingsSigning(p) ==
    /\ At(p, {"approve"}, "mark") /\ Holds(p, "flight") /\ Releases
    /\ LET marked == [pending EXCEPT !.phase = IF @ = "prepared" THEN "signing" ELSE @]
       IN  IF ~current(flight[p].cand) \/ evidence = "gone"
           THEN UNCHANGED <<pending, view>> /\ Ends(p)
           ELSE /\ pending' = marked
                /\ IF flight[p].live /\ pending.phone = Nothing
                   THEN Goes(p, "unlock") /\ view' = view
                   ELSE Ends(p) /\ Shows(p, marked)
    /\ UNCHANGED <<history, backup, network, open, reading, faults>>

(* The transaction is handed to the chain under the lock.  It may take it  *)
(* whatever the page then hears.                                           *)
AskBroadcast(p) ==
    /\ flight[p].step = "send" /\ holder = Nothing
    /\ current(flight[p].cand) /\ pending.tx # Nothing
    /\ holder' = <<p, "flight">>
    /\ \/ /\ ~Conflicted(pending.id)
          /\ chain' = Holding(pending.id, "mempool") /\ seen' = seen \cup {pending.id}
          /\ evidence' = "sent"
       \/ evidence' = "refused" /\ UNCHANGED <<chain, seen>>
    /\ UNCHANGED <<journal, backup, foreign, flight, page, faults>>

broadcastLedgerSavingsPayment(p) ==
    /\ flight[p].step = "send" /\ Holds(p, "flight") /\ Releases
    /\ evidence = "sent"
    /\ pending' = [pending EXCEPT !.phase = "broadcast"]
    /\ Ends(p)
    /\ UNCHANGED <<history, backup, network, page, faults>>

(* A request, the passkey or the device fails, or a check stops the flight *)
(* while it waits for one: nothing is saved.                               *)
Fails(p) ==
    /\ flight[p].kind # "none"
    /\ IF Holds(p, "flight")
       THEN Releases
       ELSE /\ \/ flight[p].step \in {"quote", "unlock", "ready", "device"}
               \/ flight[p].step = "send" /\ ~current(flight[p].cand) /\ holder = Nothing
            /\ UNCHANGED <<holder, evidence>>
    /\ Ends(p)
    /\ UNCHANGED <<journal, backup, network, page, faults>>

(* The passkey releases the Savings seed, or the device signs; a flight    *)
(* that ended meanwhile signs or keeps nothing.                            *)
Approved(p) ==
    /\ flight[p].live
    /\ \/ flight[p].step = "unlock" /\ Goes(p, "save")
       \/ flight[p].step = "device" /\ Goes(p, "keep")
    /\ UNCHANGED <<journal, backup, network, holder, evidence, page, faults>>

-------------------------------------------------------------------------------
(* The observation of the journal *)

(* It starts once the flight under way is over, takes the generation then, *)
(* and shows what the journal retains before it asks the chain.            *)
ReadLoads(p) ==
    /\ "observe" \in Does[p] /\ p \in open
    /\ reading[p] = "none" /\ flight[p] = Idle /\ holder = Nothing
    /\ reading' = [reading EXCEPT ![p] = "current"]
    /\ view' = [view EXCEPT ![p] = Shown(pending)]
    /\ UNCHANGED <<journal, backup, network, holder, evidence, open, flight, faults>>

ReadAsks(p) ==
    /\ reading[p] # "none"
    /\ Asks(p, "read", IF pending = Nothing THEN "none" ELSE outcome(pending))
    /\ UNCHANGED <<journal, backup, network, flight, page, faults>>

ReadReconciles(p) ==
    /\ Holds(p, "read") /\ Releases
    /\ \/ /\ pending' = Reconciled
          /\ view' = IF reading[p] = "current" /\ flight[p] = Idle
                     THEN [view EXCEPT ![p] = Shown(Reconciled)] ELSE view
       \/ UNCHANGED <<pending, view>>
    /\ reading' = [reading EXCEPT ![p] = "none"]
    /\ UNCHANGED <<history, backup, network, open, flight, faults>>

-------------------------------------------------------------------------------
(* Recovery files *)

(* One file is saved, which counts as a fault for the bound.               *)
exportLedgerSavingsPaymentJournal ==
    /\ Fault
    /\ backup = Nothing /\ holder = Nothing /\ Records # {}
    /\ backup' = [pending |-> pending, history |-> history]
    /\ UNCHANGED <<journal, network, holder, evidence, flight, page>>

Rank(phase) == CASE phase = "prepared" -> 0 [] phase = "signing" -> 1
                 [] phase = "signed" -> 2 [] phase = "broadcast" -> 3
Conflicting(r, added) ==
    \/ r.phone # Nothing /\ added.phone # Nothing /\ r.phone # added.phone
    \/ r.tx # Nothing /\ added.tx # Nothing /\ r.tx # added.tx
(* Mutant: the record of the file wins.                                    *)
MergeFile(r, added) == added

Merge(r, added) ==
    IF \/ Rank(added.phase) > Rank(r.phase)
       \/ r.phone = Nothing /\ added.phone # Nothing
    THEN added ELSE r
Merged(rs, other) ==
    {IF \E a \in other : a.id = r.id
     THEN Merge(r, CHOOSE a \in other : a.id = r.id) ELSE r : r \in rs}
        \cup {a \in other : a.id \notin Identities(rs)}

(* A saved journal is merged under the lock.  A payment of the file that   *)
(* was retired here becomes the pending one again, as far as it got.       *)
restoreLedgerSavingsPaymentJournal ==
    /\ holder = Nothing /\ backup # Nothing
    /\ LET past == Merged(history, backup.history)
           kept == IF backup.pending = Nothing THEN pending
                   ELSE IF pending = Nothing THEN backup.pending
                   ELSE Merge(pending, backup.pending)
           next == IF kept = Nothing \/ kept.id \notin Identities(past) THEN kept
                   ELSE Merge(CHOOSE r \in past : r.id = kept.id, kept)
           rest == IF kept = Nothing THEN past ELSE {r \in past : r.id # kept.id}
       IN  /\ Cardinality(Identities({pending, backup.pending} \ {Nothing})) <= 1
           /\ Cardinality(rest) <= HistoryLimit
           /\ \A r \in Records, a \in backup.history \cup ({backup.pending} \ {Nothing}) :
                 r.id = a.id => ~Conflicting(r, a)
           /\ pending' = next /\ history' = rest
    /\ UNCHANGED <<backup, network, holder, evidence, flight, page, faults>>

-------------------------------------------------------------------------------
(* The chain *)

(* Another device that restored the saved journal finishes its payment.    *)
OtherDeviceSends ==
    /\ backup # Nothing /\ backup.pending # Nothing /\ backup.pending.phone # Nothing
    /\ chain[backup.pending.id] = "absent" /\ ~Conflicted(backup.pending.id)
    /\ chain' = Holding(backup.pending.id, "mempool")
    /\ seen' = seen \cup {backup.pending.id}
    /\ UNCHANGED <<journal, backup, foreign, holder, evidence, flight, page,
                   faults>>

Confirms(c) ==
    /\ chain[c] = "mempool" /\ chain' = Holding(c, "confirmed")
    /\ UNCHANGED <<journal, backup, foreign, seen, holder, evidence, flight, page,
                   faults>>

Drops(c) ==
    /\ Fault
    /\ chain[c] = "mempool" /\ chain' = [chain EXCEPT ![c] = "absent"]
    /\ UNCHANGED <<journal, backup, foreign, seen, holder, evidence, flight, page>>

ForeignSpend(k) ==
    /\ Fault
    /\ k \notin foreign
    /\ \A c \in Candidates : chain[c] = "confirmed" => k \notin Inputs[c]
    /\ foreign' = foreign \cup {k}
    /\ chain' = [c \in Candidates |-> IF k \in Inputs[c] THEN "absent" ELSE chain[c]]
    /\ UNCHANGED <<journal, backup, seen, holder, evidence, flight, page>>

-------------------------------------------------------------------------------
Next ==
    \/ \E p \in Pages :
          \/ Unlock(p) \/ Lock(p) \/ CancelApproval(p) \/ Close(p)
          \/ \E d \in Drafts : review(p, d) \/ approve(p, d)
          \/ reopen(p) \/ approveWithLedger(p)
          \/ LoadForReview(p) \/ LoadForApproval(p) \/ cancelLedgerSavingsPayment(p)
          \/ saveLedgerSavingsPhoneApproval(p) \/ Ready(p) \/ saveLedgerSavingsSigned(p)
          \/ AskOutcome(p) \/ ReconcileReview(p) \/ ReconcileApproval(p)
          \/ ReconcileReopened(p) \/ quoteLedgerSavingsPayment(p)
          \/ retainLedgerSavingsPayment(p) \/ AskCoins(p) \/ markLedgerSavingsSigning(p)
          \/ AskBroadcast(p) \/ broadcastLedgerSavingsPayment(p)
          \/ Fails(p) \/ Approved(p)
          \/ ReadLoads(p) \/ ReadAsks(p) \/ ReadReconciles(p)
    \/ exportLedgerSavingsPaymentJournal \/ restoreLedgerSavingsPaymentJournal
    \/ OtherDeviceSends
    \/ \E c \in Candidates : Confirms(c) \/ Drops(c)
    \/ \E k \in Coins : ForeignSpend(k)

Spec == Init /\ [][Next]_vars

-------------------------------------------------------------------------------
(* Properties *)

(* A candidate the phone approved that the chain never held and that no    *)
(* confirmed spend rules out can still be completed on the device.         *)
Payable(c) ==
    /\ \E r \in Records : r.id = c /\ r.phone # Nothing
    /\ c \notin seen /\ ~Conflicted(c)

(* At most one such candidate exists, however pages, observations, device  *)
(* approvals, deaths and restored files interleave, and it is the pending  *)
(* one: a second payment is prepared only when the first was sent or can   *)
(* never be (retainLedgerSavingsPayment, cancelLedgerSavingsPayment).      *)
OnePayable == \A c \in Candidates : Payable(c) => current(c)

(* A candidate past "prepared" never leaves the journal, its approvals are *)
(* never replaced by other bytes and its phase never goes back, restores   *)
(* of older files included (ledgerSavingsWallet.ts, merge and cancel).     *)
KeepsApproval ==
    \A r \in Records : r.phase # "prepared" =>
        \E s \in Records' :
            /\ s.id = r.id /\ Rank(s.phase) >= Rank(r.phase)
            /\ r.phone # Nothing => s.phone = r.phone
            /\ r.tx # Nothing => s.tx = r.tx
ApprovalOnlyGrows == [][KeepsApproval]_vars

===============================================================================
