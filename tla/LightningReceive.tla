--------------------------- MODULE LightningReceive ---------------------------
(***************************************************************************)
(* Lightning receives: an invoice is shown once its secret is stored, the  *)
(* account's background pass claims the funded lockup for Spending, the    *)
(* payout settles the record, and a settled record is retired when the     *)
(* committed recovery file holds its claim.                                *)
(*                                                                         *)
(* src/src/lib/vault/lightningReceive.ts        invoices and records       *)
(* src/src/lib/vault/lightningReceiveClaim.ts   claims and retirement      *)
(* src/src/lib/vault/lnurl.ts                   Lightning address receipts *)
(* src/src/lib/vault/vtxo/walletWorker.ts       the background pass        *)
(* src/src/lib/vault/recovery/lightningArchive.ts  capture and restore     *)
(* src/src/screens/Vault/LightningReceive.tsx   asking for an invoice      *)
(*                                                                         *)
(* One profile: its pages share the stores, and whoever writes them holds  *)
(* the vault's lifecycle lock, so at most one task is under way.  External:*)
(* the solver, which funds a lockup and takes an output back after the     *)
(* refund time; the Emulator, which may lose, delay or repeat a claim; the *)
(* indexer, which shows a payout some time after its claim; the Lightning  *)
(* address service, which lists receipts and may claim by itself.  A claim *)
(* is named by the output it spends: the same output, amount and script    *)
(* build the same transaction.  Outputs below the amount are left out: no  *)
(* step looks at them.                                                     *)
(***************************************************************************)
EXTENDS Integers, FiniteSets

CONSTANTS
    Receives,       \* rfq ids of the receives
    Addressed,      \* those that come from the Lightning address service
    Twice,          \* receives whose lockup may be funded twice
    MaxFunded,      \* bound on outputs over all lockups
    MaxImports,     \* bound on records made from one service receipt
    MaxRestores,    \* bound on restores of a recovery file
    MaxFailures,    \* bound on failed requests, lost claims and dead pages
    NoRecord, NoClaim

Outputs == 1..2

(* VaultLightningReceiveProfile.  A record's updatedAt is "at", the number *)
(* of the stamped write of this receive: payments take longer than the     *)
(* second it is counted in.  A claim that is saved again takes the newest  *)
(* number given so far: nothing compares it with more than older copies,   *)
(* and a merge keeps the local record of two that are as new.              *)
Stamps == 0..(3 * MaxImports + 2 * MaxRestores)
ReceiveRecord ==
    [state : {"pending"}, claim : Outputs \cup {NoClaim}, at : Stamps]
      \cup [state : {"settled"}, claim : Outputs, at : Stamps]
Entries == [Receives -> ReceiveRecord \cup {NoRecord}]

ASSUME ReceiveAssumption ==
    /\ Addressed \subseteq Receives /\ Twice \subseteq Receives
    /\ {MaxFunded, MaxRestores, MaxFailures} \subseteq Nat /\ MaxImports \in Nat \ {0}
ASSUME NoneAssumption == NoRecord \notin ReceiveRecord /\ NoClaim \notin Outputs

VARIABLES
    rec,        \* the record of each receive in the swap repository
    contract,   \* receives whose lockup contract is registered
    receipt,    \* the claim each retirement receipt was written for
    file,       \* committed recovery file: its entries and covered payouts
    kept,       \* an earlier committed file the user still has
    coin,       \* what became of each output of each lockup
    service,    \* the claim the address service reports for a receive
    late,       \* whether the refund time of the lockups has passed
    wire,       \* claims on their way to the Emulator
    submitted,  \* every claim this storage ever sent out
    shown,      \* invoices that were shown
    imports,    \* records made from the receipt of each receive
    writes,     \* stamped writes of each receive
    task,       \* what the holder of the lock does, and for which receive
    todo,       \* receives its pass has still to look at
    copy,       \* the records it read
    seen,       \* spendable outputs it found at the lockup
    restores, failures

stores == <<rec, contract, receipt>>
files == <<file, kept>>
budget == <<restores, failures>>
chain == <<coin, service, late>>
sent == <<wire, submitted, shown>>
holder == <<task, todo, copy, seen>>
vars == <<rec, contract, receipt, file, kept, coin, service, late, wire,
          submitted, shown, imports, writes, task, todo, copy, seen,
          restores, failures>>

Steps == {"register", "save", "show", "import", "adopt", "read", "look", "judge", "submit",
          "answer", "prove", "remove", "restore"}
Idle == [step |-> "idle"]
Files == [entries : Entries, covered : SUBSET (Receives \X Outputs)]
NoEntries == [r \in Receives |-> NoRecord]
EmptyFile == [entries |-> NoEntries, covered |-> {}]

TypeOK ==
    /\ rec \in Entries /\ contract \subseteq Receives
    /\ receipt \in [Receives -> Outputs \cup {NoClaim}]
    /\ file \in Files /\ kept \in Files
    /\ coin \in [Receives -> [Outputs -> {"none", "live", "claimed", "paid", "refunded"}]]
    /\ service \in [Addressed -> Outputs \cup {NoClaim}]
    /\ late \in BOOLEAN
    /\ wire \subseteq submitted /\ submitted \subseteq Receives \X Outputs
    /\ shown \subseteq Receives
    /\ imports \in [Receives -> 0..MaxImports] /\ writes \in [Receives -> Stamps]
    /\ task = Idle \/ task \in [step : Steps, r : Receives \cup {NoRecord}]
    /\ todo \subseteq Receives /\ copy \in Entries /\ seen \subseteq Outputs
    /\ restores \in 0..MaxRestores /\ failures \in 0..MaxFailures

Init ==
    /\ rec = NoEntries /\ contract = {}
    /\ receipt = [r \in Receives |-> NoClaim]
    /\ file = EmptyFile /\ kept = EmptyFile
    /\ coin = [r \in Receives |-> [o \in Outputs |-> "none"]]
    /\ service = [r \in Addressed |-> NoClaim]
    /\ late = FALSE /\ wire = {} /\ submitted = {} /\ shown = {}
    /\ imports = [r \in Receives |-> 0] /\ writes = [r \in Receives |-> 0]
    /\ task = Idle /\ todo = {} /\ copy = NoEntries /\ seen = {}
    /\ restores = 0 /\ failures = 0

-------------------------------------------------------------------------------
(* The lock and the records *)

LockFree == task = Idle
Fail == failures < MaxFailures /\ failures' = failures + 1
At(step, r) == task = [step |-> step, r |-> r]
Goto(step, r) == task' = [step |-> step, r |-> r]
Release == task' = Idle /\ todo' = {} /\ copy' = NoEntries /\ seen' = {}

Live(r) == {o \in Outputs : coin[r][o] = "live"}
Paid(r, o) == o # NoClaim /\ coin[r][o] = "paid"
NewRecord(claim) ==
    [state |-> "pending", claim |-> claim, at |-> 0]

(* saveRfqSwap of a record that was just stamped. *)
Save(r, record) ==
    /\ rec' = [rec EXCEPT ![r] = [record EXCEPT !.at = writes[r] + 1]]
    /\ writes' = [writes EXCEPT ![r] = @ + 1]
SaveClaimed(r, o) ==
    IF copy[r].claim = o
    THEN rec' = [rec EXCEPT ![r] = [copy[r] EXCEPT !.at = writes[r]]] /\ UNCHANGED writes
    ELSE Save(r, [copy[r] EXCEPT !.claim = o])

(* The copy a merge keeps of a local and an incoming record. *)
Conflict(local, incoming) ==
    /\ local # NoRecord /\ incoming # NoRecord
    /\ local.claim # NoClaim /\ incoming.claim # NoClaim
    /\ local.claim # incoming.claim

retainedRecord(local, incoming) ==
    IF local = NoRecord THEN incoming
    ELSE IF \/ incoming = NoRecord
            \/ local.state = "settled"
            \/ local.claim # NoClaim /\ incoming.claim = NoClaim
            \/ local.at >= incoming.at
         THEN local ELSE incoming

-------------------------------------------------------------------------------
(* Asking for an invoice *)

(* A quote for a fresh secret was verified; an invoice that is still       *)
(* outstanding would have been shown again instead.                        *)
RequestInvoice(r) ==
    /\ LockFree /\ r \notin Addressed /\ rec[r] = NoRecord
    /\ r \notin shown /\ imports[r] < MaxImports /\ ~late
    /\ imports' = [imports EXCEPT ![r] = @ + 1]
    /\ Goto("register", r)
    /\ UNCHANGED <<rec, contract, receipt, writes, todo, copy, seen>>
    /\ UNCHANGED <<files, chain, sent, budget>>

RegisterLockup(r) ==
    /\ At("register", r)
    /\ contract' = contract \cup {r}
    /\ Goto("save", r)
    /\ UNCHANGED <<rec, receipt, imports, writes, todo, copy, seen>>
    /\ UNCHANGED <<files, chain, sent, budget>>

SaveInvoice(r) ==
    /\ At("save", r)
    /\ Save(r, NewRecord(NoClaim))
    /\ Goto("show", r)
    /\ UNCHANGED <<contract, receipt, imports, todo, copy, seen>>
    /\ UNCHANGED <<files, chain, sent, budget>>

ShowInvoice(r) ==
    /\ At("show", r)
    /\ rec[r] # NoRecord
    /\ shown' = shown \cup {r}
    /\ Release
    /\ UNCHANGED <<wire, submitted, imports, writes>>
    /\ UNCHANGED <<stores, files, chain, budget>>

-------------------------------------------------------------------------------
(* The pass of the account: receipts of the address service first *)

(* tryVaultLightningLifecycleLock: the pass runs when nobody holds it. *)
StartPass ==
    /\ LockFree
    /\ Goto("import", NoRecord) /\ todo' = Addressed
    /\ UNCHANGED <<copy, seen, imports, writes>>
    /\ UNCHANGED <<stores, files, chain, sent, budget>>

(* A receipt registers its contract; a record is made when none is stored, *)
(* retired or not, and takes over the claim the service reports.           *)
ImportReceipt(r) ==
    /\ At("import", NoRecord) /\ r \in todo /\ rec[r] = NoRecord
    /\ imports[r] < MaxImports
    /\ contract' = contract \cup {r}
    /\ imports' = [imports EXCEPT ![r] = @ + 1]
    /\ Save(r, NewRecord(service[r]))
    /\ todo' = todo \ {r}
    /\ UNCHANGED <<receipt, task, copy, seen>>
    /\ UNCHANGED <<files, chain, sent, budget>>

(* The claim of a receipt is taken over by a pending record without one;   *)
(* this write is not stamped.                                              *)
AdoptClaim(r) ==
    /\ At("import", NoRecord) /\ r \in todo /\ rec[r] # NoRecord
    /\ contract' = contract \cup {r}
    /\ rec' = IF rec[r].claim = NoClaim /\ rec[r].state = "pending"
              THEN [rec EXCEPT ![r].claim = service[r]] ELSE rec
    /\ todo' = todo \ {r}
    /\ UNCHANGED <<receipt, task, copy, seen, imports, writes>>
    /\ UNCHANGED <<files, chain, sent, budget>>

(* A failed import is reported; the receives are read all the same. *)
ImportFails ==
    /\ At("import", NoRecord) /\ todo # {} /\ Fail
    /\ todo' = {}
    /\ UNCHANGED <<task, copy, seen, imports, writes, restores>>
    /\ UNCHANGED <<stores, files, chain, sent>>

ReadReceives ==
    /\ At("import", NoRecord)
    /\ todo \subseteq {r \in Addressed : rec[r] = NoRecord /\ imports[r] = MaxImports}
    /\ todo' = {r \in Receives : rec[r] # NoRecord /\ rec[r].state = "pending"}
    /\ copy' = [r \in Receives |-> IF r \in todo' THEN rec[r] ELSE NoRecord]
    /\ Goto("look", NoRecord)
    /\ UNCHANGED <<seen, imports, writes>>
    /\ UNCHANGED <<stores, files, chain, sent, budget>>

EndPass ==
    /\ At("look", NoRecord) /\ todo = {}
    /\ Release
    /\ UNCHANGED <<imports, writes>>
    /\ UNCHANGED <<stores, files, chain, sent, budget>>

(* A request fails, an answer is lost or does not match, or the page dies: *)
(* that is the end of the whole pass, of the invoice, of the retirement or *)
(* of the restore that was under way.                                      *)
GiveUp ==
    /\ ~LockFree /\ Fail
    /\ Release
    /\ UNCHANGED <<imports, writes, restores>>
    /\ UNCHANGED <<stores, files, chain, sent>>

-------------------------------------------------------------------------------
(* The pass: claims *)

LookAtLockup(r) ==
    /\ At("look", NoRecord) /\ r \in todo /\ r \in contract
    /\ seen' = Live(r)
    /\ Goto("judge", r)
    /\ UNCHANGED <<todo, copy, imports, writes>>
    /\ UNCHANGED <<stores, files, chain, sent, budget>>

NextReceive(r) ==
    /\ Goto("look", NoRecord)
    /\ todo' = todo \ {r} /\ copy' = [copy EXCEPT ![r] = NoRecord] /\ seen' = {}

(* Mutant: the payout of any output settles the receive. *)
SettlePaid(r) ==
    /\ At("judge", r)
    /\ \E o \in Outputs : Paid(r, o)
    /\ Save(r, [copy[r] EXCEPT !.state = "settled"])
    /\ NextReceive(r)
    /\ UNCHANGED <<contract, receipt, imports>>
    /\ UNCHANGED <<files, chain, sent, budget>>

(* The payout of the saved claim is indexed at the Spending script. *)
SettleReceive(r) ==
    /\ At("judge", r)
    /\ Paid(r, copy[r].claim)
    /\ Save(r, [copy[r] EXCEPT !.state = "settled"])
    /\ NextReceive(r)
    /\ UNCHANGED <<contract, receipt, imports>>
    /\ UNCHANGED <<files, chain, sent, budget>>

(* Mutant: a claim that was sent is left to its payout and not retried. *)
SkipPending(r) ==
    /\ At("judge", r)
    /\ ~Paid(r, copy[r].claim)
    /\ Cardinality(seen) # 1 \/ late \/ copy[r].claim # NoClaim
    /\ NextReceive(r)
    /\ UNCHANGED <<imports, writes>>
    /\ UNCHANGED <<stores, files, chain, sent, budget>>

SkipReceive(r) ==
    /\ At("judge", r)
    /\ ~Paid(r, copy[r].claim)
    /\ Cardinality(seen) # 1 \/ late
    /\ NextReceive(r)
    /\ UNCHANGED <<imports, writes>>
    /\ UNCHANGED <<stores, files, chain, sent, budget>>

(* Mutant: a claim of a new output replaces the pending one. *)
ReplaceClaim(r) ==
    /\ At("judge", r)
    /\ ~Paid(r, copy[r].claim) /\ ~late
    /\ \E o \in Outputs :
         /\ seen = {o}
         /\ SaveClaimed(r, o)
    /\ Goto("submit", r)
    /\ copy' = [copy EXCEPT ![r] = NoRecord] /\ seen' = {}
    /\ UNCHANGED <<contract, receipt, todo, imports>>
    /\ UNCHANGED <<files, chain, sent, budget>>

(* The claim of the one output is built and saved; a different claim that  *)
(* is pending throws, and a claim that is refused does: later receives are *)
(* left to the next pass.                                                  *)
PassThrows(r) ==
    /\ \/ At("look", NoRecord) /\ r \in todo \ contract
       \/ /\ At("judge", r) /\ ~Paid(r, copy[r].claim) /\ ~late
          /\ Cardinality(seen) = 1 /\ copy[r].claim \notin seen \cup {NoClaim}
       \/ /\ At("answer", r) /\ <<r, rec[r].claim>> \notin wire
          /\ coin[r][rec[r].claim] \notin {"claimed", "paid"}
    /\ Release
    /\ UNCHANGED <<imports, writes>>
    /\ UNCHANGED <<stores, files, chain, sent, budget>>

SaveClaim(r) ==
    /\ At("judge", r)
    /\ ~Paid(r, copy[r].claim) /\ ~late
    /\ \E o \in Outputs :
         /\ seen = {o} /\ copy[r].claim \in {NoClaim, o}
         /\ SaveClaimed(r, o)
    /\ Goto("submit", r)
    /\ copy' = [copy EXCEPT ![r] = NoRecord] /\ seen' = {}
    /\ UNCHANGED <<contract, receipt, todo, imports>>
    /\ UNCHANGED <<files, chain, sent, budget>>

(* submitTx: with the stored claim the secret leaves the browser. *)
SubmitClaim(r) ==
    /\ At("submit", r) /\ rec[r] # NoRecord
    /\ wire' = wire \cup {<<r, rec[r].claim>>}
    /\ submitted' = submitted \cup {<<r, rec[r].claim>>}
    /\ Goto("answer", r)
    /\ UNCHANGED <<shown, todo, copy, seen, imports, writes>>
    /\ UNCHANGED <<stores, files, chain, budget>>

(* The Emulator's answer settles nothing: the pass goes on. *)
ClaimAnswered(r) ==
    /\ At("answer", r) /\ rec[r] # NoRecord
    /\ coin[r][rec[r].claim] \in {"claimed", "paid"}
    /\ NextReceive(r)
    /\ UNCHANGED <<imports, writes>>
    /\ UNCHANGED <<stores, files, chain, sent, budget>>

-------------------------------------------------------------------------------
(* Retirement of settled receives *)

(* The activity, the history and the indexer agree on the saved claim. *)
ProveRetirement(r) ==
    /\ LockFree /\ rec[r] # NoRecord
    /\ rec[r].state = "settled" /\ Paid(r, rec[r].claim)
    /\ copy' = [NoEntries EXCEPT ![r] = rec[r]]
    /\ Goto("prove", r)
    /\ UNCHANGED <<todo, seen, imports, writes>>
    /\ UNCHANGED <<stores, files, chain, sent, budget>>

(* The committed file, read again, holds that claim and its payout. *)
ArchiveBinds(r) ==
    /\ file.entries[r] # NoRecord
    /\ file.entries[r].claim = copy[r].claim
    /\ <<r, copy[r].claim>> \in file.covered

WriteReceipt(r) ==
    /\ At("prove", r)
    /\ ArchiveBinds(r) /\ rec[r] = copy[r]
    /\ receipt' = [receipt EXCEPT ![r] = copy[r].claim]
    /\ Goto("remove", r)
    /\ UNCHANGED <<rec, contract, todo, copy, seen, imports, writes>>
    /\ UNCHANGED <<files, chain, sent, budget>>

(* Anything short of that keeps the record. *)
KeepReceive(r) ==
    /\ At("prove", r)
    /\ ~ArchiveBinds(r)
    /\ Release
    /\ UNCHANGED <<imports, writes>>
    /\ UNCHANGED <<stores, files, chain, sent, budget>>

RemoveReceive(r) ==
    /\ At("remove", r)
    /\ rec' = [rec EXCEPT ![r] = NoRecord]
    /\ Release
    /\ UNCHANGED <<contract, receipt, imports, writes>>
    /\ UNCHANGED <<files, chain, sent, budget>>

-------------------------------------------------------------------------------
(* The recovery file *)

(* captureLightningRecoveryJournal: every stored record, merged over the   *)
(* entries of the last committed file, which are all kept; one conflict    *)
(* refuses the capture.  The snapshot of Spending holds the payouts.  The  *)
(* file is committed later, but read only where a capture is excluded.     *)
CaptureReceives ==
    /\ LockFree
    /\ \A r \in Receives :
         /\ ~Conflict(rec[r], file.entries[r])
         /\ rec[r] # NoRecord => r \in contract
    /\ file' =
         [entries |-> [r \in Receives |->
             IF rec[r] = NoRecord THEN file.entries[r]
             ELSE retainedRecord(rec[r], file.entries[r])],
          covered |-> {c \in Receives \X Outputs : Paid(c[1], c[2])}]
    /\ file' # file
    /\ UNCHANGED <<kept, imports, writes>>
    /\ UNCHANGED <<stores, chain, sent, holder, budget>>

(* The user saves a copy of the committed file. *)
KeepFile ==
    /\ LockFree /\ restores < MaxRestores
    /\ kept = EmptyFile /\ file # EmptyFile
    /\ kept' = file
    /\ UNCHANGED <<file, imports, writes>>
    /\ UNCHANGED <<stores, chain, sent, holder, budget>>

(* retiredReceiveBindsEntry: the entry carries the claim of the receipt. *)
retiredReceiveBindsEntry(r, entry) ==
    entry.claim # NoClaim /\ receipt[r] = entry.claim

(* restoreLightningRecoveryJournal: conflicts are found before the first   *)
(* write; the entries to write are decided from the records as they are.   *)
StartRestore(from) ==
    /\ LockFree
    /\ \A r \in Receives : ~Conflict(rec[r], from.entries[r])
    /\ copy' = [r \in Receives |->
         IF from.entries[r] = NoRecord \/ retiredReceiveBindsEntry(r, from.entries[r])
         THEN NoRecord ELSE retainedRecord(rec[r], from.entries[r])]
    /\ todo' = {r \in Receives : copy'[r] # NoRecord /\ copy'[r] # rec[r]}
    /\ todo' # {}
    /\ Goto("restore", NoRecord)
    /\ restores < MaxRestores /\ restores' = restores + 1
    /\ UNCHANGED <<seen, imports, writes, failures>>
    /\ UNCHANGED <<stores, files, chain, sent>>

(* The contract first; a restore that ends in between leaves an orphan. *)
RestoreRecord(r) ==
    /\ At("restore", NoRecord) /\ r \in todo
    /\ contract' = contract \cup {r}
    /\ rec' = [rec EXCEPT ![r] = copy[r]]
    /\ todo' = todo \ {r}
    /\ IF todo' = {} THEN task' = Idle /\ copy' = NoEntries
                     ELSE UNCHANGED <<task, copy>>
    /\ UNCHANGED <<receipt, seen, imports, writes>>
    /\ UNCHANGED <<files, chain, sent, budget>>

-------------------------------------------------------------------------------
(* The services, the clock and the browser *)

SetCoin(r, o, state) == coin' = [coin EXCEPT ![r][o] = state]
Funded == {c \in Receives \X Outputs : coin[c[1]][c[2]] # "none"}
Outside ==
    /\ UNCHANGED <<imports, writes>>
    /\ UNCHANGED <<stores, files, holder, budget>>

(* The payer pays and the solver funds the lockup, perhaps twice. *)
FundLockup(r, o) ==
    /\ r \in shown \cup Addressed /\ ~late
    /\ coin[r][o] = "none" /\ (o = 2 => r \in Twice /\ coin[r][1] # "none")
    /\ Cardinality(Funded) < MaxFunded
    /\ SetCoin(r, o, "live")
    /\ Outside /\ UNCHANGED <<service, late, sent>>

ExecuteClaim(r, o) ==
    /\ <<r, o>> \in wire
    /\ wire' = wire \ {<<r, o>>}
    /\ IF coin[r][o] = "live" THEN SetCoin(r, o, "claimed") ELSE UNCHANGED coin
    /\ Outside /\ UNCHANGED <<service, late, submitted, shown>>

LoseClaim(r, o) ==
    /\ <<r, o>> \in wire
    /\ wire' = wire \ {<<r, o>>} /\ Fail
    /\ UNCHANGED <<imports, writes, restores, submitted, shown>>
    /\ UNCHANGED <<stores, files, chain, holder>>

IndexPayout(r, o) ==
    /\ coin[r][o] = "claimed"
    /\ SetCoin(r, o, "paid")
    /\ Outside /\ UNCHANGED <<service, late, sent>>

(* The address service claims for a wallet that is away. *)
ServiceClaims(r, o) ==
    /\ r \in Addressed /\ coin[r][o] = "live" /\ service[r] = NoClaim
    /\ SetCoin(r, o, "claimed")
    /\ service' = [service EXCEPT ![r] = o]
    /\ Outside /\ UNCHANGED <<late, sent>>

RefundLockup(r, o) ==
    /\ late /\ coin[r][o] = "live"
    /\ SetCoin(r, o, "refunded")
    /\ Outside /\ UNCHANGED <<service, late, sent>>

RefundTime ==
    /\ ~late
    /\ late' = TRUE
    /\ Outside /\ UNCHANGED <<coin, service, sent>>

RestoreStep == \E from \in {file, kept} : StartRestore(from)
TaskStep ==
    \/ ReadReceives \/ EndPass
    \/ \E r \in Receives :
         \/ RegisterLockup(r) \/ SaveInvoice(r) \/ ShowInvoice(r)
         \/ ImportReceipt(r) \/ AdoptClaim(r)
         \/ LookAtLockup(r) \/ SettleReceive(r) \/ SkipReceive(r)
         \/ SaveClaim(r) \/ SubmitClaim(r) \/ ClaimAnswered(r) \/ PassThrows(r)
         \/ WriteReceipt(r) \/ KeepReceive(r) \/ RemoveReceive(r) \/ RestoreRecord(r)
ServiceStep ==
    \E r \in Receives, o \in Outputs : ExecuteClaim(r, o) \/ IndexPayout(r, o)

Next ==
    \/ StartPass \/ TaskStep \/ ServiceStep \/ ImportFails \/ GiveUp
    \/ CaptureReceives \/ KeepFile \/ RestoreStep \/ RefundTime
    \/ \E r \in Receives :
         \/ RequestInvoice(r) \/ ProveRetirement(r)
         \/ \E o \in Outputs :
              \/ FundLockup(r, o) \/ LoseClaim(r, o)
              \/ ServiceClaims(r, o) \/ RefundLockup(r, o)

(* The pass is asked for on a timer and on events and finds the lock free  *)
(* again and again; a task goes on, its requests being answered but for    *)
(* MaxFailures of them; a claim that arrives is executed and indexed.      *)
(* Users, the payer, the solver and the backup owe nothing.                *)
Fairness == SF_vars(StartPass) /\ WF_vars(TaskStep) /\ WF_vars(ServiceStep)

Spec == Init /\ [][Next]_vars /\ Fairness

-------------------------------------------------------------------------------
(* Properties *)

(* The secret of an invoice buys one output.  Until the receipt of its     *)
(* retirement is written, an invoice that was shown has its record and     *)
(* contract in the store, and the record holds the one claim that ever     *)
(* left the browser, however often it is retried, merged or restored; from *)
(* then on the committed file keeps the claim the receipt stands for.      *)
SecretBuysOneOutput ==
    \A r \in Receives \ Addressed :
        IF receipt[r] = NoClaim
        THEN /\ r \in shown => rec[r] # NoRecord /\ r \in contract
             /\ \A o \in Outputs : <<r, o>> \in submitted =>
                   rec[r] # NoRecord /\ rec[r].claim = o
        ELSE file.entries[r] # NoRecord /\ file.entries[r].claim = receipt[r]

(* A stored receive whose lockup holds one output is settled, unless a     *)
(* second output comes or the refund time passes first: another receive's  *)
(* failing pass delays it, never for ever.                                 *)
FundedIsReceived ==
    \A r \in Receives :
        (rec[r] # NoRecord /\ Cardinality(Live(r)) = 1)
            ~> \/ Cardinality({o \in Outputs : coin[r][o] # "none"}) > 1 \/ late
               \/ rec[r] # NoRecord /\ rec[r].state = "settled"
               \/ receipt[r] # NoClaim
===============================================================================
