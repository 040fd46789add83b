# Verification of the Vaulted wallet

A TLA+ model of the money-moving core of the Vaulted wallet, checked with TLC and
proved with TLAPS. The wallet is a browser page whose Spending account holds
virtual outputs (VTXOs) on an Arkade Operator, co-signed by a server called the
Guardian; its Savings are ordinary Bitcoin outputs; Lightning payments go through
swaps of a solver. The page can be closed, suspended or opened twice at any moment,
every request can be lost, refused, delayed or answered in vain, and what survives
of the page is a journal in browser storage. The models ask whether, through all of
that, no payment is sent twice, none is forgotten, no evidence is taken back, every
payment comes to an end, and an ended session leaves nothing behind.

## 1. The system

### Who acts

| Part | Where | What it keeps |
|---|---|---|
| Page (one per tab) | `src/src/lib/vault/`, `src/src/screens` | memory only: session, reviewed payments, flights, epochs, the record in hand |
| Browser profile | `localStorage`, IndexedDB, Web Locks | operation journals, swap records, resolved history, recovery archive, keys, the locks |
| Wallet worker | `src/src/vault-wallet-worker.ts`, `vtxo/walletWorker.ts` | the connection of one account, the background pass over the swaps |
| Guardian | external, behind `src/api` (a proxy) | state of each operation, reservations, signatures, enrolments |
| Arkade Operator | external | pending and finalized transactions, batches |
| Solver, Emulator, Lightning address service | external | lockups of swaps, claims, receipts |
| Archive service | external, `/v1/recovery-archive` | one encrypted archive per vault, at a revision |
| Bitcoin chain, Ledger device | external | Savings and boarding outputs; the second signature of Savings |

Pages share browser storage and exclude each other with Web Locks (`vtxo/lock.ts`,
`lightningLock.ts`, `vaulted-ledger-savings:…`, the two locks of boarding recovery).
Everything else is a request and an answer.

### Components, state, operations, properties

| Component | State | Operations | What makes it correct |
|---|---|---|---|
| **Spending operation** (`vtxo/spend.ts`, `spendingJournal.ts`, `lock.ts`, `sdkOperationAdapter.ts`, `spendingReceipt.ts`) | journal of up to 32 records, resolved history, signed-successor archive | prepare, reserve, replace, send, reconcile, acknowledge, retire, merge after restore | submitted once; evidence only grows; archive before finalize; what is unfinished can be recovered; every accepted payment is confirmed |
| **Bitcoin settlement** (`spendingBitcoinFunding.ts`, `spendingBitcoinStore.ts`, `recovery/capture.ts`) | one journal per vault | send, check, cancel, acknowledge, capture | a live operation is the journaled one; evidence precedes each request; the change is backed up before the journal goes; every payment resolves |
| **Lightning payments** (`lightningLifecycle.ts`, `lightning.ts`, `lightningEvidence.ts`) | swap records, refund attempts, receipts of retirement | quote, fund (a Spending operation), observe, refund, capture, restore, retire | a lockup that may be paid is named by a record; it is paid once, refunded by one transaction, retired only when it is over |
| **Lightning receives** (`lightningReceive*.ts`, `lnurl.ts`) | receive records, contracts, receipts | request, import, claim, settle, capture, restore, retire | the secret buys one output; one failing claim does not block another for ever |
| **Session and accounts** (`session.ts`, `account*.ts`), **Enrollment** (`signIn.ts`, `tenantEnrollment.ts`, `enrollmentStore.ts`) | phase, current command, vaults to clean, staged and saved enrolments, keys, worker | boot, sign in, enrol, restore, lock, sign out, change account | an ended session leaves no key and no worker, deletes no key still needed, publishes nothing, and its clean-up ends |
| **Payment owners** (`spendingPayments.ts`, `bitcoinPayments.ts`) | flight, generation, reviewed payment | review, approve, resume, suspend | single flight; a command of an earlier session publishes nothing |
| **Ledger Savings** (`ledgerSavingsWallet.ts`, `ledgerPayments.ts`, `ledgerApproval.ts`) | journal: one pending payment and a history | review, approve on phone and device, broadcast, observe, cancel, export, restore | one payable approval at a time; approvals are never lost nor replaced |
| **Boarding** (`vtxo/*oarding*.ts`) | transcript and mature journals | board, settle, recover matured deposits | what was sent stays journaled until confirmed and saved; then it is retired |
| **Recovery archive and cloud backup** (`recovery/`, `recoveryCommands.ts`) | archive store, committed file, revision, pending upload | capture, commit, sync, restore | an acknowledged copy is not overwritten by an older one; everything gets uploaded |
| Guardian renewal (`vtxo/guardianRenewal.ts`) | signed sets | authorize, submit in parts, recover | each plan is resubmitted until the Guardian knows it |
| Balances, history, observation (`accountBalances.ts`, `balanceStore.ts`) | versions, published snapshots | refresh, page, arrive | nothing older is published over something newer |
| Transaction construction and validation (`vtxo/*Validation*`, builders) | none | pure functions over PSBTs | byte equality with fixed vectors |
| Wallet worker, gateway, emergency recovery, programs and descriptors, notifications, screens | see `PROJECT.json` | | |

Bold components are modelled, wholly or for the parts `PROJECT.json` names; the last
four rows are not (the wallet worker is, as far as sessions and receives meet it).

How they meet: the payment owners run a command of the session's account and are
suspended by its teardown. A Lightning payment funds its lockup with a Spending
operation; receives and the observer run in the worker's background pass under the
vault's lifecycle lock. Every journal is captured into one recovery file, and
retirement anywhere waits for the committed file. The cloud backup uploads that file.

### What is hard in it

* **Ambiguous submission.** `submitTx` carries funds and its answer can be lost.
  Repeating it is forbidden, forgetting it frees an input that may be spent. The
  same holds for a refund, a claim that carries a secret, and a broadcast.
* **Requests that outlive their sender.** A page dies or gives up while a request
  is under way; the lock is free again and the request is served later.
* **Several pages, one storage.** Each page works on a copy of a record between
  awaits. Only the Web Lock makes the write-back safe.
* **Evidence before effect.** A signed successor is archived before it is made
  final, a funding is recorded before it is authorized, refund and sweep bytes are
  stored before they are sent, batch evidence before the request that commits it.
* **Clocks.** A Bitcoin draft is cleared on an expiry read after the status answer,
  a quote is retired when it has expired while a review may resume it.
* **Retirement and restore.** A record leaves only after a committed recovery file
  covers it, a file holds only what is unspent when it is captured, and an older file
  may be restored at any time.
* **Teardown.** Lock, sign-out and a new account must silence what began before and
  wait for what is under way, without waiting for what waits for them.

The list of hazards with their lines is in `PROJECT.json`; the ones without a
property say why.

## 2. Modules

| Module | Models | Lines |
|---|---|---|
| `SpendingOperation` | the Spending operation, its journal, the lock, the two services | 989 |
| `PaymentPromise` | the abstract promise of that component to its user | 34 |
| `BitcoinSettlement` | the Bitcoin payment, its journal, the Guardian, the capture | 549 |
| `CloudBackup` | sessions on the cloud copy of the recovery file, captures, uploads, restores | 467 |
| `LightningSend` | Lightning payments: reviews, funding, observer, refund, retirement | 729 |
| `LightningReceive` | Lightning receives: invoices, receipts, claims, retirement, restore | 560 |
| `AccountSession` | the session of a page, its commands and teardowns, runtimes, the payment command | 1048 |
| `LedgerSavings` | the Savings payment of a Ledger vault | 559 |
| `MatureBoarding` | the recovery of matured boarding deposits | 472 |
| `SpendingOperationProofs`, `BitcoinSettlementProofs`, `CloudBackupProofs` | theorems about Spending, Bitcoin and the backup, the refinement of `PaymentPromise` included | 3097, 1248, 1316 |
| `LightningSendProofs`, `LightningReceiveProofs` | theorems about Lightning payments and receives | 2444, 1616 |
| `AccountSessionProofs`, `LedgerSavingsProofs`, `MatureBoardingProofs` | theorems about the session, Savings and boarding | 6116, 1526, 1334 |
| `MC…` | symmetry sets and small functions for TLC | |

All of them follow the same conventions.

* **A step is the code between two awaits.** JavaScript runs to completion between
  awaits, so nothing can interleave inside a step and anything can between two.
  `pc[t]` (or `step`, `task`) names the await a page is in. Where a lock is held
  from a read to its write and nothing is asked in between, the two are one step.
* **A request is two steps or more.** Posting it adds it to `net` or `wire`; the
  service takes it (changing its own state) with the answer delivered or lost; the page
  goes on from the answer, or from the failure. A page that dies or fails leaves its
  request under way, and the service may take it later, or never.
* **Data is abstracted to what the code branches on.** A record is its stage and the
  presence of each piece of evidence. Signatures, PSBTs and receipts that fail
  validation are an answer that throws; the validators themselves are not modelled.
* **Names are the code's** for handlers, stages, service states and fields. Names of
  our own (`GiveUp`, `CallFails`, `Forget`) are for what the code writes as `throw`,
  `finally` and `catch`.
* **Mutants.** A definition whose comment begins with `Mutant:` is a plausible bug of
  the definition below it. No specification uses it; putting it in place of that
  definition makes the run find the property violated that it is listed with.

### `SpendingOperation`

| Variable | Code |
|---|---|
| `journal`, `resolved` | the `localStorage` journal of `spendingJournal.ts`: live records, resolved history |
| `archive` | recovery store, as far as the signed successors go |
| `lock` | Web Lock `arkade-vault-vtxo-send` |
| `pc`, `mode`, `want`, `agreed`, `cur`, `copy`, `view`, `todo`, `answered` | the locals of the running command: its await, entry point, arguments, record in hand, last Guardian view, remaining records, whether its answer came |
| `guardian`, `input`, `operator`, `covered` | external: operation state and reserved coin at the Guardian, transaction at the Operator, the committed recovery file |
| `net`, `used`, `submits`, `crashes` | requests under way; history variables; bound |

`StartReserve` enters `prepareVtxoSpend`: it waits for the lock, synchronises every
record with the Guardian (`fetchVtxoOperation`, `applyVtxoOperationView`), then
refuses, resumes, replaces (`AbortPreReserved`, `SendAbort`,
`abortPersistedVtxoSpend`) or reserves. `StartSend` advances one record:
authorize, submit once or recover by lookup, checkpoints, archive
(`retainFinalizationRecovery`), finalize, receipt, retire.
`reconcilePersistedVtxoSpend` does the same for every record as far as it may, and
`acknowledgeSpendingVtxoRecovery` retires one that is final. A lookup that fails keeps
the record (`ViewMissing`), unless nothing was signed and the operation is `Gone`: the Guardian
does not know it, or a send met an error that says `expired` (`spend.ts:1625`).
An abort by the user or a time limit is `GiveUp` between two requests and `CallFails` at
one; a callback of the SDK call that is under way then ends first
(`sdkOperationAdapter.ts:327`). What the SDK itself still does after the abort is left out:
each of its callbacks looks at the signal before it begins.

Every payment is modelled as leaving change, which is the case with obligations:
a payment without change needs no coverage and retires at once.
The receipt of an own operation is taken to bind (`receiptBindsImmutableOperation`
rejects foreign ones). `MaxJournal` stands for `MAX_VTXO_SPEND_JOURNAL` = 32.

### `BitcoinSettlement`

`sendSpendingToBitcoin` saves a draft, prepares, is approved or declined, stores the
deletion proof, registers, stores the batch evidence, sends the forfeits and keeps
the outcome. `checkSpendingBitcoin` reads the status and clears, releases or keeps;
`cancelSpendingBitcoin` releases; `acknowledgeSpendingBitcoinRecovery` retires.
`captureVaultRecoveryFile` commits a recovery file. Guardian states `registering`
stands for `register_authorized` and `register_dispatched`, `released` also for
`cancelled`, `submitted` also for an `uncertain` outcome; `delete_authorized` and
`delete_dispatched` are folded into the release they lead to.
`expired` holds the operations whose expiry is fifteen seconds past.

### `CloudBackup`

| Variable | Code |
|---|---|
| `local` | what `captureVaultRecoveryFile` finds in the profile: its own records and the restored ones |
| `seen` | `localStorage` `vaulted:<id>:recovery-archive-revision` |
| `session`, `expired` | `cloud.session` of `recoveryCommands.ts`: revision, file, pending upload; whether `expiresAt` has passed |
| `shot` | `captureFlight`, while its key is the fence of the present |
| `pc`, `file`, `answer` | the await the cloud work of the page is in, the file it saves, the revision an open was answered with |
| `net`, `cloud`, `top` | external: writes under way, the copies stored, whether the current one has the ciphertext of a page's upload in doubt |
| `own`, `verified`, `acked`, `crashes` | history variables; bound |

A backup command opens a session when it has no live one
(`openRecoveryCloudBackup`, `AdmitSession`); with one, captures go to it
(`captureArchive`, `captureFor`). `syncSnapshot` of the code is a loop: a capture the
session holds already is reported (`Synced`), otherwise the upload in doubt or a new
one is written (`SendWrite`), the answer is checked against a read (`ReadBack`), and
the session moves on (`syncSnapshot`). Any failure leaves the upload pending in the
session. A restore ends the session, merges the file into the profile and notes the
revision, in that order.

A file is a set of records: payments, receives and transaction paths that a profile
journals itself or restores. Ciphertexts are compared for equality only, and
encrypting is never the same twice; so it is enough to know which write, and whether
the current copy, carries the upload a page has in doubt. The page's cloud work is
serialised (`cloudChain`, `activeSyncs`, `captureTail`), hence one `pc` for it. A lock
while an upload is written lets it drain (`recoveryCommands.ts:192`), which is the
same as locking after it. A capture that starts while the passkey is being asked for
is modelled as starting before.

### `LightningSend`

| Variable | Code |
|---|---|
| `swap`, `attempt`, `receipt` | swap records with their profile (`lightningLifecycle.ts`), refund attempts, receipts of retired records |
| `file`, `covers` | the committed recovery file: swap records, refund outputs it covers |
| `lock` | the vault's lifecycle lock (`lightningLock.ts`) |
| `pc`, `quote`, `mine`, `live`, `copy` | the command of each page: its await, quote, Spending operation, whether it resumes one that was authorized, the record read |
| `watch`, `scan` | the observer and the quotes it found abandoned |
| `op`, `out`, `operator`, `net`, `expired` | external: the Spending operations, the lockups, the Operator's view of refunds, refund requests under way, validity |

A review shows a funding that began (`restoreMatchingVaultLightningFundingQuote`), an
unexpired quote (`restoreMatchingVaultLightningQuote`), asks for a new one
(`requestVaultLightningQuote`), or opens a pending payment. Its approval reserves, takes
the lock, resumes or begins the funding, saves it, and sends; the transaction is then
noted in the record. The observer polls, retires abandoned quotes, and labels what was
paid. A refund stores each thing before it is sent and starts again from whichever
it finds (`durableVaultLightningRefund`, `ResubmitRefund`, `ResumeSigning`,
`ResumeFinals`). The Spending payment is an operation that goes from reserved to done
or is replaced, which is what `PaymentPromise` and `SubmittedOnce` promise of it. All
quotes are of one invoice. A payment that was reserved but never began funding can be
opened again from the list of pending payments, and is then sent as a plain payment to the
lockup (`OpenedAs`, quote 0 in `quote[p]`); the user does so with the operations in
`Reopened`, and section 3 says what follows. `plain` in `op` is
a history of that for the properties: what is promised of a lockup's record is promised of
the payments that were sent with it, whatever was sent beside them.

### `LightningReceive`

| Variable | Code |
|---|---|
| `rec`, `contract`, `receipt` | the record of a receive, its registered lockup contract, the receipt of its retirement |
| `file`, `kept` | the committed recovery file; an older one the user has |
| `task`, `todo`, `copy`, `seen` | what the holder of the lifecycle lock does: request, pass, retirement or restore, with what it read |
| `coin`, `service`, `late`, `wire` | external: outputs of the lockups, receipts of the address service, the refund time, claims on their way |
| `submitted`, `shown`, `imports`, `writes` | history variables and bounds |

The records carry the stamp of their last write (`updatedAt`), for restores and captures
prefer the newer of two. A claim is named by the output it spends, since the same
output, amount and script build the same transaction. One profile: whoever writes the
stores holds the lifecycle lock, so there is at most one task. A capture and its commit
are one step. A file with an unclaimed record, kept since before the retirement, may be
restored later, and a second deposit then be claimed for a second time: both
are paid to Spending, and `SecretBuysOneOutput` speaks of the time until the receipt.

### `AccountSession`

| Variable | Code |
|---|---|
| `locked`, `account`, `bound`, `targets`, `admitted` | the snapshot and fields of the session owner (`session.ts`) |
| `tasks`, `flight`, `draining` | its commands (`run`) and teardowns in the order they were created, the current ones |
| `runtimes`, `current`, `mounted` | account runtimes (`accountRuntime.ts`) with the state of their wallet connection (`walletWorker.ts`) |
| `command`, `review`, `ended` | the payment command under way, the review on the screen with the session it was asked in; sessions ended |
| `key`, `worker`, `stored`, `selected`, `staged`, `storedLocked`, `privacy` | what the device holds: boarding keys, registered workers, saved and staged enrolments, selection, saved lock, the privacy setting |
| `enrolled` | external: enrolments the service has finished |

A task awaits what was there when it was created (`after`), and starts when that has
ended. Every step of a command is the end of one request or prompt: its effect happens
though the command was cancelled meanwhile, and only then is the signal looked at.
`TearDown` is the synchronous half of a teardown (lock, abort, choose what to clean and
what to keep); `StartCleaning` … `CleaningEnds` its clean-up. `Promise(t)` steps run
before any other event of the page (`Settled`), as promises do. A runtime that is
replaced is retired when what used its connection has ended, and the next one
connects after it. `Reload` closes the page in any state; the boot of the next one
finds what the device holds.

### `LedgerSavings`

| Variable | Code |
|---|---|
| `pending`, `history`, `backup` | the journal of `ledgerSavingsWallet.ts`; one in a saved recovery file |
| `holder`, `evidence` | the Savings lock of the vault, with what the chain answered its holder |
| `open`, `flight`, `reading`, `view` | each page of `ledgerPayments.ts`: session, command under way, observation, the payment shown |
| `chain`, `foreign`, `seen` | external: candidates, spends of others; history |

Each journal operation is one action, or two when it asks the chain while it holds the
lock, so its answer may be old when it is used. A payment goes from `prepared` to
`signing` (the phone may have issued a signature), `signed` (the device too) and
`broadcast`, and leaves for the history when the chain answers for it. Signing draws fresh
bytes, so an approval is named by the page that made it. A restore merges an exported
journal, refusing approvals that differ.

### `MatureBoarding`

| Variable | Code |
|---|---|
| `journal` | the record of the vault in `matureBoardingJournal.ts`: attempt or note of retirement |
| `file`, `saved` | the committed recovery file, as far as its boarding journal goes; a file of another device |
| `lock`, `capturing`, `page` | the lock of recoveries and acknowledgements, the lock of captures, the command of each page |
| `matured`, `status` | external: deposits past their delay, transactions on the chain |
| `signed`, `sent`, `faults` | history variables; bound |

A recovery inspects the saved attempt first (`inspectAttempt`: confirmed, in conflict, or
sent again), and only without one signs a sweep of the matured deposits, saves it,
marks it dispatched and sends it. An acknowledgement confirms the attempt, checks
that the committed file holds it and is the one just captured, reads both again and
retires. The session's fences and a page's death are `Fails`: a command may stop at every
step. What two flows of one page do is what two pages do, for they share nothing but the
storage. A restore holds the capture lock: it writes the journal
(`restoreMatureBoardingAttempt`), and the file where there is none
(`storeRecoveryImport`, `recovery/fileStore.ts:37`).

"The one just captured" is a matter of digests, and the digest is that of the whole file
(`committedCoverage.ts:46`): the time of the capture, the status at the Guardian and every
other journal count too. A file of the model has the boarding journal only, so each page
keeps whether the committed file still has the digest it captured (`latest`): after the
capture of another page it may, if that one found the same attempt (`Repeats`), and it need
not, whatever it found (`CommitsAs`).

### External assumptions

Made where the wallet's code shows that it relies on them:

1. The Guardian refuses to prepare or register an operation past its expiry, and
   releases only an operation it knows. It calls an operation expired only once it has
   released it unsigned.
2. A refusal precedes any record: a refused request left nothing behind.
3. The Operator accepts a submission of an operation at most once, and finalizes
   only what it accepted; the Guardian confirms a receipt only for a transaction the
   Operator finalized.
4. A reserved coin belongs to one operation until that one is aborted.
5. `PromptPages` (Bitcoin only, a constant): no page is suspended between a status
   answer and its use for so long that the expiry passes. Section 3 says what happens
   without it.
6. The archive service stores a write if its revision is the current one, repeats its
   answer for the ciphertext it holds (`cloudBackup.test.ts:79` relies on it), refuses
   every other write, and reads back what is current. With `StaleOpens` it may answer
   an open with an older copy; the wallet's check of the revision it has seen is
   against that.
7. The Operator takes one refund of a lockup and repeats its answer for that
   transaction. The solver may claim a funded send lockup at any time, and take a receive
   lockup back once its refund time has passed.
8. The Emulator may lose, delay or repeat a claim; the indexer shows a payout some time
   after its claim. Both are eventually done for a claim that arrived.
9. No block is undone, and an unconfirmed transaction may be dropped. A confirmed
   spend of an input rules a transaction out.
10. The service may have finished an enrolment whose answer was lost.

## 3. Runs

| Run | Question | Instance | Distinct states |
|---|---|---|---|
| `spending_tabs` | Do two tabs over one journal lose a write, submit twice, confirm what is not final, take evidence back? Does the owner implement `PaymentPromise`? | 2 tabs, 2 operations, 2 payments, journal of 2, one request under way, symmetry | 1 395 000 |
| `spending_live` | Do crashes and late requests lose a submission or a signature, or finalize before archiving? Is every accepted payment confirmed? | 1 tab, 2 operations, 1 payment, one crash, one request under way, fair | 180 000 |
| `bitcoin_settle` | Is every live operation journaled, evidence first, change backed up, evidence kept, every payment resolved? | 1 tab, 2 operations, one crash, fair | 90 000 |
| `backup_devices` | Does a session ever mistake another's copy for its own? Is anything reported that was not uploaded? Does a device undo its own backup? | 2 devices with 1 tab, 1 record, 2 revisions, 2 writes under way, symmetry | 997 000 |
| `backup_live` | Does every record get into a verified upload? | 1 device, 1 tab, 2 records, 3 revisions, 2 writes under way, one crash, older answers, fair | 71 000 |
| `lightning_send` | Is a lockup that may be paid named by its record, paid once, refunded with one transaction, retired only when it is over, labelled in the end? | 2 pages and the observer, 1 quote, 2 operations, none reopened before its funding, 2 refund builds, one death, fair | 512 000 |
| `lightning_reserved` | Does the record of an exposed funding target remain? **No** | the same with every operation reopened | |
| `lightning_receive` | Does a secret buy one output? Is a funded receive settled? | an invoice that may be funded twice and an address receipt, 2 outputs, one import, one restore, one failure, fair | 747 000 |
| `account_session` | Does an ended session leave a key, a worker or a review behind? Is a needed key deleted? Does clean-up end? | 2 vaults, one enrolled before, 4 commands and teardowns, 2 after one reload, one failed stop, fair | 336 000 |
| `session_stuck` | Does a teardown end while a review waits for the lifecycle lock? **No** | 1 vault, 3 commands and teardowns, fair | |
| `ledger_savings` | Can a second approval be sent while the first still can? Is an approval ever lost or replaced? | 2 pages with the commands split between them, 2 payments of a coin each, history of 1, one fault | 1 154 000 |
| `mature_boarding` | Is what was sent journaled until it is confirmed and saved? Is a confirmed sweep retired in the end? | 2 pages, one of which recovers, 2 deposits, a sweep of each and one of both (also of another device), one rival, one fault, fair | 372 000 |

**Why the bounds are enough to meet the hard cases.** Two pages are enough for one to
overtake the copy of another, since a lock has one holder and the waiting pages are
interchangeable. Two operations give the conflict of an open payment with a new one,
the replacement of one by the other, and a payment that spends the change of the one
before it; two payments tell a resumed preparation from a replacing one. One crash at
every point, each followed by every recovery, covers what a page left behind, its late
request included; the safety properties of the Bitcoin payment were also
explored with two tabs and two crashes outside of the runs, those of the Spending
payment with two requests under way. Two revisions are one
upload over another's, two writes under way a late one next to its successor; two
records let a capture be newer than the upload in doubt it has to wait for.

One quote with two operations is a lockup that two reviews want to pay, which is what
`QuoteFundedOnce` is about; two builds are a refund that could be built anew. A lockup that is
sent to as a plain payment is reached by `lightning_reserved`, and by the theorems, which
hold for every `Reopened`; in `lightning_send` no reservation is opened again before
its funding began, because all of it at once is more than TLC explores in minutes under
fairness. The safety properties of this run were also explored with every operation reopened
(no death, the symmetry of the pages: 7 039 000 states) outside of the runs. More quotes
only add payments that exclude each other at the Guardian. An invoice funded twice
needs two outputs; a second receive can make the pass fail before it reaches the first.
Four tasks are a command, the teardown that interrupts it, a later sign-in and its
teardown; two more after a reload are a boot and its end, with what the first
page left. With two vaults a command can write the key of one while the clean-up is about
the other. Savings has one pending payment at a time, so the second candidate is the one
that could be prepared too early; page 1 reviews, observes and signs on the device, page 2
approves and reopens, so that approvals of one page meet reviews, observations and the device
of the other; the one fault is a death, a lock, a dropped or a foreign spend, or a saved
file, which is then restored or finished by another device. The sweep of both
deposits and that of the first are two over the same deposit, one of them perhaps of another
device's file, which must not displace each other; the sweep of the second deposit is signed
after the first one's retirement. The theorems of section 4 do not depend on the bounds.

Deadlock is checked in the runs of Spending, Bitcoin and the backup: a wallet that can do
nothing and a service that owes nothing still leave a user who can start a command. The
other modules bound what users may ask for (`MaxQuotes`, `MaxTasks`, the one invoice, the
payments of Savings, the deposits), and stop when nobody asks for more: their
configurations say `CHECK_DEADLOCK FALSE`, and the liveness properties say what must
have ended by then.

### Fairness

Liveness is claimed under what the code's scheduling gives and what only its
environment can give, stated apart:

* *The page works while it runs:* a page in a command takes its next step (weak
  fairness of the union of its steps, so no branch is favoured). The browser runs
  callbacks and grants Web Locks in order.
* *The wallet keeps resuming:* the pending payment is sent or checked, the confirmed
  one acknowledged, and a recovery file captured again and again. The code does so
  with the maintenance of the balances (`accountBalances.ts:501`) and on each refresh
  of a Bitcoin payment (`bitcoinPayments.ts:135`), and the user can always ask again. These
  commands wait for a lock other commands hold now and then, hence strong fairness.
* *The observer finds the lock:* the background pass of the worker tries the lifecycle
  lock every few seconds and never waits for it. No user holds it for ever, so strong
  fairness of taking it (`tryVaultLightningLifecycleLock`, `StartPass`). Nobody has to
  review, approve, refund or retire anything.
* *A session's promises run:* requests are answered or fail, prompts end when their
  command is cancelled, ready promises run. Nobody has to press a button, and the
  payment command under way goes on (`AccountSession`).
* *The services work:* requests are served or lost, the Guardian goes on by itself,
  the clock moves. A write to the archive service is stored or lost; a claim that
  arrives at the Emulator is executed and indexed.
* *The backup is resumed:* the observation captures every 30 seconds
  (`recoveryCommands.ts:213`), the user opens the backup when there is no live session,
  sessions come to their end. Without the end of sessions a conflicting upload would
  stay pending for ever. `MatureBoarding` asks for captures and acknowledgements in the
  same way (strong fairness: both wait for a lock), and of nobody to recover.
* *The pages let each other finish* (`<>[][~Unsettled]_vars`, `MatureBoarding` only). The
  code does not see to this. An acknowledgement retires against the digest of the file it
  captured itself, and a capture of another page in between commits a file with another digest
  even if it holds the same sweep: `capturedAt` alone differs. Two pages that
  capture in turn can fail each other's acknowledgements for ever, and without the assumption
  TLC finds that behaviour. With it, from some point on one page is left, or a capture that
  finds the attempt another page has captured changes nothing else of the file.
  `ConfirmedIsRetired` shows that nothing but this keeps a confirmed sweep in the journal.
  Safety needs no such assumption.
* *Eventually nothing fails that need not* (`<>[][~Failure]_vars`; a bound on failures in
  the Lightning and session modules). Before that, any
  number of requests, answers and passkey prompts may fail. Nothing is assumed of a
  `submitTx` that was lost: the wallet does not repeat it, so `AcceptedIsConfirmed`
  speaks of accepted payments. In `MatureBoarding` a command that is refused by its own
  checks ends in a way of its own and is no failure, so the premise does not exclude it.

### What the code disagrees with

Two runs end in a counterexample that contradicts a sentence of the repository, quoted in
`PROJECT.json`.

* `lightning_reserved`: a Lightning payment that was reserved but did not begin its funding
  (the fee changed, or the page ended) can be opened from the list of pending payments. It
  has no Lightning record in funding, so it is approved as a plain payment to the lockup's
  address: the quote's expiry is not asked, the record stays `quoted`, and the
  observer removes it when the quote expires, while the lockup holds the payment.
  The other Lightning runs have that way in too, and their properties say what still holds.
* `session_stuck`: a Lightning review that waits for the lifecycle lock, which another page
  or the observer holds, connects the wallet when it gets it, before it looks
  at its signal. If the session ended meanwhile, the new runtime waits for the
  disposal of the old one, which waits for the payment owner to be idle, that is for this
  review. The teardown never ends, and every later command of the page waits for it.
  `account_session` excludes only these reviews (`ReviewsWait`). The same window exists in
  `sweepSettledVaultLightning` (`spendingPayments.ts:146`).

Other statements were refuted by TLC while the modules were written. The code does not
prevent what they deny, so no passing run can hold them, and they are recorded here:

* *Every confirmed record is retired* (Spending), *every confirmed payment is
  acknowledged* (Bitcoin). Retirement wants the change output in the
  committed recovery file, and a file holds what is unspent when it is captured. If
  the change is spent before a capture commits, no later file has it. A Spending
  record then stays in the journal for ever, without blocking payments until the
  journal is full; a Bitcoin journal stays and blocks the next Bitcoin payment, and
  the capture refuses every file.
* *Confirmed records never block a payment* (Spending): they count towards the journal's
  limit.
* *A check only reads* (Bitcoin): a check requests the release of an expired operation.
* *Every live operation is journaled* without `PromptPages` (Bitcoin): a page suspended
  between `not_found` and the comparison with the expiry clears the draft of an operation
  that a delayed request prepared in the meantime. The Guardian holds a reservation that
  no journal names until it expires by itself.
* *What was reported as verified stays in the cloud*, with two tabs of one device: a command
  takes its capture fence before it opens its session, and
  shares a capture in flight for that fence. The capture can lack what another tab
  uploaded in the meantime, and the upload at the newer revision takes it out of the
  cloud. The next capture puts it back. Between devices the same happens by design
  when the second one did not restore first: a session opened on a newer copy may
  replace it, and nothing merges the two. `OwnRecordsKept` is therefore
  checked for one page per device.
* *A retired receive stays archived* (Lightning address receipts). The service lists the
  receipt again, `importLightningAddressReceipts` (`lnurl.ts:280`) makes a new pending
  record of it without its claim, and a capture prefers the newer record
  (`lightningArchive.ts:263`). `lightningReceiveClaim.ts:147` says that "the archive keeps
  the recovery bytes". `SecretBuysOneOutput` speaks of the receives this wallet made
  itself.
* Found with `AccountSession`, and outside of its properties: a restore whose status could
  not be fetched, followed by `Release`, deletes the key of a saved enrolment whose
  saved session is not locked; a page closed between writing a key and cleaning up leaves
  the key of a vault not saved yet; a plain teardown after a failed clean-up of a
  sign-out keeps the admitted key; a wallet disposal that fails makes every later
  connection of the page fail until it is loaded again. `beginTenantEnrollment` throws when
  it is aborted after it saved the staged enrolment, so its vault is not registered for
  clean-up as the comment at `session.ts:230` has it; the next boot finds it by the staged
  enrolment, so nothing is lost.
* Found with `LedgerSavings`: nothing archives the history, so the payment after the
  hundredth can never be prepared.
* Found with `MatureBoarding`: a conflict recorded from a spend that is not yet confirmed, or
  a saved attempt whose inputs were spent before it was dispatched (`signed` to
  `conflict` is refused), never frees the journal if the rival confirms, and blocks the
  recovery of deposits that mature later. Once a later attempt or its retirement is
  journaled, a file with an earlier attempt makes the whole restore throw.

## 4. Proofs

Every theorem holds for any number of pages, operations, vaults and deposits and for any
bound, from the `ASSUME`s of the component's module only (the null values are outside of
the sets they stand for, the bounds are natural numbers). Each proof has one shape: an
inductive invariant in named parts, checked with TLC before it was proved; lemmas that say
what a helper does to the part of the state it touches; one lemma per kind of step and
part; and the theorems, which follow from the invariant or from the same case split.

**`SpendingOperationProofs`** (2965 obligations): `TypeCorrect`, `LockDiscipline`
(`CopyIsCurrent`), `SubmitsOnce`, `ConfirmedOnlyWhenFinal`, `EvidenceNeverLost`,
`NothingUnfinishedIsLost` (`UnfinishedRecoverable`), `PromiseKept` (the module implements
`PaymentPromise`). None of these is inductive. That a record is written back without loss
rests on its holder being in the critical section with the stored record, for which the
*stage* the code expects at each `pc` must be the one in the record (`StageIsExpected`).
That submission happens once rests on the attempt being stored before the request
(`AttemptIsRecorded`), and on the advance reading the stored attempt, not a copy of
before. That a confirmed record is final rests on a chain: a receipt is only stored
after a view or an answer said finalized (`ConfirmedIsSeen`), a finalized state at
the Guardian implies one at the Operator (`FinalAtOperator`), and neither goes back.
The last two theorems need a second invariant (`RInv`): what a page read is still true of
the Guardian where the code relies on it (`AnswersHold`, `ViewsHold`), a request under way
is one whose record is stored (`RequestsHold`), and an operation is out of the journal only
when it is over, replaced or never reached the Guardian (`RecordsHold`, `PlacesHold`,
`Replacing`, `Accounted`). With it every step of the detailed module is one step of the
promise, or a stutter.

**`BitcoinSettlementProofs`** (918 obligations): `TypeCorrect`, `NothingForgotten`
(`UnfinishedIsJournaled`), `EvidenceFirst`, `RetiredWithBackup`,
`EvidenceNeverTaken`, each under `PromptPages`. The argument has two halves. A tab
step is a `JournalStep`: it begins a journal, lets it grow, or clears it with a
reason, and asks for at most the request its journal backs. A Guardian answer moves
one operation along and `Takes` only a request that is backed. The strengthening is
what makes the halves meet: a request in `net` has its evidence in the journal, *or*
its operation is one the Guardian can no longer take it for (`RequestsAreBacked`);
an answer in the hands of a tab is still true of the Guardian (`ViewHolds`), which
is where `PromptPages` is needed; and the progress of each tab bounds the stage of
its journal (`Progress`).

**`CloudBackupProofs`** (1022 obligations): `TypeCorrect`, `SessionsMatch`
(`SessionMatchesCloud`), `OnlyUploadsReported` (`ReportedWasUploaded`), with any
number of devices and tabs and with older answers, and `OwnRecordsStay` (`OwnRecordsKept`)
under the hypothesis `OneTab`, a single page on each device. The invariant says what an upload
in doubt is: every write under way that carries it is at the session's revision with
the session's pending file (`WritesSound`), and if the current copy carries it, that
copy is one past the session's revision (`TopSound`). So a read that finds it proves
that the copy at the next revision is the pending file, whatever other devices wrote
before or after, and a report rests on a stored copy. A page that dies or opens a new
session leaves writes that nobody has in doubt (`ForgottenSafe`). For `OwnRecordsStay` a
second invariant (`OwnInv`) follows one relation from capture to upload: a file *replaces*
another when it has the device's own records of it. The file a page saves replaces the copy
its session has and the upload it has in doubt (`WorkReplaces`), each write replaces the copy
at its revision (`WritesReplace`), and a record a device makes is in no file yet
(`NothingUnmade`). One tab is needed in a single place: the event of a payment ends the sharing of
captures in its own page only (`CapturesComplete`).

**`LightningSendProofs`** (2187 obligations): `TypeCorrect`, `OneRefund`
(`RefundReplays`), `FundingIsRecorded` (`LockupIsRecorded`), `OneFunding`
(`QuoteFundedOnce`), `RetiredStaysOver` (`RetiredIsOver`), all without a hypothesis, so for
every `Reopened`: any reservation may be opened again and sent as a plain payment at any time. The invariant says
that what a page found under the lock is still so while it holds it (`Working`, `FoundBy`),
that the transaction a record names was accepted, and is the operation its funding permitted
if nothing was sent as a plain payment (`Labelling`), that the file's copy of a record is of
the same funding or none (`Filing`), that every operation authorized as a Lightning payment is
the proof of its quote's record, or that record was retired and is in the file (`Naming`), that
a retired record still in the store is labelled (`Retired`), and that the Operator saw
no refund but the one build that is stored (`Replayed`).

**`LightningReceiveProofs`** (1588 obligations): `TypeCorrect`, `OneClaimPerSecret`
(`SecretBuysOneOutput`). The type invariant holds a real bound: no writer runs out of the
stamps by which a merge tells the newer record, for what was written and what a page still
owes never exceeds what imports and restores allow (`Counted`). That a claim cannot
be replaced by another rests on the lifecycle lock: what its holder has read, an invoice
without a claim, a pass, a retirement or a restore, is still so when it writes (`Asking`,
`Reading`, `Retiring`, `Restoring`); of each invoice every copy with a claim has the same one
and is newer than every copy without (`Agreed`, `Ordered`), so a merge cannot lose it.

**`AccountSessionProofs`** (5449 obligations): `TypeCorrect`, `ReviewsBelong`
(`ReviewOfThisSession`), `KeysKept` (`NeededKeysKept`), `LockLeavesNothing`
(`LockedLeavesNothing`), with any vaults, commands, teardowns and reloads. What makes the
session tractable is that its tasks run one at a time in the order of their creation, which
nothing in the code says: each awaits only the current command and the last teardown.
`Ordered` and `Flights` say that this is enough, since of two tasks
that are not over the later awaits one that is not over and not before the earlier one.
While a teardown is not over (`Torn`), its session is locked, every command before it is
cancelled, the staged enrolment is the one it read, and no admitted key is outside of what it
keeps unless the saved session was locked first. So the one step that deletes a key
deletes none that is needed, and a command that goes on after its cancellation unlocks
nothing (`Effects`). A payment command that is not cancelled is of the open session
(`Paying`). That nothing is left behind needs a second invariant (`LInv`), proved from the
first: as long as no teardown was to keep a key, a vault with an active key or a worker is a
target of the next teardown (`HeldIsTarget`), and so is the account that is open and the
vault of the runtime in use (`OpenIsTarget`, `InUseIsTarget`). A command registers its vault
before the request that writes for it (`Commanding`); a runtime is only created for a
payment command or an open account, and one that is disposed is waited for by its successor
(`Served`); the clean-up starts from all targets, and no runtime it stopped registers a
worker again (`Cleaners`). The one runtime that serves no target is that of the review that
`session_stuck` shows: its teardown never ends, so the property says nothing of it
(`StuckInUse`).

**`LedgerSavingsProofs`** (1454 obligations): `TypeCorrect`, `PayableIsPending`
(`OnePayable`), `ApprovalKept` (`ApprovalOnlyGrows`). The journal of Savings is read and
written by pages that hold no lock while the person signs. The invariant says what a journal
holds, stored or in flight: the phone's signature before the device's, both before the chain
has the payment, one record for each candidate, and in the history only candidates the chain
answered for (`Journals`); that what the holder of the lock was told, settled or sent, is
still true when it saves (`Answers`, `ChainSeen`); and that a flight past its first steps
works on a candidate (`Flights`).

**`MatureBoardingProofs`** (1156 obligations): `TypeCorrect`, `SentStaysJournaled`
(`SentIsJournaled`), `JournalKeptUntilBackedUp` (`KeptUntilBackedUp`). A sweep that is
signed and not journaled yet is nowhere else (`Fresh`), the journal and the files hold only
signed sweeps (`Witnessed`), what the chain confirmed stays (`Final`), and what a page does
under the lock agrees with what it read (`Locked`, `Working`). A capture that may still
replace a file holding the attempt holds it too (`Captures`), and a committed file with the
digest of a page's capture holds what that one held (`Latest`), so that an acknowledgement
past its first comparison is backed by the committed file (`BackedUp`).

**Only model-checked.** Every safety property that a passing run checks is stated by a
theorem, `OwnRecordsKept` for one page on each device, as in `backup_devices`.
`AcceptedIsConfirmed`, `PaymentResolves`, `RecordBackedUp`, `FundingIsLabelled`,
`FundedIsReceived`, `TeardownEnds` and `ConfirmedIsRetired` are liveness under
fairness with `ENABLED`, which stays with TLC, as would anything by induction over data
or about `RECURSIVE` operators; the modules use neither.

## 5. What is not modelled

*Of the modelled components:*

* Spending: the merge of a restored journal (`spendingJournal.ts:188`), the error for an
  operation of an unknown state, the resolved history's limit of 10000, failures of
  `localStorage` itself, amounts and fees.
* Backup: downloads, the map backup, what the merge of each restored journal
  decides (for swaps, receives, Savings and boarding it is an action of their modules), and
  which outputs a capture commits.
* Lightning payments: `cancelVaultLightningQuote`, which nothing calls; the checks of
  covenants and invoices over bytes.
* Lightning receives: loss of the storage, outputs below the amount (no step looks at them),
  the exit graphs, what the screens observe.
* Sessions: several pages of one browser, the contents of status, plan, PIN and map backup,
  push; sign-out and the passkey's registration only from the screens of an open account;
  `reviveVaultWalletWorker`; the Receive screen, which may create a runtime after
  sign-out. Keys that an earlier teardown kept on purpose are outside of
  `LockedLeavesNothing`.
* Payment owners: the owner of Bitcoin payments, the replacement of a plain review.
* Savings: loss of the storage, change, coin selection and fees, the phases of the device and
  the announcement of a completed payment, the emergency wallet.
* Boarding: boarding by a batch (adapter, event stream, transcripts); loss of the storage.
* No block is undone anywhere.

*Not at all:* scripts, PSBTs, descriptors and their validation (pure, over bytes, and
tested with vectors); the vendored SDK; screens; notifications; the gateway beyond
lost and late answers; emergency recovery (sequential, over bytes). Guardian renewal and the
balances are the ones whose control would be worth a model; they are in the plan.

## 6. Plan

No proof of a safety property is open. The models, in order of what is at stake:

1. The merge of a restored Spending journal: a record from an older file meets a
   Guardian that is further. It needs a second profile on the same Guardian.
2. `Renewal`: one journal under the lock `vaulted:renewal`, signed sets that are
   resubmitted until the Guardian knows each plan. One live authorization per coin; a signed
   set stays until every plan is known; an operation leaves the journal only when it is
   terminal and its replacement is archived, or spent with its live outputs covered; signed
   sets become known eventually. Two hazards wait for it (`guardianRenewal.ts:71`, `:222`).
   To look into: a set that the Guardian refuses for good stays in the journal, and
   its coin is not authorized again, since an operation with a plan and no status
   blocks it.
3. Boarding by a batch.
4. `Balances` and the worker's generations.
