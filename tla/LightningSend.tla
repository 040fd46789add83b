----------------------------- MODULE LightningSend -----------------------------
(***************************************************************************)
(* Lightning payments from Spending: quotes of one invoice, the funding of *)
(* a quote's lockup by a Spending payment, the observer that follows the   *)
(* lockups in the background, refunds, and the retirement of swap records. *)
(*                                                                         *)
(* src/src/lib/vault/lightningLifecycle.ts  the swap records and refunds   *)
(* src/src/lib/vault/lightning.ts           sessions under the lock        *)
(* src/src/lib/vault/lightningLock.ts       the lock of the vault          *)
(* src/src/lib/vault/lightningEvidence.ts   the refund attempt             *)
(* src/src/lib/vault/spendingPayments.ts    approval and retirement        *)
(* src/src/lib/vault/recovery/lightningArchive.ts  capture and restore     *)
(*                                                                         *)
(* Records, attempts and receipts are shared by the pages of a profile.    *)
(* Every writer holds the vault's lifecycle lock; the observer only tries  *)
(* it.  External: the Spending payment (module SpendingOperation), here an *)
(* operation that is reserved, authorized, submitted and accepted; the     *)
(* solver, which may claim a lockup at any time; the package's manager,    *)
(* which gives a record the state of its lockup when it is polled; the     *)
(* Operator, which takes one refund of a lockup and repeats its answer     *)
(* for that transaction.  A quote's cancellation has no caller and is left *)
(* out; updatedAt orders records as their quotes were asked for.           *)
(***************************************************************************)
EXTENDS Integers, FiniteSets

CONSTANTS
    Pages,          \* pages of the profile
    Observer,       \* the background observer, one at a time holds the lock
    MaxQuotes,      \* bound on quotes, all of one invoice
    MaxOps,         \* bound on Spending operations that pay a lockup
    Reopened,       \* operations the user may open again before their funding began
    MaxBuilds,      \* bound on refund transactions built for one quote
    MaxCrashes,     \* bound on deaths that giving up does not cover
    LookupFails,    \* whether a quote's contract may be unavailable for a moment
    NoRecord, NoHolder

Quotes == 1..MaxQuotes
Ops == 1..MaxOps
Builds == 1..MaxBuilds

(* VAULT_LIGHTNING_PROFILE and the state of the swap.  "proof" and "txid"  *)
(* name the operation of fundingProof and of fundingArkTxid, "refund" the  *)
(* transaction of refundArkTxid; 0 is absent.  A swap that awaits its      *)
(* counterparty or the user is pending too.                                *)
SwapRecord ==
    [state : {"pending", "settled", "refunded"},
     funding : {"quoted", "funding"},
     proof : Ops \cup {0}, txid : Ops \cup {0}, refund : Builds \cup {0}]

(* VaultLightningRefundAttempt: the transaction whose bytes are stored,    *)
(* and whether the Operator's answer and the final checkpoints are.        *)
RefundAttempt ==
    [stage : {"none", "dispatched", "submitted", "finalized", "result"},
     build : Builds \cup {0}, server : BOOLEAN, finals : BOOLEAN]

Requests == [quote : Quotes, build : Builds, kind : {"submit", "finalize"}]

ASSUME BoundAssumption ==
    /\ {MaxQuotes, MaxOps, MaxBuilds, MaxCrashes} \subseteq Nat
    /\ LookupFails \in BOOLEAN
ASSUME ReopenAssumption == Reopened \subseteq Ops
ASSUME NullAssumption ==
    /\ NoRecord \notin SwapRecord
    /\ Observer \notin Pages /\ NoHolder \notin Pages \cup {Observer}

VARIABLES
    swap,       \* the record of each quote, or NoRecord
    attempt,    \* the refund attempt of each quote
    receipt,    \* quotes whose retirement was written down
    file,       \* the records in the committed recovery file
    covers,     \* quotes whose refund output that file covers
    asked,      \* how many quotes were asked for
    expired,    \* quotes past their validity; their refund may be due
    op,         \* each Spending operation: its stage, the quote it pays and, for the
                \* properties only, whether it was authorized as a plain payment
    out,        \* the lockup output of each operation
    operator,   \* per quote: the refund taken, whether final, and all it saw
    net,        \* refund requests under way
    lock,       \* who holds the lifecycle lock
    pc,         \* where each page is
    quote,      \* the quote it works on
    mine,       \* the Spending operation it works on
    live,       \* whether it resumes an operation that was authorized before
    copy,       \* the record it read before it writes it
    watch,      \* where the observer is
    scan,       \* the quotes it found abandoned
    crashes

store == <<swap, attempt, receipt, file, covers>>
world == <<expired, op, out, operator, net>>
page == <<pc, quote, mine, live, copy>>
observer == <<watch, scan>>
vars == <<swap, attempt, receipt, file, covers, asked, expired, op, out, operator,
          net, lock, pc, quote, mine, live, copy, watch, scan, crashes>>

OpStages == {"none", "reserved", "aborted", "authorized", "submitted",
             "accepted", "done"}
Operation == [stage : OpStages, quote : Quotes \cup {0}, plain : BOOLEAN]
Unused == [stage |-> "none", quote |-> 0, plain |-> FALSE]
Places == {"idle", "review", "lock", "begin", "save", "send", "wait",
           "label", "refund", "build", "answer", "sign", "final", "report"}
NoAttempt == [stage |-> "none", build |-> 0, server |-> FALSE, finals |-> FALSE]

TypeOK ==
    /\ swap \in [Quotes -> SwapRecord \cup {NoRecord}]
    /\ attempt \in [Quotes -> RefundAttempt]
    /\ receipt \subseteq Quotes /\ covers \subseteq Quotes
    /\ file \in [Quotes -> SwapRecord \cup {NoRecord}]
    /\ asked \in 0..MaxQuotes
    /\ expired \subseteq 1..asked
    /\ op \in [Ops -> Operation]
    /\ out \in [Ops -> {"none", "held", "claimed", "returned"}]
    /\ operator \in [Quotes -> [taken : Builds \cup {0}, final : BOOLEAN, saw : SUBSET Builds]]
    /\ net \subseteq Requests
    /\ lock \in Pages \cup {Observer, NoHolder}
    /\ pc \in [Pages -> Places]
    /\ quote \in [Pages -> Quotes \cup {0}] /\ mine \in [Pages -> Ops \cup {0}]
    /\ live \in [Pages -> BOOLEAN]
    /\ copy \in [Pages -> SwapRecord \cup {NoRecord}]
    /\ watch \in {"idle", "retire", "label", "poll"} /\ scan \subseteq Quotes
    /\ crashes \in 0..MaxCrashes

Init ==
    /\ swap = [q \in Quotes |-> NoRecord] /\ attempt = [q \in Quotes |-> NoAttempt]
    /\ receipt = {} /\ file = [q \in Quotes |-> NoRecord] /\ covers = {}
    /\ asked = 0 /\ expired = {}
    /\ op = [o \in Ops |-> Unused]
    /\ out = [o \in Ops |-> "none"]
    /\ operator = [q \in Quotes |-> [taken |-> 0, final |-> FALSE, saw |-> {}]]
    /\ net = {} /\ lock = NoHolder
    /\ pc = [p \in Pages |-> "idle"]
    /\ quote = [p \in Pages |-> 0] /\ mine = [p \in Pages |-> 0]
    /\ live = [p \in Pages |-> FALSE] /\ copy = [p \in Pages |-> NoRecord]
    /\ watch = "idle" /\ scan = {} /\ crashes = 0

-------------------------------------------------------------------------------
(* Records and operations *)

Stored == {q \in Quotes : swap[q] # NoRecord}
isRfqSwapTerminal(r) == r.state \in {"settled", "refunded"}
isFundedLightningRecord(r) == r.funding = "funding" \/ r.txid # 0

(* A record that blocks every other funding of its invoice. *)
ClaimsFunding(q) ==
    q \in Stored /\ ~isRfqSwapTerminal(swap[q]) /\ isFundedLightningRecord(swap[q])

(* assertVaultLightningQuoteCurrent *)
Current(q) == q \notin expired

vtxoSpendIsLivePending(o) == op[o].stage \in {"authorized", "submitted", "accepted"}
OpenOps == {o \in Ops : op[o].stage = "reserved" \/ vtxoSpendIsLivePending(o)}
Payments(q) == {o \in Ops : op[o].quote = q}
Held(q) == \E o \in Payments(q) : out[o] = "held"

Goto(p, place) == pc' = [pc EXCEPT ![p] = place]

(* The command ends, and with it the page's hold on the lock. *)
Return(p) ==
    /\ Goto(p, "idle")
    /\ quote' = [quote EXCEPT ![p] = 0] /\ mine' = [mine EXCEPT ![p] = 0]
    /\ live' = [live EXCEPT ![p] = FALSE] /\ copy' = [copy EXCEPT ![p] = NoRecord]
    /\ lock' = IF lock = p THEN NoHolder ELSE lock

Locals == <<quote, mine, live, copy>>

Show(p, q, o) ==
    /\ Goto(p, "review")
    /\ quote' = [quote EXCEPT ![p] = q] /\ mine' = [mine EXCEPT ![p] = o]
    /\ UNCHANGED <<live, copy>>

-------------------------------------------------------------------------------
(* Review: the quote is chosen under the lock *)

Reviewing(p) ==
    /\ pc[p] \in {"idle", "review"} /\ lock = NoHolder
    /\ \A o \in Ops : ~vtxoSpendIsLivePending(o)

(* The record of a reservation that entered funding before. *)
FundingOf(o) ==
    {q \in Stored : swap[q].funding = "funding" /\ swap[q].proof = o}

Resumable ==
    {q \in Stored : /\ ~isRfqSwapTerminal(swap[q]) /\ swap[q].txid = 0
                     /\ \E o \in OpenOps : q \in FundingOf(o)}

restoreMatchingVaultLightningFundingQuote(p) ==
    /\ Reviewing(p)
    /\ \E q \in Resumable : Current(q) /\ Show(p, q, swap[q].proof)
    /\ UNCHANGED <<store, asked, world, lock, observer, crashes>>

(* Newer records are tried first; one that is in funding stops the search. *)
Passed(q) ==
    \A r \in Stored : r > q /\ ~isRfqSwapTerminal(swap[r]) =>
        /\ ~isFundedLightningRecord(swap[r])
        /\ Current(r) => LookupFails

ReservedFor(q) == {o \in OpenOps : op[o].stage = "reserved" /\ op[o].quote = q}

(* The operation the funding preview names: the reservation of this        *)
(* lockup if there is one.                                                 *)
Preview(q) == IF ReservedFor(q) = {} THEN 0 ELSE CHOOSE o \in ReservedFor(q) : TRUE

restoreMatchingVaultLightningQuote(p) ==
    /\ Reviewing(p) /\ Resumable = {}
    /\ \E q \in Stored :
         /\ ~isRfqSwapTerminal(swap[q]) /\ ~isFundedLightningRecord(swap[q])
         /\ Current(q) /\ Passed(q)
         /\ Show(p, q, Preview(q))
    /\ UNCHANGED <<store, asked, world, lock, observer, crashes>>

(* Mutant: the funding state is stored as the swap's.                      *)
PersistFundingState(q) ==
    swap' = [swap EXCEPT ![q] = [state |-> "quoted", funding |-> "quoted",
                                 proof |-> 0, txid |-> 0, refund |-> 0]]

persistVaultLightningQuote(q) ==
    swap' = [swap EXCEPT ![q] = [state |-> "pending", funding |-> "quoted",
                                 proof |-> 0, txid |-> 0, refund |-> 0]]

requestVaultLightningQuote(p) ==
    /\ Reviewing(p) /\ Resumable = {} /\ Passed(0) /\ asked < MaxQuotes
    /\ asked' = asked + 1
    /\ persistVaultLightningQuote(asked + 1)
    /\ Show(p, asked + 1, 0)
    /\ UNCHANGED <<attempt, receipt, file, covers, world, lock, observer, crashes>>

(* A saved payment is opened again: with its Lightning record when that is *)
(* in funding for it, as a plain payment to the lockup (quote 0) if not.   *)
(* Whether the user opens one that did not begin its funding is Reopened.  *)
OpenedAs(o) ==
    IF FundingOf(o) # {} THEN FundingOf(o) ELSE IF o \in Reopened THEN {0} ELSE {}

openPending(p) ==
    /\ pc[p] \in {"idle", "review"}
    /\ \E o \in OpenOps : \E q \in OpenedAs(o) : Show(p, q, o)
    /\ UNCHANGED <<store, asked, world, lock, observer, crashes>>

-------------------------------------------------------------------------------
(* Approval: the passkey was given *)

(* The quote whose lockup the reviewed payment goes to.                    *)
Target(p) == IF quote[p] = 0 THEN op[mine[p]].quote ELSE quote[p]

(* A Lightning payment is sent under the lock; a plain one needs no record *)
(* and is sent at once.                                                    *)
Sending(p) == IF quote[p] = 0 THEN "send" ELSE "lock"

(* What was authorized before is resumed, though its quote has expired.    *)
approveResumed(p) ==
    /\ pc[p] = "review" /\ quote[p] \in Stored \cup {0}
    /\ mine[p] # 0 /\ vtxoSpendIsLivePending(mine[p])
    /\ live' = [live EXCEPT ![p] = TRUE]
    /\ Goto(p, Sending(p))
    /\ UNCHANGED <<store, asked, world, lock, quote, mine, copy, observer, crashes>>

(* Otherwise the quote must be current, and its lockup's reservation is    *)
(* taken up again or made; another open payment refuses it.  A changed fee *)
(* goes back to the review.                                                *)
approve(p) ==
    /\ pc[p] = "review" /\ quote[p] \in Stored \cup {0}
    /\ ~(mine[p] # 0 /\ vtxoSpendIsLivePending(mine[p]))
    /\ quote[p] = 0 \/ Current(quote[p])
    /\ \E o \in Ops :
         /\ \/ o \in ReservedFor(Target(p)) /\ UNCHANGED op
            \/ /\ OpenOps = {} /\ op[o].stage = "none"
               /\ \A n \in Ops : n < o => op[n].stage # "none"
               /\ op' = [op EXCEPT ![o] = [Unused EXCEPT !.stage = "reserved",
                                                      !.quote = Target(p)]]
         /\ mine' = [mine EXCEPT ![p] = o]
    /\ \E place \in {"review", Sending(p)} : Goto(p, place)
    /\ UNCHANGED <<store, asked, expired, out, operator, net, lock, quote, live,
                   copy, observer, crashes>>

withVaultLightningLifecycleLock(p) ==
    /\ pc[p] = "lock" /\ lock = NoHolder
    /\ lock' = p /\ Goto(p, "begin")
    /\ UNCHANGED <<store, asked, world, Locals, observer, crashes>>

(* Mutant: any funding that began may be resumed.                          *)
AnyFundingProof(r, o) == r.proof # 0

(* The funding a record holds is this payment's.                           *)
sameFundingProof(r, o) == r.proof = o

resumeVaultLightningFunding(p) ==
    /\ pc[p] = "begin"
    /\ LET q == quote[p]
       IN /\ q \in Stored /\ ~isRfqSwapTerminal(swap[q]) /\ swap[q].txid = 0
          /\ swap[q].funding = "funding" /\ sameFundingProof(swap[q], mine[p])
          /\ live[p] \/ Current(q)
    /\ Goto(p, "send")
    /\ UNCHANGED <<store, asked, world, lock, Locals, observer, crashes>>

(* The record is read and found untouched ...                              *)
beginVaultLightningFunding(p) ==
    /\ pc[p] = "begin"
    /\ LET q == quote[p]
       IN /\ q \in Stored /\ ~isRfqSwapTerminal(swap[q])
          /\ ~isFundedLightningRecord(swap[q]) /\ Current(q)
          /\ copy' = [copy EXCEPT ![p] = swap[q]]
    /\ Goto(p, "save")
    /\ UNCHANGED <<store, asked, world, lock, quote, mine, live, observer, crashes>>

(* ... and written back with the reservation it permits, before any of it  *)
(* is authorized.                                                          *)
saveFunding(p) ==
    /\ pc[p] = "save"
    /\ swap' = [swap EXCEPT ![quote[p]] =
                  [copy[p] EXCEPT !.funding = "funding", !.proof = mine[p]]]
    /\ Goto(p, "send")
    /\ UNCHANGED <<attempt, receipt, file, covers, asked, world, lock, Locals,
                   observer, crashes>>

(* sendVaultVtxo: the Guardian signs, and the Operator is asked.           *)
authorizeReservedVtxoSpend(p) ==
    /\ pc[p] = "send" /\ op[mine[p]].stage = "reserved"
    /\ op' = [op EXCEPT ![mine[p]].stage = "authorized", ![mine[p]].plain = (quote[p] = 0)]
    /\ UNCHANGED <<store, asked, expired, out, operator, net, lock, page, observer, crashes>>

submitAuthorizedVtxoSpend(p) ==
    /\ pc[p] = "send" /\ op[mine[p]].stage \in {"authorized", "submitted", "accepted", "done"}
    /\ op' = [op EXCEPT ![mine[p]].stage = IF @ = "authorized" THEN "submitted" ELSE @]
    /\ Goto(p, "wait")
    /\ UNCHANGED <<store, asked, expired, out, operator, net, lock, Locals, observer, crashes>>

(* The transaction is known, with or without its receipt.                  *)
sendVaultVtxo(p) ==
    /\ pc[p] = "wait" /\ op[mine[p]].stage \in {"accepted", "done"}
    /\ Goto(p, "label")
    /\ UNCHANGED <<store, asked, world, lock, Locals, observer, crashes>>

(* The page's session is not asked any more: the transaction stays bound.  *)
recordVaultLightningFundingTxid(p) ==
    /\ pc[p] = "label"
    /\ LET q == quote[p]
       IN IF q \in Stored /\ swap[q].funding = "funding" /\ swap[q].txid \in {0, mine[p]}
            THEN swap' = [swap EXCEPT ![q].txid = mine[p]]
            ELSE UNCHANGED swap
    /\ Return(p)
    /\ UNCHANGED <<attempt, receipt, file, covers, asked, world, observer, crashes>>

(* A check fails, an answer does not come, or the session is locked.  What *)
(* was sent stays under way; between the send and the label nothing stops. *)
GiveUp(p) ==
    /\ pc[p] \notin {"idle", "label"}
    /\ Return(p)
    /\ UNCHANGED <<store, asked, world, observer, crashes>>

(* Anywhere else the death of the page leaves what giving up leaves.       *)
Crash(p) ==
    /\ pc[p] = "label" /\ crashes < MaxCrashes
    /\ crashes' = crashes + 1
    /\ Return(p)
    /\ UNCHANGED <<store, asked, world, observer>>

-------------------------------------------------------------------------------
(* The background observer *)

(* Quotes that expired before any funding began.                           *)
Abandoned == {q \in Stored : swap[q].funding = "quoted" /\ ~Current(q)}

(* Mutant: the observer does not ask for the lock.                         *)
ObserveUnlocked ==
    /\ watch = "idle"
    /\ watch' = "retire" /\ scan' = Abandoned
    /\ UNCHANGED <<store, asked, world, page, crashes, lock>>

(* It never queues behind a payment: a held lock ends the attempt.         *)
tryVaultLightningLifecycleLock ==
    /\ watch = "idle" /\ lock = NoHolder
    /\ lock' = Observer /\ watch' = "retire"
    /\ scan' = Abandoned
    /\ UNCHANGED <<store, asked, world, page, crashes>>

(* A removal that fails is tried in the next pass.                         *)
retireAbandonedVaultLightningQuotes ==
    /\ watch = "retire"
    /\ \E failed \in SUBSET scan :
         swap' = [q \in Quotes |-> IF q \in scan \ failed THEN NoRecord ELSE swap[q]]
    /\ watch' = "label" /\ scan' = {}
    /\ UNCHANGED <<attempt, receipt, file, covers, asked, world, lock, page, crashes>>

(* Mutant: spent outputs are not looked up.                                *)
UnspentFundings(q) == {o \in Payments(q) : out[o] = "held"}

(* The outputs the indexer shows at a lockup, spent ones too.              *)
Fundings(q) == {o \in Payments(q) : out[o] # "none"}

Labelled(q) ==
    IF /\ q \in Stored /\ swap[q].funding = "funding" /\ swap[q].txid = 0
       /\ Cardinality(Fundings(q)) = 1
      THEN [swap[q] EXCEPT !.txid = CHOOSE o \in Fundings(q) : TRUE]
      ELSE swap[q]

reconcileVaultLightningFundingTxids ==
    /\ watch = "label"
    /\ swap' = [q \in Quotes |-> Labelled(q)]
    /\ watch' = "poll"
    /\ UNCHANGED <<attempt, receipt, file, covers, asked, world, lock, scan, page, crashes>>

(* The state the manager gives a record when it polls its lockup.          *)
Polled(q) ==
    LET r == swap[q] IN
    IF q \notin Stored \/ isRfqSwapTerminal(r) THEN r
    ELSE IF Held(q) THEN r
    ELSE IF \E o \in Payments(q) : out[o] = "claimed" THEN [r EXCEPT !.state = "settled"]
    ELSE IF \E o \in Payments(q) : out[o] = "returned"
           THEN [r EXCEPT !.state = "refunded", !.refund = operator[q].taken]
    ELSE r

refreshVaultLightningObserver ==
    /\ watch = "poll"
    /\ swap' = [q \in Quotes |-> Polled(q)]
    /\ watch' = "idle" /\ lock' = NoHolder
    /\ UNCHANGED <<attempt, receipt, file, covers, asked, world, scan, page, crashes>>

ObserverDies ==
    /\ watch # "idle" /\ crashes < MaxCrashes
    /\ crashes' = crashes + 1
    /\ watch' = "idle" /\ scan' = {} /\ lock' = NoHolder
    /\ UNCHANGED <<store, asked, world, page>>

-------------------------------------------------------------------------------
(* Refunds, under the lock and with the user's key *)

withAuthenticatedVaultLightningRefund(p) ==
    /\ pc[p] = "idle" /\ lock = NoHolder
    /\ \E q \in Stored : quote' = [quote EXCEPT ![p] = q]
    /\ swap' = [q \in Quotes |-> Polled(q)]
    /\ lock' = p /\ Goto(p, "refund")
    /\ UNCHANGED <<attempt, receipt, file, covers, asked, world, mine, live,
                   copy, observer, crashes>>

(* The manager calls the refunder for a lockup that is held when its       *)
(* refund is due.                                                          *)
Refundable(p) ==
    /\ pc[p] = "refund" /\ Held(quote[p]) /\ quote[p] \in expired
    /\ ~isRfqSwapTerminal(swap[quote[p]])

Post(p, kind) ==
    net' = net \cup {[quote |-> quote[p], build |-> attempt'[quote[p]].build, kind |-> kind]}

Attempted(p, a) == attempt' = [attempt EXCEPT ![quote[p]] = a]

RefundUnchanged == <<swap, receipt, file, covers, asked, expired, op, out, operator,
                     lock, Locals, observer, crashes>>

(* Mutant: a new transaction is built though one was stored.               *)
RebuildRefund(p) ==
    /\ Refundable(p) /\ ~attempt[quote[p]].server
    /\ Attempted(p, [attempt[quote[p]] EXCEPT !.stage = "dispatched", !.build = 0])
    /\ Goto(p, "build")
    /\ UNCHANGED <<RefundUnchanged, net>>

(* No bytes are stored yet: the refund is noted, then built.               *)
durableVaultLightningRefund(p) ==
    /\ Refundable(p) /\ attempt[quote[p]].build = 0
    /\ Attempted(p, [attempt[quote[p]] EXCEPT !.stage = "dispatched"])
    /\ Goto(p, "build")
    /\ UNCHANGED <<RefundUnchanged, net>>

Fresh(q) == operator[q].saw \cup {attempt[q].build} \cup {m.build : m \in {n \in net : n.quote = q}}

(* A refund spends what the indexer shows at the time and is signed anew:  *)
(* no two builds are the same transaction.  Its bytes are stored before    *)
(* the Operator is asked.                                                  *)
submitTx(p) ==
    /\ pc[p] = "build"
    /\ \E b \in Builds \ Fresh(quote[p]) :
         /\ \A n \in Builds \ Fresh(quote[p]) : b <= n
         /\ Attempted(p, [attempt[quote[p]] EXCEPT !.stage = "submitted", !.build = b])
    /\ Post(p, "submit")
    /\ Goto(p, "answer")
    /\ UNCHANGED RefundUnchanged

(* resumeRecordedRefund: the latest stored phase is replayed.              *)
ResubmitRefund(p) ==
    /\ Refundable(p) /\ attempt[quote[p]].build # 0 /\ ~attempt[quote[p]].server
    /\ UNCHANGED attempt
    /\ Post(p, "submit")
    /\ Goto(p, "answer")
    /\ UNCHANGED RefundUnchanged

ResumeSigning(p) ==
    /\ Refundable(p) /\ attempt[quote[p]].server /\ ~attempt[quote[p]].finals
    /\ Goto(p, "sign")
    /\ UNCHANGED <<RefundUnchanged, attempt, net>>

ResumeFinals(p) ==
    /\ Refundable(p) /\ attempt[quote[p]].finals
    /\ attempt[quote[p]].stage # "result"
    /\ UNCHANGED attempt
    /\ Post(p, "finalize")
    /\ Goto(p, "final")
    /\ UNCHANGED RefundUnchanged

RefundAnswered(p) ==
    /\ pc[p] = "answer"
    /\ operator[quote[p]].taken = attempt[quote[p]].build
    /\ Attempted(p, [attempt[quote[p]] EXCEPT !.server = TRUE])
    /\ Goto(p, "sign")
    /\ UNCHANGED <<RefundUnchanged, net>>

(* The final checkpoints are stored before the Operator gets them.         *)
finalizeTx(p) ==
    /\ pc[p] = "sign"
    /\ Attempted(p, [attempt[quote[p]] EXCEPT !.finals = TRUE, !.stage = "finalized"])
    /\ Post(p, "finalize")
    /\ Goto(p, "final")
    /\ UNCHANGED RefundUnchanged

RefundResult(p) ==
    /\ pc[p] = "final" /\ operator[quote[p]].final
    /\ Attempted(p, [attempt[quote[p]] EXCEPT !.stage = "result"])
    /\ Goto(p, "report")
    /\ UNCHANGED <<RefundUnchanged, net>>

(* The manager gives the record what the refunder returned.                *)
ReportRefund(p) ==
    /\ pc[p] = "report"
    /\ swap' = [swap EXCEPT ![quote[p]] =
                  [@ EXCEPT !.state = "refunded", !.refund = attempt[quote[p]].build]]
    /\ Return(p)
    /\ UNCHANGED <<attempt, receipt, file, covers, asked, world, observer, crashes>>

-------------------------------------------------------------------------------
(* The recovery archive and the retirement of records *)

(* A capture keeps what the file has of quotes whose record is gone.       *)
captureLightningRecoveryJournal ==
    /\ lock = NoHolder
    /\ file' = [q \in Quotes |-> IF q \in Stored THEN swap[q] ELSE file[q]]
    /\ \E unspent \in SUBSET {q \in Quotes : operator[q].final} : covers' = unspent
    /\ UNCHANGED <<swap, attempt, receipt, asked, world, lock, page, observer, crashes>>

(* A record that is stored is at least as new as the file's copy of it.    *)
restoreLightningRecoveryJournal ==
    /\ lock = NoHolder
    /\ \E q \in Quotes : q \notin Stored /\ file[q] # NoRecord
    /\ \A q \in Quotes :
         Held(q) /\ q \notin Stored /\ file[q] # NoRecord => isFundedLightningRecord(file[q])
    /\ swap' = [q \in Quotes |-> IF q \in Stored THEN swap[q] ELSE file[q]]
    /\ UNCHANGED <<attempt, receipt, file, covers, asked, world, lock, page,
                   observer, crashes>>

(* Every lockup output of the quote is spent.                              *)
lockupOutpointsAreConsumed(q) == \A o \in Payments(q) : out[o] # "held"

(* Mutant: any copy of the record in the file is enough.                   *)
FiledBefore(q) == file[q] # NoRecord

Filed(q) == file[q] # NoRecord /\ file[q].txid = swap[q].txid

(* A terminal record leaves once its outputs are spent and the committed   *)
(* file retains it.  The receipt is written first; a crash in between      *)
(* leaves both, and the manager or the next sweep removes the record.      *)
acknowledgeVaultLightningRecoveryLocked(q) ==
    /\ lock = NoHolder /\ q \in Stored
    /\ isRfqSwapTerminal(swap[q]) /\ swap[q].txid # 0
    /\ Filed(q)
    /\ lockupOutpointsAreConsumed(q)
    /\ swap[q].refund # 0 => q \in covers
    /\ receipt' = receipt \cup {q}
    /\ \/ swap' = [swap EXCEPT ![q] = NoRecord] /\ UNCHANGED crashes
       \/ UNCHANGED swap /\ crashes < MaxCrashes /\ crashes' = crashes + 1
    /\ UNCHANGED <<attempt, file, covers, asked, world, lock, page, observer>>

-------------------------------------------------------------------------------
(* Time and the other parties *)

Expire(q) ==
    /\ q <= asked /\ q \notin expired
    /\ expired' = expired \cup {q}
    /\ UNCHANGED <<store, asked, op, out, operator, net, lock, page, observer, crashes>>

OpUnchanged == <<store, asked, expired, operator, net, lock, page, observer, crashes>>

(* Another payment replaces a reservation.                                 *)
ReplaceReserved(o) ==
    /\ op[o].stage = "reserved"
    /\ op' = [op EXCEPT ![o].stage = "aborted"]
    /\ UNCHANGED <<OpUnchanged, out>>

OperatorAccepts(o) ==
    /\ op[o].stage = "submitted"
    /\ op' = [op EXCEPT ![o].stage = "accepted"]
    /\ out' = [out EXCEPT ![o] = "held"]
    /\ UNCHANGED OpUnchanged

SpendReceipt(o) ==
    /\ op[o].stage = "accepted"
    /\ op' = [op EXCEPT ![o].stage = "done"]
    /\ UNCHANGED <<OpUnchanged, out>>

SolverClaims(o) ==
    /\ out[o] = "held" /\ operator[op[o].quote].taken = 0
    /\ out' = [out EXCEPT ![o] = "claimed"]
    /\ UNCHANGED <<OpUnchanged, op>>

(* One refund of a lockup is taken, and its answer repeated.  A request    *)
(* that is lost is one that is never served.                               *)
OperatorServes(m) ==
    /\ m \in net /\ net' = net \ {m}
    /\ LET q == m.quote
           v == operator[q]
       IN \/ /\ m.kind = "submit"
             /\ operator' = [operator EXCEPT ![q] =
                   [v EXCEPT !.taken = IF @ = 0 /\ Held(q) THEN m.build ELSE @,
                             !.saw = @ \cup {m.build}]]
             /\ UNCHANGED out
          \/ /\ m.kind = "finalize" /\ v.taken = m.build
             /\ operator' = [operator EXCEPT ![q].final = TRUE]
             /\ out' = [o \in Ops |-> IF o \in Payments(q) /\ out[o] = "held"
                                        THEN "returned" ELSE out[o]]
    /\ UNCHANGED <<store, asked, expired, op, lock, page, observer, crashes>>

-------------------------------------------------------------------------------
Review(p) ==
    \/ restoreMatchingVaultLightningFundingQuote(p)
    \/ restoreMatchingVaultLightningQuote(p)
    \/ requestVaultLightningQuote(p)
    \/ openPending(p)

(* What a page does of itself once the user approved.                      *)
Continue(p) ==
    \/ withVaultLightningLifecycleLock(p)
    \/ resumeVaultLightningFunding(p)
    \/ beginVaultLightningFunding(p)
    \/ saveFunding(p)
    \/ authorizeReservedVtxoSpend(p)
    \/ submitAuthorizedVtxoSpend(p)
    \/ sendVaultVtxo(p)
    \/ recordVaultLightningFundingTxid(p)
    \/ durableVaultLightningRefund(p)
    \/ submitTx(p)
    \/ ResubmitRefund(p)
    \/ ResumeSigning(p)
    \/ ResumeFinals(p)
    \/ RefundAnswered(p)
    \/ finalizeTx(p)
    \/ RefundResult(p)
    \/ ReportRefund(p)

Observe ==
    \/ retireAbandonedVaultLightningQuotes
    \/ reconcileVaultLightningFundingTxids
    \/ refreshVaultLightningObserver

Next ==
    \/ \E p \in Pages :
         \/ Review(p)
         \/ approve(p)
         \/ approveResumed(p)
         \/ withAuthenticatedVaultLightningRefund(p)
         \/ Continue(p)
         \/ GiveUp(p)
         \/ Crash(p)
    \/ tryVaultLightningLifecycleLock
    \/ Observe
    \/ ObserverDies
    \/ captureLightningRecoveryJournal
    \/ restoreLightningRecoveryJournal
    \/ \E q \in Quotes : acknowledgeVaultLightningRecoveryLocked(q) \/ Expire(q)
    \/ \E o \in Ops : \/ ReplaceReserved(o) \/ OperatorAccepts(o)
                      \/ SpendReceipt(o) \/ SolverClaims(o)
    \/ \E m \in net : OperatorServes(m)

(* A page that holds the lock goes on or fails, for a request ends some    *)
(* time.  The observer tries every few seconds and finds the lock free     *)
(* again and again: no user holds it for ever.                             *)
Fairness ==
    /\ \A p \in Pages : WF_vars(pc[p] # "review" /\ (Continue(p) \/ GiveUp(p)))
    /\ SF_vars(tryVaultLightningLifecycleLock) /\ WF_vars(Observe)

Spec == Init /\ [][Next]_vars /\ Fairness

-------------------------------------------------------------------------------
(* Properties *)

Authorized(o) == op[o].stage \in {"authorized", "submitted", "accepted", "done"}

(* No payment of the quote was opened again and sent without its record.   *)
SentAsLightning(q) == \A o \in Payments(q) : ~op[o].plain

(* Money that a Lightning payment may send to a lockup is named by the     *)
(* lockup's record, from before its authorization until the retirement:    *)
(* whatever the observer, another page, a crash, a restore or a payment    *)
(* that was opened again does in between.                                  *)
LockupIsRecorded ==
    \A o \in Ops : Authorized(o) /\ ~op[o].plain =>
        \/ op[o].quote \in receipt
        \/ o \in {swap[q].proof : q \in {r \in Stored : swap[r].funding = "funding"}}

(* More, as docs/lightning.md states it of every funding target: the       *)
(* record remains until the payment resolves or refunds.                   *)
FundingTargetKept ==
    \A o \in Ops : out[o] = "held" => op[o].quote \in Stored

(* One Spending operation pays a quote as a Lightning payment, however     *)
(* often its review is repeated, resumed or approved, and whatever was     *)
(* sent to its lockup without the record.                                  *)
QuoteFundedOnce ==
    \A a, b \in {o \in Ops : Authorized(o) /\ ~op[o].plain} :
        op[a].quote = op[b].quote => a = b

(* The Operator is only ever asked for one refund transaction of a quote,  *)
(* and the one it took is the one whose bytes are stored.                  *)
RefundReplays ==
    \A q \in Quotes :
        /\ Cardinality(operator[q].saw) <= 1
        /\ operator[q].taken # 0 => attempt[q].build = operator[q].taken

(* The committed file knows every retired payment; and it is over, the     *)
(* lockup holds nothing and nothing more can reach it, unless a payment to *)
(* it was sent without the record.                                         *)
RetiredIsOver ==
    \A q \in receipt :
        /\ file[q] # NoRecord /\ file[q].txid # 0
        /\ SentAsLightning(q) =>
              \A o \in Payments(q) : Authorized(o) => out[o] \in {"claimed", "returned"}

(* A lockup that was paid is labelled with its transaction, though the     *)
(* page died and the answer was lost, unless a payment to it was sent      *)
(* without the record.                                                     *)
FundingIsLabelled ==
    \A o \in Ops : out[o] # "none" ~>
        \/ ~SentAsLightning(op[o].quote)
        \/ \E q \in Quotes : q \in receipt \/ (q \in Stored /\ swap[q].txid = o)
===============================================================================
