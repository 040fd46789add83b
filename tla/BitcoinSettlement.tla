--------------------------- MODULE BitcoinSettlement ---------------------------
(***************************************************************************)
(* A Spending payment settled to Bitcoin: the single journal a vault keeps *)
(* for it, the page that prepares, registers and finalizes it under the    *)
(* send lock, the checks and cancellations that resume it after a lost     *)
(* answer or a closed page, and its retirement once the recovery file      *)
(* covers the replacement output.                                          *)
(*                                                                         *)
(* src/src/lib/vault/spendingBitcoinFunding.ts  the protocol               *)
(* src/src/lib/vault/spendingBitcoinStore.ts    the durable journal        *)
(* src/src/lib/vault/recovery/capture.ts        the recovery capture       *)
(*                                                                         *)
(* The Guardian is external: it is modelled from the requests and answers  *)
(* above.  "registering" stands for register_authorized and                *)
(* register_dispatched, "released" for released and cancelled.  It is      *)
(* assumed to refuse to prepare or register an operation past its expiry,  *)
(* and to release only an operation it knows.                              *)
(***************************************************************************)
EXTENDS Integers, FiniteSets

CONSTANTS
    Tabs,           \* pages of one browser profile
    Ops,            \* operation ids; each is generated at most once
    MaxCrashes,     \* bound on page crashes and closes
    PromptPages,    \* no page is suspended between a status answer and its use
    NoTab, NoOp, NoJournal

ASSUME BoundAssumption == MaxCrashes \in Nat /\ PromptPages \in BOOLEAN
ASSUME IdAssumption == NoTab \notin Tabs /\ NoOp \notin Ops

StageRank ==
    [s \in {"preparing", "prepared", "registering", "registered", "finalizing",
            "submitted", "confirmed"} |->
        CASE s = "preparing" -> 0 [] s = "prepared" -> 1 [] s = "registering" -> 2
          [] s = "registered" -> 3 [] s = "finalizing" -> 4 [] s = "submitted" -> 5
          [] OTHER -> 6]

(* The journal holds the plan from "prepared" on.  The deletion proof, the *)
(* batch evidence and a receipt with a commitment are there or not.        *)
BitcoinPaymentJournal ==
    [op : Ops, stage : DOMAIN StageRank, deleteIntent : BOOLEAN,
     final : BOOLEAN, receipt : BOOLEAN]

ASSUME JournalAssumption == NoJournal \notin BitcoinPaymentJournal

VARIABLES
    journal,    \* the stored payment, or NoJournal
    lock,       \* the tab holding arkade-vault-vtxo-send
    pc,         \* where each tab is
    cur,        \* the operation the tab works on
    copy,       \* the journal the tab has in memory
    view,       \* the Guardian state in the answer it awaits or handles
    net,        \* requests under way
    guardian,   \* Guardian state of each operation
    expired,    \* ids whose registration expiry is 15 seconds past
    covered,    \* ids whose change is in the committed recovery file
    spent,      \* ids whose change another payment or a renewal spent
    used,       \* ids generated so far
    crashes

tabVars == <<lock, pc, cur, copy, view>>
world == <<guardian, expired, covered, spent>>
vars == <<journal, lock, pc, cur, copy, view, net, guardian, expired, covered,
          spent, used, crashes>>

GuardianStates == {"not_found", "prepared", "registering", "registered", "final",
                   "submitted", "confirmed", "released", "rejected"}
Calls == {"prepare", "register", "final", "release"}
Places == {"idle", "prepare", "approve", "decline", "sign", "register", "batch",
           "final", "joined", "caught", "outcome", "check", "checked", "cancel"}

TypeOK ==
    /\ journal \in BitcoinPaymentJournal \cup {NoJournal}
    /\ lock \in Tabs \cup {NoTab}
    /\ pc \in [Tabs -> Places]
    /\ cur \in [Tabs -> Ops \cup {NoOp}]
    /\ copy \in [Tabs -> BitcoinPaymentJournal \cup {NoJournal}]
    /\ view \in [Tabs -> GuardianStates \cup {"waiting", "refused", "error"}]
    /\ net \subseteq [call : Calls, op : Ops]
    /\ guardian \in [Ops -> GuardianStates]
    /\ expired \subseteq Ops
    /\ covered \subseteq Ops
    /\ spent \subseteq Ops
    /\ used \subseteq Ops
    /\ crashes \in Nat

Init ==
    /\ journal = NoJournal
    /\ lock = NoTab
    /\ pc = [t \in Tabs |-> "idle"]
    /\ cur = [t \in Tabs |-> NoOp]
    /\ copy = [t \in Tabs |-> NoJournal]
    /\ view = [t \in Tabs |-> "waiting"]
    /\ net = {}
    /\ guardian = [o \in Ops |-> "not_found"]
    /\ expired = {}
    /\ covered = {}
    /\ spent = {}
    /\ used = {}
    /\ crashes = 0

terminal(s) == s \in {"released", "rejected"}
Committed(s) == s \in {"submitted", "confirmed"}

Holds(o) == journal # NoJournal /\ journal.op = o

saveBitcoinPayment(j) == journal' = j

(* Mutant: the stage takes the name of the Guardian's state. *)
RetainedAsReported(s) ==
    IF journal # NoJournal /\ terminal(s) THEN NoJournal
    ELSE IF journal # NoJournal /\ journal.final
         THEN [journal EXCEPT !.receipt = Committed(s), !.stage = s]
    ELSE journal

(* What an answer makes of the journal: a terminal state clears it, a      *)
(* commitment is kept as its receipt.  A receipt the saved evidence cannot *)
(* validate throws.                                                        *)
Retained(s) ==
    IF journal # NoJournal /\ terminal(s) THEN NoJournal
    ELSE IF journal # NoJournal /\ Committed(s) /\ journal.final
         THEN [journal EXCEPT !.receipt = TRUE,
                              !.stage = IF s = "confirmed" THEN s ELSE @]
    ELSE journal

retainBitcoinOutcome(s) == journal' = Retained(s)

Forget(t) ==
    /\ pc' = [pc EXCEPT ![t] = "idle"]
    /\ cur' = [cur EXCEPT ![t] = NoOp]
    /\ copy' = [copy EXCEPT ![t] = NoJournal]
    /\ view' = [view EXCEPT ![t] = "waiting"]

Return(t) == lock' = NoTab /\ Forget(t)

Goto(t, place) ==
    /\ pc' = [pc EXCEPT ![t] = place]
    /\ view' = [view EXCEPT ![t] = "waiting"]
    /\ UNCHANGED <<lock, cur>>

(* Enter the critical section to work on the operation of record j. *)
Enter(t, j, place) ==
    /\ pc[t] = "idle" /\ lock = NoTab
    /\ lock' = t
    /\ cur' = [cur EXCEPT ![t] = j.op]
    /\ copy' = [copy EXCEPT ![t] = j]
    /\ pc' = [pc EXCEPT ![t] = place]
    /\ UNCHANGED view

Post(call, o) == net' = net \cup {[call |-> call, op |-> o]}

-------------------------------------------------------------------------------
(* A payment (sendSpendingToBitcoin).  The lock is held from the check for *)
(* a prior payment to the end, the review by the user included.            *)

NewJournal(o) ==
    [op |-> o, stage |-> "preparing", deleteIntent |-> FALSE, final |-> FALSE,
     receipt |-> FALSE]

(* The passkey and the input were chosen before the first save. *)
sendSpendingToBitcoin(t) ==
    /\ journal = NoJournal
    /\ \E o \in Ops \ used :
          /\ used' = used \cup {o}
          /\ saveBitcoinPayment(NewJournal(o))
          /\ Enter(t, NewJournal(o), "prepare")
          /\ Post("prepare", o)
    /\ UNCHANGED <<world, crashes>>

PrepareAnswered(t) ==
    /\ pc[t] = "prepare" /\ view[t] = "prepared"
    /\ LET j == [copy[t] EXCEPT !.stage = "prepared"]
       IN  saveBitcoinPayment(j) /\ copy' = [copy EXCEPT ![t] = j]
    /\ Goto(t, "approve")
    /\ UNCHANGED <<net, world, used, crashes>>

(* The Guardian refused the request and its status confirms that it never  *)
(* admitted the operation: the draft is cleared.  When that lookup fails,  *)
(* the outcome is still open.                                              *)
prepareRejection(t) ==
    /\ pc[t] = "prepare" /\ view[t] = "refused"
    /\ \/ /\ guardian[cur[t]] = "not_found"
          /\ journal' = NoJournal /\ Return(t)
       \/ Goto(t, "caught") /\ UNCHANGED <<journal, copy>>
    /\ UNCHANGED <<net, world, used, crashes>>

(* The user declined the plan, or left the review. *)
Decline(t) ==
    /\ pc[t] = "approve"
    /\ Post("release", cur[t])
    /\ Goto(t, "decline")
    /\ UNCHANGED <<journal, copy, world, used, crashes>>

DeclineAnswered(t) ==
    /\ pc[t] = "decline" /\ view[t] # "waiting"
    /\ journal' = IF terminal(view[t]) THEN NoJournal ELSE journal
    /\ Return(t)
    /\ UNCHANGED <<net, world, used, crashes>>

(* The cancellation proof is stored before registration.  The provider was *)
(* constructed with the journal as it was before (copy).                   *)
approve(t) ==
    /\ pc[t] = "approve" /\ cur[t] \notin expired
    /\ saveBitcoinPayment([copy[t] EXCEPT !.deleteIntent = TRUE])
    /\ Goto(t, "sign")
    /\ UNCHANGED <<copy, net, world, used, crashes>>

(* Mutant: registration goes on from the provider's own journal. *)
RegisterFromCopy(t) ==
    /\ pc[t] = "sign"
    /\ LET j == [copy[t] EXCEPT !.stage = "registering"]
       IN  saveBitcoinPayment(j) /\ copy' = [copy EXCEPT ![t] = j]
    /\ Post("register", cur[t])
    /\ Goto(t, "register")
    /\ UNCHANGED <<world, used, crashes>>

registerIntent(t) ==
    /\ pc[t] = "sign"
    /\ Holds(copy[t].op) /\ journal.deleteIntent
    /\ LET j == [journal EXCEPT !.stage = "registering"]
       IN  saveBitcoinPayment(j) /\ copy' = [copy EXCEPT ![t] = j]
    /\ Post("register", cur[t])
    /\ Goto(t, "register")
    /\ UNCHANGED <<world, used, crashes>>

(* A registration that is not definite yet ends the send and leaves the    *)
(* payment to later checks.                                                *)
RegisterAnswered(t) ==
    /\ pc[t] = "register" /\ view[t] # "waiting"
    /\ IF view[t] = "registered"
       THEN LET j == [copy[t] EXCEPT !.stage = "registered"]
            IN  /\ saveBitcoinPayment(j) /\ copy' = [copy EXCEPT ![t] = j]
                /\ Goto(t, "batch")
       ELSE retainBitcoinOutcome(view[t]) /\ Return(t)
    /\ UNCHANGED <<net, world, used, crashes>>

(* The Operator's batch reached finalization: the owner's forfeit and the  *)
(* batch evidence are stored before the Guardian gets them.                *)
submitSignedForfeitTxs(t) ==
    /\ pc[t] = "batch" /\ guardian[cur[t]] = "registered"
    /\ Holds(copy[t].op)
    /\ LET j == [journal EXCEPT !.stage = "finalizing", !.final = TRUE]
       IN  saveBitcoinPayment(j) /\ copy' = [copy EXCEPT ![t] = j]
    /\ Post("final", cur[t])
    /\ Goto(t, "final")
    /\ UNCHANGED <<world, used, crashes>>

(* Mutant: the evidence is saved but not kept in the provider's journal. *)
SubmittedWithoutEvidence(t) ==
    /\ pc[t] = "final" /\ Committed(view[t])
    /\ LET j == [copy[t] EXCEPT !.stage = "submitted", !.receipt = TRUE, !.final = FALSE]
       IN  saveBitcoinPayment(j) /\ copy' = [copy EXCEPT ![t] = j]
    /\ Goto(t, "joined")
    /\ UNCHANGED <<net, world, used, crashes>>

FinalAnswered(t) ==
    /\ pc[t] = "final" /\ Committed(view[t])
    /\ LET j == [copy[t] EXCEPT !.stage = "submitted", !.receipt = TRUE]
       IN  saveBitcoinPayment(j) /\ copy' = [copy EXCEPT ![t] = j]
    /\ Goto(t, "joined")
    /\ UNCHANGED <<net, world, used, crashes>>

(* A call failed or its answer was lost, the batch failed, the deadline    *)
(* passed, or the session ended.                                           *)
SendFails(t) ==
    /\ \/ pc[t] \in {"prepare", "approve", "decline", "sign", "register", "batch", "final"}
          /\ view[t] = "waiting"
       \/ pc[t] = "final" /\ view[t] = "final"
    /\ Goto(t, "caught")
    /\ UNCHANGED <<journal, copy, net, world, used, crashes>>

(* The status after the batch, or after a failure. *)
LookUp(t) ==
    /\ pc[t] \in {"joined", "caught"}
    /\ \E s \in {guardian[cur[t]], "error"} : view' = [view EXCEPT ![t] = s]
    /\ pc' = [pc EXCEPT ![t] = "outcome"]
    /\ UNCHANGED <<journal, lock, cur, copy, net, world, used, crashes>>

KeepOutcome(t) ==
    /\ pc[t] = "outcome"
    /\ retainBitcoinOutcome(view[t])
    /\ Return(t)
    /\ UNCHANGED <<net, world, used, crashes>>

-------------------------------------------------------------------------------
(* Checking, cancelling and retiring a saved payment *)

checkSpendingBitcoin(t) ==
    /\ journal # NoJournal
    /\ Enter(t, journal, "check")
    /\ UNCHANGED <<journal, net, world, used, crashes>>

ReadStatus(t) ==
    /\ pc[t] = "check"
    /\ view' = [view EXCEPT ![t] = guardian[cur[t]]]
    /\ pc' = [pc EXCEPT ![t] = "checked"]
    /\ UNCHANGED <<journal, lock, cur, copy, net, world, used, crashes>>

(* Mutant: a draft the Guardian does not know is cleared at once. *)
NeverAdmittedYet(t) == copy[t].stage = "preparing" /\ view[t] = "not_found"

(* A draft the Guardian does not know, and can no longer admit. *)
NeverAdmitted(t) ==
    copy[t].stage = "preparing" /\ view[t] = "not_found" /\ cur[t] \in expired

(* Mutant: a registered operation is left to the Operator. *)
ReleasableDraft(t) ==
    view[t] = "prepared" /\ cur[t] \in expired

(* An operation that can still be released after its expiry. *)
Releasable(t) ==
    /\ ~copy[t].receipt
    /\ view[t] \in {"prepared", "registering", "registered", "final"}
    /\ cur[t] \in expired
    /\ copy[t].deleteIntent \/ view[t] \in {"prepared", "registering"}

CheckReleases(t) ==
    /\ pc[t] = "checked" /\ Releasable(t)
    /\ Post("release", cur[t])
    /\ Goto(t, "cancel")
    /\ UNCHANGED <<journal, copy, world, used, crashes>>

CheckKeeps(t) ==
    /\ pc[t] = "checked" /\ ~Releasable(t)
    /\ IF NeverAdmitted(t) THEN journal' = NoJournal ELSE retainBitcoinOutcome(view[t])
    /\ Return(t)
    /\ UNCHANGED <<net, world, used, crashes>>

cancelSpendingBitcoin(t) ==
    /\ journal # NoJournal /\ ~journal.final /\ ~journal.receipt
    /\ Enter(t, journal, "cancel")
    /\ Post("release", journal.op)
    /\ UNCHANGED <<journal, world, used, crashes>>

CancelAnswered(t) ==
    /\ pc[t] = "cancel" /\ view[t] # "waiting"
    /\ retainBitcoinOutcome(view[t])
    /\ Return(t)
    /\ UNCHANGED <<net, world, used, crashes>>

CommandFails(t) ==
    /\ pc[t] \in {"check", "cancel"} /\ view[t] = "waiting"
    /\ Return(t)
    /\ UNCHANGED <<journal, net, world, used, crashes>>

(* Mutant: history alone retires a confirmed payment. *)
AcknowledgeHistory(t) ==
    /\ pc[t] = "idle" /\ lock = NoTab
    /\ journal # NoJournal /\ journal.stage = "confirmed"
    /\ journal' = NoJournal
    /\ UNCHANGED <<tabVars, net, world, used, crashes>>

(* History shows the payment, the committed file covers its change: the    *)
(* journal is retired, all under the lock.                                 *)
acknowledgeSpendingBitcoinRecovery(t) ==
    /\ pc[t] = "idle" /\ lock = NoTab
    /\ journal # NoJournal /\ journal.stage = "confirmed"
    /\ journal.op \in covered
    /\ journal' = NoJournal
    /\ UNCHANGED <<tabVars, net, world, used, crashes>>

(* The page dies: memory and lock go, storage and sent requests stay. *)
Crash(t) ==
    /\ pc[t] # "idle"
    /\ crashes < MaxCrashes
    /\ crashes' = crashes + 1
    /\ Return(t)
    /\ UNCHANGED <<journal, net, world, used>>

-------------------------------------------------------------------------------
(* The Guardian, the clock and the wallet's other flows *)

Awaits(t, call) ==
    CASE call = "release" -> pc[t] \in {"decline", "cancel"}
      [] OTHER -> pc[t] = call

(* Request m takes the operation to state s.  The answer reaches the tab   *)
(* that waits for it, or is lost.                                          *)
Serve(m, s) ==
    /\ guardian' = [guardian EXCEPT ![m.op] = s]
    /\ net' = net \ {m}
    /\ \E delivered \in BOOLEAN :
          view' = [t \in Tabs |->
              IF delivered /\ Awaits(t, m.call) /\ cur[t] = m.op THEN s ELSE view[t]]
    /\ UNCHANGED <<journal, lock, pc, cur, copy, expired, covered, spent, used, crashes>>

Requests(call) == {m \in net : m.call = call}

GuardianPrepare ==
    \E m \in Requests("prepare") :
        guardian[m.op] = "not_found" /\ m.op \notin expired /\ Serve(m, "prepared")

(* All refusals precede any record of the operation. *)
GuardianRefuse ==
    \E m \in Requests("prepare") :
        /\ net' = net \ {m}
        /\ view' = [t \in Tabs |-> IF pc[t] = "prepare" /\ cur[t] = m.op
                                   THEN "refused" ELSE view[t]]
        /\ UNCHANGED <<journal, lock, pc, cur, copy, world, used, crashes>>

GuardianRegister ==
    \E m \in Requests("register"), s \in {"registering", "registered", "rejected"} :
        guardian[m.op] = "prepared" /\ m.op \notin expired /\ Serve(m, s)

GuardianFinal ==
    \E m \in Requests("final"), s \in {"final", "submitted"} :
        guardian[m.op] = "registered" /\ Serve(m, s)

(* An operation with final evidence is released only when the Guardian     *)
(* found that its batch failed.                                            *)
GuardianRelease ==
    \E m \in Requests("release"), s \in GuardianStates \ {"not_found"} :
        /\ CASE guardian[m.op] \in {"prepared", "registering", "registered"} -> s = "released"
             [] guardian[m.op] = "final" -> s \in {"final", "released"}
             [] OTHER -> s = guardian[m.op]
        /\ Serve(m, s)

LoseRequest ==
    \E m \in net :
        /\ net' = net \ {m}
        /\ UNCHANGED <<journal, tabVars, world, used, crashes>>

(* The Guardian's own progress: a dispatched registration is answered, and *)
(* a finalized batch is committed and confirmed.                           *)
GuardianProgress ==
    \E o \in Ops, s \in {"registered", "rejected", "submitted", "confirmed"} :
        /\ \/ guardian[o] = "registering" /\ s \in {"registered", "rejected"}
           \/ guardian[o] = "final" /\ s = "submitted"
           \/ guardian[o] = "submitted" /\ s = "confirmed"
        /\ guardian' = [guardian EXCEPT ![o] = s]
        /\ UNCHANGED <<journal, tabVars, net, expired, covered, spent, used, crashes>>

(* Fifteen seconds past the expiry of an operation.  A prompt page has used *)
(* a status answer it read before the expiry by then.                      *)
Expire ==
    \E o \in used \ expired :
        /\ PromptPages => \A t \in Tabs : ~(pc[t] = "checked" /\ cur[t] = o)
        /\ expired' = expired \cup {o}
        /\ UNCHANGED <<journal, tabVars, net, guardian, covered, spent, used, crashes>>

(* The replacement output of a confirmed payment is an ordinary coin: a    *)
(* Spending payment from here or from another device, or a renewal, spends *)
(* it.                                                                     *)
SpendChange ==
    \E o \in Ops \ spent :
        /\ guardian[o] = "confirmed"
        /\ spent' = spent \cup {o}
        /\ UNCHANGED <<journal, tabVars, net, guardian, expired, covered, used, crashes>>

UnspentChange == {o \in Ops : guardian[o] = "confirmed"} \ spent

(* A capture commits exactly the unspent outputs.  It refuses while a      *)
(* finalized payment is not confirmed, and, once it is, a file without its *)
(* change.                                                                 *)
captureVaultRecoveryFile ==
    /\ journal # NoJournal /\ journal.final =>
          journal.stage = "confirmed" /\ journal.op \in UnspentChange
    /\ covered' = UnspentChange
    /\ UNCHANGED <<journal, tabVars, net, guardian, expired, spent, used, crashes>>

-------------------------------------------------------------------------------
Sending(t) ==
    \/ PrepareAnswered(t) \/ prepareRejection(t) \/ Decline(t) \/ DeclineAnswered(t)
    \/ approve(t) \/ registerIntent(t) \/ RegisterAnswered(t)
    \/ submitSignedForfeitTxs(t) \/ FinalAnswered(t)
    \/ LookUp(t) \/ KeepOutcome(t)

Commanding(t) ==
    \/ ReadStatus(t) \/ CheckReleases(t) \/ CheckKeeps(t) \/ CancelAnswered(t)

TabStep(t) ==
    \/ sendSpendingToBitcoin(t) \/ checkSpendingBitcoin(t) \/ cancelSpendingBitcoin(t)
    \/ acknowledgeSpendingBitcoinRecovery(t)
    \/ Sending(t) \/ SendFails(t) \/ Commanding(t) \/ CommandFails(t) \/ Crash(t)

GuardianStep ==
    \/ GuardianPrepare \/ GuardianRefuse \/ GuardianRegister \/ GuardianFinal
    \/ GuardianRelease

WorldStep ==
    \/ GuardianStep \/ LoseRequest \/ GuardianProgress \/ Expire \/ SpendChange
    \/ captureVaultRecoveryFile

Next == (\E t \in Tabs : TabStep(t)) \/ WorldStep

Spec == Init /\ [][Next]_vars

-------------------------------------------------------------------------------
(* Safety *)

(* An operation the Guardian may still carry out is the journaled one:     *)
(* lost answers, late requests, closed pages, checks and cancellations     *)
(* never lose it, so there is at most one and the next payment waits.      *)
UnfinishedIsJournaled ==
    \A o \in Ops :
        guardian[o] \in {"prepared", "registering", "registered", "final", "submitted"}
            => Holds(o)

(* The Guardian never has more than the wallet kept: the owner's           *)
(* cancellation is stored for every registered operation, and the batch    *)
(* evidence for every finalized one.                                       *)
EvidenceBeforeRequest ==
    journal # NoJournal =>
        /\ guardian[journal.op] \in {"registering", "registered", "final", "submitted"}
              => journal.deleteIntent
        /\ guardian[journal.op] \in {"final", "submitted", "confirmed"}
              => journal.final

(* A confirmed payment leaves the journal only when its replacement output *)
(* was in a committed recovery file, in which it stays until it is spent.  *)
ReplacementBackedUp ==
    \A o \in Ops : guardian[o] = "confirmed" /\ ~Holds(o) => o \in covered \cup spent

(* Progress and evidence of a journaled payment are never taken back. *)
EvidenceKept ==
    [][journal # NoJournal /\ journal' # NoJournal /\ journal'.op = journal.op =>
          /\ StageRank[journal'.stage] >= StageRank[journal.stage]
          /\ journal.deleteIntent => journal'.deleteIntent
          /\ journal.final => journal'.final
          /\ journal.receipt => journal'.receipt]_vars

-------------------------------------------------------------------------------
(* Liveness.  The wallet keeps checking, acknowledging and capturing, the  *)
(* clock moves, the Guardian keeps working, and from some point on no      *)
(* request, answer or check fails that need not.                           *)

Failure ==
    \/ \E t \in Tabs :
          /\ CommandFails(t)
          /\ pc[t] = "check" \/ [call |-> "release", op |-> cur[t]] \in net
    \/ GuardianStep /\ view' = view /\ \E t \in Tabs : pc[t] \in {"decline", "cancel"}
    \/ LoseRequest /\ ENABLED GuardianStep

FairSpec ==
    /\ Spec
    /\ <>[][~Failure]_vars
    /\ \A t \in Tabs :
          /\ WF_vars(Sending(t) \/ SendFails(t) \/ Commanding(t) \/ CommandFails(t))
          /\ SF_vars(checkSpendingBitcoin(t))
          /\ SF_vars(acknowledgeSpendingBitcoinRecovery(t))
    /\ WF_vars(GuardianStep \/ LoseRequest)
    /\ WF_vars(GuardianProgress)
    /\ SF_vars(Expire)
    /\ WF_vars(captureVaultRecoveryFile)

(* No saved payment stays in doubt: it is confirmed, or cleared. *)
PaymentResolves ==
    \A o \in Ops : Holds(o) ~> (~Holds(o) \/ journal.stage = "confirmed")
===============================================================================
