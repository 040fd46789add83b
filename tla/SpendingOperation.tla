--------------------------- MODULE SpendingOperation ---------------------------
(***************************************************************************)
(* The lifecycle of a Spending (VTXO) payment: the journal of operations   *)
(* in browser storage, the tabs that advance them under the exclusive send *)
(* lock, the Guardian that reserves and co-signs, and the Operator that    *)
(* accepts and finalizes.                                                  *)
(*                                                                         *)
(* src/src/lib/vault/vtxo/spend.ts           the operation owner           *)
(* src/src/lib/vault/vtxo/spendingJournal.ts the durable journal           *)
(* src/src/lib/vault/vtxo/lock.ts            the Web Lock shared by tabs   *)
(*                                                                         *)
(* The Guardian and the Operator are external: they are modelled from the  *)
(* requests the wallet sends them and the answers it accepts.  Requests    *)
(* travel through "net": the sender may die or give up while its request   *)
(* is still under way, the request may be served later or never, and an    *)
(* answer may be lost after the request took effect.                       *)
(*                                                                         *)
(* JavaScript runs to completion between awaits, so a step is the code     *)
(* from one await to the next.  A policy check, a passkey prompt or an     *)
(* abort signal that ends a flow between two requests is GiveUp.           *)
(***************************************************************************)
EXTENDS Integers, FiniteSets

CONSTANTS
    Tabs,           \* pages of one browser profile
    Ops,            \* operation ids; each is generated at most once
    Payments,       \* a destination with an amount
    MaxJournal,     \* MAX_VTXO_SPEND_JOURNAL
    MaxCrashes,     \* bound on page crashes and closes
    MaxRequests,    \* bound on requests under way, late ones included
    NoTab, NoOp, NoRec, NoPayment

ASSUME BoundAssumption == {MaxJournal, MaxCrashes, MaxRequests} \subseteq Nat
ASSUME NullAssumption ==
    NoTab \notin Tabs /\ NoOp \notin Ops /\ NoPayment \notin Payments

Stages == {"pre-reserve", "reserved", "authorized", "operator-submitted",
           "checkpoints-authorized", "operator-finalized"}

VTXO_SPEND_STAGE_RANK ==
    [s \in Stages |-> CASE s = "pre-reserve" -> -1
                        [] s = "reserved" -> 0
                        [] s = "authorized" -> 1
                        [] s = "operator-submitted" -> 2
                        [] s = "checkpoints-authorized" -> 3
                        [] OTHER -> 4]

(* What a stored record tells apart: its payment (destAddress and          *)
(* amountSats), its stage, operatorSubmitAttempted, receiptFinalized, and  *)
(* whether it holds the authorized pending proof and the Operator-signed   *)
(* successor.                                                              *)
PersistedVtxoSpend ==
    [pay : Payments, stage : Stages, attempted : BOOLEAN, receipt : BOOLEAN,
     proof : BOOLEAN, operatorArk : BOOLEAN]

ASSUME RecordAssumption == NoRec \notin PersistedVtxoSpend

VARIABLES
    journal,    \* operation id -> stored record, or NoRec
    resolved,   \* ids moved to the journal's resolved history
    archive,    \* ids whose signed successor is in the recovery file store
    lock,       \* the tab holding arkade-vault-vtxo-send
    pc,         \* where each tab is
    mode,       \* the entry point the tab runs
    want,       \* the payment a reserving tab was asked for
    agreed,     \* the reserved ids the user agreed to replace, {} for none
    cur,        \* the operation the tab works on
    copy,       \* the tab's in-memory record of it
    view,       \* the last Guardian view it read
    todo,       \* operations still to visit in this pass
    answered,   \* the awaited request succeeded and its answer arrived
    net,        \* requests under way
    guardian,   \* Guardian state of each operation
    input,      \* the operation whose change an operation spends, or NoOp
    operator,   \* Operator state of each operation
    covered,    \* ids whose change output is in the committed recovery file
    used,       \* ids generated so far
    submits,    \* submitTx requests sent per operation
    crashes

store == <<journal, resolved, archive>>
tabVars == <<pc, mode, want, agreed, cur, copy, view, todo, answered>>
services == <<guardian, input, operator, covered>>
vars == <<journal, resolved, archive, lock, pc, mode, want, agreed, cur, copy,
          view, todo, answered, net, guardian, input, operator, covered, used,
          submits, crashes>>

GuardianStates == {"none", "reserved", "signed", "submitted", "finalized",
                   "aborted"}
OperatorStates == {"none", "pending", "finalized"}
(* "expired" is an error that says so.                                     *)
Failures == {"unknown", "expired", "error"}
ViewStates == Failures \cup {"unresolved", "reserved", "signed", "submitted",
                             "finalized", "aborted"}
Views == [state : ViewStates, proof : BOOLEAN]
Calls == {"reserve", "abort", "authorize", "submit", "checkpoints",
          "finalize", "receipt"}
Places == {"idle", "locking", "sync", "fetch", "apply", "replace",
           "advance", "lookup", "retained", "retire", "evidence"} \cup Calls
Modes == {"none", "reserve", "send", "reconcile", "acknowledge"}

NoView == [state |-> "error", proof |-> FALSE]

StoreTypeOK ==
    /\ journal \in [Ops -> PersistedVtxoSpend \cup {NoRec}]
    /\ resolved \subseteq Ops
    /\ archive \subseteq Ops

TabTypeOK ==
    /\ lock \in Tabs \cup {NoTab}
    /\ pc \in [Tabs -> Places]
    /\ mode \in [Tabs -> Modes]
    /\ want \in [Tabs -> Payments \cup {NoPayment}]
    /\ agreed \in [Tabs -> SUBSET Ops]
    /\ cur \in [Tabs -> Ops \cup {NoOp}]
    /\ copy \in [Tabs -> PersistedVtxoSpend \cup {NoRec}]
    /\ view \in [Tabs -> Views]
    /\ todo \in [Tabs -> SUBSET Ops]
    /\ answered \in [Tabs -> BOOLEAN]

ServiceTypeOK ==
    /\ net \subseteq [call : Calls, op : Ops]
    /\ guardian \in [Ops -> GuardianStates]
    /\ input \in [Ops -> Ops \cup {NoOp}]
    /\ operator \in [Ops -> OperatorStates]
    /\ covered \subseteq Ops
    /\ used \subseteq Ops
    /\ submits \in [Ops -> Nat]
    /\ crashes \in Nat

TypeOK == StoreTypeOK /\ TabTypeOK /\ ServiceTypeOK

Init ==
    /\ journal = [o \in Ops |-> NoRec]
    /\ resolved = {}
    /\ archive = {}
    /\ lock = NoTab
    /\ pc = [t \in Tabs |-> "idle"]
    /\ mode = [t \in Tabs |-> "none"]
    /\ want = [t \in Tabs |-> NoPayment]
    /\ agreed = [t \in Tabs |-> {}]
    /\ cur = [t \in Tabs |-> NoOp]
    /\ copy = [t \in Tabs |-> NoRec]
    /\ view = [t \in Tabs |-> NoView]
    /\ todo = [t \in Tabs |-> {}]
    /\ answered = [t \in Tabs |-> FALSE]
    /\ net = {}
    /\ guardian = [o \in Ops |-> "none"]
    /\ input = [o \in Ops |-> NoOp]
    /\ operator = [o \in Ops |-> "none"]
    /\ covered = {}
    /\ used = {}
    /\ submits = [o \in Ops |-> 0]
    /\ crashes = 0

-------------------------------------------------------------------------------
(* The journal *)

Stored == {o \in Ops : journal[o] # NoRec}

vtxoSpendIsAbortable(r) == ~r.receipt /\ r.stage \in {"pre-reserve", "reserved"}

(* Mutant: an authorized spend no longer counts as live. *)
LiveFromSubmission(r) ==
    ~r.receipt /\ (r.attempted \/ VTXO_SPEND_STAGE_RANK[r.stage] >= 2)

vtxoSpendIsLivePending(r) ==
    ~r.receipt /\ (r.attempted \/ VTXO_SPEND_STAGE_RANK[r.stage] >= 1)

(* Mutant: a confirmed record is stored under the service's stage name. *)
PersistServiceStage(o, r) ==
    journal' = [journal EXCEPT ![o] =
                   [r EXCEPT !.stage = IF r.receipt THEN "finalized" ELSE @]]

(* persistVtxoSpend rewrites the whole record: an in-memory copy that is   *)
(* out of date overwrites what another writer stored.                      *)
persistVtxoSpend(o, r) == journal' = [journal EXCEPT ![o] = r]

clearPersistedVtxoSpend(o) ==
    /\ journal' = [journal EXCEPT ![o] = NoRec]
    /\ resolved' = resolved \cup {o}

Open == {o \in Stored : ~journal[o].receipt}

AbortableOps == {o \in Open : vtxoSpendIsAbortable(journal[o])}
LiveOps == {o \in Open : vtxoSpendIsLivePending(journal[o])}

(* Mutant: the stage the Guardian knows replaces the local one. *)
ViewStageWins(a, b) == b

laterVtxoSpendStage(a, b) ==
    IF VTXO_SPEND_STAGE_RANK[b] > VTXO_SPEND_STAGE_RANK[a] THEN b ELSE a

-------------------------------------------------------------------------------
(* The Guardian's view of an operation, laid on the local record *)

(* Of the other states only "reserved" gets here. *)
stageFloorFromOperationView(s) ==
    CASE s = "signed" -> "authorized"
      [] s = "submitted" -> "checkpoints-authorized"
      [] s = "finalized" -> "operator-finalized"
      [] OTHER -> "reserved"

(* A pre-reservation has no bundle yet: only an abort or its own           *)
(* reservation can be applied to it.                                       *)
ViewContradicts(r, v) ==
    \/ v.state = "unresolved"
    \/ v.state = "aborted" /\ ~vtxoSpendIsAbortable(r)
    \/ r.stage = "pre-reserve" /\ v.state \notin {"aborted", "reserved"}

AppliedView(r, v) ==
    IF r.stage = "pre-reserve" THEN r
    ELSE [r EXCEPT !.stage = laterVtxoSpendStage(r.stage, stageFloorFromOperationView(v.state)),
                   !.proof = r.proof \/ v.proof,
                   !.receipt = v.state = "finalized"]

ViewsOf(o) ==
    [state : CASE guardian[o] = "none" -> {"unknown"}
               [] guardian[o] = "aborted" -> {"unknown", "expired", "aborted"}
               [] guardian[o] \in {"signed", "submitted"} -> {guardian[o], "unresolved"}
               [] OTHER -> {guardian[o]},
     proof : IF guardian[o] \in {"signed", "submitted", "finalized"}
             THEN BOOLEAN ELSE {FALSE}]

-------------------------------------------------------------------------------
(* Tabs: entering and leaving the critical section *)

(* The locals of an entry point are gone once it returns. *)
Forget(t) ==
    /\ pc' = [pc EXCEPT ![t] = "idle"]
    /\ mode' = [mode EXCEPT ![t] = "none"]
    /\ want' = [want EXCEPT ![t] = NoPayment]
    /\ agreed' = [agreed EXCEPT ![t] = {}]
    /\ cur' = [cur EXCEPT ![t] = NoOp]
    /\ copy' = [copy EXCEPT ![t] = NoRec]
    /\ view' = [view EXCEPT ![t] = NoView]
    /\ todo' = [todo EXCEPT ![t] = {}]
    /\ answered' = [answered EXCEPT ![t] = FALSE]

Release(t) == lock' = NoTab /\ Forget(t)

Goto(t, place) ==
    /\ pc' = [pc EXCEPT ![t] = place]
    /\ view' = [view EXCEPT ![t] = NoView]
    /\ answered' = [answered EXCEPT ![t] = FALSE]
    /\ UNCHANGED <<lock, mode, want, agreed, cur, todo>>

(* Done with one operation, the loop over the records goes on. *)
Loop(t, place) ==
    /\ pc' = [pc EXCEPT ![t] = place]
    /\ cur' = [cur EXCEPT ![t] = NoOp]
    /\ copy' = [copy EXCEPT ![t] = NoRec]
    /\ view' = [view EXCEPT ![t] = NoView]
    /\ answered' = [answered EXCEPT ![t] = FALSE]
    /\ UNCHANGED <<lock, mode, want, agreed, todo>>

(* The end of the work on one operation: a reconciliation goes on to the   *)
(* next record, every other entry point returns and frees the lock.        *)
EndTurn(t) == IF mode[t] = "reconcile" THEN Loop(t, "sync") ELSE Release(t)

(* Review shows the reserved payments a new one would replace, before the  *)
(* lock is taken; the approval carries exactly those ids.                  *)
StartReserve(t) ==
    /\ pc[t] = "idle"
    /\ \E p \in Payments, ids \in {{}, AbortableOps} :
          /\ want' = [want EXCEPT ![t] = p]
          /\ agreed' = [agreed EXCEPT ![t] = ids]
    /\ mode' = [mode EXCEPT ![t] = "reserve"]
    /\ pc' = [pc EXCEPT ![t] = "locking"]
    /\ UNCHANGED <<store, lock, cur, copy, view, todo, answered, net, services,
                   used, submits, crashes>>

(* The user approves a reviewed operation, or resumes a pending one: the   *)
(* local quote is checked and the passkey asked for before the lock.       *)
StartSend(t, o) ==
    /\ pc[t] = "idle"
    /\ journal[o] # NoRec /\ journal[o].stage # "pre-reserve"
    /\ cur' = [cur EXCEPT ![t] = o]
    /\ mode' = [mode EXCEPT ![t] = "send"]
    /\ pc' = [pc EXCEPT ![t] = "locking"]
    /\ UNCHANGED <<store, lock, want, agreed, copy, view, todo, answered, net,
                   services, used, submits, crashes>>

(* Mutant: the request for the lock does not wait for its holder. *)
WithoutLock(t) ==
    /\ pc[t] = "locking"
    /\ lock' = t
    /\ IF mode[t] = "send"
       THEN /\ pc' = [pc EXCEPT ![t] = "fetch"]
            /\ copy' = [copy EXCEPT ![t] = journal[cur[t]]]
            /\ UNCHANGED todo
       ELSE /\ pc' = [pc EXCEPT ![t] = "sync"]
            /\ todo' = [todo EXCEPT ![t] = Stored]
            /\ UNCHANGED copy
    /\ UNCHANGED <<store, mode, want, agreed, cur, view, answered, net,
                   services, used, submits, crashes>>

(* The exclusive lock is granted to a waiting preparation or send.  A send *)
(* loads its record again under the lock.                                  *)
withVtxoSendLock(t) ==
    /\ pc[t] = "locking"
    /\ lock = NoTab
    /\ lock' = t
    /\ IF mode[t] = "send"
       THEN /\ pc' = [pc EXCEPT ![t] = "fetch"]
            /\ copy' = [copy EXCEPT ![t] = journal[cur[t]]]
            /\ UNCHANGED todo
       ELSE /\ pc' = [pc EXCEPT ![t] = "sync"]
            /\ todo' = [todo EXCEPT ![t] = Stored]
            /\ UNCHANGED copy
    /\ UNCHANGED <<store, mode, want, agreed, cur, view, answered, net,
                   services, used, submits, crashes>>

(* Nothing is read before a reconciliation holds the lock. *)
reconcilePersistedVtxoSpend(t) ==
    /\ pc[t] = "idle" /\ lock = NoTab
    /\ lock' = t
    /\ mode' = [mode EXCEPT ![t] = "reconcile"]
    /\ pc' = [pc EXCEPT ![t] = "sync"]
    /\ todo' = [todo EXCEPT ![t] = Stored]
    /\ UNCHANGED <<store, want, agreed, cur, copy, view, answered, net,
                   services, used, submits, crashes>>

(* The ids to acknowledge were listed before the lock: one of them may be  *)
(* gone by now.                                                            *)
acknowledgeSpendingVtxoRecovery(t, o) ==
    /\ pc[t] = "idle" /\ lock = NoTab
    /\ o \in used
    /\ cur' = [cur EXCEPT ![t] = o]
    /\ copy' = [copy EXCEPT ![t] = journal[o]]
    /\ lock' = t
    /\ mode' = [mode EXCEPT ![t] = "acknowledge"]
    /\ pc' = [pc EXCEPT ![t] = "retire"]
    /\ UNCHANGED <<store, want, agreed, view, todo, answered, net, services,
                   used, submits, crashes>>

(* A policy check failed, the user dismissed the passkey, the payment was  *)
(* cancelled or timed out, or evidence is missing: the flow stops between  *)
(* two requests and keeps the record as it is.                             *)
GiveUp(t) ==
    /\ pc[t] \in {"advance", "lookup", "retained", "retire", "evidence"}
    /\ EndTurn(t)
    /\ UNCHANGED <<store, net, services, used, submits, crashes>>

(* The awaited request failed, was refused, or its answer was lost.  Only  *)
(* a submission is followed by a lookup of what became of it.              *)
CallFails(t) ==
    /\ pc[t] \in Calls
    /\ ~answered[t]
    /\ IF pc[t] = "submit" THEN Goto(t, "lookup") /\ UNCHANGED copy ELSE EndTurn(t)
    /\ UNCHANGED <<store, net, services, used, submits, crashes>>

(* The page dies: memory and lock go, storage and sent requests stay. *)
Crash(t) ==
    /\ pc[t] # "idle"
    /\ crashes < MaxCrashes
    /\ crashes' = crashes + 1
    /\ lock' = IF lock = t THEN NoTab ELSE lock
    /\ Forget(t)
    /\ UNCHANGED <<store, net, services, used, submits>>

(* Put a request under way. *)
Post(call, o) ==
    /\ net' = net \cup {[call |-> call, op |-> o]}
    /\ Cardinality(net') <= MaxRequests

(* Send a request about the current operation and wait for it. *)
Send(t, call) == Post(call, cur[t]) /\ Goto(t, call)

-------------------------------------------------------------------------------
(* Synchronising a record with the Guardian *)

(* The view of the next record of a preparation or a reconciliation. *)
FetchNext(t) ==
    /\ pc[t] = "sync"
    /\ \E o \in todo[t] :
          /\ cur' = [cur EXCEPT ![t] = o]
          /\ copy' = [copy EXCEPT ![t] = journal[o]]
          /\ todo' = [todo EXCEPT ![t] = @ \ {o}]
          /\ \E v \in ViewsOf(o) \cup {NoView} : view' = [view EXCEPT ![t] = v]
    /\ pc' = [pc EXCEPT ![t] = "apply"]
    /\ UNCHANGED <<store, lock, mode, want, agreed, answered, net,
                   services, used, submits, crashes>>

ReconcileDone(t) ==
    /\ pc[t] = "sync" /\ mode[t] = "reconcile" /\ todo[t] = {}
    /\ Release(t)
    /\ UNCHANGED <<store, net, services, used, submits, crashes>>

fetchVtxoOperation(t) ==
    /\ pc[t] = "fetch"
    /\ \E v \in ViewsOf(cur[t]) \cup {NoView} : view' = [view EXCEPT ![t] = v]
    /\ pc' = [pc EXCEPT ![t] = "apply"]
    /\ UNCHANGED <<store, lock, mode, want, agreed, cur, copy, todo, answered,
                   net, services, used, submits, crashes>>

(* Mutant: every failed lookup of an abortable record clears it. *)
MissingOnAnyError(t) ==
    /\ pc[t] = "apply"
    /\ view[t].state \in Failures /\ copy[t] # NoRec
    /\ IF vtxoSpendIsAbortable(copy[t])
       THEN clearPersistedVtxoSpend(cur[t])
       ELSE UNCHANGED <<journal, resolved>>
    /\ IF mode[t] = "send" THEN Release(t) ELSE Loop(t, "sync")
    /\ UNCHANGED <<archive, net, services, used, submits, crashes>>

(* The operation is gone: the Guardian does not know it, or an error a     *)
(* send met says that it expired.  A preparation does not ask.             *)
Gone(t) ==
    \/ view[t].state = "unknown" /\ mode[t] \in {"send", "reconcile"}
    \/ view[t].state = "expired" /\ mode[t] = "send"

(* A lookup failure keeps the record, unless the operation is gone and     *)
(* nothing was signed.                                                     *)
ViewMissing(t) ==
    /\ pc[t] = "apply"
    /\ view[t].state \in Failures \/ copy[t] = NoRec
    /\ IF /\ Gone(t)
          /\ copy[t] # NoRec
          /\ vtxoSpendIsAbortable(copy[t])
       THEN clearPersistedVtxoSpend(cur[t])
       ELSE UNCHANGED <<journal, resolved>>
    /\ IF mode[t] = "send" THEN Release(t) ELSE Loop(t, "sync")
    /\ UNCHANGED <<archive, net, services, used, submits, crashes>>

(* The reviewed quote expired, changed or was aborted: send stops before   *)
(* it touches the record.                                                  *)
requireReviewedVtxoReservation(t) ==
    /\ pc[t] = "apply" /\ mode[t] = "send"
    /\ copy[t] # NoRec /\ copy[t].stage = "reserved"
    /\ view[t].state \in {"aborted", "reserved"}
    /\ Release(t)
    /\ UNCHANGED <<store, net, services, used, submits, crashes>>

(* The view contradicts the record: it is kept as it is.  The error ends a *)
(* preparation or a send; a reconciliation goes on.                        *)
ViewRefused(t) ==
    /\ pc[t] = "apply" /\ copy[t] # NoRec
    /\ view[t].state \notin Failures
    /\ \/ ViewContradicts(copy[t], view[t])
       \/ mode[t] = "send" /\ view[t].state = "aborted"
    /\ EndTurn(t)
    /\ UNCHANGED <<store, net, services, used, submits, crashes>>

(* The Guardian released the operation before anything was signed. *)
ViewAborted(t) ==
    /\ pc[t] = "apply" /\ copy[t] # NoRec
    /\ view[t].state = "aborted" /\ mode[t] # "send"
    /\ vtxoSpendIsAbortable(copy[t])
    /\ clearPersistedVtxoSpend(cur[t])
    /\ Loop(t, "sync")
    /\ UNCHANGED <<archive, net, services, used, submits, crashes>>

(* A reconciliation that sees the service receipt goes straight to         *)
(* retirement.                                                             *)
AfterView(t) ==
    IF mode[t] = "reconcile" /\ view[t].state = "finalized" THEN "retire" ELSE "advance"

applyVtxoOperationView(t) ==
    /\ pc[t] = "apply" /\ copy[t] # NoRec
    /\ view[t].state \in {"reserved", "signed", "submitted", "finalized"}
    /\ ~ViewContradicts(copy[t], view[t])
    /\ LET r == AppliedView(copy[t], view[t])
       IN  /\ persistVtxoSpend(cur[t], r)
           /\ IF mode[t] = "reserve"
              THEN Loop(t, "sync")
              ELSE copy' = [copy EXCEPT ![t] = r] /\ Goto(t, AfterView(t))
    /\ UNCHANGED <<resolved, archive, net, services, used, submits, crashes>>

-------------------------------------------------------------------------------
(* Preparing a reservation (prepareVtxoSpendLocked) *)

Deciding(t) == pc[t] = "sync" /\ mode[t] = "reserve" /\ todo[t] = {}

(* vtxoJournalSendAction over the synchronised, unfinished records *)
vtxoJournalSendAction(p) ==
    LET matching == {o \in Open : journal[o].pay = p}
    IN  IF \E o \in LiveOps : matching # {} => matching # {o} THEN "live-pending"
        ELSE IF matching # {}
             THEN IF \E m \in matching : \/ journal[m].attempted
                                         \/ VTXO_SPEND_STAGE_RANK[journal[m].stage] >= 2
                  THEN "warn" ELSE "resume"
        ELSE IF AbortableOps # {} THEN "abort-reserved"
        ELSE "start"

PrepareRefused(t) ==
    /\ Deciding(t)
    /\ LET action == vtxoJournalSendAction(want[t])
       IN  \/ action = "live-pending"
           \/ action = "warn" /\ agreed[t] = {}
           \/ action = "abort-reserved" /\ agreed[t] # AbortableOps
    /\ Release(t)
    /\ UNCHANGED <<store, net, services, used, submits, crashes>>

(* The same payment is open: its quote is returned, after reserving it     *)
(* when only the pre-reservation was written.                              *)
PrepareResume(t) ==
    /\ Deciding(t)
    /\ \/ vtxoJournalSendAction(want[t]) = "resume"
       \/ vtxoJournalSendAction(want[t]) = "warn" /\ agreed[t] # {}
    /\ \E m \in {o \in Open : journal[o].pay = want[t]} :
          IF journal[m].stage = "pre-reserve"
          THEN /\ cur' = [cur EXCEPT ![t] = m]
               /\ copy' = [copy EXCEPT ![t] = journal[m]]
               /\ pc' = [pc EXCEPT ![t] = "advance"]
               /\ UNCHANGED <<lock, mode, want, agreed, view, todo, answered>>
          ELSE Release(t)
    /\ UNCHANGED <<store, net, services, used, submits, crashes>>

PrepareReplace(t) ==
    /\ Deciding(t)
    /\ vtxoJournalSendAction(want[t]) = "abort-reserved"
    /\ agreed[t] = AbortableOps
    /\ todo' = [todo EXCEPT ![t] = AbortableOps]
    /\ pc' = [pc EXCEPT ![t] = "replace"]
    /\ UNCHANGED <<store, lock, mode, want, agreed, cur, copy, view, answered,
                   net, services, used, submits, crashes>>

(* abortPersistedVtxoSpend: a pre-reservation goes at once, a reservation  *)
(* only after the Guardian confirmed the abort.                            *)
AbortPreReserved(t) ==
    /\ pc[t] = "replace"
    /\ \E o \in todo[t] :
          /\ journal[o] # NoRec /\ journal[o].stage = "pre-reserve"
          /\ clearPersistedVtxoSpend(o)
          /\ todo' = [todo EXCEPT ![t] = @ \ {o}]
    /\ UNCHANGED <<archive, lock, pc, mode, want, agreed, cur, copy, view,
                   answered, net, services, used, submits, crashes>>

SendAbort(t) ==
    /\ pc[t] = "replace"
    /\ \E o \in todo[t] :
          /\ journal[o] # NoRec /\ journal[o].stage = "reserved"
          /\ cur' = [cur EXCEPT ![t] = o]
          /\ copy' = [copy EXCEPT ![t] = journal[o]]
          /\ todo' = [todo EXCEPT ![t] = @ \ {o}]
          /\ Post("abort", o)
    /\ pc' = [pc EXCEPT ![t] = "abort"]
    /\ UNCHANGED <<store, lock, mode, want, agreed, view, answered, services,
                   used, submits, crashes>>

abortPersistedVtxoSpend(t) ==
    /\ pc[t] = "abort" /\ answered[t]
    /\ clearPersistedVtxoSpend(cur[t])
    /\ Loop(t, "replace")
    /\ UNCHANGED <<archive, net, services, used, submits, crashes>>

(* No unfinished record is left: the payment gets an operation of its own. *)
Beginning(t) ==
    \/ Deciding(t) /\ vtxoJournalSendAction(want[t]) = "start"
    \/ pc[t] = "replace" /\ todo[t] = {}

NewRecord(p) ==
    [pay |-> p, stage |-> "pre-reserve", attempted |-> FALSE, receipt |-> FALSE,
     proof |-> FALSE, operatorArk |-> FALSE]

preReserveVtxoSpend(t) ==
    /\ Beginning(t)
    /\ Cardinality(Stored) < MaxJournal
    /\ \E o \in Ops \ used :
          /\ used' = used \cup {o}
          /\ cur' = [cur EXCEPT ![t] = o]
          /\ persistVtxoSpend(o, NewRecord(want[t]))
    /\ copy' = [copy EXCEPT ![t] = NewRecord(want[t])]
    /\ pc' = [pc EXCEPT ![t] = "advance"]
    /\ UNCHANGED <<resolved, archive, lock, mode, want, agreed, view, todo,
                   answered, net, services, submits, crashes>>

(* The journal holds its maximum and refuses another record.  A payment    *)
(* for which the model has no id left stops here too.                      *)
JournalFull(t) ==
    /\ Beginning(t)
    /\ Cardinality(Stored) >= MaxJournal \/ Ops = used
    /\ Release(t)
    /\ UNCHANGED <<store, net, services, used, submits, crashes>>

SendReserve(t) ==
    /\ pc[t] = "advance" /\ mode[t] = "reserve"
    /\ copy[t].stage = "pre-reserve"
    /\ Send(t, "reserve")
    /\ UNCHANGED <<store, copy, services, used, submits, crashes>>

reservePersistedVtxoSpend(t) ==
    /\ pc[t] = "reserve" /\ answered[t]
    /\ persistVtxoSpend(cur[t], [copy[t] EXCEPT !.stage = "reserved"])
    /\ Release(t)
    /\ UNCHANGED <<resolved, archive, net, services, used, submits, crashes>>

-------------------------------------------------------------------------------
(* Advancing an operation (continueSameVtxoSpend, reconcileOne...).        *)
(* Reconciliation never asks for the passkey, so only a send authorizes.   *)

At(t, stage) == pc[t] = "advance" /\ mode[t] # "reserve" /\ copy[t].stage = stage

(* Store the record a step produced and keep the copy equal to it. *)
Keep(t, r) ==
    /\ persistVtxoSpend(cur[t], r)
    /\ copy' = [copy EXCEPT ![t] = r]

SendAuthorize(t) ==
    /\ At(t, "reserved") /\ mode[t] = "send"
    /\ Send(t, "authorize")
    /\ UNCHANGED <<store, copy, services, used, submits, crashes>>

authorizeReservedVtxoSpend(t) ==
    /\ pc[t] = "authorize" /\ answered[t]
    /\ Keep(t, [copy[t] EXCEPT !.stage = "authorized", !.proof = TRUE])
    /\ Goto(t, "advance")
    /\ UNCHANGED <<resolved, archive, net, services, used, submits, crashes>>

(* Mutant: an attempted submission is sent again. *)
SubmitAgain(t) ==
    /\ At(t, "authorized") /\ copy[t].proof
    /\ Keep(t, [copy[t] EXCEPT !.attempted = TRUE])
    /\ submits' = [submits EXCEPT ![cur[t]] = @ + 1]
    /\ Send(t, "submit")
    /\ UNCHANGED <<resolved, archive, services, used, crashes>>

(* persistOperatorSubmitAttempt and submitAuthorizedVtxoSpendOnce *)
advanceAuthorizedVtxoSpend(t) ==
    /\ At(t, "authorized") /\ copy[t].proof /\ ~copy[t].attempted
    /\ Keep(t, [copy[t] EXCEPT !.attempted = TRUE])
    /\ submits' = [submits EXCEPT ![cur[t]] = @ + 1]
    /\ Send(t, "submit")
    /\ UNCHANGED <<resolved, archive, services, used, crashes>>

(* A reconciliation leaves the submitted operation for the passkey. *)
persistOperatorSubmission(t) ==
    /\ LET r == [copy[t] EXCEPT !.stage = "operator-submitted", !.operatorArk = TRUE]
       IN  /\ persistVtxoSpend(cur[t], r)
           /\ IF mode[t] = "reconcile"
              THEN Loop(t, "sync")
              ELSE copy' = [copy EXCEPT ![t] = r] /\ Goto(t, "advance")
    /\ UNCHANGED <<resolved, archive, net, services, used, submits, crashes>>

submitAuthorizedVtxoSpendOnce(t) ==
    /\ pc[t] = "submit" /\ answered[t]
    /\ persistOperatorSubmission(t)

(* Mutant: a submission is looked up only by the page that sent it. *)
RecoverOwnAttempt(t) ==
    /\ pc[t] = "lookup"
    /\ operator[cur[t]] = "pending"
    /\ persistOperatorSubmission(t)

(* getPendingTxs returns the submission the Operator holds.  Twenty empty  *)
(* answers end the attempt (GiveUp).                                       *)
recoverAuthorizedVtxoSpend(t) ==
    /\ \/ pc[t] = "lookup"
       \/ At(t, "authorized") /\ copy[t].proof /\ copy[t].attempted
    /\ operator[cur[t]] = "pending"
    /\ persistOperatorSubmission(t)

SendCheckpoints(t) ==
    /\ At(t, "operator-submitted") /\ mode[t] = "send"
    /\ copy[t].proof /\ copy[t].operatorArk
    /\ Send(t, "checkpoints")
    /\ UNCHANGED <<store, copy, services, used, submits, crashes>>

authorizeSubmittedVtxoCheckpoints(t) ==
    /\ pc[t] = "checkpoints" /\ answered[t]
    /\ Keep(t, [copy[t] EXCEPT !.stage = "checkpoints-authorized"])
    /\ Goto(t, "advance")
    /\ UNCHANGED <<resolved, archive, net, services, used, submits, crashes>>

retainFinalizationRecovery(t) ==
    /\ At(t, "checkpoints-authorized")
    /\ copy[t].proof /\ copy[t].operatorArk
    /\ archive' = archive \cup {cur[t]}
    /\ Goto(t, "retained")
    /\ UNCHANGED <<journal, resolved, copy, net, services, used, submits, crashes>>

SendFinalize(t) ==
    /\ pc[t] = "retained"
    /\ Send(t, "finalize")
    /\ UNCHANGED <<store, copy, services, used, submits, crashes>>

OperatorFinalizedPersist(t) ==
    /\ pc[t] = "finalize" /\ answered[t]
    /\ Keep(t, [copy[t] EXCEPT !.stage = "operator-finalized"])
    /\ Goto(t, "advance")
    /\ UNCHANGED <<resolved, archive, net, services, used, submits, crashes>>

SendReceipt(t) ==
    /\ At(t, "operator-finalized") /\ copy[t].proof
    /\ Send(t, "receipt")
    /\ UNCHANGED <<store, copy, services, used, submits, crashes>>

finalizeVaultOperation(t) ==
    /\ pc[t] = "receipt" /\ answered[t]
    /\ Goto(t, "retire")
    /\ UNCHANGED <<store, copy, net, services, used, submits, crashes>>

-------------------------------------------------------------------------------
(* Retiring a finalized operation (retireFinalizedVtxoSpendLocked) *)

(* Mutant: the receipt is taken without asking the Guardian. *)
RetireUnconfirmed(t) ==
    /\ pc[t] = "retire"
    /\ copy[t] # NoRec /\ copy[t].stage # "pre-reserve"
    /\ Keep(t, [copy[t] EXCEPT !.receipt = TRUE])
    /\ Goto(t, "evidence")
    /\ UNCHANGED <<resolved, archive, net, services, used, submits, crashes>>

(* The service receipt ends payment blocking at once. *)
RetireReceipt(t) ==
    /\ pc[t] = "retire"
    /\ copy[t] # NoRec /\ copy[t].stage # "pre-reserve"
    /\ guardian[cur[t]] = "finalized"
    /\ Keep(t, [copy[t] EXCEPT !.receipt = TRUE])
    /\ Goto(t, "evidence")
    /\ UNCHANGED <<resolved, archive, net, services, used, submits, crashes>>

(* The signed successor is durable: in the finalization archive, or, when  *)
(* this device never held the Operator result, in the exit repository that *)
(* a recovery capture fills.                                               *)
spendingSuccessorArchiveCovers(t) ==
    IF copy[t].operatorArk THEN cur[t] \in archive ELSE cur[t] \in covered

(* History shows the payment as sent, the committed file covers its change *)
(* and the successor is durable; the record did not change meanwhile.      *)
retireFinalizedVtxoSpendLocked(t) ==
    /\ pc[t] = "evidence"
    /\ operator[cur[t]] = "finalized"
    /\ cur[t] \in covered
    /\ spendingSuccessorArchiveCovers(t)
    /\ journal[cur[t]] = copy[t]
    /\ clearPersistedVtxoSpend(cur[t])
    /\ EndTurn(t)
    /\ UNCHANGED <<archive, net, services, used, submits, crashes>>

-------------------------------------------------------------------------------
(* The external services *)

(* A request that takes effect answers the tab that waits for it, unless   *)
(* the answer is lost.                                                     *)
Answer(m, delivered) ==
    /\ net' = net \ {m}
    /\ answered' = [t \in Tabs |->
            answered[t] \/ (delivered /\ pc[t] = m.call /\ cur[t] = m.op)]
    /\ UNCHANGED <<store, lock, pc, mode, want, agreed, cur, copy, view, todo,
                   covered, used, submits, crashes>>

Requests(call) == {m \in net : m.call = call}

(* The change output of a finalized operation that nothing has reserved. *)
FreeChange ==
    {i \in Ops : /\ operator[i] = "finalized"
                 /\ \A o \in Ops : input[o] = i => guardian[o] = "aborted"}

GuardianReserve ==
    \E m \in Requests("reserve"), delivered \in BOOLEAN :
        /\ guardian[m.op] \in {"none", "reserved"}
        /\ guardian' = [guardian EXCEPT ![m.op] = "reserved"]
        /\ IF guardian[m.op] = "none"
           THEN \E i \in FreeChange \cup {NoOp} : input' = [input EXCEPT ![m.op] = i]
           ELSE UNCHANGED input
        /\ Answer(m, delivered)
        /\ UNCHANGED operator

GuardianAbort ==
    \E m \in Requests("abort"), delivered \in BOOLEAN :
        /\ guardian[m.op] \in {"reserved", "aborted"}
        /\ guardian' = [guardian EXCEPT ![m.op] = "aborted"]
        /\ Answer(m, delivered)
        /\ UNCHANGED <<input, operator>>

GuardianAuthorize ==
    \E m \in Requests("authorize"), delivered \in BOOLEAN :
        /\ guardian[m.op] \in {"reserved", "signed"}
        /\ guardian' = [guardian EXCEPT ![m.op] = "signed"]
        /\ Answer(m, delivered)
        /\ UNCHANGED <<input, operator>>

GuardianCheckpoints ==
    \E m \in Requests("checkpoints"), delivered \in BOOLEAN :
        /\ guardian[m.op] \in {"signed", "submitted"}
        /\ guardian' = [guardian EXCEPT ![m.op] = "submitted"]
        /\ Answer(m, delivered)
        /\ UNCHANGED <<input, operator>>

GuardianReceipt ==
    \E m \in Requests("receipt"), delivered \in BOOLEAN :
        /\ guardian[m.op] \in {"submitted", "finalized"}
        /\ operator[m.op] = "finalized"
        /\ guardian' = [guardian EXCEPT ![m.op] = "finalized"]
        /\ Answer(m, delivered)
        /\ UNCHANGED <<input, operator>>

OperatorSubmit ==
    \E m \in Requests("submit"), delivered \in BOOLEAN :
        /\ operator[m.op] = "none"
        /\ operator' = [operator EXCEPT ![m.op] = "pending"]
        /\ Answer(m, delivered)
        /\ UNCHANGED <<guardian, input>>

OperatorFinalize ==
    \E m \in Requests("finalize"), delivered \in BOOLEAN :
        /\ operator[m.op] \in {"pending", "finalized"}
        /\ operator' = [operator EXCEPT ![m.op] = "finalized"]
        /\ Answer(m, delivered)
        /\ UNCHANGED <<guardian, input>>

(* A request is lost, or refused: its sender sees the call fail. *)
LoseRequest ==
    \E m \in net :
        /\ net' = net \ {m}
        /\ UNCHANGED <<store, lock, tabVars, services, used, submits, crashes>>

(* An unsigned reservation expires and its operation is released. *)
GuardianExpire ==
    \E o \in Ops :
        /\ guardian[o] = "reserved"
        /\ guardian' = [guardian EXCEPT ![o] = "aborted"]
        /\ UNCHANGED <<store, lock, tabVars, net, input, operator, covered,
                       used, submits, crashes>>

(* The Guardian observes a finalized transaction by itself. *)
GuardianObserve ==
    \E o \in Ops :
        /\ guardian[o] = "submitted" /\ operator[o] = "finalized"
        /\ guardian' = [guardian EXCEPT ![o] = "finalized"]
        /\ UNCHANGED <<store, lock, tabVars, net, input, operator, covered,
                       used, submits, crashes>>

(* captureVaultRecoveryFile commits a file with exactly the outputs that   *)
(* are unspent at that moment: the change of an operation whose change was *)
(* spent is no longer in it.                                               *)
UnspentChange ==
    {i \in Ops : /\ operator[i] = "finalized"
                 /\ \A o \in Ops : input[o] = i => operator[o] = "none"}

captureVaultRecoveryFile ==
    /\ covered # UnspentChange
    /\ covered' = UnspentChange
    /\ UNCHANGED <<store, lock, tabVars, net, guardian, input, operator, used,
                   submits, crashes>>

-------------------------------------------------------------------------------
Reserving(t) ==
    \/ PrepareRefused(t) \/ PrepareResume(t) \/ PrepareReplace(t)
    \/ AbortPreReserved(t) \/ SendAbort(t) \/ abortPersistedVtxoSpend(t)
    \/ preReserveVtxoSpend(t) \/ JournalFull(t) \/ SendReserve(t) \/ reservePersistedVtxoSpend(t)

Synchronising(t) ==
    \/ FetchNext(t) \/ ReconcileDone(t) \/ fetchVtxoOperation(t)
    \/ ViewMissing(t) \/ requireReviewedVtxoReservation(t) \/ ViewRefused(t)
    \/ ViewAborted(t) \/ applyVtxoOperationView(t)

Advancing(t) ==
    \/ SendAuthorize(t) \/ authorizeReservedVtxoSpend(t)
    \/ advanceAuthorizedVtxoSpend(t)
    \/ submitAuthorizedVtxoSpendOnce(t) \/ recoverAuthorizedVtxoSpend(t)
    \/ SendCheckpoints(t) \/ authorizeSubmittedVtxoCheckpoints(t)
    \/ retainFinalizationRecovery(t) \/ SendFinalize(t)
    \/ OperatorFinalizedPersist(t) \/ SendReceipt(t)
    \/ finalizeVaultOperation(t) \/ RetireReceipt(t)
    \/ retireFinalizedVtxoSpendLocked(t)

Starting(t) ==
    \/ StartReserve(t) \/ reconcilePersistedVtxoSpend(t)
    \/ \E o \in Ops : StartSend(t, o) \/ acknowledgeSpendingVtxoRecovery(t, o)

TabStep(t) ==
    \/ Starting(t) \/ withVtxoSendLock(t) \/ Synchronising(t) \/ Reserving(t)
    \/ Advancing(t) \/ GiveUp(t) \/ CallFails(t) \/ Crash(t)

ServiceStep ==
    \/ GuardianReserve \/ GuardianAbort \/ GuardianAuthorize
    \/ GuardianCheckpoints \/ GuardianReceipt \/ OperatorSubmit
    \/ OperatorFinalize \/ LoseRequest \/ GuardianExpire \/ GuardianObserve
    \/ captureVaultRecoveryFile

Next == (\E t \in Tabs : TabStep(t)) \/ ServiceStep

Spec == Init /\ [][Next]_vars

-------------------------------------------------------------------------------
(* Safety *)

(* The Operator is sent an operation at most once, across crashes, lost    *)
(* answers, reconciliations and tabs: an ambiguous submission is looked    *)
(* up, never repeated (advanceAuthorizedVtxoSpend).                        *)
SubmittedOnce == \A o \in Ops : submits[o] <= 1

(* Nothing unfinished is lost.  While the Operator may hold a submission,  *)
(* the journal has it with the attempt and the proof a lookup needs; an    *)
(* operation the Guardian signed leaves the journal only when both hold it *)
(* as final; and before the Operator can make it final its signed          *)
(* successor is in the recovery store.                                     *)
UnfinishedRecoverable ==
    \A o \in Ops :
        /\ operator[o] = "pending" \/ [call |-> "submit", op |-> o] \in net
              => journal[o] # NoRec /\ journal[o].attempted /\ journal[o].proof
        /\ guardian[o] \in {"signed", "submitted", "finalized"}
              => \/ journal[o] # NoRec
                 \/ /\ o \in resolved
                    /\ guardian[o] = "finalized" /\ operator[o] = "finalized"
        /\ operator[o] = "finalized" \/ [call |-> "finalize", op |-> o] \in net
              => o \in archive

(* A record stops blocking payments only for a final transaction. *)
ConfirmedIsFinal ==
    \A o \in Stored :
        journal[o].receipt => guardian[o] = "finalized" /\ operator[o] = "finalized"

Critical == Places \ {"idle", "locking"}

(* A tab inside the critical section holds the lock, and the record it     *)
(* would write back is the stored one: no write of it loses another's.     *)
CopyIsCurrent ==
    \A t \in Tabs :
        /\ pc[t] \in Critical => lock = t
        /\ copy[t] # NoRec => pc[t] \in Critical /\ journal[cur[t]] = copy[t]

Grows(r, s) ==
    /\ VTXO_SPEND_STAGE_RANK[s.stage] >= VTXO_SPEND_STAGE_RANK[r.stage]
    /\ r.attempted => s.attempted
    /\ r.receipt => s.receipt
    /\ r.proof => s.proof
    /\ r.operatorArk => s.operatorArk

(* Evidence in a record only grows until the record is retired: its stage  *)
(* never goes back, and an attempt, a receipt, a proof or an Operator      *)
(* result is never forgotten.                                              *)
EvidenceGrows ==
    [][\A o \in Ops : journal[o] # NoRec /\ journal'[o] # NoRec =>
          Grows(journal[o], journal'[o])]_vars

(* What became of each operation, in the words of PaymentPromise. *)
Outcome ==
    [o \in Ops |-> CASE o \notin used -> "new"
                     [] operator[o] = "finalized" -> "settled"
                     [] operator[o] # "finalized" /\ submits[o] > 0 -> "sent"
                     [] submits[o] = 0 /\ o \in resolved -> "dropped"
                     [] OTHER -> "open"]

Promise == INSTANCE PaymentPromise WITH outcome <- Outcome

(* The owner keeps its promise: one payment at a time, sent at most once,  *)
(* and none that was dropped.                                              *)
KeepsPromise == Promise!PromiseSpec

-------------------------------------------------------------------------------
(* Liveness.  The user keeps resuming the pending payment, the wallet      *)
(* keeps acknowledging and capturing, and from some point on the services  *)
(* answer what they are able to do.  Nothing is assumed of the submission  *)
(* itself: a submitTx that was lost is never repeated.                     *)

Accepting ==
    \/ GuardianReserve \/ GuardianAbort \/ GuardianAuthorize
    \/ GuardianCheckpoints \/ GuardianReceipt \/ OperatorSubmit
    \/ OperatorFinalize

(* A step that fails although it need not: a flow given up that could go   *)
(* on, a request lost or answered in vain, a view that could not be read.  *)
Failure ==
    \/ \E t \in Tabs : GiveUp(t) /\ ENABLED (Advancing(t) \/ Reserving(t))
    \/ \E t \in Tabs : CallFails(t) /\ [call |-> pc[t], op |-> cur[t]] \in net
    \/ LoseRequest /\ ENABLED Accepting
    \/ Accepting /\ answered' = answered /\ \E t \in Tabs : pc[t] \in Calls
    \/ \E t \in Tabs :
          /\ pc[t] # "apply" /\ pc'[t] = "apply"
          /\ \/ view'[t].state \in {"error", "expired", "unresolved"}
             \/ view'[t].proof # (guardian[cur'[t]] \in {"signed", "submitted", "finalized"})

EventuallyReliable == <>[][~Failure]_vars

TabWork(t) ==
    \/ withVtxoSendLock(t) \/ Synchronising(t) \/ Reserving(t)
    \/ Advancing(t) \/ GiveUp(t) \/ CallFails(t)

FairSpec ==
    /\ Spec
    /\ EventuallyReliable
    /\ \A t \in Tabs : WF_vars(TabWork(t))
    /\ \A t \in Tabs, o \in Ops :
          /\ SF_vars(StartSend(t, o))
          /\ SF_vars(acknowledgeSpendingVtxoRecovery(t, o))
    /\ WF_vars(Accepting \/ LoseRequest)
    /\ WF_vars(captureVaultRecoveryFile)

(* A payment the Operator accepted is eventually confirmed: its record has *)
(* the receipt, or has been retired.                                       *)
AcceptedIsConfirmed ==
    \A o \in Ops :
        operator[o] = "pending" ~>
            (o \in resolved \/ (o \in Stored /\ journal[o].receipt))
===============================================================================
